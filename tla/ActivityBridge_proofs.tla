------------------------- MODULE ActivityBridge_proofs -------------------------
EXTENDS ActivityBridge, TLAPS

(***************************************************************************)
(* Proofs about the activity bridge, for every set of invocations, work    *)
(* items and tags.  The argument: Inv of module ActivityBridge is          *)
(* inductive.  Only three kinds of step change the context map: the        *)
(* insertion, and the two ways a Rust future ends (RustEnds); all others   *)
(* move one side of one invocation.                                        *)
(***************************************************************************)

(* The beginning of an invocation gives it a token of its own.              *)
LEMMA NewTokenKeepsInv ==
  ASSUME Inv, NEW a \in Invocations, NEW w \in WorkItems, NEW t \in Tags \cup {NONE},
         NewToken(a, w, t)
  PROVE  Inv'
<1> USE NoneAssumption
    DEF Inv, TypeOK, PCs, JsStates, Outcomes, NewToken, ContextKey, Goto
<1>1. TypeOK'
  OBVIOUS
<1>2. TokensOwned'
  BY DEF TokensOwned
<1>3. ContextsOwned'
  BY DEF ContextsOwned, TokensOwned
<1>4. SidesAgree' /\ ToldTheTruth' /\ OutcomesAreEarned'
  BY DEF SidesAgree, ToldTheTruth, OutcomesAreEarned
<1> QED
  BY <1>1, <1>2, <1>3, <1>4

(* The insertion of the context keeps the invariant.                        *)
LEMMA InsertKeepsInv ==
  ASSUME Inv, NEW a \in Invocations, InsertContext(a)
  PROVE  Inv'
<1> USE NoneAssumption
    DEF Inv, TypeOK, PCs, JsStates, Outcomes, InsertContext, With, Goto
<1>1. token[a] \in Nat
  BY DEF TokensOwned
<1>2. TypeOK'
  BY <1>1
<1>3. TokensOwned'
  BY DEF TokensOwned
<1>4. ContextsOwned'
  BY <1>1 DEF ContextsOwned, TokensOwned
<1>5. SidesAgree' /\ ToldTheTruth' /\ OutcomesAreEarned'
  BY DEF SidesAgree, ToldTheTruth, OutcomesAreEarned
<1> QED
  BY <1>2, <1>3, <1>4, <1>5

(* The end of a Rust future, by return or by drop, keeps the invariant when *)
(* its outcome is deserved and JavaScript goes on only if cancelled.        *)
LEMMA EndKeepsInv ==
  ASSUME Inv, NEW a \in Invocations, NEW result \in Outcomes,
         pc[a] \in {"calling", "running"},
         RustEnds(a, result),
         result = "ok" => js[a] = "fulfilled",
         result = "aborted" => cancelled[a],
         js[a] \in {"queued", "running"} => cancelled[a],
         UNCHANGED <<work, tag, tokenCounter, token, cancelled, js, told, envOpen>>
  PROVE  Inv'
<1> USE NoneAssumption
    DEF Inv, TypeOK, PCs, JsStates, Outcomes, RustEnds, CtxsAfter, Without, Restrict, Goto
<1>1. TypeOK'
  OBVIOUS
<1>2. TokensOwned'
  BY DEF TokensOwned
<1>3. ContextsOwned'
  <2>1. DOMAIN ctxs' = DOMAIN ctxs \ {token[a]}
    OBVIOUS
  <2>2. \A t \in DOMAIN ctxs' : ctxs'[t] = ctxs[t] /\ ctxs[t] # a
    BY <2>1 DEF ContextsOwned
  <2>3. \A b \in Invocations \ {a} : pc'[b] = pc[b]
    OBVIOUS
  <2>4. \A b \in Invocations \ {a} : pc[b] # "idle" => token[b] # token[a]
    BY DEF TokensOwned
  <2>5. pc'[a] = "done"
    OBVIOUS
  <2> QED
    BY <2>1, <2>2, <2>3, <2>4, <2>5 DEF ContextsOwned
<1>4. SidesAgree' /\ ToldTheTruth'
  BY DEF SidesAgree, ToldTheTruth
<1>5. OutcomesAreEarned'
  BY DEF OutcomesAreEarned
<1> QED
  BY <1>1, <1>2, <1>3, <1>4, <1>5

(* A missing entry reads as cancelled, and an entry is the caller's own:    *)
(* code that runs is told it is cancelled only when it is.                  *)
LEMMA AnswerIsTrue ==
  ASSUME Inv, NEW a \in Invocations, js[a] = "running"
  PROVE  ActivityIsCancelled(a) = cancelled[a]
<1>1. CASE token[a] \in DOMAIN ctxs
  <2>1. ctxs[token[a]] = a
    BY <1>1, NoneAssumption DEF Inv, TypeOK, TokensOwned, ContextsOwned
  <2> QED
    BY <1>1, <2>1 DEF ActivityIsCancelled
<1>2. CASE token[a] \notin DOMAIN ctxs
  <2>1. pc[a] = "done"
    BY <1>2 DEF Inv, TypeOK, PCs, ContextsOwned, SidesAgree
  <2>2. cancelled[a]
    BY <2>1 DEF Inv, ToldTheTruth
  <2> QED
    BY <1>2, <2>2 DEF ActivityIsCancelled, Inv, TypeOK
<1> QED
  BY <1>1, <1>2

(* The other steps touch neither tokens nor entries.                        *)
LEMMA OtherStepsKeepInv ==
  ASSUME Inv, NEW a \in Invocations
  PROVE  /\ Cancel(a) => Inv'
         /\ JsStarts(a) => Inv'
         /\ JsSettles(a) => Inv'
         /\ IsCancelled(a) => Inv'
         /\ CloseEnv => Inv'
<1> USE NoneAssumption
    DEF Inv, TypeOK, PCs, JsStates, Outcomes, TokensOwned, ContextsOwned, SidesAgree,
        ToldTheTruth, OutcomesAreEarned, Goto
<1>1. ASSUME Cancel(a) PROVE Inv'
  BY <1>1 DEF Cancel
<1>2. ASSUME JsStarts(a) PROVE Inv'
  BY <1>2 DEF JsStarts
<1>3. ASSUME JsSettles(a) PROVE Inv'
  BY <1>3 DEF JsSettles
<1>4. ASSUME IsCancelled(a) PROVE Inv'
  <2>1. js[a] = "running" /\ told' = [told EXCEPT ![a] = cancelled[a]]
    BY <1>4, AnswerIsTrue DEF IsCancelled
  <2> QED
    BY <1>4, <2>1 DEF IsCancelled
<1>5. ASSUME CloseEnv PROVE Inv'
  <2>1. /\ js' = [b \in Invocations |->
                    IF js[b] \in {"queued", "running"} THEN "lost" ELSE js[b]]
        /\ envOpen' = FALSE
        /\ UNCHANGED <<pc, work, tag, tokenCounter, token, ctxs, cancelled, told, outcome>>
    BY <1>5 DEF CloseEnv
  <2>2. TypeOK' /\ TokensOwned' /\ ContextsOwned'
    <3>1. js' \in [Invocations -> JsStates]
      BY <2>1
    <3>2. TypeOK'
      BY <2>1, <3>1
    <3>3. TokensOwned' /\ ContextsOwned'
      BY <2>1
    <3> QED
      BY <3>2, <3>3
  <2>3. SidesAgree'
    BY <2>1
  <2>4. \A b \in Invocations : js'[b] # js[b] => js[b] \in {"queued", "running"} /\ js'[b] = "lost"
    BY <2>1
  <2>5. ToldTheTruth'
    BY <2>1, <2>4
  <2>6. OutcomesAreEarned'
    BY <2>1, <2>4
  <2> QED
    BY <2>2, <2>3, <2>5, <2>6
<1> QED
  BY <1>1, <1>2, <1>3, <1>4, <1>5

LEMMA InitInv == Init => Inv
  BY NoneAssumption
  DEF Init, Inv, TypeOK, PCs, JsStates, Outcomes, TokensOwned, ContextsOwned,
      SidesAgree, ToldTheTruth, OutcomesAreEarned

LEMMA StepInv == Inv /\ [Next]_vars => Inv'
<1> SUFFICES ASSUME Inv, [Next]_vars PROVE Inv'
  OBVIOUS
<1>1. ASSUME NEW a \in Invocations, NEW w \in WorkItems, NEW t \in Tags \cup {NONE},
             NewToken(a, w, t)
      PROVE  Inv'
  BY <1>1, NewTokenKeepsInv
<1>2. ASSUME NEW a \in Invocations, InsertContext(a) PROVE Inv'
  BY <1>2, InsertKeepsInv
<1>3. ASSUME NEW a \in Invocations, RustReturns(a) PROVE Inv'
  <2>1. CASE js[a] = "fulfilled"
    BY <1>3, <2>1, EndKeepsInv DEF RustReturns, Outcomes
  <2>2. CASE js[a] = "rejected"
    BY <1>3, <2>2, EndKeepsInv DEF RustReturns, Outcomes
  <2> QED
    BY <1>3, <2>1, <2>2 DEF RustReturns
<1>4. ASSUME NEW a \in Invocations, JsCallFails(a) PROVE Inv'
  BY <1>4, EndKeepsInv DEF JsCallFails, Outcomes
<1>5. ASSUME NEW a \in Invocations, GraceExpires(a) PROVE Inv'
  BY <1>5, EndKeepsInv DEF GraceExpires, Outcomes
<1>6. ASSUME UNCHANGED vars PROVE Inv'
  BY <1>6
  DEF vars, Inv, TypeOK, TokensOwned, ContextsOwned, SidesAgree, ToldTheTruth,
      OutcomesAreEarned
<1>7. ASSUME CloseEnv PROVE Inv'
  <2>1. CASE Invocations = {}
    BY <1>7, <2>1 DEF CloseEnv, Inv, TypeOK, TokensOwned, ContextsOwned, SidesAgree,
         ToldTheTruth, OutcomesAreEarned, JsStates
  <2>2. CASE Invocations # {}
    BY <1>7, <2>2, OtherStepsKeepInv
  <2> QED
    BY <2>1, <2>2
<1> QED
  BY <1>1, <1>2, <1>3, <1>4, <1>5, <1>6, <1>7, OtherStepsKeepInv DEF Next, AllEnded

(* The inductive invariant of the activity bridge: every token, entry and   *)
(* answer belongs to one invocation, and JavaScript outlives Rust only when *)
(* the invocation was cancelled.                                            *)
THEOREM ActivityInvariant == Spec => []Inv
  BY InitInv, StepInv, PTL DEF Spec

(* The map holds an entry exactly for the futures that are alive, code that *)
(* somebody waits for is told the truth about its own cancellation, its tag *)
(* does not change, and no outcome is invented (JsActivityHandler::invoke,  *)
(* activity_is_cancelled, ActivityContext.tag).                             *)
THEOREM ActivitySafety ==
  Spec => [](EntriesMatchFutures /\ NoFalseAlarm /\ TagIsStable /\ OutcomesAreEarned)
<1>1. Inv => EntriesMatchFutures
  BY DEF Inv, TypeOK, EntriesMatchFutures, ContextsOwned
<1>2. Inv => NoFalseAlarm
  BY AnswerIsTrue DEF NoFalseAlarm
<1>3. Inv => TagIsStable
  <2> SUFFICES ASSUME Inv, NEW a \in Invocations PROVE TagOf(a) = tag[a]
    BY DEF TagIsStable
  <2>1. token[a] \in DOMAIN ctxs => ctxs[token[a]] = a
    BY NoneAssumption DEF Inv, TypeOK, TokensOwned, ContextsOwned
  <2> QED
    BY <2>1 DEF TagOf, ActivityTag
<1>4. Inv => OutcomesAreEarned
  BY DEF Inv
<1> QED
  BY ActivityInvariant, <1>1, <1>2, <1>3, <1>4, PTL

(* Once ctx.isCancelled() has answered true it never answers false again.   *)
THEOREM ActivityCancellationStays == Spec => CancellationStays
<1>1. ASSUME Inv, [Next]_vars
      PROVE  [\A a \in Invocations : told[a] => told'[a]]_vars
  <2> SUFFICES ASSUME NEW a \in Invocations, Next, told[a] PROVE told'[a]
    BY <1>1
  <2>1. ASSUME NEW b \in Invocations, IsCancelled(b) PROVE told'[a]
    <3>1. cancelled[a]
      BY <1>1 DEF Inv, ToldTheTruth
    <3>2. js[b] = "running" /\ told' = [told EXCEPT ![b] = ActivityIsCancelled(b)]
      BY <2>1 DEF IsCancelled
    <3>3. b = a => ActivityIsCancelled(b)
      BY <1>1, <3>1, <3>2, AnswerIsTrue
    <3> QED
      BY <1>1, <3>2, <3>3 DEF Inv, TypeOK
  <2>2. UNCHANGED told => told'[a]
    OBVIOUS
  <2> QED
    BY <2>1, <2>2 DEF Next, NewToken, InsertContext, RustReturns, JsCallFails, Cancel,
         GraceExpires, JsStarts, JsSettles, CloseEnv, AllEnded, vars
<1> QED
  BY <1>1, ActivityInvariant, PTL DEF Spec, CancellationStays

(* Every step of either side is a step of the contract, or does not show.   *)
LEMMA StepsKeepContract ==
  ASSUME Inv, [Next]_vars
  PROVE  [Contract!Next]_(Contract!vars)
<1> USE NoneAssumption
<1> DEFINE code == [a \in Invocations |-> Code(a)]
<1>1. /\ pc \in [Invocations -> PCs] /\ js \in [Invocations -> JsStates]
      /\ outcome \in [Invocations -> Outcomes \cup {NONE}]
      /\ \A a \in Invocations : outcome[a] = NONE <=> pc[a] # "done"
  BY DEF Inv, TypeOK, OutcomesAreEarned
<1>2. ASSUME UNCHANGED <<outcome, js, cancelled, told>>
      PROVE  UNCHANGED Contract!vars
  BY <1>2 DEF Contract!vars, Code
<1>3. ASSUME NEW a \in Invocations, InsertContext(a)
      PROVE  [Contract!Next]_(Contract!vars)
  <2>1. /\ js[a] = "none" /\ code[a] = "pending"
        /\ js' = [js EXCEPT ![a] = IF envOpen THEN "queued" ELSE "lost"]
        /\ UNCHANGED <<outcome, cancelled, told>>
    BY <1>3 DEF InsertContext, Inv, SidesAgree, Code
  <2>2. CASE envOpen
    <3>1. code' = code
      BY <2>1, <2>2, <1>1 DEF Code
    <3> QED
      BY <3>1, <2>1 DEF Contract!vars
  <2>3. CASE ~envOpen
    <3>1. code' = [b \in Invocations |-> IF b \in {a} THEN "lost" ELSE code[b]]
      BY <2>1, <2>3, <1>1 DEF Code
    <3> QED
      BY <2>1, <3>1 DEF Contract!Next, Contract!Lose
  <2> QED
    BY <2>2, <2>3
<1>4. ASSUME NEW a \in Invocations, RustReturns(a) \/ JsCallFails(a) \/ GraceExpires(a)
      PROVE  Contract!Next
  <2>1. /\ outcome[a] = NONE /\ UNCHANGED <<js, cancelled, told>>
        /\ \E result \in {"ok", "err", "aborted"} :
             /\ result = "ok" => js[a] = "fulfilled"
             /\ result = "err" => js[a] \in {"rejected", "lost"}
             /\ result = "aborted" => cancelled[a]
             /\ outcome' = [outcome EXCEPT ![a] = result]
    BY <1>1, <1>4 DEF RustReturns, JsCallFails, GraceExpires, RustEnds
  <2>2. code' = code /\ (js[a] \in {"fulfilled", "rejected", "lost"} => code[a] = js[a])
    BY <2>1 DEF Code
  <2>3. Contract!Answer(a)
    BY <2>1, <2>2 DEF Contract!Answer
  <2> QED
    BY <2>3 DEF Contract!Next
<1>5. ASSUME NEW a \in Invocations, Cancel(a)
      PROVE  Contract!Next
  <2>1. /\ outcome[a] = NONE /\ cancelled' = [cancelled EXCEPT ![a] = TRUE]
        /\ UNCHANGED <<outcome, js, told>>
    BY <1>1, <1>5 DEF Cancel
  <2>2. code' = code
    BY <2>1 DEF Code
  <2> QED
    BY <2>1, <2>2 DEF Contract!Next, Contract!Cancel
<1>6. ASSUME NEW a \in Invocations, JsStarts(a) \/ JsSettles(a)
      PROVE  Contract!Next
  <2>1. /\ \/ js[a] = "queued" /\ js' = [js EXCEPT ![a] = "running"]
           \/ js[a] = "running" /\ js' = [js EXCEPT ![a] = "fulfilled"]
           \/ js[a] = "running" /\ js' = [js EXCEPT ![a] = "rejected"]
        /\ UNCHANGED <<outcome, cancelled, told>>
    BY <1>6 DEF JsStarts, JsSettles
  <2>2. \/ code[a] = "pending" /\ code' = [code EXCEPT ![a] = "running"]
        \/ code[a] = "running" /\ code' = [code EXCEPT ![a] = "fulfilled"]
        \/ code[a] = "running" /\ code' = [code EXCEPT ![a] = "rejected"]
    BY <1>1, <2>1 DEF Code
  <2> QED
    BY <2>1, <2>2 DEF Contract!Next, Contract!Start, Contract!End, Contract!Code
<1>7. ASSUME NEW a \in Invocations, IsCancelled(a)
      PROVE  Contract!Next
  <2>1. /\ js[a] = "running" /\ told' = [told EXCEPT ![a] = cancelled[a]]
        /\ UNCHANGED <<outcome, cancelled, js>>
    BY <1>7, AnswerIsTrue DEF IsCancelled
  <2>2. code' = code /\ code[a] = "running"
    BY <2>1 DEF Code
  <2> QED
    BY <2>1, <2>2 DEF Contract!Next, Contract!Ask
<1>8. ASSUME CloseEnv
      PROVE  Contract!Next
  <2> DEFINE lost == {a \in Invocations : js[a] \in {"queued", "running"}}
  <2>1. /\ js' = [a \in Invocations |-> IF a \in lost THEN "lost" ELSE js[a]]
        /\ UNCHANGED <<outcome, cancelled, told>>
    BY <1>8 DEF CloseEnv
  <2>2. /\ \A a \in lost : code[a] \in {"pending", "running"}
        /\ code' = [a \in Invocations |-> IF a \in lost THEN "lost" ELSE code[a]]
    BY <2>1 DEF Code
  <2>3. Contract!Lose(lost)
    BY <2>1, <2>2 DEF Contract!Lose
  <2> QED
    BY <2>3 DEF Contract!Next
<1>9. ASSUME NEW a \in Invocations, NEW w \in WorkItems, NEW t \in Tags \cup {NONE},
             NewToken(a, w, t)
      PROVE  UNCHANGED Contract!vars
  BY <1>2, <1>9 DEF NewToken
<1>10. ASSUME AllEnded \/ UNCHANGED vars
       PROVE  UNCHANGED Contract!vars
  BY <1>2, <1>10 DEF AllEnded, vars
<1> QED
  BY <1>3, <1>4, <1>5, <1>6, <1>7, <1>8, <1>9, <1>10 DEF Next

(* Dropped futures, missing entries and code that outlives its worker are   *)
(* details: the bridge implements the contract of activities.               *)
THEOREM ActivityImplementsContract == Spec => ImplementsContract
<1>1. Init => Contract!Init
  BY DEF Init, Contract!Init, Code
<1>2. Inv /\ [Next]_vars => [Contract!Next]_(Contract!vars)
  BY StepsKeepContract
<1> QED
  BY <1>1, <1>2, ActivityInvariant, PTL DEF Spec, ImplementsContract, Contract!Spec
=============================================================================
