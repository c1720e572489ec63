-------------------------- MODULE TaskExecution_proofs --------------------------
EXTENDS TaskExecution, TLAPS

(***************************************************************************)
(* Proofs about one task over all its turns, for every set of descriptors  *)
(* and every number of children, values, idle and lost turns.  The         *)
(* argument: what a poll returns is a function of a prefix of the history  *)
(* (PollIsStable, OneResult), so every turn finds the same first answer.   *)
(***************************************************************************)

(* Sequences: what they consist of, and what putting one more at the end   *)
(* changes.                                                                *)
LEMMA ElementsBelong ==
  ASSUME NEW S, NEW s \in Seq(S), NEW i \in DOMAIN s
  PROVE  s[i] \in S
OBVIOUS

LEMMA AppendProperties ==
  ASSUME NEW S, NEW s \in Seq(S), NEW e
  PROVE  /\ Len(s) \in Nat /\ DOMAIN s = 1 .. Len(s)
         /\ Len(Append(s, e)) = Len(s) + 1
         /\ DOMAIN Append(s, e) = 1 .. Len(s) + 1
         /\ \A i \in 1 .. Len(s) : Append(s, e)[i] = s[i]
         /\ Append(s, e)[Len(s) + 1] = e
OBVIOUS

LEMMA EmptyHasNoLength ==
  ASSUME NEW S, NEW s \in Seq(S)
  PROVE  s = << >> <=> Len(s) = 0
OBVIOUS

LEMMA ChildrenAreNumbered ==
  ASSUME TypeOK
  PROVE  Len(Children) \in Nat /\ DOMAIN Children = 1 .. Len(Children)
<1>1. CASE task.type \in Composites
  BY <1>1, TasksAssumption DEF TypeOK, Children
<1>2. CASE task.type \notin Composites
  BY <1>2 DEF Children
<1> QED
  BY <1>1, <1>2

(* A child has at most one result, and so has a task.                      *)
LEMMA OneResult ==
  ASSUME CompletionsFit, NEW n \in Nat, n <= Len(comps)
  PROVE  /\ \A k : \A r, s \in ResultOf(k, n) : r = s
         /\ \A r, s \in PollResults(n) : r = s
<1>1. Len(comps) \in Nat /\ DOMAIN comps = 1 .. Len(comps)
  BY DEF CompletionsFit
<1>2. ASSUME NEW k, NEW r \in ResultOf(k, n), NEW s \in ResultOf(k, n)
      PROVE  r = s
  <2>1. CASE ~Supported(k)
    BY <2>1 DEF ResultOf
  <2>2. CASE Supported(k)
    <3>1. PICK c \in 1 .. n : /\ comps[c].child = k
                              /\ r = LeafResult(Children[k].type, comps[c].outcome)
      BY <2>2 DEF ResultOf
    <3>2. PICK d \in 1 .. n : /\ comps[d].child = k
                              /\ s = LeafResult(Children[k].type, comps[d].outcome)
      BY <2>2 DEF ResultOf
    <3>3. c = d
      BY <1>1, <3>1, <3>2 DEF CompletionsFit
    <3> QED
      BY <3>1, <3>2, <3>3
  <2> QED
    BY <2>1, <2>2
<1>3. \A r, s \in PollResults(n) : r = s
  <2>1. \A r, s \in JoinResults(n) : r = s
    BY DEF JoinResults
  <2>2. \A r, s \in SelectResults(n) : r = s
    BY DEF SelectResults
  <2>3. \A r, s \in Rejections : r = s
    BY DEF Rejections
  <2>4. \A r, s \in {Err(Raw(r)) : r \in Rejections} : r = s
    BY <2>3
  <2>5. CASE Rejections # {}
    BY <2>4, <2>5 DEF PollResults
  <2>6. CASE Rejections = {} /\ task.type = "join"
    BY <2>1, <2>6 DEF PollResults
  <2>7. CASE Rejections = {} /\ task.type = "select"
    BY <2>2, <2>7 DEF PollResults
  <2>8. CASE Rejections = {} /\ task.type \notin Composites
    BY <1>2, <2>8 DEF PollResults, Composites
  <2> QED
    BY <2>5, <2>6, <2>7, <2>8 DEF Composites
<1> QED
  BY <1>2, <1>3

(* What a poll of a prefix of the history returns stays the same when the  *)
(* history grows.                                                          *)
LEMMA PollIsStable ==
  ASSUME CompletionsFit, NEW n \in Nat, n <= Len(comps), task' = task,
         comps' = comps \/ \E e : comps' = Append(comps, e)
  PROVE  /\ \A k : Ready(k, n)' <=> Ready(k, n)
         /\ PollResults(n)' = PollResults(n)
<1>1. \A c \in 1 .. n : comps'[c] = comps[c]
  <2>1. PICK S : comps \in Seq(S)
    BY DEF CompletionsFit
  <2>2. CASE comps' = comps
    BY <2>2
  <2>3. ASSUME NEW e, comps' = Append(comps, e) PROVE \A c \in 1 .. n : comps'[c] = comps[c]
    BY <2>1, <2>3, AppendProperties
  <2> QED
    BY <2>2, <2>3
<1>2. Children' = Children /\ Rejections' = Rejections /\ \A k : Supported(k)' <=> Supported(k)
  BY DEF Children, Rejections, HasNested, Supported
<1>3. \A k : ResultOf(k, n)' = ResultOf(k, n)
  BY <1>1, <1>2 DEF ResultOf
<1>4. \A k : Ready(k, n)' <=> Ready(k, n)
  BY <1>3 DEF Ready
<1>5. \A k : TheResult(k, n)' = TheResult(k, n)
  BY <1>3 DEF TheResult
<1>6. JoinResults(n)' = JoinResults(n)
  BY <1>2, <1>4, <1>5 DEF JoinResults
<1>7. SelectResults(n)' = SelectResults(n)
  <2>1. (Ready(1, n)' <=> Ready(1, n)) /\ (Ready(2, n)' <=> Ready(2, n))
    BY <1>4
  <2>2. TheResult(1, n)' = TheResult(1, n) /\ TheResult(2, n)' = TheResult(2, n)
    BY <1>5
  <2> QED
    BY <2>1, <2>2 DEF SelectResults
<1>8. PollResults(n)' = PollResults(n)
  BY <1>2, <1>3, <1>6, <1>7 DEF PollResults
<1> QED
  BY <1>4, <1>8

LEMMA FirstAnswerIsStable ==
  ASSUME CompletionsFit, NEW n \in Nat, n <= Len(comps), task' = task,
         comps' = comps \/ \E e : comps' = Append(comps, e)
  PROVE  FirstAnswer(n)' <=> FirstAnswer(n)
<1>1. \A m \in 0 .. n - 1 : m \in Nat /\ m <= Len(comps)
  BY DEF CompletionsFit
<1>2. \A m \in 0 .. n - 1 : PollResults(m)' = PollResults(m)
  BY <1>1, PollIsStable
<1>3. PollResults(n)' = PollResults(n)
  BY PollIsStable
<1> QED
  BY <1>2, <1>3 DEF FirstAnswer

LEMMA OneFirstAnswer ==
  ASSUME NEW m \in Nat, NEW n \in Nat, FirstAnswer(m), FirstAnswer(n)
  PROVE  m = n
BY DEF FirstAnswer

(* A poll feeds the generator what it was fed before, if it was.           *)
LEMMA PollFeedsTheSame ==
  ASSUME CompletionsFit, GivenIsTheFirstAnswer, fetched \in Nat,
         NEW n \in Nat, n <= fetched', fetched' \in Nat, fetched <= fetched',
         fetched' <= Len(comps), seen' = n, Poll(n),
         \A m \in 0 .. n - 1 : PollResults(m) = {},
         task' = task, comps' = comps
  PROVE  /\ given # NONE => given' = given
         /\ given' = given \/ DOMAIN given' \in {{"next"}, {"throw"}}
         /\ turn' \in {"polling", "answered"}
         /\ GivenIsTheFirstAnswer' /\ PollsSoFar'
<1>1. Len(comps) \in Nat
  BY DEF CompletionsFit
<1>2. \A m \in 0 .. fetched' : /\ PollResults(m)' = PollResults(m)
                              /\ FirstAnswer(m)' <=> FirstAnswer(m)
  <2> SUFFICES ASSUME NEW m \in 0 .. fetched'
               PROVE  /\ PollResults(m)' = PollResults(m)
                      /\ FirstAnswer(m)' <=> FirstAnswer(m)
    OBVIOUS
  <2>1. m \in Nat /\ m <= Len(comps)
    BY <1>1
  <2> QED
    BY <2>1, PollIsStable, FirstAnswerIsStable
<1>3. CASE PollResults(n) = {}
  <2>1. turn' = "polling" /\ given' = given
    BY <1>3 DEF Poll
  <2>2. GivenIsTheFirstAnswer'
    <3> SUFFICES ASSUME given' # NONE PROVE GivenIsTheFirstAnswer'
      BY DEF GivenIsTheFirstAnswer
    <3>1. PICK m \in 0 .. fetched :
            FirstAnswer(m) /\ \E r \in PollResults(m) : given = Fed(r, task.type, task.typed)
      BY <2>1 DEF GivenIsTheFirstAnswer
    <3>2. m \in 0 .. fetched'
      OBVIOUS
    <3>3. FirstAnswer(m)' /\ PollResults(m)' = PollResults(m)
      BY <1>2, <3>1, <3>2
    <3> QED
      BY <2>1, <3>1, <3>2, <3>3 DEF GivenIsTheFirstAnswer
  <2>3. ASSUME NEW m \in 0 .. n PROVE PollResults(m)' = {}
    <3>1. m \in Nat /\ m <= Len(comps)
      BY <1>1
    <3>2. PollResults(m)' = PollResults(m)
      BY <3>1, PollIsStable
    <3>3. CASE m = n
      BY <1>3, <3>2, <3>3
    <3>4. CASE m # n
      <4>1. m \in 0 .. n - 1
        BY <3>4
      <4> QED
        BY <3>2, <4>1
    <3> QED
      BY <3>3, <3>4
  <2> QED
    BY <2>1, <2>2, <2>3 DEF PollsSoFar
<1>4. CASE PollResults(n) # {}
  <2>1. turn' = "answered"
    BY <1>4 DEF Poll
  <2>2. PICK r \in PollResults(n) : given' = Fed(r, task.type, task.typed)
    BY <1>4 DEF Poll
  <2>3. FirstAnswer(n) /\ n \in 0 .. fetched'
    BY <1>4 DEF FirstAnswer
  <2>4. FirstAnswer(n)' /\ PollResults(n)' = PollResults(n)
    BY <1>2, <2>3
  <2>5. GivenIsTheFirstAnswer' /\ PollsSoFar'
    BY <2>1, <2>2, <2>3, <2>4 DEF GivenIsTheFirstAnswer, PollsSoFar
  <2>6. ASSUME given # NONE PROVE given' = given
    <3>1. PICK m \in 0 .. fetched :
            FirstAnswer(m) /\ \E s \in PollResults(m) : given = Fed(s, task.type, task.typed)
      BY <2>6 DEF GivenIsTheFirstAnswer
    <3>2. m = n
      BY <2>3, <3>1, OneFirstAnswer
    <3>3. n <= Len(comps)
      BY <1>1
    <3> QED
      BY <2>2, <3>1, <3>2, <3>3, OneResult
  <2>7. DOMAIN given' \in {{"next"}, {"throw"}}
    <3>1. CASE Failed(r)
      BY <2>2, <3>1 DEF Fed
    <3>2. CASE ~Failed(r)
      BY <2>2, <3>2 DEF Fed
    <3> QED
      BY <3>1, <3>2
  <2> QED
    BY <2>1, <2>5, <2>6, <2>7
<1> QED
  BY <1>3, <1>4

LEMMA LosersStayCancelled ==
  ASSUME TypeOK, CompletionsFit, LosersAreCancelled, task' = task,
         comps' = comps \/ \E e : comps' = Append(comps, e),
         sched' = sched, cancelled' = cancelled, handled' = handled
  PROVE  LosersAreCancelled'
<1>1. Opens' = Opens
  BY DEF Opens, Rejections, HasNested, Supported, Children
<1>2. sched' \subseteq Opens'
  BY <1>1 DEF LosersAreCancelled
<1>3. ASSUME handled # NONE, task.type = "select", NEW n \in 0 .. handled, FirstAnswer(n)'
      PROVE  {k \in Opens : ~Ready(k, n)}' \subseteq cancelled
  <2>1. n \in Nat /\ n <= Len(comps)
    BY <1>3, TasksAssumption DEF TypeOK, CompletionsFit
  <2>2. FirstAnswer(n)
    BY <1>3, <2>1, FirstAnswerIsStable
  <2>3. \A k : Ready(k, n)' <=> Ready(k, n)
    BY <2>1, PollIsStable
  <2> QED
    BY <1>1, <1>3, <2>2, <2>3 DEF LosersAreCancelled
<1> QED
  BY <1>2, <1>3 DEF LosersAreCancelled

LEMMA AnswersStay ==
  ASSUME TypeOK, CompletionsFit, GivenIsTheFirstAnswer, task' = task,
         comps' = comps \/ \E e : comps' = Append(comps, e),
         given' = given, fetched' = fetched, seen' = seen
  PROVE  /\ GivenIsTheFirstAnswer'
         /\ turn' = turn /\ PollsSoFar => PollsSoFar'
<1>1. Len(comps) \in Nat /\ fetched \in 0 .. Len(comps) /\ seen \in 0 .. fetched
  BY DEF TypeOK, CompletionsFit
<1>2. ASSUME NEW n \in 0 .. fetched
      PROVE  PollResults(n)' = PollResults(n) /\ (FirstAnswer(n)' <=> FirstAnswer(n))
  <2>1. n \in Nat /\ n <= Len(comps)
    BY <1>1
  <2> QED
    BY <2>1, PollIsStable, FirstAnswerIsStable
<1>3. GivenIsTheFirstAnswer'
  <2> SUFFICES ASSUME given # NONE PROVE GivenIsTheFirstAnswer'
    BY DEF GivenIsTheFirstAnswer
  <2>1. PICK n \in 0 .. fetched :
          FirstAnswer(n) /\ \E r \in PollResults(n) : given = Fed(r, task.type, task.typed)
    BY DEF GivenIsTheFirstAnswer
  <2>2. PollResults(n)' = PollResults(n) /\ FirstAnswer(n)'
    BY <1>2, <2>1
  <2> QED
    BY <2>1, <2>2 DEF GivenIsTheFirstAnswer
<1>4. ASSUME turn' = turn, PollsSoFar PROVE PollsSoFar'
  <2>1. ASSUME turn = "polling", NEW m \in 0 .. seen PROVE PollResults(m)' = {}
    <3>1. m \in 0 .. fetched /\ PollResults(m) = {}
      BY <1>1, <1>4, <2>1 DEF PollsSoFar
    <3> QED
      BY <1>2, <3>1
  <2>2. ASSUME turn = "answered" PROVE \E n \in 0 .. fetched : n = seen /\ FirstAnswer(n)'
    <3>1. PICK n \in 0 .. fetched : n = seen /\ FirstAnswer(n)
      BY <1>4, <2>2 DEF PollsSoFar
    <3> QED
      BY <1>2, <3>1
  <2> QED
    BY <1>4, <2>1, <2>2 DEF PollsSoFar
<1> QED
  BY <1>3, <1>4

LEMMA InitInv == Init => Inv
<1> SUFFICES ASSUME Init PROVE Inv
  OBVIOUS
<1>1. TypeOK
  BY TasksAssumption DEF Init, TypeOK, Completed
<1>2. CompletionsFit
  BY DEF Init, CompletionsFit
<1>3. GivenIsTheFirstAnswer /\ PollsSoFar /\ LosersAreCancelled
  BY DEF Init, GivenIsTheFirstAnswer, PollsSoFar, LosersAreCancelled
<1> QED
  BY <1>1, <1>2, <1>3 DEF Inv

(* Polls change nothing but what the generator was fed.                    *)
LEMMA StartTurnKeepsInv ==
  ASSUME Inv, StartTurn
  PROVE  Inv' /\ (given # NONE => given' = given)
<1>1. /\ fetched' = Len(comps) /\ seen' = 0 /\ Poll(0)
      /\ UNCHANGED <<task, sched, comps, cancelled, handled, lost>>
      /\ idle' \in 0 .. MaxIdle
  BY TasksAssumption DEF StartTurn, Inv, TypeOK
<1>2. Len(comps) \in Nat /\ fetched \in 0 .. Len(comps)
  BY DEF Inv, TypeOK, CompletionsFit
<1>3. /\ given # NONE => given' = given
      /\ given' = given \/ DOMAIN given' \in {{"next"}, {"throw"}}
      /\ turn' \in {"polling", "answered"}
      /\ GivenIsTheFirstAnswer' /\ PollsSoFar'
  BY <1>1, <1>2, PollFeedsTheSame DEF Inv
<1>4. TypeOK'
  BY <1>1, <1>2, <1>3 DEF Inv, TypeOK, Completed, Children
<1>5. CompletionsFit'
  BY <1>1 DEF Inv, CompletionsFit, Children
<1>6. LosersAreCancelled'
  BY <1>1, LosersStayCancelled DEF Inv
<1> QED
  BY <1>3, <1>4, <1>5, <1>6 DEF Inv

LEMMA DeliverKeepsInv ==
  ASSUME Inv, Deliver
  PROVE  Inv' /\ (given # NONE => given' = given)
<1>1. /\ turn = "polling" /\ seen' = seen + 1 /\ Poll(seen + 1)
      /\ UNCHANGED <<task, fetched, sched, comps, cancelled, handled, idle, lost>>
  BY DEF Deliver
<1>2. Len(comps) \in Nat /\ fetched \in 0 .. Len(comps) /\ seen \in Nat /\ seen + 1 <= fetched
  BY DEF Inv, TypeOK, CompletionsFit, Deliver
<1>3. \A m \in 0 .. (seen + 1) - 1 : PollResults(m) = {}
  BY <1>1, <1>2 DEF Inv, PollsSoFar
<1>4. /\ given # NONE => given' = given
      /\ given' = given \/ DOMAIN given' \in {{"next"}, {"throw"}}
      /\ turn' \in {"polling", "answered"}
      /\ GivenIsTheFirstAnswer' /\ PollsSoFar'
  <2> DEFINE n == seen + 1
  <2>1. n \in Nat /\ n <= fetched' /\ seen' = n /\ Poll(n)
        /\ \A m \in 0 .. n - 1 : PollResults(m) = {}
    BY <1>1, <1>2, <1>3
  <2> HIDE DEF n
  <2> QED
    BY <1>1, <1>2, <2>1, PollFeedsTheSame DEF Inv
<1>5. TypeOK'
  BY <1>1, <1>2, <1>4 DEF Inv, TypeOK, Completed, Children
<1>6. CompletionsFit'
  BY <1>1 DEF Inv, CompletionsFit, Children
<1>7. LosersAreCancelled'
  BY <1>1, LosersStayCancelled DEF Inv
<1> QED
  BY <1>4, <1>5, <1>6, <1>7 DEF Inv

(* A turn that ends, and news from a child, leave the answers as they are. *)
LEMMA CommitKeepsInv == Inv /\ Commit => Inv'
<1> SUFFICES ASSUME Inv, Commit PROVE Inv'
  OBVIOUS
<1>1. /\ turn' = "none" /\ sched' = sched \cup Opens /\ handled' = fetched
      /\ UNCHANGED <<task, fetched, seen, given, comps, idle, lost>>
  BY DEF Commit
<1>2. Children' = Children /\ Opens' = Opens /\ Opens \subseteq DOMAIN Children
  BY <1>1 DEF Children, Opens, Rejections, HasNested, Supported
<1>3. /\ cancelled' \subseteq sched' /\ cancelled \subseteq cancelled'
      /\ turn = "answered" => Losers \subseteq cancelled'
  BY <1>1 DEF Commit, Losers, Inv, TypeOK
<1>4. TypeOK'
  BY <1>1, <1>2, <1>3, TasksAssumption DEF Inv, TypeOK, Completed
<1>5. CompletionsFit'
  BY <1>1, <1>2 DEF Inv, CompletionsFit
<1>6. GivenIsTheFirstAnswer' /\ PollsSoFar'
  BY <1>1, AnswersStay DEF Inv, PollsSoFar
<1>7. LosersAreCancelled'
  <2>1. ASSUME task.type = "select", NEW n \in 0 .. fetched, FirstAnswer(n)'
        PROVE  {k \in Opens : ~Ready(k, n)}' \subseteq cancelled'
    <3>1. n \in Nat /\ n <= Len(comps)
      BY DEF Inv, TypeOK, CompletionsFit
    <3>2. FirstAnswer(n) /\ \A k : Ready(k, n)' <=> Ready(k, n)
      BY <1>1, <2>1, <3>1, FirstAnswerIsStable, PollIsStable DEF Inv
    <3>3. CASE turn = "polling" /\ seen = fetched
      <4>1. PollResults(n) = {}
        BY <3>3 DEF Inv, PollsSoFar
      <4> QED
        BY <3>2, <4>1 DEF FirstAnswer
    <3>4. CASE turn = "answered"
      <4>1. PICK m \in 0 .. fetched : m = seen /\ FirstAnswer(m)
        BY <3>4 DEF Inv, PollsSoFar
      <4>2. n = seen
        BY <3>1, <3>2, <4>1, OneFirstAnswer
      <4> QED
        BY <1>2, <1>3, <2>1, <3>2, <3>4, <4>2 DEF Losers
    <3> QED
      BY <3>3, <3>4 DEF Commit
  <2> QED
    BY <1>1, <1>2, <2>1 DEF Inv, LosersAreCancelled
<1> QED
  BY <1>4, <1>5, <1>6, <1>7 DEF Inv

LEMMA LoseTurnKeepsInv == Inv /\ LoseTurn => Inv'
<1> SUFFICES ASSUME Inv, LoseTurn PROVE Inv'
  OBVIOUS
<1>1. /\ turn' = "none" /\ lost' \in 0 .. MaxLost
      /\ UNCHANGED <<task, fetched, seen, given, sched, comps, cancelled, handled, idle>>
  BY TasksAssumption DEF LoseTurn, Inv, TypeOK
<1>2. TypeOK' /\ CompletionsFit'
  BY <1>1 DEF Inv, TypeOK, CompletionsFit, Completed, Children
<1>3. GivenIsTheFirstAnswer' /\ PollsSoFar'
  BY <1>1, AnswersStay DEF Inv, PollsSoFar
<1>4. LosersAreCancelled'
  BY <1>1, LosersStayCancelled DEF Inv
<1> QED
  BY <1>2, <1>3, <1>4 DEF Inv

LEMMA CompleteKeepsInv ==
  ASSUME Inv, NEW k, Complete(k)
  PROVE  Inv'
<1>1. /\ k \in sched \ Completed
      /\ UNCHANGED <<task, turn, fetched, seen, given, sched, cancelled, handled, idle, lost>>
  BY DEF Complete
<1>2. PICK o \in Outcomes(Children[k].type) :
        comps' = Append(comps, [child |-> k, outcome |-> o])
  BY DEF Complete
<1> DEFINE S == [child : DOMAIN Children,
                 outcome : UNION {Outcomes(Children[j].type) : j \in DOMAIN Children}]
           e == [child |-> k, outcome |-> o]
<1>3. k \in DOMAIN Children /\ e \in S /\ comps \in Seq(S)
  BY <1>1, <1>2 DEF Inv, TypeOK, CompletionsFit
<1>4. e.child = k
  OBVIOUS
<1>5. Children' = Children
  BY <1>1 DEF Children
<1>6. comps' = Append(comps, e) /\ comps' \in Seq(S)
  BY <1>2, <1>3
<1> HIDE DEF e
<1>7. /\ Len(comps) \in Nat /\ DOMAIN comps = 1 .. Len(comps)
      /\ Len(comps') = Len(comps) + 1 /\ DOMAIN comps' = 1 .. Len(comps) + 1
      /\ \A i \in 1 .. Len(comps) : comps'[i] = comps[i]
      /\ comps'[Len(comps) + 1] = e
  BY <1>3, <1>6, AppendProperties
<1>8. CompletionsFit'
  <2>1. ASSUME NEW c \in DOMAIN comps', NEW d \in DOMAIN comps', comps'[c].child = comps'[d].child
        PROVE  c = d
    <3>1. \A i \in 1 .. Len(comps) : comps[i].child # k
      BY <1>1, <1>7 DEF Completed
    <3> QED
      BY <1>4, <1>7, <2>1, <3>1 DEF Inv, CompletionsFit
  <2> QED
    BY <1>5, <1>6, <2>1 DEF CompletionsFit
<1>9. TypeOK'
  <2>1. Completed' \subseteq Completed \cup {k}
    BY <1>4, <1>7 DEF Completed
  <2> QED
    BY <1>1, <1>5, <1>7, <2>1, TasksAssumption DEF Inv, TypeOK
<1>10. GivenIsTheFirstAnswer' /\ PollsSoFar'
  BY <1>1, <1>6, AnswersStay DEF Inv
<1>11. LosersAreCancelled'
  BY <1>1, <1>6, LosersStayCancelled DEF Inv
<1> QED
  BY <1>8, <1>9, <1>10, <1>11 DEF Inv

LEMMA NextKeepsInv ==
  ASSUME Inv, [Next]_vars
  PROVE  Inv' /\ (given # NONE => given' = given)
<1>1. CASE StartTurn
  BY <1>1, StartTurnKeepsInv
<1>2. CASE Deliver
  BY <1>2, DeliverKeepsInv
<1>3. CASE Commit
  BY <1>3, CommitKeepsInv DEF Commit
<1>4. CASE LoseTurn
  BY <1>4, LoseTurnKeepsInv DEF LoseTurn
<1>5. CASE \E k \in Positions : Complete(k)
  BY <1>5, CompleteKeepsInv DEF Complete
<1>6. CASE UNCHANGED vars
  <2>1. UNCHANGED <<task, turn, fetched, seen, given, sched, comps, cancelled, handled, idle, lost>>
    BY <1>6 DEF vars
  <2>2. TypeOK' /\ CompletionsFit'
    BY <2>1 DEF Inv, TypeOK, CompletionsFit, Completed, Children
  <2>3. GivenIsTheFirstAnswer' /\ PollsSoFar'
    BY <2>1, AnswersStay DEF Inv
  <2>4. LosersAreCancelled'
    BY <2>1, LosersStayCancelled DEF Inv
  <2> QED
    BY <2>1, <2>2, <2>3, <2>4 DEF Inv
<1> QED
  BY <1>1, <1>2, <1>3, <1>4, <1>5, <1>6 DEF Next, Over

(* The invariant holds in every state.                                     *)
THEOREM TaskInvariant == Spec => []Inv
<1>1. Inv /\ [Next]_vars => Inv'
  BY NextKeepsInv
<1> QED
  BY InitInv, <1>1, PTL DEF Spec

(* However often and however late a task is replayed, the generator is fed *)
(* the same thing for it.                                                  *)
THEOREM TaskIsDeterministic == Spec => SameInEveryTurn
<1>1. Inv /\ [Next]_vars => [given # NONE => given' = given]_vars
  BY NextKeepsInv
<1> QED
  BY TaskInvariant, <1>1, PTL DEF Spec, SameInEveryTurn

(* The result of a child in every poll is made of its one outcome.         *)
LEMMA ResultIsOfTheOutcome ==
  ASSUME CompletionsFit, NEW n \in Nat, n <= Len(comps),
         NEW k, Supported(k), NEW r \in ResultOf(k, n)
  PROVE  k \in Completed /\ r = LeafResult(Children[k].type, OutcomeOf(k))
<1>1. Len(comps) \in Nat /\ DOMAIN comps = 1 .. Len(comps)
  BY DEF CompletionsFit
<1>2. PICK c \in 1 .. n : comps[c].child = k /\ r = LeafResult(Children[k].type, comps[c].outcome)
  BY DEF ResultOf
<1>3. c \in DOMAIN comps
  BY <1>1
<1>4. (CHOOSE d \in DOMAIN comps : comps[d].child = k) = c
  BY <1>2, <1>3 DEF CompletionsFit
<1> QED
  BY <1>2, <1>3, <1>4 DEF Completed, OutcomeOf

(* What Rust makes of a success reads as the value its author meant.       *)
LEMMA TextReadsAsValue ==
  ASSUME NEW k
  PROVE  Parsed(Encoded(Children[k].type, OutcomeOf(k).ok)) = ValueOf(k)
BY DEF Parsed, Encoded, ValueOf, ValueAs, IsJson, Json

LEMMA ResultRead ==
  ASSUME NEW k, NEW r, r = LeafResult(Children[k].type, OutcomeOf(k))
  PROVE  /\ Failed(r) <=> Failed(OutcomeOf(k))
         /\ Failed(r) => r = OutcomeOf(k)
         /\ ~Failed(r) => Parsed(r.ok) = ValueOf(k)
<1>1. CASE Failed(OutcomeOf(k))
  BY <1>1 DEF LeafResult
<1>2. CASE ~Failed(OutcomeOf(k))
  <2>1. r = Ok(Encoded(Children[k].type, OutcomeOf(k).ok))
    BY <1>2 DEF LeafResult
  <2>2. ~Failed(r) /\ r.ok = Encoded(Children[k].type, OutcomeOf(k).ok)
    BY <2>1 DEF Ok, Failed
  <2> QED
    BY <1>2, <2>2, TextReadsAsValue
<1> QED
  BY <1>1, <1>2

(* The first answer, if the generator was fed one.                         *)
LEMMA GivenIsOfAPoll ==
  ASSUME Inv, given # NONE
  PROVE  \E n \in Nat : /\ n <= fetched /\ n <= Len(comps) /\ FirstAnswer(n)
                       /\ \E r \in PollResults(n) : given = Fed(r, task.type, task.typed)
<1>1. Len(comps) \in Nat /\ fetched \in 0 .. Len(comps)
  BY DEF Inv, TypeOK, CompletionsFit
<1>2. PICK n \in 0 .. fetched :
        FirstAnswer(n) /\ \E r \in PollResults(n) : given = Fed(r, task.type, task.typed)
  BY DEF Inv, GivenIsTheFirstAnswer
<1>3. n \in Nat /\ n <= fetched /\ n <= Len(comps)
  BY <1>1
<1> QED
  BY <1>2, <1>3

LEMMA AloneFollows == Inv => AloneGivesItsOwn
<1> SUFFICES ASSUME Inv, given # NONE, task.type \notin Composites \cup {"orchestration"}
             PROVE  given = IF Failed(OutcomeOf(1)) THEN Thrown(1)
                            ELSE [next |-> IF task.type = "activity" THEN Reads(ValueOf(1))
                                           ELSE ValueOf(1)]
  BY DEF AloneGivesItsOwn
<1>1. PICK n \in Nat : /\ n <= Len(comps)
                      /\ \E r \in PollResults(n) : given = Fed(r, task.type, task.typed)
  BY GivenIsOfAPoll
<1>2. PICK r \in PollResults(n) : given = Fed(r, task.type, task.typed)
  BY <1>1
<1>3. Supported(1) /\ Rejections = {} /\ Children[1].type = task.type
  BY DEF Supported, Rejections, Children, Composites
<1>4. r \in ResultOf(1, n)
  BY <1>2, <1>3 DEF PollResults, Composites
<1>5. r = LeafResult(Children[1].type, OutcomeOf(1))
  BY <1>1, <1>3, <1>4, ResultIsOfTheOutcome DEF Inv
<1>6. CASE Failed(r)
  BY <1>2, <1>5, <1>6, ResultRead DEF Fed, Thrown
<1>7. CASE ~Failed(r)
  <2>1. Parsed(r.ok) = ValueOf(1) /\ ~Failed(OutcomeOf(1))
    BY <1>5, <1>7, ResultRead
  <2>2. applyTypedParsing(ValueOf(1), task.type) =
          IF task.type = "activity" THEN tryJsonParse(ValueOf(1)) ELSE ValueOf(1)
    BY DEF applyTypedParsing, Composites
  <2> QED
    BY <1>2, <1>7, <2>1, <2>2 DEF Fed, Reads
<1> QED
  BY <1>6, <1>7

LEMMA RaceFollows == Inv => RaceGivesTheFirst
<1> SUFFICES ASSUME Inv, given # NONE, task.type = "select", Rejections = {},
                    Supported(1), Supported(2)
             PROVE  LET winner == comps[1].child IN
                    given = IF Failed(OutcomeOf(winner)) THEN Thrown(winner)
                            ELSE [next |-> Obj([index |-> winner - 1,
                                                value |-> Reads(ValueOf(winner))])]
  BY DEF RaceGivesTheFirst
<1>1. PICK n \in Nat : /\ n <= Len(comps) /\ FirstAnswer(n)
                      /\ \E r \in PollResults(n) : given = Fed(r, task.type, task.typed)
  BY GivenIsOfAPoll
<1>2. \A m \in Nat : PollResults(m) = SelectResults(m)
  BY DEF PollResults
<1>3. DOMAIN Children = 1 .. 2
  BY TasksAssumption DEF Children, Composites, Rejections, Inv, TypeOK
<1>4. ResultOf(1, 0) = {} /\ ResultOf(2, 0) = {}
  BY DEF ResultOf
<1>5. n # 0
  <2>1. PollResults(0) = {}
    BY <1>2, <1>4 DEF SelectResults, Ready
  <2> QED
    BY <1>1, <2>1 DEF FirstAnswer
<1>6. Len(comps) \in Nat /\ 1 <= Len(comps) /\ 1 \in DOMAIN comps
  BY <1>1, <1>5 DEF Inv, CompletionsFit
<1> DEFINE winner == comps[1].child
<1>7. winner \in 1 .. 2
  <2> DEFINE O == UNION {Outcomes(Children[k].type) : k \in DOMAIN Children}
  <2>1. comps \in Seq([child : DOMAIN Children, outcome : O])
    BY DEF Inv, CompletionsFit
  <2> HIDE DEF O
  <2>2. comps[1] \in [child : DOMAIN Children, outcome : O]
    BY <1>6, <2>1, ElementsBelong
  <2> QED
    BY <1>3, <2>2
<1>8. /\ ResultOf(winner, 1) # {}
      /\ \A k \in 1 .. 2 : k # winner => ResultOf(k, 1) = {}
  <2>1. Supported(winner) /\ \A k \in 1 .. 2 : Supported(k)
    BY <1>7
  <2>2. LeafResult(Children[winner].type, comps[1].outcome) \in ResultOf(winner, 1)
    BY <2>1 DEF ResultOf
  <2>3. ASSUME NEW k \in 1 .. 2, k # winner PROVE ResultOf(k, 1) = {}
    BY <2>1, <2>3 DEF ResultOf
  <2> QED
    BY <2>2, <2>3
<1>9. /\ SelectResults(1) # {}
      /\ \A r \in SelectResults(1) : r = select_result(winner - 1, TheResult(winner, 1))
  <2>1. CASE winner = 1
    BY <1>8, <2>1 DEF SelectResults, Ready
  <2>2. CASE winner = 2
    BY <1>8, <2>2 DEF SelectResults, Ready
  <2> QED
    BY <1>7, <2>1, <2>2
<1>10. n = 1
  <2>1. PollResults(1) # {}
    BY <1>2, <1>9
  <2> QED
    BY <1>1, <1>5, <2>1 DEF FirstAnswer
<1>11. TheResult(winner, 1) = LeafResult(Children[winner].type, OutcomeOf(winner))
  <2>1. TheResult(winner, 1) \in ResultOf(winner, 1)
    BY <1>8 DEF TheResult
  <2>2. Supported(winner)
    BY <1>7
  <2> HIDE DEF winner
  <2> QED
    BY <1>6, <2>1, <2>2, ResultIsOfTheOutcome DEF Inv
<1>12. given = Fed(select_result(winner - 1, TheResult(winner, 1)), "select", task.typed)
  BY <1>1, <1>2, <1>9, <1>10
<1> HIDE DEF winner
<1> DEFINE o == TheResult(winner, 1)
<1>13. CASE Failed(o)
  <2>1. o = OutcomeOf(winner) /\ Failed(OutcomeOf(winner))
    BY <1>11, <1>13, ResultRead
  <2> QED
    BY <1>12, <1>13, <2>1 DEF select_result, Fed, Thrown, winner
<1>14. CASE ~Failed(o)
  <2>1. Parsed(o.ok) = ValueOf(winner) /\ ~Failed(OutcomeOf(winner))
    BY <1>11, <1>14, ResultRead
  <2> DEFINE v == Obj([index |-> winner - 1, value |-> ValueOf(winner)])
  <2>2. select_result(winner - 1, o) = Ok(Json(v))
    BY <1>14, <2>1 DEF select_result
  <2> HIDE DEF v, o
  <2>3. ~Failed(Ok(Json(v))) /\ Parsed(Ok(Json(v)).ok) = v
    BY DEF Failed, Ok, Parsed, Json, IsJson
  <2>4. given = [next |-> IF task.typed THEN applyTypedParsing(v, "select") ELSE v]
    BY <1>12, <2>2, <2>3 DEF Fed, o
  <2>5. applyTypedParsing(v, "select") =
          Obj([index |-> winner - 1, value |-> tryJsonParse(ValueOf(winner))])
    BY DEF applyTypedParsing, v, Obj, IsObj
  <2> QED
    BY <2>1, <2>4, <2>5 DEF v, Reads, winner
<1> QED
  BY <1>13, <1>14

(* One place of an all().                                                  *)
LEMMA ItemIsWrapped ==
  ASSUME CompletionsFit, NEW n \in Nat, n <= Len(comps),
         NEW k, NEW r \in ResultOf(k, n)
  PROVE  Item(k) = IF task.typed THEN typedItem(Wrapped(r)) ELSE Wrapped(r)
<1>1. CASE ~Supported(k)
  <2>1. r = Unsupported
    BY <1>1 DEF ResultOf
  <2>2. Wrapped(r) = Obj([err |-> Str(Unsupported.err)])
    BY <2>1 DEF Wrapped, Unsupported, Failed, Err, Parsed, Raw, IsJson
  <2>3. typedItem(Wrapped(r)) = Wrapped(r)
    <3>1. tryJsonParse(Str(Unsupported.err)) = Str(Unsupported.err)
      BY DEF tryJsonParse, IsStr, Str, Unsupported, Err, Parsed, Raw, IsJson
    <3> QED
      BY <2>2, <3>1 DEF typedItem, IsObj, Obj
  <2> QED
    BY <1>1, <2>2, <2>3 DEF Item
<1>2. CASE Supported(k) /\ Failed(r)
  <2>1. r = OutcomeOf(k) /\ Failed(OutcomeOf(k))
    BY <1>2, ResultIsOfTheOutcome, ResultRead
  <2> DEFINE x == Parsed(OutcomeOf(k).err)
  <2>2. Wrapped(r) = Obj([err |-> x])
    BY <1>2, <2>1 DEF Wrapped
  <2>3. Item(k) = Obj([err |-> Reads(x)])
    BY <1>2, <2>1 DEF Item
  <2> HIDE DEF x
  <2>4. typedItem(Obj([err |-> x])) = Obj([err |-> tryJsonParse(x)])
    BY DEF typedItem, IsObj, Obj
  <2> QED
    BY <2>2, <2>3, <2>4 DEF Reads
<1>3. CASE Supported(k) /\ ~Failed(r)
  <2>1. Parsed(r.ok) = ValueOf(k) /\ ~Failed(OutcomeOf(k))
    BY <1>3, ResultIsOfTheOutcome, ResultRead
  <2> DEFINE x == ValueOf(k)
  <2>2. Wrapped(r) = Obj([ok |-> x])
    BY <1>3, <2>1 DEF Wrapped
  <2>3. Item(k) = Obj([ok |-> Reads(x)])
    BY <1>3, <2>1 DEF Item
  <2> HIDE DEF x
  <2>4. typedItem(Obj([ok |-> x])) = Obj([ok |-> tryJsonParse(x)])
    BY DEF typedItem, IsObj, Obj
  <2> QED
    BY <2>2, <2>3, <2>4 DEF Reads
<1> QED
  BY <1>1, <1>2, <1>3

LEMMA AllFollows == Inv => AllGivesEachChildItsPlace
<1> SUFFICES ASSUME Inv, given # NONE, task.type = "join", Rejections = {}
             PROVE  /\ \A k \in DOMAIN Children : Supported(k) => k \in Completed
                    /\ given = [next |-> Arr([k \in DOMAIN Children |-> Item(k)])]
  BY DEF AllGivesEachChildItsPlace
<1>1. PICK n \in Nat : /\ n <= Len(comps) /\ FirstAnswer(n)
                      /\ \E r \in PollResults(n) : given = Fed(r, task.type, task.typed)
  BY GivenIsOfAPoll
<1>2. PollResults(n) = JoinResults(n)
  BY DEF PollResults
<1>3. \A k \in DOMAIN Children : ResultOf(k, n) # {} /\ TheResult(k, n) \in ResultOf(k, n)
  <2>1. \A k \in DOMAIN Children : Ready(k, n)
    BY <1>1, <1>2 DEF FirstAnswer, JoinResults
  <2> QED
    BY <2>1 DEF Ready, TheResult
<1>4. \A k \in DOMAIN Children : Supported(k) => k \in Completed
  BY <1>1, <1>3, ResultIsOfTheOutcome DEF Inv
<1> DEFINE items == [k \in DOMAIN Children |-> Wrapped(TheResult(k, n))]
<1>5. given = Fed(JoinOf(items), "join", task.typed)
  BY <1>1, <1>2 DEF JoinResults
<1>6. \A k \in DOMAIN Children :
        Item(k) = IF task.typed THEN typedItem(items[k]) ELSE items[k]
  BY <1>1, <1>3, ItemIsWrapped DEF Inv
<1>7. DOMAIN items = DOMAIN Children
  OBVIOUS
<1>8. items = [k \in DOMAIN Children |-> items[k]]
  OBVIOUS
<1> HIDE DEF items
<1>9. given = [next |-> IF task.typed THEN applyTypedParsing(Arr(items), "join") ELSE Arr(items)]
  <2>1. ~Failed(JoinOf(items)) /\ Parsed(JoinOf(items).ok) = Arr(items)
    BY DEF JoinOf, Failed, Ok, Parsed, Json, IsJson
  <2> QED
    BY <1>5, <2>1 DEF Fed
<1>10. applyTypedParsing(Arr(items), "join") =
         Arr([k \in DOMAIN Children |-> typedItem(items[k])])
  BY <1>7 DEF applyTypedParsing, IsArr, Arr
<1>11. CASE task.typed
  <2>1. [k \in DOMAIN Children |-> typedItem(items[k])] = [k \in DOMAIN Children |-> Item(k)]
    BY <1>6, <1>11
  <2> QED
    BY <1>4, <1>9, <1>10, <1>11, <2>1
<1>12. CASE ~task.typed
  <2>1. items = [k \in DOMAIN Children |-> Item(k)]
    BY <1>6, <1>8, <1>12
  <2> QED
    BY <1>4, <1>9, <1>12, <2>1
<1> QED
  BY <1>11, <1>12

LEMMA NothingLeftOpenFollows == Inv => NothingLeftOpen
<1>1. ASSUME Inv, Rejections # {} PROVE sched = {}
  BY <1>1 DEF Inv, LosersAreCancelled, Opens
<1>2. ASSUME Inv, given # NONE, handled # NONE, handled = fetched, NEW k \in sched
      PROVE  k \in Completed \cup cancelled
  <2>1. PICK n \in Nat : n <= fetched /\ n <= Len(comps) /\ FirstAnswer(n)
    BY <1>2, GivenIsOfAPoll
  <2>2. /\ k \in Opens /\ Rejections = {} /\ task.type # "orchestration"
        /\ k \in DOMAIN Children /\ Supported(k)
    BY <1>2 DEF Inv, LosersAreCancelled, Opens
  <2>3. ASSUME Ready(k, n) PROVE k \in Completed
    BY <1>2, <2>1, <2>2, <2>3, ResultIsOfTheOutcome DEF Ready, Inv
  <2>4. CASE task.type = "join"
    <3>1. PollResults(n) = JoinResults(n) /\ PollResults(n) # {}
      BY <2>1, <2>2, <2>4 DEF PollResults, FirstAnswer
    <3> QED
      BY <2>2, <2>3, <3>1 DEF JoinResults
  <2>5. CASE task.type = "select"
    <3>1. n \in 0 .. handled
      BY <1>2, <2>1 DEF Inv, TypeOK, CompletionsFit
    <3> QED
      BY <1>2, <2>1, <2>2, <2>3, <2>5, <3>1 DEF Inv, LosersAreCancelled
  <2>6. CASE task.type \notin Composites
    <3>1. k = 1
      BY <2>2, <2>6 DEF Children
    <3>2. PollResults(n) = ResultOf(1, n) /\ PollResults(n) # {}
      BY <2>1, <2>2, <2>6 DEF PollResults, FirstAnswer, Composites
    <3> QED
      BY <2>3, <3>1, <3>2 DEF Ready
  <2> QED
    BY <2>4, <2>5, <2>6 DEF Composites
<1> QED
  BY <1>1, <1>2 DEF NothingLeftOpen

(* Whatever is yielded and in whatever order its parts complete: all()     *)
(* gives every child its place, race() the first completion, a task on its *)
(* own its value or error; and an answered task leaves nothing open.       *)
THEOREM TaskSafety ==
  Spec => [](/\ TypeOK /\ AllGivesEachChildItsPlace /\ RaceGivesTheFirst
             /\ AloneGivesItsOwn /\ NothingLeftOpen)
<1>1. Inv => /\ TypeOK /\ AllGivesEachChildItsPlace /\ RaceGivesTheFirst
             /\ AloneGivesItsOwn /\ NothingLeftOpen
  BY AllFollows, RaceFollows, AloneFollows, NothingLeftOpenFollows DEF Inv
<1> QED
  BY TaskInvariant, <1>1, PTL

-----------------------------------------------------------------------------
(***************************************************************************)
(* The promise.  Code and author see the same parts, refuse the same and   *)
(* know the same outcomes (OneViewOfParts, EndedIsTheOutcome); so what the *)
(* generator is fed in any turn is an answer of TaskPromise.               *)
(***************************************************************************)
LEMMA OneViewOfParts ==
  /\ Promise!Parts = Children
  /\ \A k : Promise!Usable(k) <=> Supported(k)
  /\ Promise!Refusals = Rejections
<1>1. Promise!Parts = Children
  BY DEF Promise!Parts, Promise!Composites, Children, Composites
<1>2. \A k : Promise!Usable(k) <=> Supported(k)
  BY <1>1 DEF Promise!Usable, Promise!Composites, Promise!Composable, Supported, Composites,
    Composable
<1>3. CASE task.type \in Composites
  <2>1. Children = task.tasks
    BY <1>3 DEF Children
  <2> QED
    BY <1>1, <1>2, <1>3, <2>1 DEF Promise!Refusals, Promise!Composites, Rejections, HasNested,
      Composites
<1>4. CASE task.type \notin Composites
  BY <1>1, <1>2, <1>4 DEF Promise!Refusals, Promise!Composites, Rejections, Composites
<1> QED
  BY <1>1, <1>2, <1>3, <1>4

(* The promise speaks of the same values.                                  *)
LEMMA OneViewOfValues ==
  /\ \A x : /\ Promise!Raw(x) = Raw(x) /\ Promise!Str(x) = Str(x)
            /\ Promise!Obj(x) = Obj(x) /\ Promise!Arr(x) = Arr(x)
            /\ Promise!Parsed(x) = Parsed(x) /\ Promise!tryJsonParse(x) = tryJsonParse(x)
            /\ Promise!ErrorMessage(x) = ErrorMessage(x)
            /\ Promise!Failed(x) <=> Failed(x)
  /\ \A type, outcome : Promise!ValueAs(type, outcome) = ValueAs(type, outcome)
  /\ Promise!Null = Null
<1>1. /\ \A x : Promise!Raw(x) = Raw(x) /\ Promise!Str(x) = Str(x)
      /\ \A x : Promise!Obj(x) = Obj(x) /\ Promise!Arr(x) = Arr(x)
      /\ \A x : Promise!Json(x) = Json(x) /\ (Promise!Failed(x) <=> Failed(x))
      /\ Promise!Null = Null
  BY DEF Promise!Raw, Raw, Promise!Str, Str, Promise!Obj, Obj, Promise!Arr, Arr,
    Promise!Json, Json, Promise!Failed, Failed, Promise!Null, Null, Promise!Atom, Atom
<1>2. ASSUME NEW x PROVE Promise!Parsed(x) = Parsed(x)
  BY DEF Promise!Parsed, Parsed, Promise!IsJson, IsJson, Promise!Str, Str
<1>3. ASSUME NEW x PROVE Promise!tryJsonParse(x) = tryJsonParse(x)
  BY DEF Promise!tryJsonParse, tryJsonParse, Promise!Parsed, Parsed, Promise!IsJson, IsJson,
    Promise!IsStr, IsStr, Promise!Str, Str
<1>4. ASSUME NEW x PROVE Promise!ErrorMessage(x) = ErrorMessage(x)
  BY DEF Promise!ErrorMessage, ErrorMessage, Promise!IsStr, IsStr, Promise!Json, Json
<1>5. ASSUME NEW type, NEW outcome
      PROVE  Promise!ValueAs(type, outcome) = ValueAs(type, outcome)
  BY DEF Promise!ValueAs, ValueAs, Promise!Null, Null, Promise!Atom, Atom, Promise!Str, Str,
    Promise!Parsed, Parsed, Promise!IsJson, IsJson
<1> QED
  BY <1>1, <1>2, <1>3, <1>4, <1>5

LEMMA EndedIsTheOutcome ==
  /\ DOMAIN Ended = Completed
  /\ \A k \in Completed :
       /\ Ended[k] = OutcomeOf(k)
       /\ Promise!Value(k) = ValueOf(k)
       /\ Promise!Thrown(k) = Thrown(k)
       /\ \A v : Promise!Reads(v) = Reads(v)
BY OneViewOfParts, OneViewOfValues
DEF Ended, Promise!Value, Promise!Thrown, Promise!Reads, ValueOf, Thrown, Reads

(* What is refused is refused in the author's words.                       *)
LEMMA RefusalIsPromised ==
  ASSUME Inv, given # NONE, Rejections # {}
  PROVE  given \in Promise!Answers
<1>1. PICK n \in Nat : \E r \in PollResults(n) : given = Fed(r, task.type, task.typed)
  BY GivenIsOfAPoll
<1>2. PICK text \in Rejections : given = Fed(Err(Raw(text)), task.type, task.typed)
  BY <1>1 DEF PollResults
<1>3. given = [throw |-> Raw(text)]
  BY <1>2 DEF Fed, Failed, Err, Parsed, Raw, IsJson, ErrorMessage, Str, IsStr
<1> QED
  BY <1>2, <1>3, OneViewOfParts, OneViewOfValues DEF Promise!Answers, Promise!Message

LEMMA JoinIsPromised ==
  ASSUME Inv, given # NONE, Rejections = {}, task.type = "join"
  PROVE  given \in Promise!Answers
<1>1. /\ \A k \in DOMAIN Children : Supported(k) => k \in Completed
      /\ given = [next |-> Arr([k \in DOMAIN Children |-> Item(k)])]
  BY AllFollows DEF AllGivesEachChildItsPlace
<1>2. ASSUME NEW k \in DOMAIN Children PROVE Promise!Item(k) = Item(k)
  <2>1. CASE ~Supported(k)
    BY <2>1, OneViewOfParts, OneViewOfValues DEF Promise!Item, Item, Unsupported, Err
  <2>2. CASE Supported(k)
    BY <1>1, <2>2, OneViewOfParts, OneViewOfValues, EndedIsTheOutcome DEF Promise!Item, Item
  <2> QED
    BY <2>1, <2>2
<1>3. [k \in DOMAIN Children |-> Promise!Item(k)] = [k \in DOMAIN Children |-> Item(k)]
  BY <1>2
<1>4. given \in Promise!AllAnswers
  BY <1>1, <1>3, OneViewOfParts, OneViewOfValues, EndedIsTheOutcome DEF Promise!AllAnswers
<1> QED
  BY <1>4, OneViewOfParts DEF Promise!Answers

(* A race over a part that cannot race throws, in the first poll.          *)
LEMMA UnusableRaceThrows ==
  ASSUME Inv, given # NONE, Rejections = {}, task.type = "select",
         ~(Supported(1) /\ Supported(2))
  PROVE  given = [throw |-> Raw("unsupported task")]
<1>1. PICK n \in Nat : /\ FirstAnswer(n)
                       /\ \E r \in PollResults(n) : given = Fed(r, task.type, task.typed)
  BY GivenIsOfAPoll
<1>2. \A m \in Nat : PollResults(m) = SelectResults(m)
  BY DEF PollResults
<1>3. \A k : IF Supported(k) THEN ResultOf(k, 0) = {} ELSE ResultOf(k, 0) = {Unsupported}
  BY DEF ResultOf
<1>4. \E index : SelectResults(0) = {select_result(index, Unsupported)}
  <2>1. CASE ~Supported(1)
    BY <1>3, <2>1 DEF SelectResults, Ready, TheResult
  <2>2. CASE Supported(1) /\ ~Supported(2)
    BY <1>3, <2>2 DEF SelectResults, Ready, TheResult
  <2> QED
    BY <2>1, <2>2
<1>5. select_result(0, Unsupported) = Unsupported /\ select_result(1, Unsupported) = Unsupported
  BY DEF select_result, Unsupported, Failed, Err
<1>6. \A index : select_result(index, Unsupported) = Unsupported
  BY DEF select_result, Unsupported, Failed, Err
<1>7. n = 0
  BY <1>1, <1>2, <1>4 DEF FirstAnswer
<1>8. given = Fed(Unsupported, task.type, task.typed)
  BY <1>1, <1>2, <1>4, <1>6, <1>7
<1> QED
  BY <1>8 DEF Fed, Unsupported, Failed, Err, Parsed, Raw, IsJson, ErrorMessage, Str, IsStr

LEMMA RaceIsPromised ==
  ASSUME Inv, given # NONE, Rejections = {}, task.type = "select"
  PROVE  given \in Promise!Answers
<1>1. DOMAIN Children = 1 .. 2
  BY TasksAssumption DEF Children, Composites, Rejections, Inv, TypeOK
<1>2. Promise!Answers = Promise!RaceAnswers
  BY OneViewOfParts DEF Promise!Answers
<1>3. CASE ~(Supported(1) /\ Supported(2))
  <2>1. \E k \in DOMAIN Promise!Parts : ~Promise!Usable(k)
    BY <1>1, <1>3, OneViewOfParts
  <2>2. Promise!RaceAnswers = {Promise!Message("unsupported task")}
    BY <2>1 DEF Promise!RaceAnswers
  <2>3. given = Promise!Message("unsupported task")
    BY <1>3, UnusableRaceThrows, OneViewOfValues DEF Promise!Message
  <2> QED
    BY <1>2, <2>2, <2>3
<1>4. CASE Supported(1) /\ Supported(2)
  <2> DEFINE winner == comps[1].child
  <2>1. given = IF Failed(OutcomeOf(winner)) THEN Thrown(winner)
                ELSE [next |-> Obj([index |-> winner - 1, value |-> Reads(ValueOf(winner))])]
    BY <1>4, RaceFollows DEF RaceGivesTheFirst
  <2>2. comps # << >> /\ 1 \in DOMAIN comps
    <3>1. PICK n \in Nat : n <= Len(comps) /\ FirstAnswer(n)
      BY GivenIsOfAPoll
    <3>2. PollResults(0) = {}
      BY <1>4 DEF PollResults, SelectResults, Ready, ResultOf
    <3>3. n # 0
      BY <3>1, <3>2 DEF FirstAnswer
    <3> QED
      BY <3>1, <3>3 DEF Inv, CompletionsFit
  <2>3. winner \in Completed /\ winner \in DOMAIN Children
    BY <2>2 DEF Completed, Inv, TypeOK
  <2>4. First = winner /\ winner # NONE
    BY <1>1, <2>2, <2>3, TasksAssumption DEF First
  <2> HIDE DEF winner
  <2>5. ~ \E k \in DOMAIN Promise!Parts : ~Promise!Usable(k)
    <3>1. \A k \in 1 .. 2 : Supported(k)
      BY <1>4
    <3> QED
      BY <1>1, <3>1, OneViewOfParts
  <2>6. /\ Promise!Failed(Ended[First]) <=> Failed(OutcomeOf(winner))
        /\ Promise!Thrown(First) = Thrown(winner)
        /\ Promise!Reads(Promise!Value(First)) = Reads(ValueOf(winner))
    BY <2>3, <2>4, OneViewOfValues, EndedIsTheOutcome
  <2>7. CASE Failed(OutcomeOf(winner))
    <3>1. Promise!RaceAnswers = {Promise!Thrown(First)}
      BY <2>4, <2>5, <2>6, <2>7 DEF Promise!RaceAnswers
    <3> QED
      BY <1>2, <2>1, <2>6, <2>7, <3>1
  <2>8. CASE ~Failed(OutcomeOf(winner))
    <3> DEFINE value == [index |-> winner - 1, value |-> Reads(ValueOf(winner))]
    <3>1. Promise!RaceAnswers = {[next |-> Promise!Obj(value)]}
      BY <2>4, <2>5, <2>6, <2>8 DEF Promise!RaceAnswers
    <3> QED
      BY <1>2, <2>1, <2>8, <3>1, OneViewOfValues
  <2> QED
    BY <2>7, <2>8
<1> QED
  BY <1>3, <1>4

LEMMA SingleIsPromised ==
  ASSUME Inv, given # NONE, task.type \notin Composites
  PROVE  given \in Promise!Answers
<1>1. PICK n \in Nat : /\ n <= Len(comps)
                       /\ \E r \in PollResults(n) : given = Fed(r, task.type, task.typed)
  BY GivenIsOfAPoll
<1>2. Rejections = {} /\ Promise!Refusals = {}
  BY OneViewOfParts DEF Rejections, Composites
<1>3. CASE task.type = "orchestration"
  <2>1. given = Fed(Ok(Json(Null)), "orchestration", task.typed)
    BY <1>1, <1>2, <1>3 DEF PollResults
  <2>2. given = [next |-> Null]
    BY <2>1 DEF Fed, Failed, Ok, Parsed, Json, IsJson, applyTypedParsing
  <2> QED
    BY <1>2, <1>3, <2>2, OneViewOfValues DEF Promise!Answers
<1>4. CASE task.type # "orchestration"
  <2>1. given = IF Failed(OutcomeOf(1)) THEN Thrown(1)
                ELSE [next |-> IF task.type = "activity" THEN Reads(ValueOf(1)) ELSE ValueOf(1)]
    BY <1>4, AloneFollows DEF AloneGivesItsOwn
  <2>2. 1 \in Completed
    <3>1. PollResults(n) = ResultOf(1, n) /\ Supported(1)
      BY <1>2, <1>4 DEF PollResults, Supported, Composites
    <3> QED
      BY <1>1, <3>1, ResultIsOfTheOutcome DEF Inv
  <2>3. given \in Promise!AloneAnswers
    BY <2>1, <2>2, OneViewOfValues, EndedIsTheOutcome DEF Promise!AloneAnswers
  <2>4. Promise!Answers = Promise!AloneAnswers
    BY <1>2, <1>4 DEF Promise!Answers, Composites
  <2> QED
    BY <2>3, <2>4
<1> QED
  BY <1>3, <1>4

LEMMA AnswerIsPromised == Inv /\ given # NONE => given \in Promise!Answers
BY RefusalIsPromised, JoinIsPromised, RaceIsPromised, SingleIsPromised DEF Composites

LEMMA InitKeepsPromise == Init => Promise!Init
<1> SUFFICES ASSUME Init PROVE Promise!Init
  OBVIOUS
<1>1. comps = << >> /\ Completed = {}
  BY DEF Init, Completed
<1>2. Ended = << >>
  BY <1>1 DEF Ended
<1> QED
  BY <1>1, <1>2 DEF Init, First, Promise!Init

(* A poll that feeds the generator gives the answer, once.                 *)
LEMMA PollKeepsPromise ==
  ASSUME Inv, Inv', StartTurn \/ Deliver, given # NONE => given' = given,
         (Inv /\ given # NONE => given \in Promise!Answers)'
  PROVE  [Promise!Next]_Promise!vars
<1>1. UNCHANGED <<task, comps>>
  BY DEF StartTurn, Deliver
<1>2. UNCHANGED <<task, Ended, First>>
  BY <1>1 DEF Ended, First, Completed, OutcomeOf
<1>3. CASE given' = given
  BY <1>2, <1>3 DEF Promise!vars
<1>4. CASE given' # given
  <2>1. given = NONE /\ given' # NONE
    BY <1>4
  <2>2. given' \in Promise!Answers'
    BY <2>1
  <2>3. Promise!Answers' = Promise!Answers
    <3>1. Promise!Parts' = Promise!Parts /\ Promise!Refusals' = Promise!Refusals
      BY <1>1 DEF Promise!Parts, Promise!Refusals, Promise!Composites
    <3>2. Promise!AllAnswers' = Promise!AllAnswers
      BY <1>2, <3>1 DEF Promise!AllAnswers, Promise!Item, Promise!Usable, Promise!Reads,
        Promise!Value, Promise!Composites
    <3>3. Promise!RaceAnswers' = Promise!RaceAnswers
      BY <1>2, <3>1 DEF Promise!RaceAnswers, Promise!Usable, Promise!Reads,
        Promise!Value, Promise!Thrown, Promise!Composites
    <3>4. Promise!AloneAnswers' = Promise!AloneAnswers
      BY <1>2, <3>1 DEF Promise!AloneAnswers, Promise!Reads, Promise!Value, Promise!Thrown
    <3> QED
      BY <1>1, <3>1, <3>2, <3>3, <3>4 DEF Promise!Answers
  <2> QED
    BY <1>2, <2>1, <2>2, <2>3 DEF Promise!Next, Promise!Answer
<1> QED
  BY <1>3, <1>4

(* A completion ends one part, for good, and is the first if none was.     *)
LEMMA CompleteKeepsPromise ==
  ASSUME Inv, Inv', NEW k \in Positions, Complete(k)
  PROVE  Promise!Next
<1>1. PICK outcome \in Outcomes(Children[k].type) :
        comps' = Append(comps, [child |-> k, outcome |-> outcome])
  BY DEF Complete
<1>2. UNCHANGED <<task, given>> /\ Children' = Children
  BY DEF Complete, Children
<1>3. /\ k \in DOMAIN Children /\ k \notin Completed /\ k \in Opens
  BY DEF Complete, Inv, TypeOK, LosersAreCancelled
<1>4. Rejections = {} /\ task.type # "orchestration" /\ Supported(k)
  BY <1>3 DEF Opens
<1> DEFINE O == UNION {Outcomes(Children[j].type) : j \in DOMAIN Children}
           e == [child |-> k, outcome |-> outcome]
           S == [child : DOMAIN Children, outcome : O]
<1>5. comps \in Seq(S) /\ comps' \in Seq(S)
  <2>1. comps' \in Seq([child : DOMAIN Children', outcome :
           UNION {Outcomes(Children'[j].type) : j \in DOMAIN Children'}])
    BY DEF Inv, CompletionsFit
  <2> QED
    BY <1>2, <2>1 DEF Inv, CompletionsFit
<1> HIDE DEF O
<1>6. /\ Len(comps) \in Nat /\ DOMAIN comps = 1 .. Len(comps)
      /\ Len(comps') = Len(comps) + 1 /\ DOMAIN comps' = 1 .. Len(comps) + 1
      /\ \A c \in DOMAIN comps : comps'[c] = comps[c]
      /\ comps'[Len(comps) + 1] = e
  BY <1>1, <1>5, AppendProperties
<1>7. Completed' = Completed \cup {k}
  <2>1. \A c \in DOMAIN comps' : c \in DOMAIN comps \/ c = Len(comps) + 1
    BY <1>6
  <2> QED
    BY <1>6, <2>1 DEF Completed
<1>8. \A c, d \in DOMAIN comps' : comps'[c].child = comps'[d].child => c = d
  BY DEF Inv, CompletionsFit
<1>9. OutcomeOf(k)' = outcome
  <2>1. /\ Len(comps) + 1 \in DOMAIN comps' /\ comps'[Len(comps) + 1].child = k
        /\ comps'[Len(comps) + 1].outcome = outcome
    BY <1>6
  <2>2. (CHOOSE c \in DOMAIN comps' : comps'[c].child = k) = Len(comps) + 1
    BY <1>8, <2>1
  <2>3. OutcomeOf(k)' = comps'[Len(comps) + 1].outcome
    BY <2>2 DEF OutcomeOf
  <2> QED
    BY <2>1, <2>3
<1>10. ASSUME NEW j \in Completed PROVE OutcomeOf(j)' = OutcomeOf(j)
  <2>1. PICK c \in DOMAIN comps : comps[c].child = j
    BY DEF Completed
  <2>2. c \in DOMAIN comps' /\ comps'[c] = comps[c]
    BY <1>6
  <2>3. (CHOOSE d \in DOMAIN comps' : comps'[d].child = j) = c
    BY <1>8, <2>1, <2>2
  <2>4. (CHOOSE d \in DOMAIN comps : comps[d].child = j) = c
    BY <2>1 DEF Inv, CompletionsFit
  <2> QED
    BY <2>2, <2>3, <2>4 DEF OutcomeOf
<1>11. Ended' = Promise!With(Ended, k, outcome)
  BY <1>3, <1>7, <1>9, <1>10 DEF Ended, Promise!With
<1>12. First' = IF First = NONE THEN k ELSE First
  <2>1. (comps = << >> <=> Len(comps) = 0) /\ comps' # << >>
    <3> HIDE DEF S
    <3> QED
      BY <1>5, <1>6, EmptyHasNoLength
  <2>2. CASE comps = << >>
    <3>1. comps'[1] = e
      BY <1>6, <2>1, <2>2
    <3> QED
      BY <2>1, <2>2, <3>1 DEF First
  <2>3. CASE comps # << >>
    <3>1. 1 \in DOMAIN comps
      BY <1>6, <2>1, <2>3
    <3>2. comps[1] \in S
      <4> HIDE DEF S
      <4> QED
        BY <1>5, <3>1, ElementsBelong
    <3>3. comps[1].child \in DOMAIN Children /\ comps[1].child # NONE
      BY <3>2, ChildrenAreNumbered, TasksAssumption DEF Inv
    <3> QED
      BY <1>6, <2>1, <2>3, <3>1, <3>3 DEF First
  <2> QED
    BY <2>2, <2>3
<1>13. k \in DOMAIN Promise!Parts /\ Promise!Parts = Children
  BY <1>3, OneViewOfParts
<1>14. Promise!End(k)
  BY <1>2, <1>3, <1>4, <1>11, <1>12, <1>13, OneViewOfParts, EndedIsTheOutcome
    DEF Promise!End
<1> QED
  BY <1>13, <1>14 DEF Promise!Next

(* Turns, replays and lost turns keep the promise of TaskPromise: a task   *)
(* has one answer, the promised one, for every task, every order of        *)
(* completions and every number of turns.                                  *)
THEOREM TaskImplementsPromise == Spec => ImplementsPromise
<1>1. ASSUME Inv, Inv', [Next]_vars, (Inv /\ given # NONE => given \in Promise!Answers)'
      PROVE  [Promise!Next]_Promise!vars
  <2>1. given # NONE => given' = given
    BY <1>1, NextKeepsInv
  <2>2. CASE StartTurn \/ Deliver
    BY <1>1, <2>1, <2>2, PollKeepsPromise
  <2>3. CASE \E k \in Positions : Complete(k)
    BY <1>1, <2>3, CompleteKeepsPromise
  <2>4. CASE Commit \/ LoseTurn \/ Over \/ UNCHANGED vars
    <3>1. UNCHANGED <<task, comps, given>>
      BY <2>4 DEF Commit, LoseTurn, Over, vars
    <3> QED
      BY <3>1 DEF Promise!vars, Ended, First, Completed, OutcomeOf
  <2> QED
    BY <1>1, <2>2, <2>3, <2>4 DEF Next
<1> QED
  BY <1>1, AnswerIsPromised, InitKeepsPromise, TaskInvariant, PTL
    DEF Spec, ImplementsPromise, Promise!Spec
=============================================================================
