---------------------- MODULE OrchestrationVersions_proofs ----------------------
EXTENDS OrchestrationVersions, TLAPS

(***************************************************************************)
(* Proofs about the versions executions run at and the functions found for *)
(* them, for any runtimes, stores, versions and instances, and any number  *)
(* of registrations and restarts.  The argument: what an engine serves can *)
(* be looked up (LookupIsAuthored), and nothing but a restart takes        *)
(* anything out of the Map, when no turn is on any more.                   *)
(***************************************************************************)

(* What a lookup in the Map finds is a function that was registered for    *)
(* the version looked up, if the Map has that version under either name.   *)
LEMMA LookupIsAuthored ==
  ASSUME TypeOK, KeysAreAuthored, NEW v \in Versions,
         \E k \in DOMAIN orchestrationFunctions : VersionOf(k) = v
  PROVE  Lookup(v) \in Functions /\ Lookup(v) \in authored[v]
BY VersionsAssumption DEF TypeOK, KeysAreAuthored, Lookup, VersionOf, Keys

LEMMA InitInv == Init => Inv
BY VersionsAssumption
DEF Init, Inv, TypeOK, TurnsResolve, RegisteredIsKnown, KeysAreAuthored, PinnedAsAsked,
    ServedIsFound, RunsItsVersion, RunsAsAsked, NoFunctions, Keys

(* Registrations, start() and a restart keep the invariant.                *)
LEMMA ProcessKeepsInv ==
  ASSUME Inv
  PROVE  /\ \A r \in Runtimes, k \in Keys, f \in Functions : Register(r, k, f) => Inv'
         /\ \A r \in Runtimes : Start(r) => Inv'
         /\ Restart => Inv'
<1> USE VersionsAssumption
    DEF Inv, TypeOK, TurnsResolve, RegisteredIsKnown, KeysAreAuthored, PinnedAsAsked,
        ServedIsFound, RunsItsVersion, RunsAsAsked, Keys, VersionOf, instanceVars
<1>1. ASSUME NEW r \in Runtimes, NEW k \in Keys, NEW f \in Functions, Register(r, k, f)
      PROVE  Inv'
  <2>1. /\ orchestrationFunctions' =
             [j \in DOMAIN orchestrationFunctions \cup {k} |->
                IF j = k THEN f ELSE orchestrationFunctions[j]]
        /\ orchestration_names' = [orchestration_names EXCEPT ![r] = @ \cup {k}]
        /\ authored' = [authored EXCEPT ![VersionOf(k)] = @ \cup {f}]
        /\ registrations' = registrations + 1
        /\ UNCHANGED <<registry, started, restarts, instanceVars>>
    BY <1>1 DEF Register, FunctionsAfter, With
  <2>2. TypeOK' /\ TurnsResolve'
    BY <2>1
  <2>3. RegisteredIsKnown'
    BY <2>1
  <2>4. KeysAreAuthored'
    <3>1. VersionOf(k) \in Versions /\ f \in authored'[VersionOf(k)]
      BY <2>1
    <3>2. \A w \in Versions : authored[w] \subseteq authored'[w]
      BY <2>1
    <3>3. ASSUME NEW j \in DOMAIN orchestrationFunctions
          PROVE  orchestrationFunctions[j] \in authored'[VersionOf(j)]
      BY <3>2
    <3> QED
      BY <2>1, <3>1, <3>3
  <2>5. PinnedAsAsked' /\ ServedIsFound' /\ RunsAsAsked'
    BY <2>1
  <2>6. RunsItsVersion'
    BY <2>1
  <2> QED
    BY <2>2, <2>3, <2>4, <2>5, <2>6
<1>2. ASSUME NEW r \in Runtimes, Start(r) PROVE Inv'
  BY <1>2 DEF Start
<1>3. ASSUME Restart PROVE Inv'
  BY <1>3 DEF Restart, NoFunctions
<1> QED
  BY <1>1, <1>2, <1>3

(* The steps of executions but the turns' beginnings keep the invariant.   *)
LEMMA ExecutionKeepsInv ==
  ASSUME Inv, NEW x \in Instances, NEW v \in Keys
  PROVE  /\ StartOrchestration(x, v) => Inv'
         /\ ContinueAsNew(x, v) => Inv'
         /\ Commit(x) => Inv'
         /\ LoseTurn(x) => Inv'
<1> USE VersionsAssumption
    DEF Inv, TypeOK, TurnsResolve, RegisteredIsKnown, KeysAreAuthored, PinnedAsAsked,
        ServedIsFound, RunsItsVersion, RunsAsAsked, Keys, processVars
<1>1. ASSUME StartOrchestration(x, v) PROVE Inv'
  BY <1>1 DEF StartOrchestration, Begin, Told
<1>2. ASSUME ContinueAsNew(x, v) PROVE Inv'
  BY <1>2 DEF ContinueAsNew, EndTurn, Begin, Told
<1>3. ASSUME Commit(x) PROVE Inv'
  <2>1. /\ pinned' = [pinned EXCEPT ![x] = resolved[x]]
        /\ ran' = [ran EXCEPT ![x] = @ \cup ({running[x]} \ {NONE})]
        /\ resolved' = [resolved EXCEPT ![x] = NONE]
        /\ running' = [running EXCEPT ![x] = NONE]
        /\ \E then \in {"due", "over"} : life' = [life EXCEPT ![x] = then]
        /\ life[x] = "turn"
        /\ UNCHANGED <<processVars, wanted, asked>>
    BY <1>3 DEF Commit, EndTurn
  <2>2. TypeOK' /\ TurnsResolve'
    BY <2>1
  <2>3. RunsItsVersion'
    BY <2>1
  <2> QED
    BY <2>1, <2>2, <2>3
<1>4. ASSUME LoseTurn(x) PROVE Inv'
  BY <1>4 DEF LoseTurn, EndTurn
<1> QED
  BY <1>1, <1>2, <1>3, <1>4

(* A turn begins at the right version, and with a function of it.          *)
LEMMA TurnKeepsInv ==
  ASSUME Inv, NEW r \in Runtimes, NEW x \in Instances, Turn(r, x)
  PROVE  Inv'
<1>1. PICK v \in Dispatched(r, x) :
        /\ resolved' = [resolved EXCEPT ![x] = v]
        /\ running' = [running EXCEPT ![x] = Lookup(v)]
  BY DEF Turn
<1>2. v \in registry[r] /\ v \in Versions
  BY <1>1 DEF Dispatched, Inv, TypeOK
<1>3. /\ pinned[x] # NONE => v = pinned[x]
      /\ pinned[x] = NONE /\ wanted[x] # NONE => v = wanted[x]
  BY <1>1 DEF Dispatched
<1>4. Lookup(v) \in Functions /\ Lookup(v) \in authored[v]
  BY <1>2, LookupIsAuthored DEF Inv, RegisteredIsKnown
<1>5. /\ life' = [life EXCEPT ![x] = "turn"]
      /\ UNCHANGED <<processVars, wanted, asked, pinned, ran>>
  BY DEF Turn
<1> USE VersionsAssumption, <1>1, <1>2, <1>5
    DEF Inv, TypeOK, Keys, processVars
<1>6. TypeOK' /\ TurnsResolve'
  BY <1>4 DEF TurnsResolve
<1>7. RegisteredIsKnown' /\ KeysAreAuthored' /\ PinnedAsAsked'
  BY DEF RegisteredIsKnown, KeysAreAuthored, PinnedAsAsked, VersionOf
<1>8. ServedIsFound' /\ RunsItsVersion'
  BY <1>4 DEF ServedIsFound, RunsItsVersion
<1>9. RunsAsAsked'
  BY <1>3 DEF RunsAsAsked, PinnedAsAsked
<1> QED
  BY <1>6, <1>7, <1>8, <1>9

(* The inductive invariant of the registrations and the executions.        *)
THEOREM VersionsInvariant == Spec => []Inv
<1>1. Inv /\ [Next]_vars => Inv'
  <2> SUFFICES ASSUME Inv, [Next]_vars PROVE Inv'
    OBVIOUS
  <2>1. CASE UNCHANGED vars
    BY <2>1
    DEF Inv, TypeOK, TurnsResolve, RegisteredIsKnown, KeysAreAuthored, PinnedAsAsked,
        ServedIsFound, RunsItsVersion, RunsAsAsked, vars, processVars, instanceVars
  <2>2. CASE Next
    <3>1. ASSUME NEW x \in Instances, NEW y \in Instances, NEW v \in Keys, StartFrom(x, y, v)
          PROVE  Inv'
      BY <3>1, ExecutionKeepsInv DEF StartFrom
    <3>2. ASSUME NEW x \in Instances, Commit(x) \/ LoseTurn(x) PROVE Inv'
      BY <3>2, ExecutionKeepsInv DEF Keys
    <3> QED
      BY <2>2, <3>1, <3>2, ProcessKeepsInv, ExecutionKeepsInv, TurnKeepsInv DEF Next
  <2> QED
    BY <2>1, <2>2
<1> QED
  BY InitInv, <1>1, PTL DEF Spec

(* Every dispatched turn finds its function (createGenerator of            *)
(* duroxide.js), it is one registered for the version that runs, and that  *)
(* is the version asked for and pinned.                                    *)
THEOREM VersionsSafety == Spec => [](ServedIsFound /\ RunsItsVersion /\ RunsAsAsked)
<1>1. Inv => ServedIsFound /\ RunsItsVersion /\ RunsAsAsked
  BY DEF Inv
<1> QED
  BY VersionsInvariant, <1>1, PTL

-----------------------------------------------------------------------------
(* The contract of VersionContract.  Registrations author code, start()    *)
(* and what the Map holds are not seen, and a turn that begins runs what   *)
(* the invariant says of the state it leads to.                            *)

LEMMA ProcessKeepsContract ==
  ASSUME Inv
  PROVE  /\ \A r \in Runtimes, k \in Keys, f \in Functions :
              Register(r, k, f) => Contract!Next
         /\ \A r \in Runtimes : Start(r) => UNCHANGED Contract!vars
         /\ Restart => Contract!Next
<1> USE DEF Contract!Next, Contract!vars
<1>1. ASSUME NEW r \in Runtimes, NEW k \in Keys, NEW f \in Functions, Register(r, k, f)
      PROVE  Contract!Next
  <2>1. VersionOf(k) \in Versions
    BY VersionsAssumption DEF VersionOf, Keys
  <2>2. Contract!Author(VersionOf(k), f)
    BY <1>1 DEF Register, Contract!Author, instanceVars
  <2> QED
    BY <2>1, <2>2
<1>2. ASSUME NEW r \in Runtimes, Start(r) PROVE UNCHANGED Contract!vars
  BY <1>2 DEF Start, instanceVars
<1>3. ASSUME Restart PROVE Contract!Next
  BY <1>3 DEF Restart, Contract!Restart
<1> QED
  BY <1>1, <1>2, <1>3

LEMMA ExecutionKeepsContract ==
  ASSUME Inv, NEW x \in Instances, NEW v \in Keys
  PROVE  /\ StartOrchestration(x, v) => Contract!Next
         /\ ContinueAsNew(x, v) => Contract!Next
         /\ Commit(x) => Contract!Next
         /\ LoseTurn(x) => Contract!Next
<1> USE DEF Contract!Next, processVars, Keys
<1>1. ASSUME StartOrchestration(x, v) PROVE Contract!Next
  <2> Contract!Begin(x, v)
    BY <1>1 DEF StartOrchestration, Begin, Contract!Begin
  <2> QED
    OBVIOUS
<1>2. ASSUME ContinueAsNew(x, v) PROVE Contract!Next
  <2> Contract!Continue(x, v)
    BY <1>2 DEF ContinueAsNew, EndTurn, Begin, Contract!Continue, Contract!EndTurn
  <2> QED
    OBVIOUS
<1>3. ASSUME Commit(x) PROVE Contract!Next
  <2> Contract!Commit(x)
    BY <1>3 DEF Commit, EndTurn, Contract!Commit, Contract!EndTurn
  <2> QED
    OBVIOUS
<1>4. ASSUME LoseTurn(x) PROVE Contract!Next
  <2> Contract!Lose(x)
    BY <1>4 DEF LoseTurn, EndTurn, Contract!Lose, Contract!EndTurn
  <2> QED
    OBVIOUS
<1> QED
  BY <1>1, <1>2, <1>3, <1>4

(* The turn that begins runs at the version asked for, or else at the one  *)
(* its execution was committed at, and it runs code of that version.       *)
LEMMA TurnKeepsContract ==
  ASSUME Inv, Inv', NEW r \in Runtimes, NEW x \in Instances, Turn(r, x)
  PROVE  Contract!Next
<1>1. PICK v \in Dispatched(r, x) :
        /\ resolved' = [resolved EXCEPT ![x] = v]
        /\ running' = [running EXCEPT ![x] = Lookup(v)]
  BY DEF Turn
<1>2. v \in Versions /\ resolved'[x] = v /\ running'[x] = Lookup(v) /\ life'[x] = "turn"
  BY <1>1 DEF Dispatched, Inv, TypeOK, Turn
<1>3. /\ life[x] = "due" /\ life' = [life EXCEPT ![x] = "turn"]
      /\ UNCHANGED <<authored, asked, pinned>>
  BY DEF Turn, processVars
<1>4. Lookup(v) # NONE /\ Lookup(v) \in authored[v] /\ Lookup(v) \in Functions
  BY <1>2, <1>3 DEF Inv, ServedIsFound, RunsItsVersion, TypeOK
<1>5. asked[x] \in {v, NONE} /\ pinned[x] \in {v, NONE}
  BY <1>2, <1>3 DEF Inv, RunsAsAsked
<1>6. Contract!Turn(x, v, Lookup(v))
  BY <1>1, <1>3, <1>4, <1>5 DEF Contract!Turn
<1> QED
  BY <1>2, <1>4, <1>6 DEF Contract!Next

(* No execution changes its version or runs another version's code: the    *)
(* registrations, the engines' choices and createGenerator's two lookups   *)
(* keep the contract, for any runtimes, stores, versions and restarts.     *)
THEOREM VersionsImplementContract == Spec => ImplementsContract
<1>1. Init => Contract!Init
  BY DEF Init, Contract!Init
<1>2. Inv /\ Inv' /\ [Next]_vars => [Contract!Next]_Contract!vars
  <2> SUFFICES ASSUME Inv, Inv', [Next]_vars PROVE [Contract!Next]_Contract!vars
    OBVIOUS
  <2>1. CASE UNCHANGED vars
    BY <2>1 DEF vars, processVars, instanceVars, Contract!vars
  <2>2. CASE Next
    <3>1. ASSUME NEW x \in Instances, NEW y \in Instances, NEW v \in Keys, StartFrom(x, y, v)
          PROVE  Contract!Next
      BY <3>1, ExecutionKeepsContract DEF StartFrom
    <3>2. ASSUME NEW x \in Instances, Commit(x) \/ LoseTurn(x) PROVE Contract!Next
      BY <3>2, ExecutionKeepsContract DEF Keys
    <3> QED
      BY <2>2, <3>1, <3>2, ProcessKeepsContract, ExecutionKeepsContract, TurnKeepsContract
      DEF Next
  <2> QED
    BY <2>1, <2>2
<1> QED
  BY VersionsInvariant, <1>1, <1>2, PTL DEF Spec, ImplementsContract, Contract!Spec
=============================================================================
