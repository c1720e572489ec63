------------------------ MODULE RuntimeLifecycle_proofs ------------------------
EXTENDS RuntimeLifecycle, FiniteSetTheorems, TLAPS

(***************************************************************************)
(* Proofs about the life of a runtime object, for every set of names and   *)
(* any number of calls of start() and shutdown().  The argument: Inv of    *)
(* module RuntimeLifecycle is inductive.  Registrations and the calls      *)
(* themselves change little; the steps that matter are the two bodies and  *)
(* the two moves of an engine, one lemma each.                             *)
(***************************************************************************)

LEMMA InitInv == Init => Inv
  BY CallsAssumption
  DEF Init, Inv, TypeOK, DriverTakenOnce, EnginesFollowCalls, EngineHeldOnce,
      EarlyIsKept, EarlyIsServed, ShutdownWaits, Calls, CallStates, EngineStates

(* Registering and calling keep the invariant.                              *)
LEMMA ProgramKeepsInv ==
  ASSUME Inv
  PROVE  /\ \A n \in Names : Register(n) => Inv'
         /\ \A s \in Starts : CallStart(s) => Inv'
         /\ \A d \in Stops : CallShutdown(d) => Inv'
<1> USE CallsAssumption
    DEF Inv, TypeOK, DriverTakenOnce, EnginesFollowCalls, EngineHeldOnce,
        EarlyIsKept, EarlyIsServed, ShutdownWaits, Calls, CallStates, EngineStates
<1>1. ASSUME NEW n \in Names, Register(n) PROVE Inv'
  BY <1>1 DEF Register, NeverStarted
<1>2. ASSUME NEW s \in Starts, CallStart(s) PROVE Inv'
  BY <1>2 DEF CallStart, CallBecomes
<1>3. ASSUME NEW d \in Stops, CallShutdown(d) PROVE Inv'
  BY <1>3 DEF CallShutdown, CallBecomes
<1> QED
  BY <1>1, <1>2, <1>3

(* The steps of start() and of the engine it makes keep the invariant.      *)
LEMMA StartKeepsInv ==
  ASSUME Inv, NEW s \in Starts
  PROVE  /\ StartBuilds(s) => Inv'
         /\ EngineStarts(s) => Inv'
         /\ StartReturns(s) => Inv'
         /\ EngineStops(s) => Inv'
<1> USE CallsAssumption
    DEF Inv, TypeOK, DriverTakenOnce, EnginesFollowCalls, EngineHeldOnce,
        EarlyIsKept, EarlyIsServed, ShutdownWaits, Calls, CallStates, EngineStates,
        CallBecomes, EngineBecomes
<1>1. ASSUME StartBuilds(s) PROVE Inv'
  <2>1. /\ call[s] = "queued" /\ engine[s] = "none"
        /\ driver' = FALSE
        /\ UNCHANGED <<inner, taken, early, covered>>
    BY <1>1 DEF StartBuilds, DriverAfterTake
  <2>2. CASE driver
    <3>1. /\ registered' = {}
          /\ call' = [call EXCEPT ![s] = "awaiting"]
          /\ engine' = [engine EXCEPT ![s] = "starting"]
          /\ served' = [served EXCEPT ![s] = registered]
      BY <1>1, <2>2 DEF StartBuilds, Registries
    <3>2. TypeOK'
      BY <2>1, <2>2, <3>1
    <3> QED
      BY <2>1, <2>2, <3>1, <3>2
  <2>3. CASE ~driver
    <3>1. /\ registered' = registered \ Activities
          /\ call' = [call EXCEPT ![s] = "rejected"]
          /\ UNCHANGED <<engine, served>>
      BY <1>1, <2>3 DEF StartBuilds
    <3>2. TypeOK'
      BY <2>1, <3>1
    <3>3. DriverTakenOnce' /\ EarlyIsKept' /\ EarlyIsServed'
      BY <2>1, <2>3, <3>1
    <3>4. EnginesFollowCalls' /\ EngineHeldOnce'
      BY <2>1, <3>1
    <3>5. ShutdownWaits'
      BY <2>1, <3>1
    <3> QED
      BY <3>2, <3>3, <3>4, <3>5
  <2> QED
    BY <2>2, <2>3
<1>2. ASSUME EngineStarts(s) PROVE Inv'
  BY <1>2 DEF EngineStarts
<1>3. ASSUME StartReturns(s) PROVE Inv'
  BY <1>3 DEF StartReturns
<1>4. ASSUME EngineStops(s) PROVE Inv'
  BY <1>4 DEF EngineStops
<1> QED
  BY <1>1, <1>2, <1>3, <1>4

(* The steps of shutdown() keep the invariant.                              *)
LEMMA ShutdownKeepsInv ==
  ASSUME Inv, NEW d \in Stops
  PROVE  /\ ShutdownTakes(d) => Inv'
         /\ ShutdownReturns(d) => Inv'
<1> USE CallsAssumption
    DEF Inv, TypeOK, DriverTakenOnce, EnginesFollowCalls, EngineHeldOnce,
        EarlyIsKept, EarlyIsServed, ShutdownWaits, Calls, CallStates, EngineStates,
        CallBecomes, EngineBecomes
<1>1. ASSUME ShutdownTakes(d) PROVE Inv'
  BY <1>1 DEF ShutdownTakes, InnerAfterTake
<1>2. ASSUME ShutdownReturns(d) PROVE Inv'
  BY <1>2 DEF ShutdownReturns
<1> QED
  BY <1>1, <1>2

(* The inductive invariant of the runtime object: its engine, the calls     *)
(* that start and stop it, and what it serves stay in step.                 *)
THEOREM LifecycleInvariant == Spec => []Inv
<1>1. Inv /\ [Next]_vars => Inv'
  <2> SUFFICES ASSUME Inv, [Next]_vars PROVE Inv'
    OBVIOUS
  <2>1. CASE UNCHANGED vars
    BY <2>1
    DEF Inv, TypeOK, DriverTakenOnce, EnginesFollowCalls, EngineHeldOnce,
        EarlyIsKept, EarlyIsServed, ShutdownWaits, vars
  <2>2. CASE Next
    BY <2>1, <2>2, ProgramKeepsInv, StartKeepsInv, ShutdownKeepsInv
    DEF Next, Start, Shutdown, Idle
  <2> QED
    BY <2>1, <2>2
<1> QED
  BY InitInv, <1>1, PTL DEF Spec

(* One engine at most, in reach for as long as it works, serving all that   *)
(* was registered before the first start(), and waited for by the           *)
(* shutdown() that took it (start and shutdown of runtime.rs).              *)
THEOREM LifecycleSafety ==
  Spec => [](OneEngine /\ NoEngineOutOfReach /\ EarlyIsServed /\ ShutdownWaits)
<1>1. Inv => OneEngine
  <2> SUFFICES ASSUME Inv PROVE OneEngine
    OBVIOUS
  <2>1. CASE Made = {}
    BY <2>1, FS_EmptySet DEF OneEngine, Made
  <2>2. CASE Made # {}
    <3>1. PICK s : s \in Made
      BY <2>2
    <3>2. Made = {s}
      BY <3>1 DEF Inv, DriverTakenOnce, Made
    <3>3. Cardinality({s}) = 1
      BY FS_Singleton
    <3> QED
      BY <3>2, <3>3 DEF OneEngine, Made
  <2> QED
    BY <2>1, <2>2
<1>2. Inv => NoEngineOutOfReach
  BY DEF Inv, NoEngineOutOfReach, Alive, EnginesFollowCalls, TypeOK
<1>3. Inv => EarlyIsServed /\ ShutdownWaits
  BY DEF Inv
<1> QED
  BY LifecycleInvariant, <1>1, <1>2, <1>3, PTL

-----------------------------------------------------------------------------
(***************************************************************************)
(* The contract.  There is one engine to see (OneMade) and one shutdown()  *)
(* has it (OneTaker); each body, return and move of the engine is then the *)
(* step of the same name, and each call a call.                            *)
(***************************************************************************)
OneEngineSeen ==
  /\ \A s \in Starts : engine[s] # "none" => Made = {s} /\ Maker = s
  /\ Made = {} <=> Maker = NONE
  /\ Made = {} <=> \A s \in Starts : engine[s] = "none"

OneTakerSeen ==
  /\ \A d \in Stops : taken[d] # NONE => Takers = {d} /\ Stopper = d
  /\ Takers = {} <=> Stopper = NONE
  /\ Takers = {} <=> \A d \in Stops : taken[d] = NONE

LEMMA OneMade == Inv => OneEngineSeen
<1> SUFFICES ASSUME Inv PROVE OneEngineSeen
  OBVIOUS
<1>1. ASSUME NEW s \in Starts, engine[s] # "none" PROVE Made = {s} /\ Maker = s
  <2>1. Made = {s}
    BY <1>1 DEF Inv, DriverTakenOnce, Made
  <2> QED
    BY <2>1 DEF Maker
<1>2. ASSUME Made # {} PROVE Maker # NONE
  <2>1. PICK s \in Starts : engine[s] # "none"
    BY <1>2 DEF Made
  <2> QED
    BY <1>1, <2>1, CallsAssumption
<1>3. Made = {} => Maker = NONE
  BY DEF Maker
<1>4. Made = {} <=> \A s \in Starts : engine[s] = "none"
  BY DEF Made
<1> QED
  BY <1>1, <1>2, <1>3, <1>4 DEF OneEngineSeen

LEMMA OneTaker == Inv => OneTakerSeen
<1> SUFFICES ASSUME Inv PROVE OneTakerSeen
  OBVIOUS
<1>1. ASSUME NEW d \in Stops, taken[d] # NONE, NEW e \in Stops, taken[e] # NONE
      PROVE  d = e
  <2>1. /\ taken[d] \in Starts /\ engine[taken[d]] # "none"
        /\ taken[e] \in Starts /\ engine[taken[e]] # "none"
    BY <1>1 DEF Inv, TypeOK, EngineHeldOnce
  <2>2. taken[d] = taken[e]
    BY <2>1 DEF Inv, DriverTakenOnce
  <2> QED
    BY <1>1, <2>2 DEF Inv, ShutdownWaits
<1>2. ASSUME NEW d \in Stops, taken[d] # NONE PROVE Takers = {d} /\ Stopper = d
  <2>1. Takers = {d}
    BY <1>1, <1>2 DEF Takers
  <2> QED
    BY <2>1 DEF Stopper
<1>3. ASSUME Takers # {} PROVE Stopper # NONE
  <2>1. PICK d \in Stops : taken[d] # NONE
    BY <1>3 DEF Takers
  <2> QED
    BY <1>2, <2>1, CallsAssumption
<1>4. (Takers = {} => Stopper = NONE) /\ (Takers = {} <=> \A d \in Stops : taken[d] = NONE)
  BY DEF Stopper, Takers
<1> QED
  BY <1>2, <1>3, <1>4 DEF OneTakerSeen

LEMMA SeenNext == Inv' => OneEngineSeen' /\ OneTakerSeen'
<1>1. Inv => OneEngineSeen /\ OneTakerSeen
  BY OneMade, OneTaker
<1> QED
  BY <1>1, PTL

(* The engine of a start is the engine that is seen.                       *)
LEMMA SeenEngine ==
  ASSUME Inv, NEW s \in Starts, engine[s] # "none"
  PROVE  /\ Made # {} /\ Maker = s
         /\ (IF Made = {} THEN "none" ELSE engine[Maker]) = engine[s]
         /\ (IF Made = {} THEN {} ELSE served[Maker]) = served[s]
<1>1. Made = {s} /\ Maker = s
  BY OneMade DEF OneEngineSeen
<1> QED
  BY <1>1

LEMMA SeenCalls ==
  ASSUME Inv, Inv', NEW c \in Calls, NEW state, CallBecomes(c, state)
  PROVE  [e \in Calls |-> Seen(e)]' =
           [[e \in Calls |-> Seen(e)] EXCEPT
              ![c] = IF state \in {"queued", "awaiting"} THEN "called" ELSE state]
  BY DEF Inv, TypeOK, CallBecomes, Seen

LEMMA ProgramKeepsContract ==
  ASSUME Inv, Inv'
  PROVE  /\ \A n \in Names : Register(n) => [Contract!Next]_Contract!vars
         /\ \A s \in Starts : CallStart(s) => Contract!Next
         /\ \A d \in Stops : CallShutdown(d) => Contract!Next
<1>1. ASSUME NEW n \in Names, Register(n) PROVE [Contract!Next]_Contract!vars
  <2>1. UNCHANGED <<call, engine, served, taken>>
    BY <1>1 DEF Register
  <2>2. UNCHANGED <<[c \in Calls |-> Seen(c)], Made, Maker, Stopper>>
    BY <2>1 DEF Seen, Made, Maker, Stopper, Takers
  <2>3. CASE NeverStarted
    <3>1. Contract!Register(n)
      BY <1>1, <2>1, <2>2, <2>3 DEF Contract!Register, Register, NeverStarted, Seen, Calls
    <3> QED
      BY <3>1 DEF Contract!Next
  <2>4. CASE ~NeverStarted
    BY <1>1, <2>1, <2>2, <2>4 DEF Contract!vars, Register
  <2> QED
    BY <2>3, <2>4
<1>2. ASSUME NEW c \in Calls, call[c] = "idle", CallBecomes(c, "queued"),
             UNCHANGED <<engine, served, taken, early>>
      PROVE  Contract!Next
  <2>1. UNCHANGED <<Made, Maker, Stopper>>
    BY <1>2 DEF Made, Maker, Stopper, Takers
  <2>2. [e \in Calls |-> Seen(e)]' = [[e \in Calls |-> Seen(e)] EXCEPT ![c] = "called"]
    BY <1>2, SeenCalls
  <2>3. Contract!Call(c)
    BY <1>2, <2>1, <2>2 DEF Contract!Call, Contract!Becomes, Seen
  <2> QED
    BY <2>3 DEF Contract!Next, Contract!Calls, Calls
<1> QED
  BY <1>1, <1>2 DEF CallStart, CallShutdown, Calls

LEMMA StartKeepsContract ==
  ASSUME Inv, Inv', NEW s \in Starts
  PROVE  /\ StartBuilds(s) => Contract!Next
         /\ EngineStarts(s) => Contract!Next
         /\ StartReturns(s) => Contract!Next
         /\ EngineStops(s) => Contract!Next
<1> DEFINE calls == [c \in Calls |-> Seen(c)]
<1>1. ASSUME StartBuilds(s) PROVE Contract!Next
  <2>1. call[s] = "queued" /\ engine[s] = "none" /\ calls[s] = "called"
    BY <1>1 DEF StartBuilds, Inv, EnginesFollowCalls, Seen, Calls
  <2>2. UNCHANGED <<early, Stopper>>
    BY <1>1 DEF StartBuilds, Stopper, Takers
  <2>3. CASE driver
    <3>1. Made = {} /\ Maker = NONE
      BY <2>3, OneMade DEF Inv, DriverTakenOnce, OneEngineSeen
    <3>2. /\ CallBecomes(s, "awaiting") /\ engine'[s] = "starting"
          /\ served'[s] = registered
      BY <1>1, <2>3 DEF StartBuilds, EngineBecomes, Registries, Inv, TypeOK
    <3>3. calls' = calls
      BY <2>1, <3>2, SeenCalls DEF Calls
    <3>4. (Made # {} /\ Maker = s)' /\ engine'[s] # "none"
      <4>1. engine'[s] # "none"
        BY <3>2
      <4> QED
        BY <4>1, SeenNext DEF OneEngineSeen
    <3>5. registered \in SUBSET Names /\ early \subseteq registered
      BY <2>3 DEF Inv, TypeOK, EarlyIsKept
    <3>6. Contract!Make(s)
      BY <2>1, <2>2, <3>1, <3>2, <3>3, <3>4, <3>5 DEF Contract!Make
    <3> QED
      BY <3>6 DEF Contract!Next
  <2>4. CASE ~driver
    <3>1. /\ CallBecomes(s, "rejected") /\ UNCHANGED <<engine, served>>
      BY <1>1, <2>4 DEF StartBuilds
    <3>2. UNCHANGED <<Made, Maker>>
      BY <3>1 DEF Made, Maker
    <3>3. calls' = [calls EXCEPT ![s] = "rejected"]
      BY <3>1, SeenCalls DEF Calls
    <3>4. Maker # s /\ Maker # NONE
      <4>1. PICK t \in Starts : engine[t] # "none"
        BY <2>4 DEF Inv, DriverTakenOnce
      <4> QED
        BY <2>1, <4>1, SeenEngine, CallsAssumption
    <3>5. Contract!StartFails(s)
      BY <2>1, <2>2, <3>1, <3>2, <3>3, <3>4 DEF Contract!StartFails, Contract!Becomes
    <3> QED
      BY <3>5 DEF Contract!Next
  <2> QED
    BY <2>3, <2>4
<1>2. ASSUME NEW from \in {"starting", "stopping"}, NEW to \in {"running", "stopped"},
             engine[s] = from, EngineBecomes(s, to),
             UNCHANGED <<call, served, taken, early>>
      PROVE  /\ (IF Made = {} THEN "none" ELSE engine[Maker]) = from
             /\ (IF Made = {} THEN "none" ELSE engine[Maker])' = to
             /\ UNCHANGED <<calls, early, Maker, Stopper>>
             /\ UNCHANGED (IF Made = {} THEN {} ELSE served[Maker])
  <2>1. engine[s] # "none" /\ engine'[s] = to /\ engine'[s] # "none"
    BY <1>2 DEF EngineBecomes, Inv, TypeOK
  <2>2. /\ Made # {} /\ Maker = s /\ (Made # {} /\ Maker = s)'
    BY <2>1, OneMade, SeenNext DEF OneEngineSeen
  <2>3. UNCHANGED <<calls, Stopper>>
    BY <1>2 DEF Seen, Stopper, Takers
  <2> QED
    BY <1>2, <2>1, <2>2, <2>3
<1>3. ASSUME EngineStarts(s) PROVE Contract!Next
  <2>1. Contract!Up
    BY <1>2, <1>3 DEF EngineStarts, Contract!Up
  <2> QED
    BY <2>1 DEF Contract!Next
<1>4. ASSUME EngineStops(s) PROVE Contract!Next
  <2>1. Contract!Down
    BY <1>2, <1>4 DEF EngineStops, Contract!Down
  <2> QED
    BY <2>1 DEF Contract!Next
<1>5. ASSUME StartReturns(s) PROVE Contract!Next
  <2>1. /\ call[s] = "awaiting" /\ engine[s] = "running" /\ CallBecomes(s, "resolved")
        /\ UNCHANGED <<engine, served, taken, early>>
    BY <1>5 DEF StartReturns
  <2>2. UNCHANGED <<Made, Maker, Stopper>>
    BY <2>1 DEF Made, Maker, Stopper, Takers
  <2>3. calls' = [calls EXCEPT ![s] = "resolved"] /\ calls[s] = "called"
    BY <2>1, SeenCalls DEF Calls, Seen
  <2>4. Maker = s /\ (IF Made = {} THEN "none" ELSE engine[Maker]) = "running"
    BY <2>1, SeenEngine
  <2>5. Contract!StartResolves(s)
    BY <2>1, <2>2, <2>3, <2>4 DEF Contract!StartResolves, Contract!Becomes
  <2> QED
    BY <2>5 DEF Contract!Next
<1> QED
  BY <1>1, <1>3, <1>4, <1>5

LEMMA ShutdownKeepsContract ==
  ASSUME Inv, Inv', NEW d \in Stops
  PROVE  /\ ShutdownTakes(d) => Contract!Next
         /\ ShutdownReturns(d) => Contract!Next
<1> DEFINE calls == [c \in Calls |-> Seen(c)]
<1>1. ASSUME ShutdownTakes(d), inner = NONE PROVE Contract!Next
  <2>1. /\ call[d] = "queued" /\ CallBecomes(d, "resolved")
        /\ UNCHANGED <<engine, served, taken, early>>
    BY <1>1 DEF ShutdownTakes
  <2>2. UNCHANGED <<Made, Maker, Stopper>>
    BY <2>1 DEF Made, Maker, Stopper, Takers
  <2>3. calls' = [calls EXCEPT ![d] = "resolved"] /\ calls[d] = "called"
    BY <2>1, SeenCalls DEF Calls, Seen
  <2>4. Stopper # d
    <3>1. taken[d] = NONE
      BY <2>1 DEF Inv, EngineHeldOnce
    <3>2. d \notin Takers
      BY <3>1 DEF Takers
    <3>3. CASE Takers = {}
      BY <3>3, OneTaker, CallsAssumption DEF OneTakerSeen
    <3>4. CASE Takers # {}
      <4>1. PICK e \in Stops : taken[e] # NONE
        BY <3>4 DEF Takers
      <4> QED
        BY <3>1, <4>1, OneTaker DEF OneTakerSeen
    <3> QED
      BY <3>3, <3>4
  <2>5. ASSUME Stopper = NONE, Maker # NONE PROVE calls[Maker] # "resolved"
    <3>1. PICK s \in Starts : engine[s] # "none"
      BY <2>5, OneMade DEF OneEngineSeen
    <3>2. Maker = s
      BY <3>1, SeenEngine
    <3>3. \A e \in Stops : taken[e] = NONE
      BY <2>5, OneTaker DEF OneTakerSeen
    <3>4. taken[d] # s /\ \A e \in Stops : taken[e] # s
      BY <3>3, CallsAssumption
    <3>5. engine[s] \in {"starting", "running"}
      BY <3>1, <3>4 DEF Inv, TypeOK, EngineStates, EnginesFollowCalls
    <3>6. call[s] # "resolved"
      BY <1>1, <3>5, CallsAssumption DEF Inv, EnginesFollowCalls
    <3> QED
      BY <3>2, <3>6 DEF Seen, Calls
  <2>6. Contract!ShutdownResolves(d)
    BY <2>1, <2>2, <2>3, <2>4, <2>5
      DEF Contract!ShutdownResolves, Contract!NothingToStop, Contract!Becomes
  <2> QED
    BY <2>6 DEF Contract!Next
<1>2. ASSUME ShutdownTakes(d), inner # NONE PROVE Contract!Next
  <2>1. /\ call[d] = "queued" /\ CallBecomes(d, "awaiting")
        /\ EngineBecomes(inner, "stopping") /\ taken' = [taken EXCEPT ![d] = inner]
        /\ UNCHANGED <<served, early>>
    BY <1>2 DEF ShutdownTakes
  <2>2. inner \in Starts /\ engine[inner] = "running" /\ call[inner] = "resolved"
    BY <1>2 DEF Inv, TypeOK, EngineHeldOnce
  <2>3. calls' = calls /\ calls[d] = "called" /\ calls[inner] = "resolved"
    <3>1. calls[d] = "called" /\ calls[inner] = "resolved"
      BY <2>1, <2>2 DEF Calls, Seen
    <3>2. calls' = [calls EXCEPT ![d] = "called"]
      BY <2>1, SeenCalls DEF Calls
    <3> QED
      BY <3>1, <3>2
  <2>4. engine'[inner] = "stopping" /\ taken'[d] = inner
    BY <2>1, <2>2 DEF EngineBecomes, Inv, TypeOK
  <2>5. /\ Made # {} /\ Maker = inner /\ (Made # {})' /\ Maker' = inner
    BY <2>2, <2>4, OneMade, SeenNext DEF OneEngineSeen
  <2>6. Stopper' = d
    BY <2>2, <2>4, SeenNext, CallsAssumption DEF OneTakerSeen
  <2>7. Contract!Stop(d)
    BY <2>1, <2>2, <2>3, <2>4, <2>5, <2>6 DEF Contract!Stop
  <2> QED
    BY <2>7 DEF Contract!Next
<1>3. ASSUME ShutdownReturns(d) PROVE Contract!Next
  <2>1. /\ call[d] = "awaiting" /\ engine[taken[d]] = "stopped" /\ CallBecomes(d, "resolved")
        /\ UNCHANGED <<engine, served, taken, early>>
    BY <1>3 DEF ShutdownReturns
  <2>2. UNCHANGED <<Made, Maker, Stopper>>
    BY <2>1 DEF Made, Maker, Stopper, Takers
  <2>3. calls' = [calls EXCEPT ![d] = "resolved"] /\ calls[d] = "called"
    BY <2>1, SeenCalls DEF Calls, Seen
  <2>4. taken[d] \in Starts /\ Stopper = d
    BY <2>1, OneTaker DEF Inv, TypeOK, EngineHeldOnce, OneTakerSeen
  <2>5. (IF Made = {} THEN "none" ELSE engine[Maker]) = "stopped"
    BY <2>1, <2>4, SeenEngine
  <2>6. Contract!ShutdownResolves(d)
    BY <2>1, <2>2, <2>3, <2>4, <2>5 DEF Contract!ShutdownResolves, Contract!Becomes
  <2> QED
    BY <2>6 DEF Contract!Next
<1> QED
  BY <1>1, <1>2, <1>3

(* Calls that overlap, and the fields they share, are details: the object  *)
(* keeps the contract of RuntimeContract for any number of calls.          *)
THEOREM LifecycleImplementsContract == Spec => ImplementsContract
<1>1. Init => Contract!Init
  <2> SUFFICES ASSUME Init PROVE Contract!Init
    OBVIOUS
  <2>1. Made = {} /\ Takers = {}
    BY DEF Init, Made, Takers
  <2>2. Maker = NONE /\ Stopper = NONE
    BY <2>1 DEF Maker, Stopper
  <2> QED
    BY <2>1, <2>2 DEF Init, Seen, Calls, Contract!Init, Contract!Calls
<1>2. ASSUME Inv, Inv', [Next]_vars PROVE [Contract!Next]_(Contract!vars)
  <2>1. CASE Idle \/ UNCHANGED vars
    <3>1. UNCHANGED vars
      BY <2>1 DEF Idle
    <3> QED
      BY <3>1 DEF vars, Contract!vars, Seen, Made, Maker, Stopper, Takers
  <2> QED
    BY <1>2, <2>1, ProgramKeepsContract, StartKeepsContract, ShutdownKeepsContract
      DEF Next, Start, Shutdown
<1> QED
  BY <1>1, <1>2, LifecycleInvariant, PTL DEF Spec, ImplementsContract, Contract!Spec
=============================================================================
