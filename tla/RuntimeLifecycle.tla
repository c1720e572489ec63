---------------------------- MODULE RuntimeLifecycle ----------------------------
(***************************************************************************)
(* JsRuntime of src/runtime.rs and the Runtime class of lib/duroxide.js:   *)
(* one runtime object, from its registrations over start() to shutdown().  *)
(*                                                                         *)
(* Registrations are synchronous calls.  start() and shutdown() are async: *)
(* the call only makes a promise, the body runs later on a tokio thread    *)
(* and is suspended while the engine starts or stops, so that calls made   *)
(* without awaiting the one before overlap.  A body runs without           *)
(* interruption between two awaits; that two bodies never touch the object *)
(* at the very same moment is the caller's duty ("Must not be called       *)
(* concurrently from multiple threads").  The engine, and how it starts    *)
(* and stops, is code of the duroxide crate.                               *)
(***************************************************************************)
EXTENDS Naturals, FiniteSets

CONSTANTS
  Names,       \* activities and orchestrations the program registers
  Activities,  \* those of them that are activities
  Starts,      \* calls of start(); one that succeeds names the engine it made
  Stops,       \* calls of shutdown()
  NONE

ASSUME CallsAssumption ==
  /\ Starts \cap Stops = {} /\ NONE \notin Starts \cup Stops
  /\ Activities \subseteq Names

VARIABLES
  registered,  \* activity_builders and orchestration_names
  driver,      \* create_fn, next_fn and dispose_fn are there
  inner,       \* the engine the object holds, or NONE
  call,        \* state of every call: made or not, and how it ended
  engine,      \* state of the engine a start made: none to stopped
  served,      \* the names that engine serves
  taken,       \* the engine a shutdown took out of the object, or NONE
  early,       \* names registered before the first call of start()
  covered      \* engines whose start had resolved when a shutdown was called

vars == <<registered, driver, inner, call, engine, served, taken, early, covered>>

Calls == Starts \cup Stops
CallStates == {"idle", "queued", "awaiting", "resolved", "rejected"}
EngineStates == {"none", "starting", "running", "stopping", "stopped"}

\* The constructor wires up the generator driver at once.
Init ==
  /\ registered = {}
  /\ driver = TRUE
  /\ inner = NONE
  /\ call = [c \in Calls |-> "idle"]
  /\ engine = [s \in Starts |-> "none"]
  /\ served = [s \in Starts |-> {}]
  /\ taken = [d \in Stops |-> NONE]
  /\ early = {}
  /\ covered = [d \in Stops |-> {}]

CallBecomes(c, state) == call' = [call EXCEPT ![c] = state]
EngineBecomes(s, state) == engine' = [engine EXCEPT ![s] = state]

NeverStarted == \A s \in Starts : call[s] = "idle"

-----------------------------------------------------------------------------
(* What the program calls.                                                  *)

Register(n) ==
  /\ n \notin registered
  /\ registered' = registered \cup {n}
  /\ early' = IF NeverStarted THEN early \cup {n} ELSE early
  /\ UNCHANGED <<driver, inner, call, engine, served, taken, covered>>

CallStart(s) ==
  /\ call[s] = "idle"
  /\ CallBecomes(s, "queued")
  /\ UNCHANGED <<registered, driver, inner, engine, served, taken, early, covered>>

CallShutdown(d) ==
  /\ call[d] = "idle"
  /\ CallBecomes(d, "queued")
  /\ covered' = [covered EXCEPT ![d] = {s \in Starts : call[s] = "resolved"}]
  /\ UNCHANGED <<registered, driver, inner, engine, served, taken, early>>

-----------------------------------------------------------------------------
(* start().                                                                 *)

\* Mutant: the driver functions are cloned out of the object, not taken.
DriverCloned == driver

DriverAfterTake == FALSE

\* Mutant: the registries are built from what is left once the driver is taken.
RegistriesAfterDrain == {}

Registries == registered

(***************************************************************************)
(* The body up to its await: the activity registrations are drained, then  *)
(* the driver functions are taken, then the orchestration registrations    *)
(* are drained.  The functions are there for the first body only; any      *)
(* later one fails for want of them, by then without its activities, while *)
(* its orchestrations stay registered.                                     *)
(***************************************************************************)
StartBuilds(s) ==
  /\ call[s] = "queued"
  /\ driver' = DriverAfterTake
  /\ IF driver
     THEN /\ registered' = {}
          /\ CallBecomes(s, "awaiting")
          /\ EngineBecomes(s, "starting")
          /\ served' = [served EXCEPT ![s] = Registries]
     ELSE /\ registered' = registered \ Activities
          /\ CallBecomes(s, "rejected")
          /\ UNCHANGED <<engine, served>>
  /\ UNCHANGED <<inner, taken, early, covered>>

\* The engine's dispatchers are up; the call has not returned yet.
EngineStarts(s) ==
  /\ engine[s] = "starting"
  /\ EngineBecomes(s, "running")
  /\ UNCHANGED <<registered, driver, inner, call, served, taken, early, covered>>

StartReturns(s) ==
  /\ call[s] = "awaiting"
  /\ engine[s] = "running"
  /\ inner' = s
  /\ CallBecomes(s, "resolved")
  /\ UNCHANGED <<registered, driver, engine, served, taken, early, covered>>

-----------------------------------------------------------------------------
(* shutdown().                                                              *)

\* Mutant: the engine stays in the object.
InnerKept == inner

InnerAfterTake == NONE

\* Mutant: a shutdown without an engine waits for one.
ShutdownTakesSome(d) ==
  /\ call[d] = "queued"
  /\ inner # NONE
  /\ inner' = NONE
  /\ CallBecomes(d, "awaiting")
  /\ EngineBecomes(inner, "stopping")
  /\ taken' = [taken EXCEPT ![d] = inner]
  /\ UNCHANGED <<registered, driver, served, early, covered>>

ShutdownTakes(d) ==
  /\ call[d] = "queued"
  /\ inner' = InnerAfterTake
  /\ IF inner = NONE
     THEN CallBecomes(d, "resolved") /\ UNCHANGED <<engine, taken>>
     ELSE /\ CallBecomes(d, "awaiting")
          /\ EngineBecomes(inner, "stopping")
          /\ taken' = [taken EXCEPT ![d] = inner]
  /\ UNCHANGED <<registered, driver, served, early, covered>>

\* Mutant: the shutdown resolves without waiting for the engine.
ShutdownAtOnce(d) ==
  /\ call[d] = "awaiting"
  /\ CallBecomes(d, "resolved")
  /\ UNCHANGED <<registered, driver, inner, engine, served, taken, early, covered>>

EngineStops(s) ==
  /\ engine[s] = "stopping"
  /\ EngineBecomes(s, "stopped")
  /\ UNCHANGED <<registered, driver, inner, call, served, taken, early, covered>>

ShutdownReturns(d) ==
  /\ call[d] = "awaiting"
  /\ engine[taken[d]] = "stopped"
  /\ CallBecomes(d, "resolved")
  /\ UNCHANGED <<registered, driver, inner, engine, served, taken, early, covered>>

-----------------------------------------------------------------------------
Start(s) == StartBuilds(s) \/ EngineStarts(s) \/ StartReturns(s)
Shutdown(d) == ShutdownTakes(d) \/ ShutdownReturns(d)

\* The program makes no more calls.
Idle == (\A c \in Calls : call[c] \in {"resolved", "rejected"}) /\ UNCHANGED vars

Next ==
  \/ \E n \in Names : Register(n)
  \/ \E s \in Starts : CallStart(s) \/ Start(s) \/ EngineStops(s)
  \/ \E d \in Stops : CallShutdown(d) \/ Shutdown(d)
  \/ Idle

Spec == Init /\ [][Next]_vars

\* tokio runs the bodies, and the engine starts and stops (shutdown cancels
\* what has not ended by its timeout).  Nothing obliges the program to call.
Fairness ==
  /\ \A s \in Starts : WF_vars(Start(s)) /\ WF_vars(EngineStops(s))
  /\ \A d \in Stops : WF_vars(Shutdown(d))

FairSpec == Spec /\ Fairness

-----------------------------------------------------------------------------
(* Properties.                                                              *)

\* Engines that still do or may do work.
Alive(s) == engine[s] \in {"starting", "running", "stopping"}

TypeOK ==
  /\ registered \subseteq Names
  /\ driver \in BOOLEAN
  /\ inner \in {s \in Starts : engine[s] = "running"} \cup {NONE}
  /\ call \in [Calls -> CallStates]
  /\ engine \in [Starts -> EngineStates]
  /\ served \in [Starts -> SUBSET Names]
  /\ taken \in [Stops -> Starts \cup {NONE}]
  /\ early \subseteq Names
  /\ covered \in [Stops -> SUBSET Starts]

(* One object never runs two engines on its store, however its calls       *)
(* overlap; what is more, it never makes a second one.                     *)
OneEngine == Cardinality({s \in Starts : engine[s] # "none"}) <= 1

(* Every engine at work can be stopped: the start() that makes it has yet  *)
(* to return, the object holds it, or a shutdown() waits for it.           *)
NoEngineOutOfReach ==
  \A s \in Starts : Alive(s) =>
    \/ call[s] = "awaiting"
    \/ inner = s
    \/ \E d \in Stops : taken[d] = s /\ call[d] = "awaiting"

(* What was registered before the first call of start() is served by the   *)
(* engine, whatever was called or registered meanwhile.                    *)
EarlyIsServed == \A s \in Starts : engine[s] # "none" => early \subseteq served[s]

(* A shutdown() that got hold of an engine resolves only after that engine *)
(* has stopped, and the engine is then nobody else's.                      *)
ShutdownWaits ==
  \A d \in Stops : taken[d] # NONE =>
    /\ (call[d] = "resolved" => engine[taken[d]] = "stopped")
    /\ \A e \in Stops : taken[e] = taken[d] => e = d

(***************************************************************************)
(* Why they hold.  The driver functions are taken once, so one start makes *)
(* an engine at most (DriverTakenOnce); an engine's state goes with the    *)
(* state of the start that made it (EnginesFollowCalls); it is in the      *)
(* object or with one shutdown, which leaves when it has stopped           *)
(* (EngineHeldOnce); what was registered early is still there when the     *)
(* registries are built (EarlyIsKept).                                     *)
(***************************************************************************)
DriverTakenOnce ==
  /\ driver <=> \A s \in Starts : engine[s] = "none"
  /\ \A s, t \in Starts : engine[s] # "none" /\ engine[t] # "none" => s = t

EnginesFollowCalls ==
  \A s \in Starts :
    /\ engine[s] = "none" <=> call[s] \notin {"awaiting", "resolved"}
    /\ engine[s] = "starting" => call[s] = "awaiting"
    /\ call[s] = "awaiting" => engine[s] \in {"starting", "running"}
    /\ (engine[s] = "running" /\ call[s] = "resolved") => inner = s
    /\ engine[s] = "stopping" => \E d \in Stops : taken[d] = s /\ call[d] = "awaiting"
    /\ engine[s] = "stopped" => \E d \in Stops : taken[d] = s

EngineHeldOnce ==
  /\ inner # NONE => call[inner] = "resolved"
  /\ \A d \in Stops :
       /\ call[d] = "awaiting" => taken[d] # NONE
       /\ taken[d] # NONE =>
            /\ call[d] \in {"awaiting", "resolved"}
            /\ engine[taken[d]] \in {"stopping", "stopped"}

EarlyIsKept == driver => early \subseteq registered

Inv ==
  /\ TypeOK
  /\ DriverTakenOnce
  /\ EnginesFollowCalls
  /\ EngineHeldOnce
  /\ EarlyIsKept
  /\ EarlyIsServed
  /\ ShutdownWaits

(***************************************************************************)
(* The object keeps the contract of RuntimeContract: seen from outside,    *)
(* the fields of the object and the engines of all its calls are one       *)
(* engine, with one start() and one shutdown() to it.                      *)
(***************************************************************************)
Made == {s \in Starts : engine[s] # "none"}
Maker == IF Made = {} THEN NONE ELSE CHOOSE s \in Made : TRUE

Takers == {d \in Stops : taken[d] # NONE}
Stopper == IF Takers = {} THEN NONE ELSE CHOOSE d \in Takers : TRUE

Seen(c) == IF call[c] \in {"queued", "awaiting"} THEN "called" ELSE call[c]

Contract == INSTANCE RuntimeContract
  WITH call <- [c \in Calls |-> Seen(c)],
       engine <- IF Made = {} THEN "none" ELSE engine[Maker],
       serves <- IF Made = {} THEN {} ELSE served[Maker],
       maker <- Maker,
       stopper <- Stopper

ImplementsContract == Contract!Spec

(* Every call is settled, and a shutdown() that was called after a start() *)
(* resolved leads to the end of that engine, whichever shutdown took it.   *)
CallsSettle ==
  /\ \A c \in Calls : call[c] = "queued" ~> call[c] \in {"resolved", "rejected"}
  /\ \A d \in Stops, s \in Starts : s \in covered[d] ~> engine[s] = "stopped"

(* CHANGELOG.md:55, docs/architecture.md:392: shutdown() returns when all  *)
(* work of the runtime has stopped.  (Engines it was called too early for  *)
(* do not count here: their start() had not resolved.)                     *)
ShutdownMeansStopped ==
  \A d \in Stops : call[d] = "resolved" => \A s \in covered[d] : engine[s] = "stopped"
=============================================================================
