-------------------------- MODULE OrchestrationVersions --------------------------
(***************************************************************************)
(* Which generator function a turn of an orchestration runs.               *)
(*                                                                         *)
(* A registration goes to two places: the function into one Map of the     *)
(* JavaScript process, shared by all Runtime objects in it, the name and   *)
(* version into the Runtime it was made on, which hands them to its engine *)
(* in start().  The engine picks the version an execution runs and keeps   *)
(* it for as long as the execution lasts; createGenerator looks the        *)
(* function up again in every turn, by name@version and then by name.      *)
(* Orchestrations of different names do not meet: one name is modelled.    *)
(*                                                                         *)
(* The engine's choice (the version asked for, or else the latest that its *)
(* registry knows), its turns and the store are code of the duroxide       *)
(* crate.  A process may die: the store stays, the Map does not.           *)
(***************************************************************************)
EXTENDS Naturals, KeyedMap

CONSTANTS
  Runtimes,      \* Runtime objects of the process
  Instances,     \* instances of the orchestration
  Store,         \* Runtime -> instances that are in its store
  Versions,      \* versions, the later the greater
  First,         \* the version of what is registered without one
  Functions,     \* generator functions
  MaxRegistered, \* bound on the registrations of a process
  MaxRestarts,   \* bound on the restarts
  NONE           \* no version, no function

ASSUME VersionsAssumption ==
  /\ Versions \subseteq Nat /\ First \in Versions
  /\ NONE \notin Versions /\ NONE \notin Functions

VARIABLES
  orchestrationFunctions, \* version, or NONE for the plain name -> function
  orchestration_names,    \* Runtime -> what is registered, until start()
  registry,               \* Runtime -> versions its engine serves
  started,                \* Runtimes whose engine runs
  life,                   \* instance -> absent, due, turn or over
  wanted,                 \* instance -> version the engine was told, or NONE
  pinned,                 \* instance -> committed version of its execution, or NONE
  resolved,               \* instance -> version of the turn that is on, or NONE
  running,                \* instance -> function of the turn that is on, or NONE
  ran,                    \* instance -> functions its execution ran in this process
  asked,                  \* instance -> version the program asked for, or NONE
  authored,               \* version -> functions this process registered for it
  registrations, restarts \* how many so far

processVars == <<orchestrationFunctions, orchestration_names, registry, started,
                 authored, registrations, restarts>>
instanceVars == <<life, wanted, pinned, resolved, running, ran, asked>>
vars == <<processVars, instanceVars>>

NoFunctions == [k \in {} |-> NONE]
Keys == Versions \cup {NONE}

\* The engine's name for what is registered under key k.
VersionOf(k) == IF k = NONE THEN First ELSE k

Init ==
  /\ orchestrationFunctions = NoFunctions
  /\ orchestration_names = [r \in Runtimes |-> {}]
  /\ registry = [r \in Runtimes |-> {}]
  /\ started = {}
  /\ authored = [v \in Versions |-> {}]
  /\ registrations = 0 /\ restarts = 0
  /\ life = [x \in Instances |-> "absent"]
  /\ wanted = [x \in Instances |-> NONE]
  /\ asked = [x \in Instances |-> NONE]
  /\ pinned = [x \in Instances |-> NONE]
  /\ resolved = [x \in Instances |-> NONE]
  /\ running = [x \in Instances |-> NONE]
  /\ ran = [x \in Instances |-> {}]

-----------------------------------------------------------------------------
(* Registration and start().                                                *)

\* Mutant: a versioned registration takes the plain name as well.
TakesPlainName(k, f) == With(With(orchestrationFunctions, NONE, f), k, f)

FunctionsAfter(k, f) == With(orchestrationFunctions, k, f)

\* registerOrchestration for k = NONE, else registerOrchestrationVersioned.
\* After start() the engine learns no more, but the Map is live.
Register(r, k, f) ==
  /\ registrations < MaxRegistered
  /\ registrations' = registrations + 1
  /\ orchestrationFunctions' = FunctionsAfter(k, f)
  /\ orchestration_names' = [orchestration_names EXCEPT ![r] = @ \cup {k}]
  /\ authored' = [authored EXCEPT ![VersionOf(k)] = @ \cup {f}]
  /\ UNCHANGED <<registry, started, restarts, instanceVars>>

Start(r) ==
  /\ r \notin started
  /\ started' = started \cup {r}
  /\ registry' = [registry EXCEPT ![r] = {VersionOf(k) : k \in orchestration_names[r]}]
  /\ orchestration_names' = [orchestration_names EXCEPT ![r] = {}]
  /\ UNCHANGED <<orchestrationFunctions, authored, registrations, restarts, instanceVars>>

\* The process dies and another takes its place.
Restart ==
  /\ restarts < MaxRestarts
  /\ restarts' = restarts + 1
  /\ registrations' = 0
  /\ orchestrationFunctions' = NoFunctions
  /\ orchestration_names' = [r \in Runtimes |-> {}]
  /\ registry' = [r \in Runtimes |-> {}]
  /\ started' = {}
  /\ authored' = [v \in Versions |-> {}]
  /\ life' = [x \in Instances |-> IF life[x] = "turn" THEN "due" ELSE life[x]]
  /\ resolved' = [x \in Instances |-> NONE]
  /\ running' = [x \in Instances |-> NONE]
  /\ ran' = [x \in Instances |-> {}]
  /\ UNCHANGED <<wanted, asked, pinned>>

-----------------------------------------------------------------------------
(* Executions.                                                              *)

\* Mutant: the version is lost on the way to the engine.
VersionDropped(v) == NONE

\* startOrchestration and continueAsNew, versioned or not: what the engine is
\* told when the program asks for v, or for none.
Told(v) == v

Begin(x, v) ==
  /\ asked' = [asked EXCEPT ![x] = v]
  /\ wanted' = [wanted EXCEPT ![x] = Told(v)]

\* A client starts an instance.
StartOrchestration(x, v) ==
  /\ life[x] = "absent"
  /\ life' = [life EXCEPT ![x] = "due"]
  /\ Begin(x, v)
  /\ UNCHANGED <<processVars, pinned, resolved, running, ran>>

\* A turn of x starts y, as a sub-orchestration or detached.
StartFrom(x, y, v) == life[x] = "turn" /\ StartOrchestration(y, v)

Latest(vs) == CHOOSE v \in vs : \A w \in vs : w <= v

\* The version r's engine runs x at; none if its registry lacks it.
Dispatched(r, x) ==
  IF registry[r] = {} THEN {}
  ELSE {v \in registry[r] :
          v = IF pinned[x] # NONE THEN pinned[x]
              ELSE IF wanted[x] # NONE THEN wanted[x] ELSE Latest(registry[r])}

\* Mutant: no second look under the plain name.
NoFallback(v) ==
  IF v \in DOMAIN orchestrationFunctions THEN orchestrationFunctions[v] ELSE NONE

\* createGenerator: NONE is "not registered on JS side".
Lookup(v) ==
  IF v \in DOMAIN orchestrationFunctions THEN orchestrationFunctions[v]
  ELSE IF NONE \in DOMAIN orchestrationFunctions THEN orchestrationFunctions[NONE]
  ELSE NONE

Turn(r, x) ==
  /\ life[x] = "due" /\ r \in started /\ x \in Store[r]
  /\ \E v \in Dispatched(r, x) :
       /\ resolved' = [resolved EXCEPT ![x] = v]
       /\ running' = [running EXCEPT ![x] = Lookup(v)]
  /\ life' = [life EXCEPT ![x] = "turn"]
  /\ UNCHANGED <<processVars, wanted, asked, pinned, ran>>

EndTurn(x, then) ==
  /\ life[x] = "turn"
  /\ life' = [life EXCEPT ![x] = then]
  /\ resolved' = [resolved EXCEPT ![x] = NONE]
  /\ running' = [running EXCEPT ![x] = NONE]

\* The turn is committed; the execution goes on, or is over.
Commit(x) ==
  /\ pinned' = [pinned EXCEPT ![x] = resolved[x]]
  /\ ran' = [ran EXCEPT ![x] = @ \cup ({running[x]} \ {NONE})]
  /\ (running[x] # NONE /\ EndTurn(x, "due")) \/ EndTurn(x, "over")
  /\ UNCHANGED <<processVars, wanted, asked>>

\* The turn ends in continueAsNew: a new execution, at version v if one is named.
ContinueAsNew(x, v) ==
  /\ running[x] # NONE
  /\ EndTurn(x, "due")
  /\ pinned' = [pinned EXCEPT ![x] = NONE]
  /\ ran' = [ran EXCEPT ![x] = {}]
  /\ Begin(x, v)
  /\ UNCHANGED processVars

\* Nothing of the turn is committed: its lock ran out.
LoseTurn(x) ==
  /\ EndTurn(x, "due")
  /\ UNCHANGED <<processVars, wanted, asked, pinned, ran>>

-----------------------------------------------------------------------------
Next ==
  \/ \E r \in Runtimes, k \in Keys, f \in Functions : Register(r, k, f)
  \/ \E r \in Runtimes : Start(r)
  \/ Restart
  \/ \E x \in Instances, v \in Keys : StartOrchestration(x, v) \/ ContinueAsNew(x, v)
  \/ \E x, y \in Instances, v \in Keys : StartFrom(x, y, v)
  \/ \E r \in Runtimes, x \in Instances : Turn(r, x)
  \/ \E x \in Instances : Commit(x) \/ LoseTurn(x)

Spec == Init /\ [][Next]_vars

-----------------------------------------------------------------------------
(* Properties.                                                              *)

TypeOK ==
  /\ DOMAIN orchestrationFunctions \subseteq Keys
  /\ \A k \in DOMAIN orchestrationFunctions : orchestrationFunctions[k] \in Functions
  /\ orchestration_names \in [Runtimes -> SUBSET Keys]
  /\ registry \in [Runtimes -> SUBSET Versions]
  /\ started \subseteq Runtimes
  /\ authored \in [Versions -> SUBSET Functions]
  /\ registrations \in Nat /\ restarts \in Nat
  /\ life \in [Instances -> {"absent", "due", "turn", "over"}]
  /\ wanted \in [Instances -> Keys] /\ asked \in [Instances -> Keys]
  /\ pinned \in [Instances -> Keys] /\ resolved \in [Instances -> Keys]
  /\ running \in [Instances -> Functions \cup {NONE}]
  /\ ran \in [Instances -> SUBSET Functions]

(* Whatever version an engine dispatches, JavaScript finds a function for  *)
(* it: no turn fails with "not registered on JS side", on no Runtime of    *)
(* the process and after no restart.                                       *)
ServedIsFound == \A x \in Instances : life[x] = "turn" => running[x] # NONE

(* An execution runs functions that this process registered for its        *)
(* version, and no other version's: as long as a version is registered     *)
(* once, all turns run one function, on whatever Runtime.                  *)
RunsItsVersion ==
  \A x \in Instances :
    /\ running[x] # NONE => running[x] \in authored[resolved[x]]
    /\ ran[x] # {} => pinned[x] # NONE /\ ran[x] \subseteq authored[pinned[x]]

(* An execution that was asked for by version runs at that version in all  *)
(* its turns, whichever Runtime they are on; any execution keeps the       *)
(* version its first turn was committed at.                                *)
RunsAsAsked ==
  \A x \in Instances : life[x] = "turn" =>
    /\ asked[x] # NONE => resolved[x] = asked[x]
    /\ pinned[x] # NONE => resolved[x] = pinned[x]

(***************************************************************************)
(* Why they hold: what an engine knows, or will know, is in the Map, under *)
(* its version or as the plain name (RegisteredIsKnown); and what is in    *)
(* the Map was put there for that version (KeysAreAuthored).  An execution *)
(* is pinned to what was asked for (PinnedAsAsked), and a version is on    *)
(* the way exactly during a turn (TurnsResolve).                           *)
(***************************************************************************)
RegisteredIsKnown ==
  \A r \in Runtimes :
    /\ orchestration_names[r] \subseteq DOMAIN orchestrationFunctions
    /\ \A v \in registry[r] : \E k \in DOMAIN orchestrationFunctions : VersionOf(k) = v

KeysAreAuthored ==
  \A k \in DOMAIN orchestrationFunctions :
    orchestrationFunctions[k] \in authored[VersionOf(k)]

PinnedAsAsked ==
  \A x \in Instances :
    /\ wanted[x] = asked[x]
    /\ pinned[x] # NONE /\ asked[x] # NONE => pinned[x] = asked[x]
    /\ life[x] = "absent" => pinned[x] = NONE

TurnsResolve ==
  \A x \in Instances :
    /\ life[x] = "turn" <=> resolved[x] # NONE
    /\ running[x] # NONE => life[x] = "turn"

Inv == /\ TypeOK /\ TurnsResolve /\ RegisteredIsKnown /\ KeysAreAuthored /\ PinnedAsAsked
       /\ ServedIsFound /\ RunsItsVersion /\ RunsAsAsked

(***************************************************************************)
(* The Map, the registries and the two lookups keep the contract of        *)
(* VersionContract: no execution changes its version or runs another       *)
(* version's code, in any turn, on any Runtime, after any restart.         *)
(***************************************************************************)
Contract == INSTANCE VersionContract
              WITH settled <- pinned, at <- resolved, code <- running

ImplementsContract == Contract!Spec
=============================================================================
