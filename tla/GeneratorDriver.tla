---------------------------- MODULE GeneratorDriver ----------------------------
(***************************************************************************)
(* The generator driver of lib/duroxide.js: the module-level maps that     *)
(* hold the generators of running orchestrations, and the three functions  *)
(* Rust calls through thread-safe functions: createGenerator, nextStep and *)
(* disposeGenerator.                                                       *)
(*                                                                         *)
(* All of it runs on the one JavaScript thread, so a call is never         *)
(* interleaved with another call.  It is still not one step of the model:  *)
(* between the moment the driver enters the generator and the moment the   *)
(* generator yields, returns or throws, user code runs, and user code      *)
(* calls back into Rust, where other threads work.  `driving' is the       *)
(* generator whose user code is on the stack.                              *)
(*                                                                         *)
(* User code is arbitrary: the outcome of a step is chosen by the caller   *)
(* of StepYields and StepEnds.  The one assumption is that a step          *)
(* terminates (it appears as fairness in the composing module).            *)
(***************************************************************************)
EXTENDS KeyedMap

CONSTANTS
  TypedTypes,  \* the task types a ...Typed() method may yield
  Untyped,     \* what the driver holds for a task without _typed
  NONE

ASSUME TypedAssumption == Untyped \notin TypedTypes

VARIABLES
  generators,           \* generator id -> context token its closure captured
  generatorTypedState,  \* generator id -> type of the last yielded typed task
  nextGeneratorId,
  driving               \* id of the generator whose step is running, or NONE

driverVars == <<generators, generatorTypedState, nextGeneratorId, driving>>

TaskTypes == TypedTypes \cup {Untyped}

DriverInit ==
  /\ generators = << >>
  /\ generatorTypedState = << >>
  /\ nextGeneratorId = 1
  /\ driving = NONE

\* The type nextStep will use to post-process the next result of generator g.
TypedStateOf(g) ==
  IF g \in DOMAIN generatorTypedState THEN generatorTypedState[g] ELSE Untyped

-----------------------------------------------------------------------------
(***************************************************************************)
(* createGenerator.  It fails before anything is stored when no function   *)
(* is registered under the name or when the input is not JSON; otherwise   *)
(* the generator gets a fresh id and is stored before its first step.      *)
(***************************************************************************)
CreateRejected ==
  /\ driving = NONE
  /\ UNCHANGED driverVars

\* Mutant: the counter is not advanced, ids repeat.
BeginCreateSameId(token) ==
  /\ driving = NONE
  /\ generators' = With(generators, nextGeneratorId, token)
  /\ driving' = nextGeneratorId
  /\ UNCHANGED <<generatorTypedState, nextGeneratorId>>

BeginCreate(token) ==
  /\ driving = NONE
  /\ generators' = With(generators, nextGeneratorId, token)
  /\ nextGeneratorId' = nextGeneratorId + 1
  /\ driving' = nextGeneratorId
  /\ UNCHANGED generatorTypedState

(***************************************************************************)
(* nextStep: the generator must still be there.                            *)
(***************************************************************************)
BeginNext(g) ==
  /\ driving = NONE
  /\ g \in DOMAIN generators
  /\ driving' = g
  /\ UNCHANGED <<generators, generatorTypedState, nextGeneratorId>>

NextNotFound(g) ==
  /\ driving = NONE
  /\ g \notin DOMAIN generators
  /\ UNCHANGED driverVars

(***************************************************************************)
(* How a step ends (driveStep and driveStepWithError do the same here).    *)
(* A yield records the task's type, or forgets the previous one; a return  *)
(* or a throw removes the generator.                                       *)
(***************************************************************************)

\* Mutant: an untyped task leaves the previous task's type behind.
TypedStateSticks(type) ==
  IF type \in TypedTypes
  THEN With(generatorTypedState, driving, type)
  ELSE generatorTypedState

TypedStateAfterYield(type) ==
  IF type \in TypedTypes
  THEN With(generatorTypedState, driving, type)
  ELSE Without(generatorTypedState, driving)

StepYields(type) ==
  /\ driving # NONE
  /\ generatorTypedState' = TypedStateAfterYield(type)
  /\ driving' = NONE
  /\ UNCHANGED <<generators, nextGeneratorId>>

\* Mutant: the generator goes, its typed state stays.
ForgetGeneratorOnly(g) ==
  /\ generators' = Without(generators, g)
  /\ UNCHANGED <<generatorTypedState, nextGeneratorId>>

Forget(g) ==
  /\ generators' = Without(generators, g)
  /\ generatorTypedState' = Without(generatorTypedState, g)
  /\ UNCHANGED nextGeneratorId

\* Mutant: a finished generator is left for disposeGenerator to remove.
StepEndsWithoutForgetting ==
  /\ driving # NONE
  /\ driving' = NONE
  /\ UNCHANGED <<generators, generatorTypedState, nextGeneratorId>>

StepEnds ==
  /\ driving # NONE
  /\ Forget(driving)
  /\ driving' = NONE

DisposeGenerator(g) ==
  /\ driving = NONE
  /\ Forget(g)
  /\ UNCHANGED driving

-----------------------------------------------------------------------------
(* Ids in use were handed out before, and typed state is kept only for      *)
(* generators that exist.                                                   *)
DriverTypeOK ==
  /\ nextGeneratorId \in Nat \ {0}
  /\ DOMAIN generators \subseteq 1 .. nextGeneratorId - 1
  /\ \A g \in DOMAIN generators : generators[g] \in Nat
  /\ DOMAIN generatorTypedState \subseteq DOMAIN generators
  /\ \A g \in DOMAIN generatorTypedState : generatorTypedState[g] \in TypedTypes
  /\ driving \in DOMAIN generators \cup {NONE}
=============================================================================
