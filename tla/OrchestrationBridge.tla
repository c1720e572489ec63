-------------------------- MODULE OrchestrationBridge --------------------------
(***************************************************************************)
(* JsOrchestrationHandler of src/handlers.rs together with the generator   *)
(* driver it calls.                                                        *)
(*                                                                         *)
(* One invocation of the handler is one replay of one instance.  It is a   *)
(* future on a tokio worker thread which the replay engine polls once.  It *)
(* blocks its thread for every call into JavaScript (create, next,         *)
(* dispose), and it can be dropped only where it awaits: in execute_task.  *)
(* The one JavaScript thread serves the calls; the user code it runs calls *)
(* back into Rust with the invocation's token and reaches, through the     *)
(* global map ORCHESTRATION_CTXS and its mutex, an OrchestrationContext.   *)
(*                                                                         *)
(* The OrchestrationContext itself belongs to the duroxide crate.  All     *)
(* this module keeps of it is who has acted on it: `actedOn'.              *)
(***************************************************************************)
EXTENDS GeneratorDriver

CONSTANTS
  Invocations,   \* handler invocations of one process lifetime
  Instances      \* orchestration instances they replay

ASSUME NoneAssumption == NONE \notin Invocations \cup Nat

VARIABLES
  pc,            \* where each invocation's future is
  inst,          \* the instance an invocation replays
  tokenCounter,  \* ORCHESTRATION_TOKEN_COUNTER
  token,         \* the token of an invocation
  ctxs,          \* ORCHESTRATION_CTXS: token -> invocation whose context it is
  mapLock,       \* holder of the map's mutex across steps, or NONE
  genId,         \* the guard's gen_id
  task,          \* type of the task an invocation is executing
  serving,       \* invocation whose call the JavaScript thread is serving
  native,        \* invocation whose context object is inside a native call
  created,       \* invocations whose user code was handed its context object
  strayed,       \* invocations dropped outside any tokio runtime
  unread,        \* invocations whose first yield Rust could not decode
  envOpen,       \* the Node environment still accepts calls
  actedOn        \* invocation -> invocations whose code acted on its context

bridgeVars == <<pc, inst, tokenCounter, token, ctxs, mapLock, genId, task,
                serving, native, created, strayed, unread, envOpen, actedOn>>
vars == <<driverVars, bridgeVars>>

PCs == {"idle", "insert", "create", "execute", "next", "drop", "dispose", "done"}

Goto(i, there) == pc' = [pc EXCEPT ![i] = there]

\* Nothing of the user's program is on the JavaScript stack.
JsFree == driving = NONE /\ native = NONE

Init ==
  /\ DriverInit
  /\ pc = [i \in Invocations |-> "idle"]
  /\ inst = [i \in Invocations |-> NONE]
  /\ tokenCounter = 0
  /\ token = [i \in Invocations |-> NONE]
  /\ ctxs = << >>
  /\ mapLock = NONE
  /\ genId = [i \in Invocations |-> NONE]
  /\ task = [i \in Invocations |-> NONE]
  /\ serving = NONE
  /\ native = NONE
  /\ created = {}
  /\ strayed = {}
  /\ unread = {}
  /\ envOpen = TRUE
  /\ actedOn = [i \in Invocations |-> {}]

-----------------------------------------------------------------------------
(***************************************************************************)
(* The invocation begins: it draws a token, then stores its context under  *)
(* it and asks JavaScript for a generator.                                 *)
(***************************************************************************)
\* Mutant: contexts keyed by the instance they belong to.
ContextKeyByInstance(i, x) == x

ContextKey(i, x) == tokenCounter

NewToken(i, x) ==
  /\ pc[i] = "idle"
  /\ token' = [token EXCEPT ![i] = ContextKey(i, x)]
  /\ tokenCounter' = tokenCounter + 1
  /\ inst' = [inst EXCEPT ![i] = x]
  /\ Goto(i, "insert")
  /\ UNCHANGED <<driverVars, ctxs, mapLock, genId, task, serving, native,
                 created, strayed, unread, envOpen, actedOn>>

InsertContext(i) ==
  /\ pc[i] = "insert"
  /\ mapLock = NONE
  /\ ctxs' = With(ctxs, token[i], i)
  /\ Goto(i, "create")
  /\ UNCHANGED <<driverVars, inst, tokenCounter, token, mapLock, genId, task,
                 serving, native, created, strayed, unread, envOpen, actedOn>>

(***************************************************************************)
(* The JavaScript thread takes up a call.  Until it answers, the calling   *)
(* invocation stays blocked in block_in_place.                             *)
(***************************************************************************)
JsServes(i, call) ==
  /\ pc[i] = call
  /\ envOpen
  /\ JsFree

ServeCreate(i) ==
  /\ JsServes(i, "create")
  /\ BeginCreate(token[i])
  /\ serving' = i
  /\ created' = created \cup {i}
  /\ UNCHANGED <<pc, inst, tokenCounter, token, ctxs, mapLock, genId, task,
                 native, strayed, unread, envOpen, actedOn>>

\* Unknown orchestration or unreadable input: the handler returns an error.
ServeCreateRejected(i) ==
  /\ JsServes(i, "create")
  /\ CreateRejected
  /\ Goto(i, "drop")
  /\ UNCHANGED <<inst, tokenCounter, token, ctxs, mapLock, genId, task, serving,
                 native, created, strayed, unread, envOpen, actedOn>>

\* nextStep answers with an error when it does not find the generator.
ServeNext(i) ==
  /\ JsServes(i, "next")
  /\ IF genId[i] \in DOMAIN generators
     THEN BeginNext(genId[i]) /\ serving' = i /\ UNCHANGED pc
     ELSE NextNotFound(genId[i]) /\ Goto(i, "drop") /\ UNCHANGED serving
  /\ UNCHANGED <<inst, tokenCounter, token, ctxs, mapLock, genId, task, native,
                 created, strayed, unread, envOpen, actedOn>>

(***************************************************************************)
(* The step ends and the invocation gets its answer.  A yield that Rust    *)
(* can decode gives it a task, and the first one also the generator id the *)
(* guard needs.  A yield it cannot decode makes the call return an error   *)
(* (`?'), before the guard learns the id when it is the first.             *)
(***************************************************************************)
Yield(i, type) ==
  /\ serving = i /\ native = NONE
  /\ StepYields(type)
  /\ serving' = NONE
  /\ genId' = [genId EXCEPT ![i] = IF pc[i] = "create" THEN driving ELSE @]
  /\ task' = [task EXCEPT ![i] = type]
  /\ Goto(i, "execute")
  /\ UNCHANGED <<inst, tokenCounter, token, ctxs, mapLock, native, created,
                 strayed, unread, envOpen, actedOn>>

YieldUndecodable(i, type) ==
  /\ serving = i /\ native = NONE
  /\ StepYields(type)
  /\ serving' = NONE
  /\ unread' = IF pc[i] = "create" THEN unread \cup {i} ELSE unread
  /\ Goto(i, "drop")
  /\ UNCHANGED <<inst, tokenCounter, token, ctxs, mapLock, genId, task, native,
                 created, strayed, envOpen, actedOn>>

\* The generator returned or threw: Completed or Error, the handler returns.
Finish(i) ==
  /\ serving = i /\ native = NONE
  /\ StepEnds
  /\ serving' = NONE
  /\ Goto(i, "drop")
  /\ UNCHANGED <<inst, tokenCounter, token, ctxs, mapLock, genId, task, native,
                 created, strayed, unread, envOpen, actedOn>>

(***************************************************************************)
(* execute_task: the engine polls the future once.  Either the task's      *)
(* result is in the history and the loop goes on, or the future is         *)
(* pending and the engine drops it.                                        *)
(***************************************************************************)
TaskReady(i) ==
  /\ pc[i] = "execute"
  /\ Goto(i, "next")
  /\ UNCHANGED <<driverVars, inst, tokenCounter, token, ctxs, mapLock, genId,
                 task, serving, native, created, strayed, unread, envOpen, actedOn>>

\* Mutant: nextStep is awaited like any future instead of blocking the thread.
DroppableInCall == {"execute", "next"}

\* Where a future of this handler can be suspended, and so dropped.
DroppableAt == {"execute"}

TaskPending(i) ==
  /\ pc[i] \in DroppableAt
  /\ Goto(i, "drop")
  /\ UNCHANGED <<driverVars, inst, tokenCounter, token, ctxs, mapLock, genId,
                 task, serving, native, created, strayed, unread, envOpen, actedOn>>
-----------------------------------------------------------------------------
(***************************************************************************)
(* The guard's Drop.  The context leaves the map first, under a lock that  *)
(* the temporary of that one statement holds.  Then, if the guard knows a  *)
(* generator and a tokio runtime is at hand, it blocks on disposeGenerator.*)
(***************************************************************************)
\* Mutant: the lock guard lives until the end of drop().
HolderUntilDisposed(i) == i

HolderAfterRemove(i) == NONE

\* Mutant: the entry is left behind.
ContextsKept(i) == ctxs

ContextsAfterDrop(i) == Without(ctxs, token[i])

\* What is left of the mutex when invocation i gives up whatever it holds.
LockWithout(i) == IF mapLock = i THEN NONE ELSE mapLock

GuardDrop(i) ==
  /\ pc[i] = "drop"
  /\ mapLock = NONE
  /\ ctxs' = ContextsAfterDrop(i)
  /\ mapLock' = HolderAfterRemove(i)
  /\ \/ /\ genId[i] = NONE
        /\ Goto(i, "done")
        /\ UNCHANGED strayed
     \/ /\ genId[i] # NONE
        /\ Goto(i, "dispose")
        /\ UNCHANGED strayed
     \/ /\ genId[i] # NONE
        /\ Goto(i, "done")
        /\ strayed' = strayed \cup {i}
  /\ UNCHANGED <<driverVars, inst, tokenCounter, token, genId, task, serving,
                 native, created, unread, envOpen, actedOn>>

ServeDispose(i) ==
  /\ JsServes(i, "dispose")
  /\ DisposeGenerator(genId[i])
  /\ Goto(i, "done")
  /\ mapLock' = LockWithout(i)
  /\ UNCHANGED <<inst, tokenCounter, token, ctxs, genId, task, serving, native,
                 created, strayed, unread, envOpen, actedOn>>

(***************************************************************************)
(* Native calls.  User code calls a method of its context object, from     *)
(* inside its step or later (a timer callback that kept the object).  The  *)
(* JavaScript thread waits for the map's mutex, looks the token up, acts   *)
(* on the context it finds, or on none.                                    *)
(***************************************************************************)
BeginNative(i) ==
  /\ native = NONE
  /\ IF driving = NONE THEN envOpen /\ i \in created ELSE serving = i
  /\ native' = i
  /\ UNCHANGED <<driverVars, pc, inst, tokenCounter, token, ctxs, mapLock, genId,
                 task, serving, created, strayed, unread, envOpen, actedOn>>

\* The contexts a call with this token reaches: one, or none.
Reached(tok) == IF tok \in DOMAIN ctxs THEN {ctxs[tok]} ELSE {}

EndNative(i) ==
  /\ native = i
  /\ mapLock = NONE
  /\ actedOn' = [j \in Invocations |->
       IF j \in Reached(token[i]) THEN actedOn[j] \cup {i} ELSE actedOn[j]]
  /\ native' = NONE
  /\ UNCHANGED <<driverVars, pc, inst, tokenCounter, token, ctxs, mapLock, genId,
                 task, serving, created, strayed, unread, envOpen>>

(***************************************************************************)
(* The Node environment shuts down between two callbacks.  From then on    *)
(* every thread-safe function call comes back with an error: the handler   *)
(* returns it, the guard ignores it.                                       *)
(***************************************************************************)
CloseEnv ==
  /\ envOpen
  /\ JsFree
  /\ envOpen' = FALSE
  /\ UNCHANGED <<driverVars, pc, inst, tokenCounter, token, ctxs, mapLock, genId,
                 task, serving, native, created, strayed, unread, actedOn>>

CallFails(i) ==
  /\ ~envOpen
  /\ \/ pc[i] \in {"create", "next"} /\ Goto(i, "drop")
     \/ pc[i] = "dispose" /\ Goto(i, "done")
  /\ mapLock' = LockWithout(i)
  /\ UNCHANGED <<driverVars, inst, tokenCounter, token, ctxs, genId, task,
                 serving, native, created, strayed, unread, envOpen, actedOn>>

-----------------------------------------------------------------------------
Tokio(i) ==
  \/ InsertContext(i)
  \/ TaskReady(i)
  \/ TaskPending(i)
  \/ GuardDrop(i)
  \/ CallFails(i)

JsStepEnds(i) ==
  \/ \E type \in TaskTypes : Yield(i, type) \/ YieldUndecodable(i, type)
  \/ Finish(i)

JsServesCall(i) ==
  \/ ServeCreate(i)
  \/ ServeCreateRejected(i)
  \/ ServeNext(i)
  \/ ServeDispose(i)

\* Every invocation has ended; nothing is left to do.
AllEnded == /\ \A i \in Invocations : pc[i] = "done"
            /\ UNCHANGED vars

Next ==
  \/ \E i \in Invocations :
       \/ \E x \in Instances : NewToken(i, x)
       \/ Tokio(i)
       \/ JsServesCall(i)
       \/ JsStepEnds(i)
       \/ BeginNative(i)
       \/ EndNative(i)
  \/ CloseEnv
  \/ AllEnded

Spec == Init /\ [][Next]_vars

(***************************************************************************)
(* tokio runs every runnable future and a poll returns; thread-safe        *)
(* functions queue their calls in order, so a call is served although      *)
(* other callbacks keep the JavaScript thread busy (strong fairness); user *)
(* code ends its step and a native call gets the mutex when it is free.    *)
(***************************************************************************)
Fairness == \A i \in Invocations :
  /\ WF_vars(Tokio(i))
  /\ SF_vars(JsServesCall(i))
  /\ SF_vars(JsStepEnds(i))
  /\ SF_vars(EndNative(i))

FairSpec == Spec /\ Fairness
-----------------------------------------------------------------------------
(***************************************************************************)
(* Properties.                                                             *)
(***************************************************************************)

\* The generator an invocation's JavaScript side lives in, if any.
GeneratorsOf(i) == {g \in DOMAIN generators : generators[g] = token[i]}

(* Types, and what the two threads may hold at once.                        *)
TypeOK ==
  /\ DriverTypeOK
  /\ pc \in [Invocations -> PCs]
  /\ inst \in [Invocations -> Instances \cup {NONE}]
  /\ tokenCounter \in Nat
  /\ token \in [Invocations -> Nat \cup {NONE}]
  /\ DOMAIN ctxs \subseteq Nat
  /\ \A t \in DOMAIN ctxs : ctxs[t] \in Invocations
  /\ mapLock \in Invocations \cup {NONE}
  /\ genId \in [Invocations -> Nat \cup {NONE}]
  /\ task \in [Invocations -> TaskTypes \cup {NONE}]
  /\ serving \in Invocations \cup {NONE}
  /\ native \in Invocations \cup {NONE}
  /\ created \subseteq Invocations
  /\ strayed \subseteq Invocations
  /\ unread \subseteq Invocations
  /\ envOpen \in BOOLEAN
  /\ actedOn \in [Invocations -> SUBSET Invocations]

(* Two replays of one instance never touch each other: whatever acted on   *)
(* the context of an invocation was that invocation's own code.            *)
(* (handlers.rs:79-83: "the key must not be the instance id")              *)
ContextIsolation == \A i \in Invocations : actedOn[i] \subseteq {i}

(* While user code of an invocation runs a step, its context is in the map *)
(* and is its own: no set, get or trace of a live replay is silently lost. *)
LiveStepHasContext ==
  \A i \in Invocations : serving = i => Reached(token[i]) = {i}

(* The generator that the next result will be fed to exists, and it is the *)
(* one this invocation created: "Generator n not found" cannot happen and  *)
(* no result reaches the code of another replay.                           *)
OwnGenerator ==
  \A i \in Invocations : pc[i] \in {"execute", "next"} =>
    /\ genId[i] \in DOMAIN generators
    /\ generators[genId[i]] = token[i]

(* nextStep post-processes a result as the type of the very task that      *)
(* produced it, never as the type of an earlier typed task.                *)
TypedResultMatchesTask ==
  \A i \in Invocations :
    (pc[i] = "execute" \/ (pc[i] = "next" /\ serving # i)) =>
      TypedStateOf(genId[i]) = task[i]

\* A generator outlives its invocation only where the code gives up on it: the
\* first yield was undecodable, so the guard never learned the id; the guard was
\* dropped outside a tokio runtime; Node is shutting down.
LeftOnlyWhereGivenUp ==
  \A i \in Invocations :
    (pc[i] = "done" /\ GeneratorsOf(i) # {}) =>
      i \in unread \/ i \in strayed \/ ~envOpen

(* Generators outlive their invocations only on those ways out, which the  *)
(* property does not forbid, and what one of them leaves is a single       *)
(* generator that nobody will run again: its step is over, no invocation   *)
(* knows its id, and the context its code would act on has left the map,   *)
(* although dispose was skipped (drop of OrchestrationInvokeGuard).        *)
NoGeneratorLeak ==
  /\ LeftOnlyWhereGivenUp
  /\ \A i \in Invocations : pc[i] = "done" =>
       /\ token[i] \notin DOMAIN ctxs
       /\ \A g \in GeneratorsOf(i) :
            /\ GeneratorsOf(i) = {g} /\ driving # g
            /\ \A j \in Invocations : pc[j] \in {"execute", "next", "dispose"} => genId[j] # g

(* docs/architecture.md:143 and .agents/skills/napi-interop/SKILL.md:264   *)
(* have the generator disposed of on every exit of the handler.            *)
DisposedOnEveryExit ==
  \A i \in Invocations :
    (pc[i] = "done" /\ envOpen /\ i \notin strayed) => GeneratorsOf(i) = {}

(* A call into JavaScript is answered, and an invocation whose future is   *)
(* being dropped gets through its guard: the tokio thread that waits for   *)
(* JavaScript and the JavaScript thread that waits for the map's mutex     *)
(* never wait for each other.                                              *)
CallsAreAnswered ==
  \A i \in Invocations :
    pc[i] \in {"create", "next", "drop", "dispose"} ~> pc[i] \in {"execute", "done"}

(***************************************************************************)
(* Why the properties hold.  A token is drawn once and belongs to one      *)
(* invocation (TokensOwned); the entry under it is there from the moment   *)
(* JavaScript can know the token until the guard runs (ContextsOwned); a   *)
(* generator is made once per token and is the one its invocation drives   *)
(* (GeneratorsOwned); the JavaScript thread is in user code exactly while  *)
(* it serves a blocked invocation (OneStepAtATime).                        *)
(***************************************************************************)
TokensOwned ==
  /\ \A i \in Invocations :
       /\ pc[i] = "idle" <=> token[i] = NONE
       /\ token[i] # NONE => token[i] < tokenCounter
  /\ \A g \in DOMAIN generators : generators[g] < tokenCounter
  /\ \A i, j \in Invocations : token[i] = token[j] /\ token[i] # NONE => i = j

ContextsOwned ==
  /\ \A t \in DOMAIN ctxs : token[ctxs[t]] = t
  /\ \A i \in Invocations : pc[i] \in {"create", "execute", "next", "drop"} =>
       token[i] \in DOMAIN ctxs /\ ctxs[token[i]] = i
  /\ \A i \in Invocations : pc[i] \in {"idle", "insert", "dispose", "done"} =>
       token[i] \notin DOMAIN ctxs
  /\ mapLock = NONE

GeneratorsOwned ==
  /\ \A g, h \in DOMAIN generators : generators[g] = generators[h] => g = h
  /\ \A i \in Invocations :
       (genId[i] = NONE /\ serving # i /\ i \notin unread) =>
         \A g \in DOMAIN generators : generators[g] # token[i]
  /\ \A i \in unread : pc[i] \in {"drop", "done"} /\ genId[i] = NONE
  /\ \A i \in Invocations :
       /\ pc[i] \in {"idle", "insert", "create"} => genId[i] = NONE
       /\ pc[i] \in {"execute", "next", "dispose"} => genId[i] # NONE
       /\ genId[i] # NONE =>
            /\ genId[i] < nextGeneratorId
            /\ genId[i] \in DOMAIN generators => generators[genId[i]] = token[i]
            /\ \A g \in DOMAIN generators : generators[g] = token[i] => g = genId[i]

OneStepAtATime ==
  /\ (serving = NONE) <=> (driving = NONE)
  /\ serving # NONE =>
       /\ pc[serving] \in {"create", "next"}
       /\ generators[driving] = token[serving]
       /\ pc[serving] = "next" => genId[serving] = driving
       /\ native \in {NONE, serving}
       /\ serving \in created
       /\ envOpen
  /\ native \in created \cup {NONE}
  /\ \A i \in created : pc[i] \notin {"idle", "insert"}
  /\ \A i \in Invocations : pc[i] \in {"execute", "next"} => i \in created

Inv ==
  /\ TypeOK
  /\ TokensOwned
  /\ ContextsOwned
  /\ GeneratorsOwned
  /\ OneStepAtATime
  /\ ContextIsolation
  /\ OwnGenerator
  /\ TypedResultMatchesTask
  /\ LeftOnlyWhereGivenUp

(* The bridge implements InvocationProtocol.                               *)
Phase(i) ==
  CASE serving = i -> "stepping"
    [] serving # i /\ pc[i] \in {"idle", "insert"} -> "new"
    [] serving # i /\ pc[i] \in {"create", "next"} -> "called"
    [] serving # i /\ pc[i] = "execute" -> "awaiting"
    [] serving # i /\ pc[i] = "drop" -> "ending"
    [] OTHER -> "over"

Protocol == INSTANCE InvocationProtocol
              WITH phase <- [i \in Invocations |-> Phase(i)]

ImplementsProtocol == Protocol!Spec
=============================================================================
