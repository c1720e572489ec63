# duroxide-node: specifications, model checking and proofs

duroxide-node lets JavaScript programs write durable orchestrations: generator
functions that yield task descriptors. The Rust side (napi-rs) runs inside the
duroxide engine, which replays an orchestration from the start on every turn
and feeds it recorded results. This directory specifies how the two languages
meet: who runs when, who owns which piece of shared state, and what a caller
gets back.

## 1. The system

### Components

| Component | Code | State it keeps | Operations |
|---|---|---|---|
| Generator driver | `lib/duroxide.js:14-247` | `generators`, `generatorTypedState`, `nextGeneratorId` | `createGenerator`, `nextStep`, `disposeGenerator` |
| Orchestration bridge | `src/handlers.rs:79-227, 276-353, 776-834` | `ORCHESTRATION_CTXS` under a mutex, a token counter, one guard per invocation | `invoke`, the guard's `Drop`, twelve native functions JavaScript calls with a token |
| Task execution | `src/handlers.rs:367-774`, `lib/duroxide.js:91-166` | none of its own; the engine's history | `execute_task`, `make_join_future`, `make_select_future`, result conversions |
| Activity bridge | `src/handlers.rs:19-77, 229-274`, `lib/duroxide.js:1120-1141, 1224-1284` | `ACTIVITY_CTXS`, a token counter, one guard per invocation | `invoke`, `isCancelled`, `tag`, `getClient`, trace |
| Runtime lifecycle | `src/runtime.rs`, `lib/duroxide.js:1144-1210` | registrations, driver functions, `inner` | register, `start`, `shutdown`, `metricsSnapshot` |
| Function registry | `lib/duroxide.js:26, 40-51, 1148-1196`, `src/runtime.rs:145-213` | `orchestrationFunctions`, one for the process; the registrations of each Runtime | register, hand over in `start()`, look up `name@version`, else `name`, in every turn |
| Client API | `src/client.rs`, `Client` in `lib/duroxide.js` | none; the program keeps the version of the last custom status it has seen | start, wait, query, raise, enqueue, cancel, prune, delete |
| Providers | `src/provider.rs`, `src/pg_provider.rs` | a store handle | open |
| Exports, tracing, types, loader | `src/lib.rs`, `src/types.rs`, `index.js`, `*.d.ts` | none | |

The duroxide crate (dispatchers, locks, history, replay, the worker and its
cancellation) is not part of this repository. Where the models need it, they
take what the code in `src/` relies on; those definitions are marked external
in `PROJECT.json`.

### How they interact

* The engine polls the future of `JsOrchestrationHandler::invoke` once per
  turn on a tokio worker thread. The future *blocks* that thread for each call
  into JavaScript (`block_in_place` and a thread-safe function) and *awaits*
  in one place only, `execute_task`.
* One JavaScript thread serves all calls, in the order of its queue. During a
  step it is inside user code, and user code calls synchronous native functions
  which take the mutex of the context map.
* Dropping the future runs the guard: it removes the context from the map and
  then blocks on `disposeGenerator`.
* An activity's future awaits a promise instead. Its two sides end separately:
  the worker can drop the future, nobody can stop the JavaScript function.
* The `Runtime` object collects registrations, hands them to the engine in
  `start()`, and holds the engine until `shutdown()` takes it. The functions
  themselves stay in one Map of the JavaScript process: engine and driver pick
  a version each by its own rule.
* A client call touches the store on whatever tokio thread it runs; a wait polls
  it until the change is there or its timeout has come.

### What is hard

1. Two replays of one instance alive in one process after a lost lock.
2. A future dropped between two calls into JavaScript, or while JavaScript
   still runs on its behalf.
3. Tokio and JavaScript threads that wait for each other around one mutex.
4. Per-generator state in JavaScript that is written in one call and read in
   the next.
5. A cancelled activity whose context disappears while its function runs.
6. The winner of a race, decided in one turn and replayed in later ones that
   see more history.
7. `start()` and `shutdown()` calls that overlap at their awaits.
8. A version the engine has picked and the function JavaScript finds for it,
   with registrations under plain and versioned names, several Runtimes in one
   process, and restarts.
9. Waits that time out just when the reply arrives and are made again, while
   the instance is cancelled, deleted or started by somebody else.

`PROJECT.json` lists each hazard at its line with the properties aimed at it.

### What makes each component correct

* *Driver*: a result is fed to the generator it is for and read as the type of
  the task that produced it; no generator or typed state outlives its use.
* *Bridge*: code acts on its own invocation's context and on no other; a live
  step always finds its context; every call is answered.
* *Task execution*: `all` gives every child its place, `race` gives the first
  completion, failures are thrown, replays agree, nothing is left running.
* *Activities*: cancellation is seen, stays, and is never another execution's;
  the map does not grow; the worker is not held up.
* *Lifecycle*: one engine, always stoppable, serving what was registered.
* *Registry*: a turn finds a function, one registered for the version its
  execution was asked for and began at.
* *Client*: no reply is taken for another's, awaited messages keep their order,
  the conversation goes on.

## 2. The modules

| Module | Lines it stands for | Role |
|---|---|---|
| `KeyedMap` | `Map`/`HashMap` insert and remove | shared operators, provable |
| `GeneratorDriver` | driver of `lib/duroxide.js` | actions without a specification of their own |
| `OrchestrationBridge` | `invoke`, guard, native calls | extends the driver; the core |
| `InvocationProtocol` | none: the promise | abstract specification of the bridge |
| `ReplayIsolation` | the bridge and `replay_isolation.test.js` | bridge + engine + one program |
| `DurableCounter` | none: the promise | abstract specification of durable execution |
| `ActivityBridge` | `JsActivityHandler`, `ActivityContext` | both sides of an activity |
| `ActivityContract` | none: the promise | abstract specification of an activity |
| `TaskValues` | result conversions | pure operators |
| `TaskExecution` | `execute_task` and its helpers | one task over all its turns |
| `TaskPromise` | none: the promise | abstract specification of a task |
| `RuntimeLifecycle` | `JsRuntime` | calls that overlap |
| `RuntimeContract` | none: the promise | abstract specification of a runtime object |
| `OrchestrationVersions` | registration, `createGenerator`'s lookup, versioned starts | Map of functions against engines' registries |
| `VersionContract` | none: the promise | abstract specification of versions |
| `ClientCalls` | `JsClient`, `Client`, `copilot_chat.test.js` | a conversation through asynchronous calls |
| `ChatContract` | none: the promise | abstract specification of a conversation |
| `*_proofs` | | theorems, one module per model, checked by tlapm |
| `MC*` | | instances for TLC |

Every model but the driver, which is part of the bridge, has an abstract
specification, and each passing run checks the refinement. The abstract modules say
what somebody on the other side may count on, in that side's words, without the
tokens, maps, polls, queues and drained lists of the code. The refinement
mapping stands at the end of the detailed module.

| Abstract | Promised to | In spite of | Mapping |
|---|---|---|---|
| `InvocationProtocol` | user code | drops, a second replay | a phase for `pc` and `serving` |
| `DurableCounter` | the counter's author | lost locks, replays | the committed history |
| `ActivityContract` | worker and author | two sides that end apart, a map whose entry goes first | `answer` is what Rust returned, `code` what JavaScript does |
| `TaskPromise` | author of an orchestration | turns, replays, polls, four conversions | `ended` and `first` come from the history, committed or not |
| `RuntimeContract` | the program | overlapping calls, drained lists | the engine of the one `start()` that made one, the `shutdown()` that took it |
| `VersionContract` | author of versions | two lookups by two keys, several Runtimes, restarts | same variables, without Map and registries |
| `ChatContract` | the user of a chat | calls that overtake each other, polls, timeouts, deletions | the queue and calls on their way are left out |

### OrchestrationBridge and GeneratorDriver

`pc[i]` says where the future of invocation `i` is: `insert` (before the
context is stored), `create` and `next` (blocked on JavaScript), `execute` (in
`execute_task`), `drop` (before the guard's first statement), `dispose`
(blocked on `disposeGenerator`). Each is a point where another thread can step
in; what lies between two of them is one action. `driving` is the generator
whose step is on the JavaScript stack, `serving` the invocation that waits for
it, `native` the one whose native call waits for the mutex. User code is
arbitrary: it may yield any task (typed or not, decodable or not), return,
throw, call a native function, and do so later from a callback that kept the
context object.

Of the engine's `OrchestrationContext` the module keeps only who acted on it.
`NoGeneratorLeak` does not forbid what the code gives up on (`handlers.rs:800`,
`handlers.rs:123`, Node's shutdown); it says that nothing else leaks, and that what
is left is one generator nobody runs again, its context gone from the map. The
first of these ways out is the finding of `generator_leak`.
`TaskPending` is the drop of a pending future. `CloseEnv` is the shutdown of
Node, after which calls fail. The mutex is held across steps by nobody in this
code; the variable `mapLock` is there so that a guard that lived longer (the
classical mistake at `handlers.rs:117`) has something to hold.

### ReplayIsolation

Every step of the bridge here is an action of `OrchestrationBridge`, conjoined
with what the engine or the program does. The program is the counter of the
regression test, statement by statement; a native call reads or writes the
key-value state of whatever context its token reaches. The engine fetches under
a lock, may lose the lock at any moment, and accepts a commit only from the
lock's holder. A replay that recorded something else than the history fails the
instance.

### ActivityBridge

`pc` is the Rust future, `js` the JavaScript function. `GraceExpires` drops the
future at either await. `told` is the last answer of `isCancelled()`. When the
Node environment closes, queued and running functions are lost and Rust's calls
fail. The shutdown of the engine is read as a cancellation followed by the grace
period, for that is how `handlers.rs:40-45` knows the runtime to give an activity
up; an engine that drops the future without cancelling is outside the model.

### TaskExecution and TaskValues

A turn polls the task against the fetched history and then once after each
completion, in order. `Opens` is what the first poll schedules, `PollResults`
what a poll returns, `given` what the generator is fed. Texts are either the
rendering of a value or not JSON; the conversions (`wrap_ok`, `select_result`,
`JSON.parse`, `applyTypedParsing`, `new Error`) are written out on them, so a
value that is parsed once too often or too seldom shows. `ValueAs` is the other
view of an outcome, the one an author has: what a part of a type gives.
`TaskPromise` is written on it. Task types that take
the same way through the code share a representative, named in the module.

### RuntimeLifecycle

A call is made, then its body runs up to its await, then it returns: three
steps, which overlap with those of other calls. A `start()` that comes too late
has drained the activity registrations (`Activities`) when it finds the driver
functions gone; the orchestration registrations, drained after that point, stay. The program never waits for a
call unless the environment chooses so. The variable `taken` is the engine a
`shutdown()` holds, `covered` the engines whose `start()` had resolved when a
`shutdown()` was called.

### OrchestrationVersions

One orchestration name; a key of the Map is a version, or `NONE` for the plain
name. `Register` writes to the Map and to one Runtime's list, as
`registerOrchestration` does; `Start` drains that list into what the Runtime's
engine serves (`registry`). `Turn` is the engine's choice of a version
(`Dispatched`, external) followed by `createGenerator`'s own lookup (`Lookup`).
Executions come from clients, from parents and from `continueAsNew`, with and
without a version; a turn may be lost, the process may die and take the Map with
it. `asked` and `authored` are history variables: what the program asked
for, and which functions were registered for a version. One version registered
twice with different functions, on two Runtimes say, is permitted: the later function may
take over an execution the earlier one began, and `RunsItsVersion` holds of
both. No documentation forbids it, and no property here would catch it.

### ClientCalls

The user of `copilot_chat.test.js` as a program (`at`, `sent`, `call`, `seen`,
`replies`) against the store (`status`, `custom`, `version`, `values`, `inbox`).
An `enqueueEvent` is two steps, made and arrived. A wait is made, polls
(`PollInVain`, or an answer), and may be rejected once it has polled in
vain, also when the answer has come since. The user follows either the custom
status, one message at a time, or a key per message, without waiting for replies.
Timeouts go through the casts of the code: `AsU64` for `as u64`, `AsU32` for
napi's `u32`; what lies beyond `Horizon` never comes. `StartAgain`,
`CancelInstance` and `DeleteInstance` are other people's calls. The store, the
polling loop and the turns are the engine's and external.

## 3. What is checked

Every property has a mutant: a small change of a mapped definition, of the kind
a bug would make, under which TLC finds the property violated. Mutants stand
next to the definition they replace.

| Run | Instance | States | Shows |
|---|---|---|---|
| `bridge` | 2 invocations of 1 instance, 1 typed task type | 70 050 | isolation, own context and generator, typed state, no leak, no deadlock, implements `InvocationProtocol` |
| `replay_isolation` | 2 steps, 2 slots, 2 lost locks, 5 invocations | 161 965 | replays undisturbed, one turn per replay, every replay accounted for, implements `DurableCounter`, completes |
| `activities` | 2 executions of 1 activity, 1 tag | 11 898 | cancellation, map size, tags, implements `ActivityContract` |
| `tasks` | 20 descriptors, 3 values, 2 failures, 2 idle and 1 lost turn | 29 361 | `all`, `race`, replays agree, nothing left open, implements `TaskPromise` |
| `lifecycle` | 2 starts, 2 shutdowns, 1 activity, 1 orchestration | 20 583 | one engine, within reach, waited for, calls settle, implements `RuntimeContract` |
| `versions` | 2 Runtimes, 2 instances, 2 versions, 2 functions, 2 registrations per process, 1 restart | 185 120 | the function is its version's, the version is the one asked for, implements `VersionContract` |
| `chat` | 3 messages, timeouts 5 and -1, 2 calls of others | 16 311 | replies match, implements `ChatContract`, the conversation goes on |

Where a run checks `Inv` or `ReplayCountInv`, the invariant the proofs are built
on, the type invariant is its first conjunct. The invariants of `TaskExecution`,
`OrchestrationVersions` and `ClientCalls` are not in a run: they are proved.
Nor are properties that a refinement in the run says better
(`OutcomesAreEarned`, `AloneGivesItsOwn`, `EarlyIsServed`, `ServedIsFound`,
`AwaitedInOrder`); they are conjuncts of the proved invariants, or stated by a
theorem of their own.

Five runs look for a disagreement between the code and its documentation, and
find it; each checks one property and is listed under `findings`:

| Run | Documentation | Code |
|---|---|---|
| `generator_leak` | `docs/architecture.md:143`: a generator is disposed of on error | `handlers.rs:800` returns before the guard knows the generator when the first yield cannot be decoded |
| `nested_race` | `docs/user-guide.md:667`: nest `race()` for three tasks or more | `handlers.rs:537` rejects it |
| `race_every_type` | `docs/user-guide.md:96`: `race()` supports all task types | `handlers.rs:657` |
| `shutdown_twice` | `docs/architecture.md:392`: returns when all work has stopped | the second of two overlapping calls returns at once, `runtime.rs:332` |
| `status_timeout` | `docs/user-guide.md:605` (also `README.md:220`, `docs/architecture.md:280`): `waitForStatusChange` gives null on a timeout | `client.rs:513` rejects |

Slips of the documentation that need no run: `lib/duroxide.js:1198` says that
`start()` blocks until shutdown (it resolves once the engine is up,
`runtime.rs:298`); `docs/user-guide.md:608` passes an object where
`deleteInstance` takes a bool; the loop of `docs/user-guide.md:367` waits from
version 0 every time and would take an old status for a new one (the mutant
`AnyVersion` of `ClientCalls`).

### Why the bounds are enough

* *bridge*: shared state is per token, per generator id, or one lock; what can
  go wrong involves an invocation and one competitor. Invocations start, run
  and end in any order, so stale tokens and ids are among the cases.
  An invocation may run any number of steps: nothing counts them.
* *replay_isolation*: two steps give a turn whose history is empty, one that
  replays one step and the final one; two lost locks let a stale replay meet
  two successors in a row. The number of invocations is exactly what is needed.
* *activities*: a second execution of the same item is the only competitor
  an execution has for a key.
* *tasks*: at most three children, with every mixture of supported and
  unsupported, ready and pending. `MaxIdle` bounds turns that bring nothing
  new, `MaxLost` turns that are lost.
* *lifecycle*: the second call of each kind is the interesting one; the
  theorems cover any number.
* *versions*: a plain and a versioned registration, or two of one kind, are all
  the pairs of keys that can compete; one Runtime shares its store with the
  other and one instance is its own. `versions` may stop: an instance
  whose version no Runtime knows waits for one that does.
* *chat*: the first message, one between and the last; a wait with a timeout that
  comes and one whose timeout, negative, does not, but for `waitForValue`. `chat` may stop: a
  wait without end for an instance that was deleted.
* The safety properties of every passing run, refinements included, are proved
  for all values of the bounds as well.

### Fairness

* Tokio runs futures that can go on, and a poll returns (weak fairness).
* The queue of a thread-safe function is served in order, so a call is taken up
  although other callbacks come between (strong fairness of `JsServesCall`).
  User code ends its step and a native call gets a free mutex, although
  other native calls interrupt them (strong fairness).
* An activity need not ever settle; one that watches its cancellation asks again.
* Dispatchers start turns that are due and finish them; scheduled children
  complete. Locks need not expire, nothing obliges a program to call anything.
* Client calls run; a wait polls again and its timeout, if it ever comes, comes;
  the instance gets its turns and its activity settles; the user sends and waits
  when possible. Nobody need meddle. What `ChatGoesOn` leaves out is what the code
does not give: after a deletion a message need not be answered, and a wait with
a negative timeout need not end, unless it is `waitForValue`, whose timeout
is a `u32`.

Fairness matters only to `CallsAreAnswered`, `Completes`, `CancellationIsSeen`,
`CancelledIsReleased`, `IsAnswered`, `CallsSettle` and `ChatGoesOn`; every other property holds
of the specifications without it.

## 4. What is proved

All theorems hold for every value of the constants, under the named
assumptions on them: `NoneAssumption`, `TypedAssumption`, `CallsAssumption` and
`VersionsAssumption` keep NONE and the sets it is compared with apart (and
`CallsAssumption` has activities be names);
`TasksAssumption` says that lists of tasks are lists; `ReplayAssumption` that
invocations are numbered, bounds are numbers and NONE is no instance; `ClientAssumption` that
timeouts are below `U32` (so "any timeouts" in the client's theorems means
any such), and none so far below zero that the cast to `u64`
brings it under `Horizon`, a time no process lives to see.

| Theorem | Statement |
|---|---|
| `BridgeInvariant` | `Spec => []Inv` of the bridge |
| `BridgeSafety` | context isolation, own generator, typed state, leaks, live context |
| `BridgeImplementsProtocol` | `Spec => Protocol!Spec` |
| `ReplayIsABridge` | `ReplaySpec => Spec` of the bridge |
| `ReplayInvariant`, `ReplaySafety` | the invariant of replay, and that every replay is undisturbed |
| `ReplayImplementsDurable` | `ReplaySpec => Durable!Spec` |
| `ReplayCounts`, `ReplaysAreBounded` | every replay is accounted for; so there is one per turn and one more per lost lock |
| `TaskInvariant`, `TaskSafety` | the invariant of a task over its turns, its types, and all safety properties of its run |
| `TaskIsDeterministic` | the action property `SameInEveryTurn` |
| `TaskImplementsPromise` | `Spec => Promise!Spec` |
| `ActivityInvariant`, `ActivitySafety` | the activity bridge's invariant and the safety properties of its run |
| `ActivityCancellationStays` | the action property `CancellationStays` |
| `ActivityImplementsContract` | `Spec => Contract!Spec` |
| `LifecycleInvariant`, `LifecycleSafety` | the runtime object's invariant and the safety properties of its run |
| `LifecycleImplementsContract` | `Spec => Contract!Spec` |
| `VersionsInvariant`, `VersionsSafety` | the registry's invariant and the properties of its run |
| `VersionsImplementContract` | `Spec => Contract!Spec` |
| `ClientInvariant`, `ClientSafety` | the conversation's invariant and the safety properties of its run |
| `ClientImplementsContract` | `Spec => Contract!Spec` |

*The bridge.* `ContextIsolation` is not inductive: that a native call reaches
its own context depends on the map, on who drew which token, and on when the
entry is there. `Inv` adds four parts. `TokensOwned`: a token is drawn once and
is below the counter. `ContextsOwned`: the entry under a token is its
invocation's, and is there from before JavaScript can know the token until the
guard runs; nobody holds the mutex between steps. `GeneratorsOwned`: there is
one generator per token, the guard knows which, and an invocation whose guard
knows none has left none behind unless its first yield was unreadable. `OneStepAtATime`: JavaScript
is in user code exactly while it serves an invocation that is blocked. The
proof has one lemma per part, each with one step per action that can disturb
it. The refinement maps `pc` and `serving` to a phase and uses `Inv` only where
a step of user code begins or a native call ends.

*Activities.* `NoFalseAlarm` and `CancellationStays` rest on `ToldTheTruth`:
an entry is missing while code runs only if the invocation was cancelled, so
reading a missing entry as cancelled tells the truth. `AnswerIsTrue` is that
lemma; `EndKeepsInv` covers all ways a future ends. For `ActivityContract`,
`SidesAgree` says that the two sides start and end once and in step, and
`AnswerIsTrue` that `isCancelled()`, answered from an entry or from a missing
one, gives the truth of that moment.

*Lifecycle.* `DriverTakenOnce` is why there is one engine: the driver functions
leave the object in the same uninterrupted stretch in which the engine's
start is asked for. `EnginesFollowCalls` and `EngineHeldOnce` say where the
engine is at each point of its life. The contract has one engine, one maker and
one stopper where the code has a field per call, so the mapping is a
choice; `OneMade` and `OneTaker` say that there is nothing to choose
(`OneEngineSeen`, `OneTakerSeen`). The steps that do nothing to the object, such as a
`shutdown()` that finds no engine, are the interesting ones: the contract
allows them only when nothing can be stopped or somebody else does it.

*Replay isolation.* Each step of `ReplayNext` is a step of the bridge or leaves
its variables alone (`BridgeRuns`), so the bridge's theorems hold of replays
under the engine, and a native call reaches the caller's own context
(`ReachesItsOwn`). From there `ProgramFits` follows the program statement by
statement: what a replay has recorded is the first `EventsRecorded` events of an
undisturbed run. `SnapshotFits` compares that with the history the replay
fetched: it goes on exactly while the history has the event, so a replay that is
done is one turn ahead or has returned. `LocksFit` says that the holder of a lock
fetched the history as it still is; so its commit appends one turn
(`HolderIsAhead`), which is a step of `DurableCounter`.

*How many replays.* `OneReplayPerTurn` counts sets, and no such count is
inductive. `ReplaysAccounted` gives the witnesses: of the replays of an instance
some have committed (as many as there are turns in its history), some are stale
(no more than locks were lost), and one may hold the lock. Every step moves one
replay between these three sets: a fetch makes a holder, a commit turns it
into a committed one, a lost lock into a stale one. That a stale replay never
commits is `LocksFit`; that a commit is of one turn is `HolderIsAhead`.

*Tasks.* What a poll returns is a function of a prefix of the history
(`PollIsStable`, `OneResult`), and the history only grows at its end. A turn polls
prefix by prefix, so all turns find the same first answer
(`GivenIsTheFirstAnswer`); that is `TaskIsDeterministic`. The properties of
`all`, `race` and single tasks follow from what a first answer looks like, and
`NothingLeftOpen` from the turn that commits it. `TaskPromise` has no history:
its parts end, and it answers from what has ended. The proof shows that the
code's way of finding the parts of a task and the author's agree
(`OneViewOfParts`), that what has ended is what the history has, read the same
way (`OneViewOfValues`, `EndedIsTheOutcome`), and then, for
refusals, `all`, `race` and single tasks each, that what a poll finds is
the promised answer at that point (`AnswerIsPromised`).

*Registry.* `RegisteredIsKnown`: what an engine knows or will know has its key in
the Map, which never loses one while the process lives. `KeysAreAuthored`: what
lies under a key was put there for that version. With `PinnedAsAsked` the three
properties follow, and they are what a step of `VersionContract` that begins a turn
asks for; registrations, `start()` and restarts change nothing else it sees.

*Client.* A message moves from its call to the queue, to the instance and into
the custom status, behind the ones before it (`QueueInOrder`,
`StatusOfTheLastReply`); unless the instance was deleted nothing falls out on that
way (`NothingLost`). A user of the status has one message on the way at most, and
none once the version is news (`OneAtATime`): that is why a version is enough to
tell replies apart, whatever happens to the instance. In `ChatContract` a message
counts from its call; the queue in between is not seen, so that a step of
`Dequeue` has to prove that its head is next (`QueueInOrder`, `NothingLost`),
and the end of a wait that what it found is the reply to just the message that is
waited for (`OneAtATime`), published by the instance as it now is
(`StatusOfTheLastReply`).

### Only model-checked

All liveness: `CallsAreAnswered`, `Completes`, `CancellationIsSeen`,
`CancelledIsReleased`, `IsAnswered`, `CallsSettle` and `ChatGoesOn` rest on
fairness, which is out of the prover's reach. The refinements are of the
specifications without fairness; no abstract specification here promises that
something happens, only what may. The five findings are counterexamples of TLC.

## 5. What is not modelled

* The engine's own algorithms, an engine that drops an activity it has not
  cancelled among them; the providers; Rust and JavaScript glue without
  state (`src/lib.rs`, `src/types.rs`, `index.js`, type declarations).
* Two threads inside the same `&mut JsRuntime` at one moment: the code
  leaves that to the caller.
* Differences between `serde_json` and `JSON.parse`; casts of runtime options.
* Of the client: `raiseEvent` (one message to a task, where `enqueueEvent` goes
  to a queue), listing, history, statistics, and the bulk, prune and management
  calls, which read, or remove what no execution looks at.
* Of a task: retry policies and sessions, which the engine interprets; the
  instance a detached start makes (its version is in `OrchestrationVersions`).
  `continueAsNew` appears where it matters, as the start of an execution, in
  `OrchestrationVersions` and `ClientCalls`.
* Of the context's native methods: trace and the custom-status, prune and
  clear calls. They look their context up as `setValue` and `getValue` do.

## 6. Plan

Done, in this order: driver and bridge with their protocol and proofs; replay
isolation; activities with proofs; task execution; lifecycle with proofs; the
function registry and the client's waits, with proofs; proofs of task
execution; the proof that replays implement durable execution; the account of
replays; an abstract specification for each component, with its refinement
proved.

To come:

1. *Replay isolation*: a program that yields several task types and uses custom
   status, so that `TaskExecution` and `ReplayIsolation` meet in one module.
2. *Client*: `raiseEvent` beside a `continueAsNew`, and prune against a wait.
3. *Versions in a conversation*: `ClientCalls` beginning its instance at a version
   of `OrchestrationVersions`.
