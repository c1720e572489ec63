----------------------------- MODULE TaskExecution -----------------------------
(***************************************************************************)
(* execute_task of src/handlers.rs: one task an orchestration yields, from *)
(* its descriptor to what its generator is fed, over all the turns in      *)
(* which the orchestration is replayed.                                    *)
(*                                                                         *)
(* A turn makes a new future of execute_task and polls it.  The first poll *)
(* schedules the task, or the children of a join or select; the engine     *)
(* matches what is scheduled with the history.  It then delivers the       *)
(* completions of the history in their order and polls after each one.     *)
(* A turn whose future is still pending then is over: what it scheduled is *)
(* committed and the future dropped.  A turn may also be lost before it is *)
(* committed (crash, expired lock).  After the task is answered the        *)
(* orchestration goes on, and later turns replay the task again.           *)
(*                                                                         *)
(* The engine (turns, history, completions, cancellation of dropped        *)
(* futures) is code of the duroxide crate.  Task types that go the same    *)
(* way are one here: "activity" is also activityWithRetry and the four     *)
(* subOrchestration types, "waitEvent" is also dequeueEvent, "newGuid" is  *)
(* also utcNow, "orchestration" is also orchestrationVersioned.            *)
(***************************************************************************)
EXTENDS Naturals, Sequences, TaskValues

CONSTANTS
  Tasks,     \* descriptors the orchestration may yield
  Values,    \* values activities and event senders produce
  Failures,  \* texts activities fail with
  MaxIdle,   \* bound on the turns that bring this task nothing new
  MaxLost,   \* bound on the lost turns
  NONE

ASSUME TasksAssumption ==
  /\ \A t \in Tasks : Len(t.tasks) \in Nat /\ DOMAIN t.tasks = 1 .. Len(t.tasks)
  /\ MaxIdle \in Nat /\ MaxLost \in Nat /\ NONE \notin Nat

VARIABLES
  task,       \* the descriptor that is yielded, the same in every turn
  turn,       \* none, polling or answered
  fetched,    \* completions in the history the turn works on
  seen,       \* completions delivered in this turn
  given,      \* what the generator was last fed for the task, or NONE
  sched,      \* committed: children scheduled
  comps,      \* committed: completions, in order
  cancelled,  \* committed: children whose future was dropped by a select
  handled,    \* committed: completions the turns have worked on, or NONE
  idle, lost  \* idle and lost turns so far

vars == <<task, turn, fetched, seen, given, sched, comps, cancelled, handled, idle, lost>>

Composites == {"join", "select"}

\* Task types make_join_future and make_select_future know.
Composable == {"activity", "timer", "waitEvent", "getValueFromInstance"}

Children == IF task.type \in Composites THEN task.tasks ELSE <<task>>

Init ==
  /\ task \in Tasks
  /\ turn = "none"
  /\ fetched = 0 /\ seen = 0
  /\ given = NONE
  /\ sched = {}
  /\ comps = << >>
  /\ cancelled = {}
  /\ handled = NONE
  /\ idle = 0 /\ lost = 0

-----------------------------------------------------------------------------
(* execute_task.                                                            *)

HasNested == \E k \in DOMAIN task.tasks : task.tasks[k].type \in Composites

\* The early returns of join and select: the error, if there is one.
Rejections ==
  IF task.type = "select" /\ Len(task.tasks) # 2 THEN {"exactly 2 tasks"}
  ELSE IF task.type \in Composites /\ HasNested THEN {"nested join/select"}
  ELSE {}

Supported(k) == task.type \in Composites => Children[k].type \in Composable

\* Mutant: the children are made into futures before the nesting is checked.
OpensBeforeChecks ==
  IF task.type = "orchestration" THEN {} ELSE {k \in DOMAIN Children : Supported(k)}

\* Children whose future the first poll reaches and which schedule something:
\* a select does not poll its second child when the first is ready at once.
Opens ==
  IF Rejections # {} \/ task.type = "orchestration" THEN {}
  ELSE IF task.type = "select" /\ ~Supported(1) THEN {}
  ELSE {k \in DOMAIN Children : Supported(k)}

\* Mutant: a stored value is passed on as the text it is, not as a JSON string.
StoredTextAsIs(type, x) ==
  CASE type = "timer" -> Json(Null)
    [] type = "getValueFromInstance" -> IF IsStr(x) THEN x.str ELSE Json(x)
    [] type = "newGuid" -> Json(Str(x))
    [] OTHER -> x

\* What the engine hands over for a task that succeeded, as the text Rust passes on.
Encoded(type, x) ==
  CASE type = "timer" -> Json(Null)
    [] type = "getValueFromInstance" -> Json(x)
    [] type = "newGuid" -> Json(Str(x))
    [] OTHER -> x

LeafResult(type, outcome) ==
  IF Failed(outcome) THEN outcome ELSE Ok(Encoded(type, outcome.ok))

Unsupported == Err(Raw("unsupported task"))

\* The result of child k after n completions: one, or none yet.
ResultOf(k, n) ==
  IF ~Supported(k) THEN {Unsupported}
  ELSE {LeafResult(Children[k].type, comps[c].outcome) :
          c \in {c \in 1 .. n : comps[c].child = k}}

Ready(k, n) == ResultOf(k, n) # {}

TheResult(k, n) == CHOOSE r \in ResultOf(k, n) : TRUE

JoinOf(items) == Ok(Json(Arr(items)))

\* Mutant: join gives up at the first failure.
JoinUntilFailure(n) ==
  IF \A k \in DOMAIN Children : Ready(k, n) \/ \E j \in DOMAIN Children :
       Ready(j, n) /\ Failed(TheResult(j, n))
  THEN {JoinOf([k \in DOMAIN Children |->
          Wrapped(IF Ready(k, n) THEN TheResult(k, n) ELSE Unsupported)])}
  ELSE {}

\* Mutant: join waits for the successes only.
JoinOfSuccesses(n) ==
  IF \A k \in DOMAIN Children : Ready(k, n) /\ ~Failed(TheResult(k, n))
  THEN {JoinOf([k \in DOMAIN Children |-> Wrapped(TheResult(k, n))])}
  ELSE {}

JoinResults(n) ==
  IF \A k \in DOMAIN Children : Ready(k, n)
  THEN {JoinOf([k \in DOMAIN Children |-> Wrapped(TheResult(k, n))])}
  ELSE {}

\* select2 polls its first future first.
SelectResults(n) ==
  IF Ready(1, n) THEN {select_result(0, TheResult(1, n))}
  ELSE IF Ready(2, n) THEN {select_result(1, TheResult(2, n))}
  ELSE {}

\* What a poll after n completions returns: nothing while it is pending.
PollResults(n) ==
  IF Rejections # {} THEN {Err(Raw(r)) : r \in Rejections}
  ELSE CASE task.type = "join" -> JoinResults(n)
         [] task.type = "select" -> SelectResults(n)
         [] task.type = "orchestration" -> {Ok(Json(Null))}
         [] OTHER -> ResultOf(1, n)

\* Poll once; when the task is done nextStep feeds its result to the generator.
Poll(n) ==
  IF PollResults(n) = {}
  THEN turn' = "polling" /\ UNCHANGED given
  ELSE /\ turn' = "answered"
       /\ \E r \in PollResults(n) : given' = Fed(r, task.type, task.typed)

-----------------------------------------------------------------------------
(* The engine.                                                              *)

\* A turn is due to begin the task, to hand it news, or because one was lost.
Due == handled # NONE => Len(comps) > handled

StartTurn ==
  /\ turn = "none"
  /\ IF Due THEN UNCHANGED idle ELSE idle < MaxIdle /\ idle' = idle + 1
  /\ fetched' = Len(comps)
  /\ seen' = 0
  /\ Poll(0)
  /\ UNCHANGED <<task, sched, comps, cancelled, handled, lost>>

\* Mutant: all completions of the history are delivered before the next poll.
DeliverAll ==
  /\ turn = "polling"
  /\ seen < fetched
  /\ seen' = fetched
  /\ Poll(fetched)
  /\ UNCHANGED <<task, fetched, sched, comps, cancelled, handled, idle, lost>>

Deliver ==
  /\ turn = "polling"
  /\ seen < fetched
  /\ seen' = seen + 1
  /\ Poll(seen + 1)
  /\ UNCHANGED <<task, fetched, sched, comps, cancelled, handled, idle, lost>>

\* Mutant: a child that was never started is cancelled too.
LosersStartedOrNot ==
  IF task.type = "select" THEN {k \in DOMAIN Children : ~Ready(k, seen)} ELSE {}

\* A child that a select started and dropped before it was ready.
Losers == IF task.type = "select" THEN {k \in Opens : ~Ready(k, seen)} ELSE {}

Commit ==
  /\ \/ turn = "polling" /\ seen = fetched /\ UNCHANGED cancelled
     \/ turn = "answered" /\ cancelled' = cancelled \cup Losers
  /\ turn' = "none"
  /\ sched' = sched \cup Opens
  /\ handled' = fetched
  /\ UNCHANGED <<task, fetched, seen, given, comps, idle, lost>>

LoseTurn ==
  /\ turn # "none"
  /\ lost < MaxLost
  /\ lost' = lost + 1
  /\ turn' = "none"
  /\ UNCHANGED <<task, fetched, seen, given, sched, comps, cancelled, handled, idle>>

Outcomes(type) ==
  CASE type = "activity" -> {Ok(Json(v)) : v \in Values} \cup {Err(f) : f \in Failures}
    [] type = "waitEvent" -> {Ok(Json(v)) : v \in Values} \cup {Ok(Raw("data"))}
    [] type = "getValueFromInstance" ->
         {Ok(Null)} \cup {Ok(Str(Json(v))) : v \in Values} \cup {Err(f) : f \in Failures}
    [] type = "timer" -> {Ok(Null)}
    [] OTHER -> {Ok(Raw("guid"))}

Completed == {comps[c].child : c \in DOMAIN comps}

\* A scheduled child completes; a cancelled one may do so all the same.
Complete(k) ==
  /\ k \in sched \ Completed
  /\ \E outcome \in Outcomes(Children[k].type) :
       comps' = Append(comps, [child |-> k, outcome |-> outcome])
  /\ UNCHANGED <<task, turn, fetched, seen, given, sched, cancelled, handled, idle,
                 lost>>

\* No turn is due; nothing obliges the rest to complete.
Over == turn = "none" /\ ~Due /\ idle = MaxIdle /\ UNCHANGED vars

Positions == {1} \cup UNION {DOMAIN t.tasks : t \in Tasks}

Next == StartTurn \/ Deliver \/ Commit \/ LoseTurn \/ Over
          \/ \E k \in Positions : Complete(k)

Spec == Init /\ [][Next]_vars

(***************************************************************************)
(* The engine starts the turns that are due and finishes those it starts,  *)
(* and every scheduled child completes at some time.                       *)
(***************************************************************************)
Fairness ==
  /\ WF_vars(Due /\ StartTurn)
  /\ WF_vars(Deliver \/ Commit)
  /\ \A k \in Positions : WF_vars(Complete(k))

FairSpec == Spec /\ Fairness
-----------------------------------------------------------------------------
(* Properties.                                                              *)

\* What child k produced, as the author of the orchestration thinks of it.
OutcomeOf(k) == comps[CHOOSE c \in DOMAIN comps : comps[c].child = k].outcome

ValueOf(k) == ValueAs(Children[k].type, OutcomeOf(k))

Reads(v) == IF task.typed THEN tryJsonParse(v) ELSE v

Item(k) ==
  CASE ~Supported(k) -> Obj([err |-> Str(Unsupported.err)])
    [] Supported(k) /\ Failed(OutcomeOf(k)) ->
         Obj([err |-> Reads(Parsed(OutcomeOf(k).err))])
    [] OTHER -> Obj([ok |-> Reads(ValueOf(k))])

Thrown(k) == [throw |-> ErrorMessage(Parsed(OutcomeOf(k).err))]

(* Types.                                                                   *)
TypeOK ==
  /\ task \in Tasks
  /\ turn \in {"none", "polling", "answered"}
  /\ seen \in 0 .. fetched /\ fetched \in 0 .. Len(comps)
  /\ given = NONE \/ DOMAIN given \in {{"next"}, {"throw"}}
  /\ sched \subseteq DOMAIN Children
  /\ Completed \subseteq sched
  /\ cancelled \subseteq sched
  /\ handled \in 0 .. Len(comps) \cup {NONE}
  /\ idle \in 0 .. MaxIdle /\ lost \in 0 .. MaxLost

(* A task is answered once and for all: whatever completes later, and in   *)
(* whatever turn it is replayed, the generator is fed the same thing.      *)
SameInEveryTurn == [][given # NONE => given' = given]_vars

(* all() waits for every child and gives each its own place, whatever the  *)
(* order they complete in, and a failure costs no other child its result   *)
(* (lib/duroxide.d.ts:34, docs/user-guide.md:75).                          *)
AllGivesEachChildItsPlace ==
  (given # NONE /\ task.type = "join" /\ Rejections = {}) =>
    /\ \A k \in DOMAIN Children : Supported(k) => k \in Completed
    /\ given = [next |-> Arr([k \in DOMAIN Children |-> Item(k)])]

(* race() gives the child that completed first in the history, with its    *)
(* place; a failed winner throws what it throws when yielded on its own    *)
(* (lib/duroxide.js:523-527).                                              *)
RaceGivesTheFirst ==
  (given # NONE /\ task.type = "select" /\ Rejections = {} /\ Supported(1) /\ Supported(2)) =>
    LET winner == comps[1].child IN
    given = IF Failed(OutcomeOf(winner)) THEN Thrown(winner)
            ELSE [next |-> Obj([index |-> winner - 1, value |-> Reads(ValueOf(winner))])]

(* A task yielded on its own gives its value or throws its error.          *)
AloneGivesItsOwn ==
  (given # NONE /\ task.type \notin Composites \cup {"orchestration"}) =>
    given = IF Failed(OutcomeOf(1)) THEN Thrown(1)
            ELSE [next |-> IF task.type = "activity" THEN Reads(ValueOf(1)) ELSE ValueOf(1)]

(* Nothing is left behind: after an answered turn is committed, whatever   *)
(* the task scheduled in any turn has completed or is cancelled; a task    *)
(* that is rejected has scheduled nothing.                                 *)
NothingLeftOpen ==
  /\ (given # NONE /\ turn = "none" /\ handled # NONE /\ handled = fetched) =>
       sched \subseteq Completed \cup cancelled
  /\ Rejections # {} => sched = {}

(***************************************************************************)
(* Why they hold.  A child completes once (CompletionsFit), so a poll has  *)
(* one result at most, and it depends on a prefix of the history, which    *)
(* never changes.  The polls of a turn go through the prefixes one by one  *)
(* (PollsSoFar); so in every turn the generator is fed the result of the   *)
(* shortest prefix that has one (GivenIsTheFirstAnswer), and the turn that *)
(* commits it drops what this prefix leaves open (LosersAreCancelled).     *)
(***************************************************************************)
CompletionsFit ==
  /\ comps \in Seq([child : DOMAIN Children,
                    outcome : UNION {Outcomes(Children[k].type) : k \in DOMAIN Children}])
  /\ \A c, d \in DOMAIN comps : comps[c].child = comps[d].child => c = d

FirstAnswer(n) == PollResults(n) # {} /\ \A m \in 0 .. n - 1 : PollResults(m) = {}

GivenIsTheFirstAnswer == given # NONE =>
  \E n \in 0 .. fetched : FirstAnswer(n)
    /\ \E r \in PollResults(n) : given = Fed(r, task.type, task.typed)

PollsSoFar ==
  /\ turn = "polling" => \A m \in 0 .. seen : PollResults(m) = {}
  /\ turn = "answered" => \E n \in 0 .. fetched : n = seen /\ FirstAnswer(n)

LosersAreCancelled ==
  /\ sched \subseteq Opens
  /\ (handled # NONE /\ task.type = "select") =>
       \A n \in 0 .. handled : FirstAnswer(n) => {k \in Opens : ~Ready(k, n)} \subseteq cancelled

Inv == /\ TypeOK /\ CompletionsFit /\ GivenIsTheFirstAnswer /\ PollsSoFar
       /\ LosersAreCancelled

(***************************************************************************)
(* Turns, replays, lost turns and polls together keep the promise of       *)
(* TaskPromise: one answer, the promised one, made of what the parts ended *)
(* with, however many turns it takes.                                      *)
(***************************************************************************)
Ended == [k \in Completed |-> OutcomeOf(k)]
First == IF comps = << >> THEN NONE ELSE comps[1].child

Promise == INSTANCE TaskPromise
             WITH Outcomes <- Outcomes, ended <- Ended, first <- First, answer <- given

ImplementsPromise == Promise!Spec

(* Every task is answered in the end.                                      *)
IsAnswered == <>(given # NONE)

(* docs/user-guide.md:667, "For 3+ way races, nest race() calls".          *)
NestedRacesRace ==
  (given # NONE /\ task.type = "select" /\ Len(task.tasks) = 2
    /\ \A k \in 1 .. 2 : task.tasks[k].type \in Composable \cup {"select"}) =>
    \A r \in Rejections : given # [throw |-> Raw(r)]

(* docs/user-guide.md:96, "ctx.race() supports all task types".            *)
RaceTakesEveryType ==
  (given # NONE /\ task.type = "select" /\ Rejections = {}) =>
    given # [throw |-> Unsupported.err]
=============================================================================
