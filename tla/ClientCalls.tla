-------------------------------- MODULE ClientCalls --------------------------------
(***************************************************************************)
(* JsClient of src/client.rs and the Client class of lib/duroxide.js, in   *)
(* the conversation of __tests__/copilot_chat.test.js: a user sends        *)
(* numbered messages to the queue of one instance and waits for replies.   *)
(*                                                                         *)
(* Every call is async: it runs on a tokio thread and touches the store    *)
(* when it gets there, after other calls made meanwhile.  A wait polls the *)
(* store and gives up at its timeout, also when the answer came just then. *)
(* The user waits for a newer custom status (as the chat test does, but    *)
(* without its check of the number) or for the value of a key per message  *)
(* (as __tests__/kv_store.test.js); then messages need not wait for the    *)
(* replies to the ones before.  Somebody else may cancel, delete and start *)
(* the instance at any time.                                               *)
(*                                                                         *)
(* The store, the polling loops and the orchestration's turns are code of  *)
(* the duroxide crate.  What a continueAsNew keeps (queue, custom status,  *)
(* values) is all that the next execution has, so it does not show here.   *)
(***************************************************************************)
EXTENDS Integers, Sequences

CONSTANTS
  Last,          \* the number of the message that ends the conversation
  Timeouts,      \* timeouts in ms that the user passes
  U32, U64,      \* how many values Rust's u32 and u64 have
  Horizon,       \* a time in ms that no process lives to see
  MaxMeddling,   \* bound on what somebody else does
  NONE

ASSUME ClientAssumption ==
  /\ Last \in Nat \ {0} /\ Timeouts \subseteq Int /\ NONE \notin Int
  /\ U32 \in Nat /\ U64 \in Nat /\ Horizon \in Nat
  /\ Last < U32 /\ U32 <= Horizon /\ Horizon < U64
  /\ \A t \in Timeouts : t < U32 /\ -t < U64 - Horizon

VARIABLES
  status,        \* of the instance, as the store has it
  custom,        \* its custom status, or NONE
  version,       \* version of the custom status
  values,        \* the messages whose key has a value
  starting,      \* a start is in the store that no turn has taken up
  inbox,         \* the queue of messages
  working,       \* message a turn has taken and not replied to, or NONE
  taken,         \* messages taken so far
  transit,       \* messages of enqueueEvent calls on their way to the store
  mode,          \* what the user waits for: "status" or "values"
  at,            \* where the user's program is
  sent,          \* messages sent so far
  call,          \* the wait that is on
  seen,          \* version of the last custom status the user knows
  replies,       \* message -> the reply the user took for it
  final,         \* answer of waitForOrchestration, or NONE
  rejected,      \* the wait that was rejected last, or NONE
  spoiled,       \* the instance was deleted
  meddling       \* how often somebody else did something

storeVars == <<status, custom, version, values, starting, inbox, working, taken>>
userVars == <<mode, at, sent, call, seen, replies, final, rejected>>
otherVars == <<spoiled, meddling>>
vars == <<storeVars, transit, userVars, otherVars>>

Messages == 1..Last
NoCall == [op |-> "none", timeout |-> 0, polled |-> FALSE, key |-> NONE]

Init ==
  /\ status = "NotFound" /\ custom = NONE /\ version = 0 /\ values = {}
  /\ starting = FALSE /\ inbox = <<>> /\ working = NONE /\ taken = <<>>
  /\ transit = {}
  /\ mode \in {"status", "values"}
  /\ at = "new" /\ sent = 0 /\ call = NoCall /\ seen = 0
  /\ replies = [m \in {} |-> NONE]
  /\ final = NONE /\ rejected = NONE
  /\ spoiled = FALSE /\ meddling = 0

-----------------------------------------------------------------------------
(* Conversions on the way in and out.                                       *)

\* A JavaScript number to u32 (napi), and to i64 and then u64 (`as`).
AsU32(n) == n % U32
AsU64(n) == n % U64

\* convert_status on what the store has now.
convert_status ==
  IF status = "NotFound"
  THEN [status |-> status, output |-> NONE, custom |-> NONE, version |-> 0]
  ELSE [status |-> status, custom |-> custom, version |-> version,
        output |-> IF status = "Completed" THEN custom ELSE NONE]

-----------------------------------------------------------------------------
(* Calls that write.                                                        *)

\* startOrchestration: the start lies in the store; one that is there is enough.
StartOrchestration ==
  /\ at = "new"
  /\ at' = "ready"
  /\ starting' = TRUE
  /\ UNCHANGED <<status, custom, version, values, inbox, working, taken, transit,
                 mode, sent, call, seen, replies, final, rejected, otherVars>>

\* Mutant: the promise resolves before the store has the message.
NotAwaited == TRUE

\* The promise of the last enqueueEvent has resolved.
Enqueued == transit = {}

Answered(m) == m \in DOMAIN replies

CallEnqueueEvent ==
  /\ at = "ready" /\ Enqueued /\ sent < Last
  /\ mode = "status" => \A m \in 1..sent : Answered(m)
  /\ sent' = sent + 1
  /\ transit' = transit \cup {sent + 1}
  /\ UNCHANGED <<storeVars, mode, at, call, seen, replies, final, rejected, otherVars>>

\* The store has the message.  An instance that is not there may lose it.
EnqueueEvent(m) ==
  /\ m \in transit
  /\ transit' = transit \ {m}
  /\ \/ inbox' = Append(inbox, m)
     \/ status = "NotFound" /\ ~starting /\ UNCHANGED inbox
  /\ UNCHANGED <<status, custom, version, values, starting, working, taken,
                 userVars, otherVars>>

-----------------------------------------------------------------------------
(* Waits.                                                                   *)

Waits == {"waitForStatusChange", "waitForValue", "waitForOrchestration"}

CallWait(op, key, t) ==
  /\ at = "ready" /\ Enqueued
  /\ at' = "waiting"
  /\ call' = [op |-> op, timeout |-> t, polled |-> FALSE, key |-> key]
  /\ UNCHANGED <<storeVars, transit, mode, sent, seen, replies, final, rejected, otherVars>>

CallWaitForReply(t) ==
  \E m \in 1..sent :
    /\ ~Answered(m)
    /\ CallWait(IF mode = "status" THEN "waitForStatusChange" ELSE "waitForValue", m, t)

\* The end is waited for when every message but the last is replied to.
CallWaitForOrchestration(t) ==
  /\ sent = Last /\ \A m \in 1..Last - 1 : Answered(m)
  /\ CallWait("waitForOrchestration", NONE, t)

\* Mutant: every wait starts from version 0, as in docs/user-guide.md:367.
AnyVersion == 0

\* Mutant: a wait starts from the version it is for.
NextVersion == AsU64(seen + 1)

\* last_seen_version as u64
last_seen_version == AsU64(seen)

Over == status \in {"Completed", "Failed"}

Take(m, reply) == replies' = [k \in DOMAIN replies \cup {m} |-> IF k = m THEN reply ELSE replies[k]]

\* A newer custom status.  An instance that is over may be an answer too.
WaitForStatusChange ==
  LET s == convert_status IN
  /\ call.op = "waitForStatusChange"
  /\ \/ /\ version > last_seen_version
        /\ seen' = s.version
        /\ Take(call.key, s.custom)
        /\ at' = "ready"
     \/ /\ version <= last_seen_version /\ Over
        /\ at' = "over"
        /\ UNCHANGED <<seen, replies>>
  /\ call' = NoCall
  /\ UNCHANGED <<storeVars, transit, mode, sent, final, rejected, otherVars>>

WaitForValue ==
  /\ call.op = "waitForValue" /\ call.key \in values
  /\ Take(call.key, call.key)
  /\ at' = "ready"
  /\ call' = NoCall
  /\ UNCHANGED <<storeVars, transit, mode, sent, seen, final, rejected, otherVars>>

\* waitForOrchestrationTyped throws if the status is Failed.
WaitForOrchestration ==
  /\ call.op = "waitForOrchestration" /\ Over
  /\ final' = convert_status
  /\ at' = IF final'.status = "Failed" THEN "over" ELSE "done"
  /\ call' = NoCall
  /\ UNCHANGED <<storeVars, transit, mode, sent, seen, replies, rejected, otherVars>>

\* The timeout of the wait comes while somebody is there to see it.
Expires(op, t) == (IF op = "waitForValue" THEN AsU32(t) ELSE AsU64(t)) < Horizon

\* A poll that finds nothing the wait is for.
PollInVain ==
  /\ at = "waiting" /\ ~call.polled
  /\ CASE call.op = "waitForStatusChange" -> version <= last_seen_version
       [] call.op = "waitForValue" -> call.key \notin values
       [] call.op = "waitForOrchestration" -> ~Over
  /\ call' = [call EXCEPT !.polled = TRUE]
  /\ UNCHANGED <<storeVars, transit, mode, at, sent, seen, replies, final, rejected, otherVars>>

\* The promise is rejected (for waitForValue: Rust answers None, JavaScript
\* throws).  The program waits again or gives up.
WaitTimesOut ==
  /\ at = "waiting" /\ call.polled /\ Expires(call.op, call.timeout)
  /\ at' \in {"ready", "gaveup"}
  /\ rejected' = call.op
  /\ call' = NoCall
  /\ UNCHANGED <<storeVars, transit, mode, sent, seen, replies, final, otherVars>>

\* A program that has no reply outstanding looks the version up anew.
GetStatus ==
  /\ at = "ready" /\ mode = "status" /\ \A m \in 1..sent : Answered(m)
  /\ seen' = convert_status.version
  /\ UNCHANGED <<storeVars, transit, mode, at, sent, call, replies, final, rejected, otherVars>>

-----------------------------------------------------------------------------
(* The instance: the ChatBot orchestration.                                 *)

TakeStart ==
  /\ starting
  /\ starting' = FALSE
  /\ status' = IF status = "NotFound" THEN "Running" ELSE status
  /\ UNCHANGED <<custom, version, values, inbox, working, taken, transit, userVars, otherVars>>

\* dequeueEvent answers.
Dequeue ==
  /\ status = "Running" /\ working = NONE /\ inbox # <<>>
  /\ working' = Head(inbox)
  /\ inbox' = Tail(inbox)
  /\ taken' = Append(taken, Head(inbox))
  /\ UNCHANGED <<status, custom, version, values, starting, transit, userVars, otherVars>>

\* The activity is done; the reply is published, and the execution continues as
\* new or, after the last message, returns.
Reply ==
  /\ status = "Running" /\ working # NONE
  /\ custom' = working
  /\ version' = version + 1
  /\ values' = values \cup {working}
  /\ working' = NONE
  /\ status' = IF working = Last THEN "Completed" ELSE "Running"
  /\ UNCHANGED <<starting, inbox, taken, transit, userVars, otherVars>>

\* The activity fails, or a cancellation arrives.
Fail ==
  /\ status = "Running" /\ status' = "Failed" /\ working' = NONE
  /\ UNCHANGED <<custom, version, values, starting, inbox, taken, transit, userVars>>

-----------------------------------------------------------------------------
(* Somebody else.                                                           *)

Meddle == meddling < MaxMeddling /\ meddling' = meddling + 1

StartAgain ==
  /\ Meddle
  /\ starting' = TRUE
  /\ UNCHANGED <<status, custom, version, values, inbox, working, taken, transit,
                 userVars, spoiled>>

CancelInstance == Meddle /\ Fail /\ UNCHANGED spoiled

ActivityFails == working # NONE /\ Fail /\ UNCHANGED otherVars

\* force deletes a running instance too.
DeleteInstance(force) ==
  /\ Meddle
  /\ Over \/ (force /\ status = "Running")
  /\ status' = "NotFound" /\ custom' = NONE /\ version' = 0 /\ values' = {}
  /\ inbox' = <<>> /\ working' = NONE
  /\ spoiled' = TRUE
  /\ UNCHANGED <<starting, taken, transit, userVars>>

-----------------------------------------------------------------------------
CallWaits == \E t \in Timeouts : CallWaitForReply(t) \/ CallWaitForOrchestration(t)
Resolve == WaitForStatusChange \/ WaitForValue \/ WaitForOrchestration

Stopped == at \in {"done", "gaveup", "over"} /\ UNCHANGED vars

Next ==
  \/ StartOrchestration \/ CallEnqueueEvent \/ CallWaits \/ GetStatus
  \/ \E m \in Messages : EnqueueEvent(m)
  \/ Resolve \/ PollInVain \/ WaitTimesOut
  \/ TakeStart \/ Dequeue \/ Reply \/ ActivityFails
  \/ StartAgain \/ CancelInstance \/ \E force \in BOOLEAN : DeleteInstance(force)
  \/ Stopped

Spec == Init /\ [][Next]_vars

\* tokio runs the calls; a wait polls again, and its timeout comes if it ever
\* does; the instance gets its turns and its activities settle; the program goes
\* on when it can.  Nobody need meddle.
Fairness ==
  /\ WF_vars(\E m \in Messages : EnqueueEvent(m))
  /\ WF_vars(Resolve) /\ WF_vars(PollInVain) /\ WF_vars(WaitTimesOut)
  /\ WF_vars(TakeStart) /\ WF_vars(Dequeue) /\ WF_vars(Reply)
  /\ WF_vars(CallEnqueueEvent) /\ WF_vars(CallWaits)

FairSpec == Spec /\ Fairness

-----------------------------------------------------------------------------
(* Properties.                                                              *)

TypeOK ==
  /\ status \in {"NotFound", "Running", "Completed", "Failed"}
  /\ custom \in Messages \cup {NONE} /\ version \in Nat
  /\ values \subseteq Messages /\ starting \in BOOLEAN
  /\ inbox \in Seq(Messages) /\ taken \in Seq(Messages)
  /\ working \in Messages \cup {NONE} /\ transit \subseteq Messages
  /\ mode \in {"status", "values"}
  /\ at \in {"new", "ready", "waiting", "done", "gaveup", "over"}
  /\ sent \in 0..Last /\ seen \in Nat
  /\ call = NoCall \/ call \in [op : Waits, timeout : Timeouts, polled : BOOLEAN,
                                key : Messages \cup {NONE}]
  /\ DOMAIN replies \subseteq 1..sent
  /\ rejected \in Waits \cup {NONE}
  /\ spoiled \in BOOLEAN /\ meddling \in Nat

(* What the user takes for the reply to a message is the reply to that     *)
(* message, although nothing but the version tells one status from the     *)
(* next, waits time out and are made again, and the instance is started    *)
(* again, cancelled or deleted meanwhile.  Unless it was deleted, the      *)
(* answer of the last wait has the last custom status and its version.     *)
RepliesMatch ==
  /\ \A m \in DOMAIN replies : replies[m] = m
  /\ at = "done" /\ ~spoiled =>
       final = [status |-> "Completed", output |-> Last, custom |-> Last, version |-> Last]

(* Messages whose calls were awaited are taken in the order of the calls,  *)
(* each once; none is left out unless the instance was deleted.            *)
AwaitedInOrder ==
  /\ \A i, j \in DOMAIN taken : i < j => taken[i] < taken[j]
  /\ ~spoiled => \A i \in DOMAIN taken : taken[i] = i

(***************************************************************************)
(* Why they hold.  A message moves from its call to the queue, to the      *)
(* instance and into the custom status, behind the ones before             *)
(* (QueueInOrder, StatusOfTheLastReply); unless the instance was deleted,  *)
(* all that was sent is somewhere on that way (NothingLost).  A user of    *)
(* the status has one message on the way at most, and none once the        *)
(* version is news (OneAtATime), whatever became of the instance.          *)
(***************************************************************************)
QueueInOrder ==
  /\ transit \subseteq {sent}
  /\ \A i \in DOMAIN inbox : inbox[i] \notin transit /\ inbox[i] <= sent
  /\ \A i, j \in DOMAIN inbox : i < j => inbox[i] < inbox[j]
  /\ \A i \in DOMAIN taken :
       /\ taken[i] \notin transit /\ taken[i] <= sent
       /\ \A j \in DOMAIN inbox : taken[i] < inbox[j]

StatusOfTheLastReply ==
  /\ working # NONE => status = "Running" /\ taken # <<>> /\ working = taken[Len(taken)]
  /\ version = 0 => custom = NONE
  /\ version > 0 => custom \in Messages /\ version <= custom
  /\ custom # NONE => custom \in values
  /\ custom # NONE => \E i \in DOMAIN taken :
       taken[i] = custom /\ (working # NONE => i < Len(taken))
  /\ status = "NotFound" => version = 0

NothingLost ==
  /\ at = "new" => sent = 0
  /\ ~spoiled =>
       /\ at = "new" \/ starting \/ status # "NotFound"
       /\ \A i \in DOMAIN inbox : inbox[i] = Len(taken) + i
       /\ sent = Len(taken) + Len(inbox) + (IF transit = {} THEN 0 ELSE 1)
       /\ status = "NotFound" => taken = <<>>
       /\ status = "Running" => Len(taken) = version + (IF working = NONE THEN 0 ELSE 1)
       /\ status = "Completed" => version = Last
       /\ version > 0 => custom = version

CallsFit ==
  /\ at = "waiting" <=> call # NoCall
  /\ call.op = "waitForStatusChange" => mode = "status"
  /\ call.op = "waitForValue" => mode = "values" /\ call.key \in 1..sent /\ ~Answered(call.key)
  /\ call.op = "waitForStatusChange" => call.key = sent /\ ~Answered(sent) /\ sent > 0

OneAtATime == mode = "status" =>
  /\ DOMAIN replies \in {1..sent, 1..sent - 1}
  /\ version > seen =>
       /\ transit = {} /\ inbox = <<>> /\ working = NONE
       /\ ~Answered(sent) /\ custom = sent
  /\ \A m \in transit : inbox = <<>> /\ working = NONE /\ ~Answered(m)
  /\ inbox # <<>> => working = NONE /\ ~Answered(sent) /\ Len(inbox) = 1 /\ inbox[1] = sent
  /\ working # NONE => ~Answered(sent) /\ working = sent

Inv ==
  /\ TypeOK /\ seen <= Last
  /\ QueueInOrder /\ StatusOfTheLastReply /\ NothingLost /\ CallsFit /\ OneAtATime
  /\ RepliesMatch /\ AwaitedInOrder

(***************************************************************************)
(* The calls, the waits and the store keep the contract of ChatContract:   *)
(* messages are worked on in the order of their calls, and no wait gives a *)
(* reply before it was published, or one of an instance that is gone.      *)
(***************************************************************************)
Contract == INSTANCE ChatContract
              WITH busy <- working, replied <- values, learned <- replies, lost <- spoiled

ImplementsContract == Contract!Spec

Disturbed == status = "Failed" \/ spoiled

(* A message is answered, unless its instance fails or is deleted, or the  *)
(* user gives up; and a wait settles if its timeout is not negative or it  *)
(* is waitForValue, which takes a u32, so that a negative timeout is a     *)
(* long one (wait_for_value of client.rs).  A negative one is no timeout   *)
(* for the waits that take an i64: such a wait for an instance that is     *)
(* gone never ends.                                                        *)
ChatGoesOn ==
  /\ \A m \in Messages : m <= sent ~> Answered(m) \/ at \in {"done", "gaveup", "over"} \/ Disturbed
  /\ \A t \in Timeouts :
       (at = "waiting" /\ call.timeout = t /\ (t >= 0 \/ call.op = "waitForValue"))
         ~> at # "waiting"

(* docs/user-guide.md:605, README.md:220, docs/architecture.md:280: on a   *)
(* timeout waitForStatusChange answers null.                               *)
TimeoutIsNull == rejected # "waitForStatusChange"
=============================================================================
