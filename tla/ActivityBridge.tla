----------------------------- MODULE ActivityBridge -----------------------------
(***************************************************************************)
(* JsActivityHandler of src/handlers.rs, the wrapper Runtime.registerActi- *)
(* vity puts around the user's async function, and the ActivityContext of  *)
(* lib/duroxide.js.                                                        *)
(*                                                                         *)
(* An invocation has two sides that end on their own.  The Rust side is a  *)
(* future that awaits JavaScript twice: until the wrapper has been entered *)
(* and returned its promise, and until the promise settles.  The worker    *)
(* may drop it at either await: it does so when the activity was cancelled *)
(* and the grace period is over.  The JavaScript side is an async function *)
(* nobody can stop; it may start and go on after the Rust side is gone.    *)
(* What joins them is the token under which ACTIVITY_CTXS holds the        *)
(* context.  The worker (cancellation, grace period) is code of the        *)
(* duroxide crate.                                                         *)
(***************************************************************************)
EXTENDS KeyedMap

CONSTANTS
  Invocations,  \* invocations of activity handlers
  WorkItems,    \* activities to execute; one may be executed again
  Tags,         \* routing tags in use (non-empty strings)
  NONE


VARIABLES
  pc,            \* where the Rust future of an invocation is
  work,          \* the work item it executes
  tag,           \* the tag in its ActivityContext, or NONE
  tokenCounter,  \* ACTIVITY_TOKEN_COUNTER
  token,         \* the token of an invocation
  ctxs,          \* ACTIVITY_CTXS: token -> invocation whose context it is
  cancelled,     \* the cancellation token of an invocation's context
  js,            \* the JavaScript side of an invocation
  told,          \* the last answer of ctx.isCancelled() to its code
  outcome,       \* what the worker got: ok, err, or aborted by the worker
  envOpen        \* the Node environment still accepts calls

vars == <<pc, work, tag, tokenCounter, token, ctxs, cancelled, js, told, outcome, envOpen>>

PCs == {"idle", "insert", "calling", "running", "done"}
JsStates == {"none", "queued", "running", "fulfilled", "rejected", "lost"}
Outcomes == {"ok", "err", "aborted"}

ASSUME NoneAssumption ==
  NONE \notin Invocations \cup WorkItems \cup Tags \cup Outcomes \cup Nat

Goto(a, there) == pc' = [pc EXCEPT ![a] = there]

Init ==
  /\ pc = [a \in Invocations |-> "idle"]
  /\ work = [a \in Invocations |-> NONE]
  /\ tag = [a \in Invocations |-> NONE]
  /\ tokenCounter = 0
  /\ token = [a \in Invocations |-> NONE]
  /\ ctxs = << >>
  /\ cancelled = [a \in Invocations |-> FALSE]
  /\ js = [a \in Invocations |-> "none"]
  /\ told = [a \in Invocations |-> FALSE]
  /\ outcome = [a \in Invocations |-> NONE]
  /\ envOpen = TRUE

-----------------------------------------------------------------------------
(* The Rust side.                                                           *)

\* Mutant: contexts keyed by the activity they execute.
ContextKeyByWork(a, w) == w

ContextKey(a, w) == tokenCounter

NewToken(a, w, t) ==
  /\ pc[a] = "idle"
  /\ work' = [work EXCEPT ![a] = w]
  /\ tag' = [tag EXCEPT ![a] = t]
  /\ token' = [token EXCEPT ![a] = ContextKey(a, w)]
  /\ tokenCounter' = tokenCounter + 1
  /\ Goto(a, "insert")
  /\ UNCHANGED <<ctxs, cancelled, js, told, outcome, envOpen>>

\* Store the context, make the guard, put the call into the queue; Node
\* takes no call once its environment is closed.
InsertContext(a) ==
  /\ pc[a] = "insert"
  /\ ctxs' = With(ctxs, token[a], a)
  /\ js' = [js EXCEPT ![a] = IF envOpen THEN "queued" ELSE "lost"]
  /\ Goto(a, "calling")
  /\ UNCHANGED <<work, tag, tokenCounter, token, cancelled, told, outcome, envOpen>>

\* Mutant: the entry is removed on the normal return only.
CtxsUnlessAborted(a, result) == IF result = "aborted" THEN ctxs ELSE Without(ctxs, token[a])

CtxsAfter(a, result) == Without(ctxs, token[a])

\* The future of a ends, by returning or by being dropped: its guard runs.
RustEnds(a, result) ==
  /\ ctxs' = CtxsAfter(a, result)
  /\ outcome' = [outcome EXCEPT ![a] = result]
  /\ Goto(a, "done")

\* Mutant: the error of the second await is swallowed.
RustReturnsOk(a) ==
  /\ pc[a] = "running"
  /\ js[a] \in {"fulfilled", "rejected"}
  /\ RustEnds(a, "ok")
  /\ UNCHANGED <<work, tag, tokenCounter, token, cancelled, js, told, envOpen>>

\* The promise settled; its second await returns the result or the error.
RustReturns(a) ==
  /\ pc[a] = "running"
  /\ \/ js[a] = "fulfilled" /\ RustEnds(a, "ok")
     \/ js[a] = "rejected" /\ RustEnds(a, "err")
  /\ UNCHANGED <<work, tag, tokenCounter, token, cancelled, js, told, envOpen>>

\* Node is shutting down: the call, or the promise, comes back as an error.
JsCallFails(a) ==
  /\ ~envOpen
  /\ pc[a] \in {"calling", "running"}
  /\ js[a] = "lost"
  /\ RustEnds(a, "err")
  /\ UNCHANGED <<work, tag, tokenCounter, token, cancelled, js, told, envOpen>>

-----------------------------------------------------------------------------
(* The worker.                                                              *)

\* The worker learns that nobody wants the result any more, or that its lock
\* on the work item is gone, and cancels the context.
Cancel(a) ==
  /\ pc[a] \in {"insert", "calling", "running"}
  /\ ~cancelled[a]
  /\ cancelled' = [cancelled EXCEPT ![a] = TRUE]
  /\ UNCHANGED <<pc, work, tag, tokenCounter, token, ctxs, js, told, outcome, envOpen>>

\* Mutant: the promise is awaited by blocking the thread, as generator steps
\* are, so that the worker cannot get the future back.
GraceExpiresBeforeStart(a) ==
  /\ cancelled[a]
  /\ pc[a] = "calling"
  /\ RustEnds(a, "aborted")
  /\ UNCHANGED <<work, tag, tokenCounter, token, cancelled, js, told, envOpen>>

\* The grace period is over: the worker drops the future where it awaits.
GraceExpires(a) ==
  /\ cancelled[a]
  /\ pc[a] \in {"calling", "running"}
  /\ RustEnds(a, "aborted")
  /\ UNCHANGED <<work, tag, tokenCounter, token, cancelled, js, told, envOpen>>

-----------------------------------------------------------------------------
(* The JavaScript side.                                                     *)

\* The queued wrapper runs, whether or not anybody still waits for it.
JsStarts(a) ==
  /\ envOpen
  /\ js[a] = "queued"
  /\ js' = [js EXCEPT ![a] = "running"]
  /\ IF pc[a] = "calling" THEN Goto(a, "running") ELSE UNCHANGED pc
  /\ UNCHANGED <<work, tag, tokenCounter, token, ctxs, cancelled, told, outcome, envOpen>>

\* The user's function returns or throws, or its result is not serializable.
JsSettles(a) ==
  /\ envOpen
  /\ js[a] = "running"
  /\ \E end \in {"fulfilled", "rejected"} : js' = [js EXCEPT ![a] = end]
  /\ UNCHANGED <<pc, work, tag, tokenCounter, token, ctxs, cancelled, told, outcome, envOpen>>

\* Mutant: an entry that is gone reads as not cancelled.
MissingReadsFalse(a) ==
  IF token[a] \in DOMAIN ctxs THEN cancelled[ctxs[token[a]]] ELSE FALSE

\* activity_is_cancelled: an entry that is gone reads as cancelled.
ActivityIsCancelled(a) ==
  IF token[a] \in DOMAIN ctxs THEN cancelled[ctxs[token[a]]] ELSE TRUE

IsCancelled(a) ==
  /\ envOpen
  /\ js[a] = "running"
  /\ told' = [told EXCEPT ![a] = ActivityIsCancelled(a)]
  /\ UNCHANGED <<pc, work, tag, tokenCounter, token, ctxs, cancelled, js, outcome, envOpen>>

\* activity_tag, and ActivityContext.tag() which falls back on ctxInfo.tag.
ActivityTag(a) == IF token[a] \in DOMAIN ctxs THEN tag[ctxs[token[a]]] ELSE NONE

\* Mutant: no fallback once the context is gone.
TagFromMapOnly(a) == ActivityTag(a)

TagOf(a) == IF ActivityTag(a) # NONE THEN ActivityTag(a) ELSE tag[a]

CloseEnv ==
  /\ envOpen
  /\ envOpen' = FALSE
  /\ js' = [a \in Invocations |-> IF js[a] \in {"queued", "running"} THEN "lost" ELSE js[a]]
  /\ UNCHANGED <<pc, work, tag, tokenCounter, token, ctxs, cancelled, told, outcome>>
-----------------------------------------------------------------------------
\* Nothing is left to happen: every invocation ended on both sides.
AllEnded == /\ \A a \in Invocations : pc[a] = "done" /\ js[a] \notin {"queued", "running"}
            /\ UNCHANGED vars

Next ==
  \/ \E a \in Invocations :
       \/ \E w \in WorkItems, t \in Tags \cup {NONE} : NewToken(a, w, t)
       \/ InsertContext(a)
       \/ RustReturns(a)
       \/ JsCallFails(a)
       \/ Cancel(a)
       \/ GraceExpires(a)
       \/ JsStarts(a)
       \/ JsSettles(a)
       \/ IsCancelled(a)
  \/ CloseEnv
  \/ AllEnded

Spec == Init /\ [][Next]_vars

(***************************************************************************)
(* Futures that can go on do, queued calls run, the grace period ends.  An *)
(* activity need not settle; one that watches for cancellation asks again  *)
(* and again.                                                              *)
(***************************************************************************)
Fairness == \A a \in Invocations :
  /\ WF_vars(InsertContext(a) \/ RustReturns(a) \/ JsCallFails(a))
  /\ WF_vars(JsStarts(a))
  /\ WF_vars(GraceExpires(a))
  /\ WF_vars(IsCancelled(a))

FairSpec == Spec /\ Fairness

-----------------------------------------------------------------------------
(* Properties.                                                              *)

(* Types.                                                                   *)
TypeOK ==
  /\ pc \in [Invocations -> PCs]
  /\ work \in [Invocations -> WorkItems \cup {NONE}]
  /\ tag \in [Invocations -> Tags \cup {NONE}]
  /\ tokenCounter \in Nat
  /\ token \in [Invocations -> Nat \cup {NONE}]
  /\ DOMAIN ctxs \subseteq Nat
  /\ \A t \in DOMAIN ctxs : ctxs[t] \in Invocations
  /\ cancelled \in [Invocations -> BOOLEAN]
  /\ js \in [Invocations -> JsStates]
  /\ told \in [Invocations -> BOOLEAN]
  /\ outcome \in [Invocations -> Outcomes \cup {NONE}]
  /\ envOpen \in BOOLEAN

(* Once code has been told it is cancelled it is never told otherwise, not *)
(* even after the worker gave up on the activity and removed its context   *)
(* (duroxide.js:1264-1266: "Once this returns true it stays true").        *)
CancellationStays == [][\A a \in Invocations : told[a] => told'[a]]_vars

(* While somebody still waits for its result, code is told it is cancelled *)
(* only if its own invocation was: another execution of the same activity, *)
(* cancelled or over, does not show through.                               *)
NoFalseAlarm == \A a \in Invocations :
  (js[a] = "running" /\ pc[a] \in {"calling", "running"}) =>
    (ActivityIsCancelled(a) <=> cancelled[a])

(* An entry is in the map for exactly as long as the Rust side lives, on   *)
(* every way out of it: the map does not grow with finished activities.    *)
EntriesMatchFutures ==
  DOMAIN ctxs = {token[a] : a \in {b \in Invocations : pc[b] \in {"calling", "running"}}}

(* The tag an activity reads does not depend on whether the worker still   *)
(* waits for it.                                                           *)
TagIsStable == \A a \in Invocations : js[a] = "running" => TagOf(a) = tag[a]

(* A success is reported only for a promise that was fulfilled, and a      *)
(* future that was aborted was cancelled before.                           *)
OutcomesAreEarned == \A a \in Invocations :
  /\ outcome[a] = "ok" => js[a] = "fulfilled"
  /\ outcome[a] = "aborted" => cancelled[a]
  /\ outcome[a] = NONE <=> pc[a] # "done"

(***************************************************************************)
(* Why they hold.  A token belongs to one invocation (TokensOwned), the    *)
(* entry under it is there exactly while its future lives (ContextsOwned), *)
(* the two sides of an invocation move together until one of them ends     *)
(* (SidesAgree), and JavaScript outlives Rust only when the invocation was *)
(* cancelled, so that a missing entry tells the truth (ToldTheTruth).      *)
(***************************************************************************)
TokensOwned ==
  /\ \A a \in Invocations :
       /\ pc[a] = "idle" <=> token[a] = NONE
       /\ token[a] # NONE => token[a] < tokenCounter
  /\ \A a, b \in Invocations : token[a] = token[b] /\ token[a] # NONE => a = b

ContextsOwned ==
  /\ \A a \in Invocations : pc[a] \in {"calling", "running"} =>
       token[a] \in DOMAIN ctxs
  /\ \A t \in DOMAIN ctxs :
       token[ctxs[t]] = t /\ pc[ctxs[t]] \in {"calling", "running"}

SidesAgree == \A a \in Invocations :
  /\ js[a] = "none" <=> pc[a] \in {"idle", "insert"}
  /\ pc[a] = "calling" => js[a] \in {"queued", "lost"}
  /\ pc[a] = "running" => js[a] # "queued"

ToldTheTruth == \A a \in Invocations :
  /\ told[a] => cancelled[a]
  /\ pc[a] = "done" /\ js[a] \in {"queued", "running"} => cancelled[a]

Inv ==
  /\ TypeOK
  /\ TokensOwned
  /\ ContextsOwned
  /\ SidesAgree
  /\ ToldTheTruth
  /\ OutcomesAreEarned

(* However the two sides of its invocations part, the bridge keeps the      *)
(* contract: one answer, earned; code told what is so when it asks.        *)
Code(a) == IF js[a] \in {"none", "queued"} THEN "pending" ELSE js[a]

Contract == INSTANCE ActivityContract
              WITH answer <- outcome, code <- [a \in Invocations |-> Code(a)]

ImplementsContract == Contract!Spec

(* An activity that keeps asking finds out that it was cancelled, also     *)
(* when the cancellation came before it started or its entry is gone.      *)
CancellationIsSeen == \A a \in Invocations :
  cancelled[a] /\ js[a] = "running" ~> told[a] \/ js[a] # "running"

(* The worker is not held up by an activity that ignores its cancellation. *)
CancelledIsReleased == \A a \in Invocations : cancelled[a] ~> pc[a] = "done"
=============================================================================
