---------------------------- MODULE ReplayIsolation ----------------------------
(***************************************************************************)
(* The orchestration bridge under the replay engine, running the counter   *)
(* orchestration of __tests__/replay_isolation.test.js:                    *)
(*                                                                         *)
(*   for (step = 1; step <= STEPS; step++) {                               *)
(*     next = ctx.getValue('counter') + 1;  ctx.setValue('counter', next); *)
(*     yield ctx.utcNow();                                                 *)
(*   }                                                                     *)
(*   return ctx.getValue('counter');                                       *)
(*                                                                         *)
(* A dispatcher slot fetches an instance under a lock, replays it from the *)
(* start in a new handler invocation, and commits what the invocation's    *)
(* context recorded beyond the fetched history.  A lock can expire while   *)
(* the replay still runs: the stale replay goes on until its commit is     *)
(* rejected, and another slot replays the same instance meanwhile.         *)
(*                                                                         *)
(* The engine (locks, history, commit, the OrchestrationContext's key-value*)
(* state and the comparison with the history) is code of the duroxide      *)
(* crate, modelled from how this repository uses it and describes it.      *)
(* Every step of the bridge is an action of OrchestrationBridge.           *)
(***************************************************************************)
EXTENDS OrchestrationBridge, FiniteSets, SequencesExt

CONSTANTS
  Steps,      \* STEPS of the program
  Slots,      \* orchestrationConcurrency
  MaxLost     \* bound: how often a lock expires

ASSUME ReplayAssumption ==
  Invocations \subseteq Nat /\ NONE \notin Instances /\ Steps \in Nat /\ MaxLost \in Nat

VARIABLES
  history,    \* instance -> committed events
  outcome,    \* instance -> running, failed, or done with an output
  lockedBy,   \* instance -> the replay that holds its lock, or NONE
  lost,       \* how many locks have expired
  snapshot,   \* replay -> history it fetched
  recorded,   \* replay -> events its OrchestrationContext recorded
  kv,         \* replay -> 'counter' in its OrchestrationContext
  step,       \* replay -> loop variable of its generator
  at,         \* replay -> next statement of its generator
  local,      \* replay -> `next' (or the value to return) in its generator
  acked       \* replays that have committed or been rejected

engineVars == <<history, outcome, lockedBy, lost, snapshot, recorded, kv, acked>>
programVars == <<step, at, local>>
allVars == <<vars, engineVars, programVars>>

Durable == INSTANCE DurableCounter

Failed == <<"failed", 0>>

ReplayInit ==
  /\ Init
  /\ Durable!Init
  /\ lockedBy = [x \in Instances |-> NONE]
  /\ lost = 0
  /\ snapshot = [i \in Invocations |-> << >>]
  /\ recorded = [i \in Invocations |-> << >>]
  /\ kv = [i \in Invocations |-> 0]
  /\ step = [i \in Invocations |-> 1]
  /\ at = [i \in Invocations |-> "get"]
  /\ local = [i \in Invocations |-> 0]
  /\ acked = {}

-----------------------------------------------------------------------------
(* The engine and the provider.                                             *)

\* Replays that occupy a dispatcher slot.
Busy == {i \in Invocations : pc[i] # "idle"} \ acked

\* Invocations are all alike: the next one to start is the least one.
NextInvocation(i) == pc[i] = "idle" /\ \A j \in Invocations : j < i => pc[j] # "idle"

Fetch(i, x) ==
  /\ NextInvocation(i)
  /\ Cardinality(Busy) < Slots
  /\ outcome[x] = Durable!Running
  /\ lockedBy[x] = NONE
  /\ NewToken(i, x)
  /\ lockedBy' = [lockedBy EXCEPT ![x] = i]
  /\ snapshot' = [snapshot EXCEPT ![i] = history[x]]
  /\ UNCHANGED <<history, outcome, lost, recorded, kv, acked, programVars>>

LoseLock(x) ==
  /\ lockedBy[x] # NONE
  /\ lost < MaxLost
  /\ lockedBy' = [lockedBy EXCEPT ![x] = NONE]
  /\ lost' = lost + 1
  /\ UNCHANGED <<vars, history, outcome, snapshot, recorded, kv, acked, programVars>>

(***************************************************************************)
(* The handler's future is gone.  The engine takes what the context        *)
(* recorded: it must extend the fetched history, or the replay was not     *)
(* deterministic and the instance fails.  The provider accepts the result  *)
(* only from the holder of the lock.                                       *)
(***************************************************************************)
OutcomeOf(i) ==
  IF ~IsPrefix(snapshot[i], recorded[i]) THEN Failed
  ELSE IF at[i] = "returned" THEN Durable!DoneWith(local[i])
  ELSE Durable!Running

Ack(i) ==
  /\ pc[i] = "done" /\ i \notin acked
  /\ acked' = acked \cup {i}
  /\ IF lockedBy[inst[i]] = i
     THEN /\ outcome' = [outcome EXCEPT ![inst[i]] = OutcomeOf(i)]
          /\ history' = [history EXCEPT ![inst[i]] =
               IF OutcomeOf(i) = Failed THEN @ ELSE recorded[i]]
          /\ lockedBy' = [lockedBy EXCEPT ![inst[i]] = NONE]
     ELSE UNCHANGED <<outcome, history, lockedBy>>
  /\ UNCHANGED <<vars, lost, snapshot, recorded, kv, programVars>>

\* execute_task polls ctx.utc_now(): the context records it, and it is ready
\* exactly when the history already has it.
Poll(i) ==
  LET events == Append(recorded[i], Durable!Now) IN
  /\ recorded' = [recorded EXCEPT ![i] = events]
  /\ IF IsPrefix(events, snapshot[i]) THEN TaskReady(i) ELSE TaskPending(i)
  /\ UNCHANGED <<history, outcome, lockedBy, lost, snapshot, kv, acked, programVars>>

-----------------------------------------------------------------------------
(* The program, run by the bridge.                                          *)

GoOn(i, there) == at' = [at EXCEPT ![i] = there]

Run(i) ==
  /\ ServeCreate(i) \/ ServeNext(i)
  /\ UNCHANGED <<engineVars, programVars>>

CallNative(i) ==
  /\ serving = i
  /\ at[i] \in {"get", "set"}
  /\ BeginNative(i)
  /\ UNCHANGED <<engineVars, programVars>>

\* orchestration_get_value: null, and so 0, when the token finds no context.
GetValue(i) ==
  LET contexts == Reached(token[i])
      value == IF contexts = {} THEN 0 ELSE kv[CHOOSE c \in contexts : TRUE]
  IN
  /\ at[i] = "get"
  /\ EndNative(i)
  /\ IF step[i] <= Steps
     THEN local' = [local EXCEPT ![i] = value + 1] /\ GoOn(i, "set")
     ELSE local' = [local EXCEPT ![i] = value] /\ GoOn(i, "return")
  /\ UNCHANGED <<step, engineVars>>

\* orchestration_set_value: the context found, if any, takes and records it.
SetValue(i) ==
  /\ at[i] = "set"
  /\ EndNative(i)
  /\ kv' = [c \in Invocations |-> IF c \in Reached(token[i]) THEN local[i] ELSE kv[c]]
  /\ recorded' = [c \in Invocations |->
       IF c \in Reached(token[i]) THEN Append(recorded[c], Durable!Set(local[i]))
                                  ELSE recorded[c]]
  /\ GoOn(i, "yield")
  /\ UNCHANGED <<step, local, history, outcome, lockedBy, lost, snapshot, acked>>

YieldNow(i) ==
  /\ at[i] = "yield"
  /\ Yield(i, Untyped)
  /\ step' = [step EXCEPT ![i] = @ + 1]
  /\ GoOn(i, "get")
  /\ UNCHANGED <<local, engineVars>>

Return(i) ==
  /\ at[i] = "return"
  /\ Finish(i)
  /\ GoOn(i, "returned")
  /\ UNCHANGED <<step, local, engineVars>>

Settle(i) ==
  /\ InsertContext(i) \/ GuardDrop(i) \/ ServeDispose(i)
  /\ UNCHANGED <<engineVars, programVars>>

Works(i) == Settle(i) \/ Poll(i) \/ Ack(i) \/ Run(i) \/ CallNative(i) \/ GetValue(i)
              \/ SetValue(i) \/ YieldNow(i) \/ Return(i)

\* Every instance is over and every replay has been dealt with.
Quiet == /\ \A x \in Instances : outcome[x] # Durable!Running
         /\ Busy = {}
         /\ UNCHANGED allVars

ReplayNext ==
  \/ \E i \in Invocations : (\E x \in Instances : Fetch(i, x)) \/ Works(i)
  \/ \E x \in Instances : LoseLock(x)
  \/ Quiet

(***************************************************************************)
(* Slots keep fetching, every started replay makes progress (tokio and the *)
(* JavaScript thread, see OrchestrationBridge), locks need not expire.     *)
(***************************************************************************)
ReplaySpec ==
  /\ ReplayInit /\ [][ReplayNext]_allVars
  /\ \A i \in Invocations : SF_allVars(Works(i))
  /\ \A x \in Instances : WF_allVars(\E i \in Invocations : Fetch(i, x))
-----------------------------------------------------------------------------
(* Properties.                                                              *)

\* The first n events of an undisturbed run of the program.
Undisturbed(n) ==
  [e \in 1 .. n |-> IF e % 2 = 1 THEN Durable!Set((e + 1) \div 2) ELSE Durable!Now]

Events == {Durable!Set(n) : n \in 1 .. Steps} \cup {Durable!Now}

(* Types of the engine's and the program's state.                           *)
ReplayTypeOK ==
  /\ TypeOK
  /\ history \in [Instances -> Seq(Events)]
  /\ outcome \in [Instances -> {Durable!Running, Durable!DoneWith(Steps)}]
  /\ lockedBy \in [Instances -> Invocations \cup {NONE}]
  /\ lost \in 0 .. MaxLost
  /\ recorded \in [Invocations -> Seq(Events)]
  /\ snapshot \in [Invocations -> Seq(Events)]
  /\ kv \in [Invocations -> 0 .. Steps]
  /\ step \in [Invocations -> 1 .. Steps + 1]
  /\ at \in [Invocations -> {"get", "set", "yield", "return", "returned"}]
  /\ local \in [Invocations -> 0 .. Steps + 1]
  /\ acked \subseteq Invocations

(* Every replay, the stale ones included, records in its own context what  *)
(* an undisturbed run would: no event of another replay of the instance is *)
(* mixed in and none of its own is missing, so the engine's comparison     *)
(* with the history never calls it nondeterministic.                       *)
EveryReplayIsUndisturbed ==
  \A i \in Invocations : IsPrefix(recorded[i], Undisturbed(2 * Steps))

Replays(x) == {i \in Invocations : inst[i] = x}

(* One replay per turn, one more for each lock lost: a replay that keeps   *)
(* its lock commits exactly one turn.                                      *)
OneReplayPerTurn ==
  \A x \in Instances :
    /\ Cardinality(Replays(x)) <= Steps + 1 + lost
    /\ outcome[x] # Durable!Running => Cardinality(Replays(x) \cap acked) >= Steps + 1

(* However the replays interleave, the committed history and the outcome   *)
(* are those of durable execution.                                         *)
ImplementsDurable == Durable!Spec

(* Once locks stop expiring the instance completes, with the right count.  *)
Completes == \A x \in Instances : <>(outcome[x] = Durable!DoneWith(Steps))

(***************************************************************************)
(* Why they hold.  The bridge keeps every native call within its own       *)
(* context (OrchestrationBridge), so what a replay has recorded and reads  *)
(* follows from where its program is (ProgramFits).  It goes on from a     *)
(* task exactly while the history it fetched has the result, so in the end *)
(* it is one turn ahead of it, or has returned (SnapshotFits).  The holder *)
(* of a lock fetched the history as it still is (LocksFit).                *)
(***************************************************************************)
EventsRecorded(i) ==
  IF pc[i] = "execute" THEN 2 * step[i] - 3
  ELSE IF at[i] = "yield" THEN 2 * step[i] - 1 ELSE 2 * step[i] - 2

ProgramFits(i) ==
  /\ recorded[i] = Undisturbed(EventsRecorded(i))
  /\ kv[i] = IF at[i] = "yield" THEN step[i] ELSE step[i] - 1
  /\ at[i] = "set" => local[i] = step[i]
  /\ at[i] \in {"set", "yield"} => step[i] <= Steps
  /\ at[i] \in {"return", "returned"} => step[i] = Steps + 1 /\ local[i] = Steps
  /\ at[i] \in {"set", "yield", "return"} => serving = i
  /\ at[i] = "returned" => pc[i] \in {"drop", "dispose", "done"}
  /\ native = i => serving = i
  /\ pc[i] \in {"idle", "insert", "create"} => step[i] = 1
  /\ pc[i] = "execute" => step[i] > 1

SnapshotFits(i) == \E m \in 0 .. Steps :
  /\ snapshot[i] = Undisturbed(2 * m)
  /\ pc[i] \in {"create", "next"} => step[i] - 1 <= m
  /\ pc[i] = "execute" => step[i] - 2 <= m
  /\ pc[i] \in {"drop", "dispose", "done"} =>
       IF at[i] = "returned" THEN m = Steps ELSE step[i] - 2 = m

LocksFit ==
  /\ \A x \in Instances : \A i \in Invocations : lockedBy[x] = i =>
       /\ inst[i] = x /\ pc[i] # "idle" /\ i \notin acked
       /\ snapshot[i] = history[x] /\ outcome[x] = Durable!Running
  /\ \A i \in acked : pc[i] = "done"
  /\ \A i \in Invocations : pc[i] # "idle" => inst[i] \in Instances

HistoryFits == \A x \in Instances : \E m \in 0 .. Steps : history[x] = Undisturbed(2 * m)

(* At every moment of every replay, what it has recorded, fetched and      *)
(* locked fit together.                                                    *)
ReplayInv ==
  /\ ReplayTypeOK
  /\ \A i \in Invocations : ProgramFits(i) /\ SnapshotFits(i)
  /\ LocksFit
  /\ HistoryFits

(***************************************************************************)
(* Every replay of an instance is accounted for: it committed one of the   *)
(* turns in the history (or the result), or it lost its lock and each lost *)
(* lock excuses one, or it holds the lock now.                             *)
(***************************************************************************)
Holder(x) == {i \in Invocations : lockedBy[x] = i}

Accounts(x, m, committed, stale) ==
  /\ committed \subseteq acked
  /\ Replays(x) = committed \cup stale \cup Holder(x)
  /\ IsFiniteSet(stale) /\ Cardinality(stale) <= lost
  /\ IsFiniteSet(committed)
  /\ Cardinality(committed) = IF outcome[x] = Durable!Running THEN m ELSE m + 1
  /\ outcome[x] # Durable!Running => m = Steps
  /\ history[x] = Undisturbed(2 * m)

ReplaysAccounted ==
  /\ \A x \in Instances :
       \E m \in 0 .. Steps, committed \in SUBSET Replays(x), stale \in SUBSET Replays(x) :
         Accounts(x, m, committed, stale)
  /\ \A i \in Invocations : pc[i] = "idle" => inst[i] = NONE

(* What the replays have recorded and how many of them there are.          *)
ReplayCountInv == ReplayInv /\ ReplaysAccounted
=============================================================================
