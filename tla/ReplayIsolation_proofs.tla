------------------------- MODULE ReplayIsolation_proofs -------------------------
EXTENDS ReplayIsolation, OrchestrationBridge_proofs, FiniteSetTheorems

(***************************************************************************)
(* Proofs about replay isolation, for every number of steps, instances,    *)
(* slots and lost locks.  Every step of a replay is a step of the bridge   *)
(* or leaves it alone, so what is proved of the bridge holds here.  The    *)
(* rest of the argument is ReplayInv (module ReplayIsolation); from it,    *)
(* every step is a step of DurableCounter or a stutter.                    *)
(***************************************************************************)

(* The events of an undisturbed run, and how each statement continues them. *)
LEMMA UndisturbedEvents ==
  ASSUME NEW n \in Nat
  PROVE  /\ Len(Undisturbed(n)) = n
         /\ DOMAIN Undisturbed(n) = 1 .. n
         /\ n <= 2 * Steps => Undisturbed(n) \in Seq(Events)
<1> USE ReplayAssumption
<1>1. ASSUME NEW S, \A e \in 1 .. n : Undisturbed(n)[e] \in S
      PROVE  Undisturbed(n) \in Seq(S)
  BY <1>1 DEF Undisturbed
<1>2. Undisturbed(n) \in Seq({Undisturbed(n)[e] : e \in 1 .. n})
  BY <1>1
<1>3. Len(Undisturbed(n)) = n /\ DOMAIN Undisturbed(n) = 1 .. n
  BY <1>2 DEF Undisturbed
<1>4. ASSUME n <= 2 * Steps, NEW e \in 1 .. n
      PROVE  Undisturbed(n)[e] \in Events
  <2>1. e % 2 = 1 => (e + 1) \div 2 \in 1 .. Steps
    BY <1>4
  <2> QED
    BY <2>1, <1>4 DEF Undisturbed, Events
<1> QED
  BY <1>1, <1>3, <1>4

LEMMA SetContinues ==
  ASSUME NEW s \in Nat, s > 0
  PROVE  Append(Undisturbed(2 * s - 2), Durable!Set(s)) = Undisturbed(2 * s - 1)
  BY UndisturbedEvents DEF Undisturbed

LEMMA NowContinues ==
  ASSUME NEW s \in Nat, s > 1
  PROVE  Append(Undisturbed(2 * s - 3), Durable!Now) = Undisturbed(2 * s - 2)
<1>1. ASSUME NEW n \in Nat, n > 0
      PROVE  Append(Undisturbed(2 * n - 1), Durable!Now) = Undisturbed(2 * n)
  BY <1>1, UndisturbedEvents DEF Undisturbed
<1>2. /\ s - 1 \in Nat /\ s - 1 > 0
      /\ 2 * (s - 1) - 1 = 2 * s - 3 /\ 2 * (s - 1) = 2 * s - 2
  OBVIOUS
<1> QED
  BY <1>1, <1>2

LEMMA TurnContinues ==
  ASSUME NEW m \in Nat
  PROVE  Undisturbed(2 * m) \o Durable!Turn(m + 1) = Undisturbed(2 * (m + 1))
<1> DEFINE done == Undisturbed(2 * m)
           longer == Undisturbed(2 * (m + 1))
<1>1. /\ 2 * m \in Nat /\ 2 * (m + 1) \in Nat /\ 2 * (m + 1) = 2 * m + 2
      /\ (2 * m + 1) % 2 = 1 /\ (2 * m + 2) % 2 = 0 /\ (2 * m + 2) \div 2 = m + 1
  OBVIOUS
<1>2. /\ longer[2 * m + 1] = Durable!Set(m + 1) /\ longer[2 * m + 2] = Durable!Now
      /\ \A e \in 1 .. 2 * m : longer[e] = done[e]
  BY <1>1 DEF Undisturbed
<1>3. Durable!Turn(m + 1) = <<longer[2 * m + 1], longer[2 * m + 2]>>
  BY <1>2 DEF Durable!Turn
<1>4. /\ Len(done) = 2 * m /\ DOMAIN longer = 1 .. 2 * m + 2 /\ Len(longer) = 2 * m + 2
  BY <1>1, UndisturbedEvents
<1>5. longer = [e \in 1 .. 2 * m + 2 |-> longer[e]]
  BY <1>4 DEF Undisturbed
<1> HIDE DEF done, longer
<1>6. done \o <<longer[2 * m + 1], longer[2 * m + 2]>> = [e \in 1 .. 2 * m + 2 |-> longer[e]]
  <2> DEFINE turn == <<longer[2 * m + 1], longer[2 * m + 2]>>
  <2>1. done \o turn = [e \in 1 .. Len(done) + Len(turn) |->
                         IF e <= Len(done) THEN done[e] ELSE turn[e - Len(done)]]
    OBVIOUS
  <2>2. Len(turn) = 2 /\ turn[1] = longer[2 * m + 1] /\ turn[2] = longer[2 * m + 2]
    OBVIOUS
  <2> HIDE DEF turn
  <2>3. ASSUME NEW e \in 1 .. 2 * m + 2
        PROVE  (IF e <= 2 * m THEN done[e] ELSE turn[e - 2 * m]) = longer[e]
    <3>1. CASE e <= 2 * m
      BY <3>1, <1>2
    <3>2. CASE e = 2 * m + 1
      BY <3>2, <2>2
    <3>3. CASE e = 2 * m + 2
      BY <3>3, <2>2
    <3> QED
      BY <3>1, <3>2, <3>3
  <2> QED
    BY <2>1, <2>2, <2>3, <1>1, <1>4 DEF turn
<1> QED
  BY <1>3, <1>5, <1>6 DEF done, longer

LEMMA PrefixIsShorter ==
  ASSUME NEW a \in Nat, NEW b \in Nat
  PROVE  IsPrefix(Undisturbed(a), Undisturbed(b)) <=> a <= b
  BY UndisturbedEvents DEF Undisturbed, IsPrefix

(* Every step of a replay is a step of the bridge, or leaves the bridge     *)
(* alone: the engine and the program add conditions, they change nothing    *)
(* behind its back.                                                         *)
LEMMA BridgeRuns ==
  ASSUME [ReplayNext]_allVars
  PROVE  [Next]_vars
<1>1. ASSUME NEW i \in Invocations, NEW x \in Instances, Fetch(i, x)
      PROVE  Next
  BY <1>1 DEF Fetch, Next
<1>2. ASSUME NEW i \in Invocations, Settle(i) \/ Poll(i)
      PROVE  Next
  BY <1>2 DEF Settle, Poll, Next, Tokio, JsServesCall
<1>3. ASSUME NEW i \in Invocations, Run(i) \/ CallNative(i) \/ GetValue(i) \/ SetValue(i)
      PROVE  Next
  BY <1>3 DEF Run, CallNative, GetValue, SetValue, Next, JsServesCall
<1>4. ASSUME NEW i \in Invocations, YieldNow(i) \/ Return(i)
      PROVE  Next
  BY <1>4 DEF YieldNow, Return, Next, JsStepEnds, TaskTypes
<1>5. ASSUME NEW i \in Invocations, Ack(i)
      PROVE  UNCHANGED vars
  BY <1>5 DEF Ack
<1>6. ASSUME NEW x \in Instances, LoseLock(x)
      PROVE  UNCHANGED vars
  BY <1>6 DEF LoseLock
<1>7. CASE Quiet \/ UNCHANGED allVars
  BY <1>7 DEF Quiet, allVars
<1> QED
  BY <1>1, <1>2, <1>3, <1>4, <1>5, <1>6, <1>7 DEF ReplayNext, Works

(* A replay under the engine, running the counter, behaves as the bridge's  *)
(* own specification allows: what is proved of the bridge holds of it.      *)
THEOREM ReplayIsABridge == ReplaySpec => Spec
<1>1. ReplayInit => Init
  BY DEF ReplayInit
<1>2. [ReplayNext]_allVars => [Next]_vars
  BY BridgeRuns
<1> QED
  BY <1>1, <1>2, PTL DEF ReplaySpec, Spec

LEMMA ReplayInitInv == ReplayInit => ReplayInv
<1> SUFFICES ASSUME ReplayInit PROVE ReplayInv
  OBVIOUS
<1> USE ReplayAssumption, NoneAssumption
<1>1. Undisturbed(0) = << >>
  BY UndisturbedEvents DEF Undisturbed
<1>2. ReplayTypeOK
  <2>1. TypeOK
    BY InitTokens DEF ReplayInit
  <2> QED
    BY <2>1 DEF ReplayInit, ReplayTypeOK, Durable!Init
<1>3. ASSUME NEW i \in Invocations
      PROVE  ProgramFits(i) /\ SnapshotFits(i)
  <2>1. ProgramFits(i)
    BY <1>1 DEF ReplayInit, Init, ProgramFits, EventsRecorded
  <2>2. SnapshotFits(i)
    BY <1>1 DEF ReplayInit, Init, SnapshotFits
  <2> QED
    BY <2>1, <2>2
<1>4. LocksFit
  <2>1. \A x \in Instances : lockedBy[x] \notin Invocations
    BY DEF ReplayInit
  <2> QED
    BY <2>1 DEF LocksFit, ReplayInit, Init
<1>5. HistoryFits
  <2>1. 0 \in 0 .. Steps /\ 2 * 0 = 0
    OBVIOUS
  <2> QED
    BY <1>1, <2>1 DEF ReplayInit, HistoryFits, Durable!Init
<1> QED
  BY <1>2, <1>3, <1>4, <1>5 DEF ReplayInv

(* A replay whose own state stands still fits as it did.                    *)
LEMMA OthersStay ==
  ASSUME NEW j \in Invocations, ProgramFits(j), SnapshotFits(j),
         pc'[j] = pc[j], at'[j] = at[j], step'[j] = step[j], local'[j] = local[j],
         kv'[j] = kv[j], recorded'[j] = recorded[j], snapshot'[j] = snapshot[j],
         serving = j => serving' = j, native' = j => native = j \/ serving' = j
  PROVE  ProgramFits(j)' /\ SnapshotFits(j)'
  BY DEF ProgramFits, SnapshotFits, EventsRecorded

(* The locks and histories fit as long as nobody touches them.              *)
LEMMA EngineStays ==
  ASSUME LocksFit, HistoryFits,
         UNCHANGED <<history, outcome, lockedBy, acked, inst, snapshot>>,
         \A j \in Invocations : (pc[j] = "idle") = (pc'[j] = "idle"),
         \A j \in acked : pc[j] = "done" => pc'[j] = "done"
  PROVE  LocksFit' /\ HistoryFits'
  BY DEF LocksFit, HistoryFits

(* An invocation whose user code is not running stands before a getValue or *)
(* has returned.                                                            *)
LEMMA StandsStill ==
  ASSUME Inv, ReplayTypeOK, NEW i \in Invocations, ProgramFits(i),
         pc[i] \notin {"create", "next"} \/ serving # i
  PROVE  /\ serving # i /\ native # i
         /\ at[i] = "get" \/ (at[i] = "returned" /\ pc[i] \in {"drop", "dispose", "done"})
<1>1. serving # i
  BY NoneAssumption DEF Inv, OneStepAtATime
<1> QED
  BY <1>1 DEF ProgramFits, ReplayTypeOK

LEMMA FetchKeepsInv ==
  ASSUME Inv, Inv', ReplayInv, NEW i \in Invocations, NEW x \in Instances, Fetch(i, x)
  PROVE  ReplayInv'
<1> USE NoneAssumption, ReplayAssumption DEF ReplayInv
<1>1. /\ pc[i] = "idle" /\ pc' = [pc EXCEPT ![i] = "insert"]
      /\ inst' = [inst EXCEPT ![i] = x]
      /\ lockedBy[x] = NONE /\ lockedBy' = [lockedBy EXCEPT ![x] = i]
      /\ snapshot' = [snapshot EXCEPT ![i] = history[x]]
      /\ outcome[x] = Durable!Running
      /\ UNCHANGED <<serving, native, history, outcome, lost, recorded, kv, acked, step,
                     at, local>>
  BY DEF Fetch, NewToken, Goto, NextInvocation, programVars
<1>2. /\ pc \in [Invocations -> PCs] /\ inst \in [Invocations -> Instances \cup {NONE}]
      /\ snapshot \in [Invocations -> Seq(Events)] /\ history \in [Instances -> Seq(Events)]
      /\ lockedBy \in [Instances -> Invocations \cup {NONE}]
  BY DEF ReplayTypeOK, TypeOK
<1>3. ReplayTypeOK'
  BY <1>1, <1>2 DEF ReplayTypeOK, Inv
<1>4. ASSUME NEW j \in Invocations, j # i
      PROVE  ProgramFits(j)' /\ SnapshotFits(j)'
  BY <1>1, <1>2, <1>4, OthersStay
<1>5. ProgramFits(i)'
  BY <1>1, <1>2, StandsStill DEF ProgramFits, EventsRecorded
<1>6. SnapshotFits(i)'
  <2>1. pc'[i] = "insert" /\ snapshot'[i] = history[x]
    BY <1>1, <1>2
  <2> QED
    BY <2>1 DEF SnapshotFits, HistoryFits
<1>7. LocksFit'
  <2>1. ASSUME NEW y \in Instances, NEW j \in Invocations, lockedBy'[y] = j, y # x
        PROVE  lockedBy[y] = j /\ j # i
    BY <2>1, <1>1, <1>2 DEF LocksFit
  <2>2. i \notin acked
    BY <1>1 DEF LocksFit
  <2>3. ASSUME NEW j \in acked PROVE pc'[j] = "done"
    BY <2>2, <1>1, <1>2 DEF LocksFit, ReplayTypeOK
  <2> QED
    BY <2>1, <2>2, <2>3, <1>1, <1>2 DEF LocksFit
<1>8. HistoryFits'
  BY <1>1 DEF HistoryFits
<1> QED
  BY <1>3, <1>4, <1>5, <1>6, <1>7, <1>8

LEMMA LoseLockKeepsInv ==
  ASSUME Inv, Inv', ReplayInv, NEW x \in Instances, LoseLock(x)
  PROVE  ReplayInv'
<1> USE NoneAssumption, ReplayAssumption DEF ReplayInv
<1>1. /\ lockedBy' = [lockedBy EXCEPT ![x] = NONE]
      /\ lost < MaxLost /\ lost' = lost + 1
      /\ UNCHANGED <<pc, inst, serving, native, history, outcome, snapshot, recorded, kv,
                     acked, step, at, local>>
  BY DEF LoseLock, vars, bridgeVars, programVars
<1>2. ReplayTypeOK'
  BY <1>1 DEF ReplayTypeOK, Inv
<1>3. ASSUME NEW j \in Invocations
      PROVE  ProgramFits(j)' /\ SnapshotFits(j)'
  BY <1>1, OthersStay
<1>4. LocksFit'
  BY <1>1 DEF LocksFit, ReplayTypeOK
<1>5. HistoryFits'
  BY <1>1 DEF HistoryFits
<1> QED
  BY <1>2, <1>3, <1>4, <1>5

LEMMA SettleKeepsInv ==
  ASSUME Inv, Inv', ReplayInv, NEW i \in Invocations, Settle(i)
  PROVE  ReplayInv'
<1> USE NoneAssumption, ReplayAssumption DEF ReplayInv
<1>1. /\ \/ pc[i] = "insert" /\ pc' = [pc EXCEPT ![i] = "create"]
         \/ pc[i] = "drop" /\ pc' = [pc EXCEPT ![i] = "dispose"]
         \/ pc[i] \in {"drop", "dispose"} /\ pc' = [pc EXCEPT ![i] = "done"]
      /\ UNCHANGED <<inst, serving, native, engineVars, programVars>>
  BY DEF Settle, InsertContext, GuardDrop, ServeDispose, JsServes, Goto
<1>2. UNCHANGED <<history, outcome, lockedBy, lost, snapshot, recorded, kv, acked, step,
                  at, local>>
  BY <1>1 DEF engineVars, programVars
<1>3. pc \in [Invocations -> PCs]
  BY DEF ReplayTypeOK, TypeOK
<1>4. ReplayTypeOK'
  BY <1>2 DEF ReplayTypeOK, Inv
<1>5. ASSUME NEW j \in Invocations, j # i
      PROVE  ProgramFits(j)' /\ SnapshotFits(j)'
  BY <1>1, <1>2, <1>3, <1>5, OthersStay
<1>6. ProgramFits(i)'
  BY <1>1, <1>2, <1>3, StandsStill DEF ProgramFits, EventsRecorded
<1>7. SnapshotFits(i)'
  <2>1. step[i] = 1 \/ pc[i] # "insert"
    BY DEF ProgramFits
  <2>2. PICK m \in 0 .. Steps :
          /\ snapshot[i] = Undisturbed(2 * m)
          /\ pc[i] \in {"drop", "dispose", "done"} =>
               IF at[i] = "returned" THEN m = Steps ELSE step[i] - 2 = m
    BY DEF SnapshotFits
  <2>3. CASE pc[i] = "insert"
    <3>1. step[i] = 1 /\ pc'[i] = "create"
      BY <1>1, <1>3, <2>1, <2>3
    <3>2. step[i] - 1 <= m
      BY <3>1
    <3> QED
      BY <1>2, <2>2, <3>1, <3>2 DEF SnapshotFits
  <2>4. CASE pc[i] \in {"drop", "dispose"}
    <3>1. pc'[i] \in {"dispose", "done"}
      BY <1>1, <1>3, <2>4
    <3> QED
      BY <1>2, <2>2, <2>4, <3>1 DEF SnapshotFits
  <2> QED
    BY <1>1, <2>3, <2>4
<1>8. LocksFit' /\ HistoryFits'
  BY <1>1, <1>2, <1>3, EngineStays DEF ReplayTypeOK
<1> QED
  BY <1>4, <1>5, <1>6, <1>7, <1>8

(* A poll goes on while the history has the event, and else stops one turn  *)
(* ahead of it.                                                             *)
LEMMA PollKeepsInv ==
  ASSUME Inv, Inv', ReplayInv, NEW i \in Invocations, Poll(i)
  PROVE  ReplayInv'
<1> USE NoneAssumption, ReplayAssumption DEF ReplayInv
<1> DEFINE events == Append(recorded[i], Durable!Now)
<1>1. /\ pc[i] = "execute"
      /\ recorded' = [recorded EXCEPT ![i] = events]
      /\ \/ IsPrefix(events, snapshot[i]) /\ pc' = [pc EXCEPT ![i] = "next"]
         \/ ~IsPrefix(events, snapshot[i]) /\ pc' = [pc EXCEPT ![i] = "drop"]
      /\ UNCHANGED <<inst, serving, native, history, outcome, lockedBy, lost, snapshot, kv,
                     acked, step, at, local>>
  BY DEF Poll, TaskReady, TaskPending, DroppableAt, Goto, programVars
<1>2. /\ pc \in [Invocations -> PCs] /\ recorded \in [Invocations -> Seq(Events)]
      /\ step[i] \in 1 .. Steps + 1
  BY DEF ReplayTypeOK, TypeOK
<1>3. at[i] = "get" /\ step[i] > 1 /\ recorded[i] = Undisturbed(2 * step[i] - 3)
  BY <1>1, StandsStill DEF ProgramFits, EventsRecorded
<1>4. events = Undisturbed(2 * step[i] - 2)
  <2>1. step[i] \in Nat /\ step[i] > 1
    BY <1>2, <1>3
  <2> QED
    BY <2>1, <1>3, NowContinues
<1>5. ReplayTypeOK'
  <2>1. events \in Seq(Events)
    <3>1. 2 * step[i] - 2 \in Nat /\ 2 * step[i] - 2 <= 2 * Steps
      BY <1>2
    <3> QED
      BY <3>1, <1>4, UndisturbedEvents
  <2> QED
    BY <2>1, <1>1, <1>2 DEF ReplayTypeOK, Inv
<1>6. ASSUME NEW j \in Invocations, j # i
      PROVE  ProgramFits(j)' /\ SnapshotFits(j)'
  BY <1>1, <1>2, <1>6, OthersStay
<1>7. ProgramFits(i)'
  BY <1>1, <1>2, <1>3, <1>4 DEF ProgramFits, EventsRecorded
<1>8. SnapshotFits(i)'
  <2>1. PICK m \in 0 .. Steps : snapshot[i] = Undisturbed(2 * m) /\ step[i] - 2 <= m
    BY <1>1 DEF SnapshotFits
  <2>2. IsPrefix(events, snapshot[i]) <=> step[i] - 1 <= m
    <3>1. IsPrefix(events, snapshot[i]) <=> 2 * step[i] - 2 <= 2 * m
      <4>1. 2 * step[i] - 2 \in Nat /\ 2 * m \in Nat
        BY <1>2
      <4> QED
        BY <4>1, <2>1, <1>4, PrefixIsShorter
    <3>2. step[i] \in Nat /\ m \in Nat
      BY <1>2
    <3> QED
      BY <3>1, <3>2
  <2>3. \/ pc'[i] = "next" /\ step[i] - 1 <= m
        \/ pc'[i] = "drop" /\ step[i] - 2 = m
    BY <2>1, <2>2, <1>1, <1>2
  <2> QED
    BY <2>1, <2>3, <1>1, <1>3 DEF SnapshotFits
<1>9. LocksFit' /\ HistoryFits'
  BY <1>1, <1>2, EngineStays DEF ReplayTypeOK
<1> QED
  BY <1>5, <1>6, <1>7, <1>8, <1>9

LEMMA RunKeepsInv ==
  ASSUME Inv, Inv', ReplayInv, NEW i \in Invocations, Run(i)
  PROVE  ReplayInv'
<1> USE NoneAssumption, ReplayAssumption DEF ReplayInv
<1>1. /\ pc[i] \in {"create", "next"} /\ serving = NONE /\ serving' = i
      /\ UNCHANGED <<pc, inst, native, history, outcome, lockedBy, lost, snapshot, recorded,
                     kv, acked, step, at, local>>
  BY DEF Run, ServeCreate, ServeNext, JsServes, JsFree, Inv, OneStepAtATime, OwnGenerator,
         engineVars, programVars
<1>2. ReplayTypeOK'
  BY <1>1 DEF ReplayTypeOK, Inv
<1>3. ASSUME NEW j \in Invocations, j # i
      PROVE  ProgramFits(j)' /\ SnapshotFits(j)'
  BY <1>1, <1>3, OthersStay
<1>4. ProgramFits(i)' /\ SnapshotFits(i)'
  BY <1>1 DEF ProgramFits, EventsRecorded, SnapshotFits
<1>5. LocksFit' /\ HistoryFits'
  BY <1>1, EngineStays
<1> QED
  BY <1>2, <1>3, <1>4, <1>5

LEMMA CallNativeKeepsInv ==
  ASSUME Inv, Inv', ReplayInv, NEW i \in Invocations, CallNative(i)
  PROVE  ReplayInv'
<1> USE NoneAssumption, ReplayAssumption DEF ReplayInv
<1>1. /\ serving = i /\ native' = i
      /\ UNCHANGED <<pc, inst, serving, history, outcome, lockedBy, lost, snapshot, recorded,
                     kv, acked, step, at, local>>
  BY DEF CallNative, BeginNative, engineVars, programVars
<1>2. ReplayTypeOK'
  BY <1>1 DEF ReplayTypeOK, Inv
<1>3. ASSUME NEW j \in Invocations
      PROVE  ProgramFits(j)' /\ SnapshotFits(j)'
  BY <1>1, OthersStay
<1>4. LocksFit' /\ HistoryFits'
  BY <1>1, EngineStays
<1> QED
  BY <1>2, <1>3, <1>4

(* A native call of the program is made from inside its step, and reaches   *)
(* the context of its own invocation.                                       *)
LEMMA ReachesItsOwn ==
  ASSUME Inv, NEW i \in Invocations, ProgramFits(i), EndNative(i)
  PROVE  serving = i /\ Reached(token[i]) = {i} /\ pc[i] \in {"create", "next"}
<1>1. serving = i
  BY DEF EndNative, ProgramFits
<1>2. pc[i] \in {"create", "next"}
  BY <1>1, NoneAssumption DEF Inv, OneStepAtATime
<1> QED
  BY <1>1, <1>2 DEF Inv, ContextsOwned, Reached

LEMMA GetValueKeepsInv ==
  ASSUME Inv, Inv', ReplayInv, NEW i \in Invocations, GetValue(i)
  PROVE  ReplayInv'
<1> USE NoneAssumption, ReplayAssumption DEF ReplayInv
<1>1. /\ serving = i /\ Reached(token[i]) = {i} /\ pc[i] \in {"create", "next"}
      /\ at[i] = "get"
  BY ReachesItsOwn DEF GetValue
<1>2. kv[CHOOSE c \in Reached(token[i]) : TRUE] = step[i] - 1
  BY <1>1 DEF ProgramFits
<1>3. /\ \/ /\ step[i] <= Steps
            /\ local' = [local EXCEPT ![i] = step[i] - 1 + 1]
            /\ at' = [at EXCEPT ![i] = "set"]
         \/ /\ ~(step[i] <= Steps)
            /\ local' = [local EXCEPT ![i] = step[i] - 1]
            /\ at' = [at EXCEPT ![i] = "return"]
      /\ native' = NONE
      /\ UNCHANGED <<pc, inst, serving, history, outcome, lockedBy, lost, snapshot, recorded,
                     kv, acked, step>>
  BY <1>1, <1>2 DEF GetValue, EndNative, GoOn, engineVars
<1>4. /\ step[i] \in 1 .. Steps + 1
      /\ local \in [Invocations -> 0 .. Steps + 1]
      /\ at \in [Invocations -> {"get", "set", "yield", "return", "returned"}]
  BY DEF ReplayTypeOK
<1>5. ReplayTypeOK'
  <2>1. local' \in [Invocations -> 0 .. Steps + 1]
    BY <1>3, <1>4
  <2>2. at' \in [Invocations -> {"get", "set", "yield", "return", "returned"}]
    BY <1>3, <1>4
  <2> QED
    BY <1>3, <2>1, <2>2 DEF ReplayTypeOK, Inv
<1>6. ASSUME NEW j \in Invocations, j # i
      PROVE  ProgramFits(j)' /\ SnapshotFits(j)'
  BY <1>3, <1>4, <1>6, OthersStay
<1>7. ProgramFits(i)'
  BY <1>1, <1>3, <1>4 DEF ProgramFits, EventsRecorded
<1>8. SnapshotFits(i)'
  BY <1>1, <1>3, <1>4 DEF SnapshotFits
<1>9. LocksFit' /\ HistoryFits'
  BY <1>3, EngineStays
<1> QED
  BY <1>5, <1>6, <1>7, <1>8, <1>9

LEMMA SetValueKeepsInv ==
  ASSUME Inv, Inv', ReplayInv, NEW i \in Invocations, SetValue(i)
  PROVE  ReplayInv'
<1> USE NoneAssumption, ReplayAssumption DEF ReplayInv
<1> DEFINE events == Append(recorded[i], Durable!Set(local[i]))
<1>1. /\ serving = i /\ Reached(token[i]) = {i} /\ pc[i] \in {"create", "next"}
      /\ at[i] = "set" /\ local[i] = step[i] /\ step[i] <= Steps
  BY ReachesItsOwn DEF SetValue, ProgramFits
<1>2. /\ step[i] \in 1 .. Steps
      /\ at \in [Invocations -> {"get", "set", "yield", "return", "returned"}]
      /\ recorded \in [Invocations -> Seq(Events)] /\ kv \in [Invocations -> 0 .. Steps]
  BY <1>1 DEF ReplayTypeOK
<1>3. /\ kv' = [c \in Invocations |-> IF c = i THEN step[i] ELSE kv[c]]
      /\ recorded' = [c \in Invocations |-> IF c = i THEN events ELSE recorded[c]]
      /\ at' = [at EXCEPT ![i] = "yield"]
      /\ native' = NONE
      /\ UNCHANGED <<pc, inst, serving, history, outcome, lockedBy, lost, snapshot,
                     acked, step, local>>
  BY <1>1, <1>2 DEF SetValue, EndNative, GoOn
<1>4. events = Undisturbed(2 * step[i] - 1)
  <2>1. recorded[i] = Undisturbed(2 * step[i] - 2)
    BY <1>1 DEF ProgramFits, EventsRecorded
  <2>2. step[i] \in Nat /\ step[i] > 0
    BY <1>2
  <2> QED
    BY <2>1, <2>2, <1>1, SetContinues
<1>5. ReplayTypeOK'
  <2>1. events \in Seq(Events)
    <3>1. 2 * step[i] - 1 \in Nat /\ 2 * step[i] - 1 <= 2 * Steps
      BY <1>2
    <3> QED
      BY <3>1, <1>4, UndisturbedEvents
  <2>2. recorded' \in [Invocations -> Seq(Events)] /\ kv' \in [Invocations -> 0 .. Steps]
    BY <2>1, <1>2, <1>3
  <2>3. at' \in [Invocations -> {"get", "set", "yield", "return", "returned"}]
    BY <1>2, <1>3
  <2> QED
    BY <1>3, <2>2, <2>3 DEF ReplayTypeOK, Inv
<1>6. ASSUME NEW j \in Invocations, j # i
      PROVE  ProgramFits(j)' /\ SnapshotFits(j)'
  BY <1>2, <1>3, <1>6, OthersStay
<1>7. ProgramFits(i)'
  BY <1>1, <1>2, <1>3, <1>4 DEF ProgramFits, EventsRecorded
<1>8. SnapshotFits(i)'
  BY <1>1, <1>2, <1>3 DEF SnapshotFits
<1>9. LocksFit' /\ HistoryFits'
  BY <1>3, EngineStays
<1> QED
  BY <1>5, <1>6, <1>7, <1>8, <1>9

LEMMA YieldNowKeepsInv ==
  ASSUME Inv, Inv', ReplayInv, NEW i \in Invocations, YieldNow(i)
  PROVE  ReplayInv'
<1> USE NoneAssumption, ReplayAssumption DEF ReplayInv
<1>1. /\ serving = i /\ native = NONE /\ serving' = NONE /\ at[i] = "yield"
      /\ pc' = [pc EXCEPT ![i] = "execute"]
      /\ step' = [step EXCEPT ![i] = step[i] + 1]
      /\ at' = [at EXCEPT ![i] = "get"]
      /\ UNCHANGED <<inst, native, history, outcome, lockedBy, lost, snapshot, recorded, kv,
                     acked, local>>
  BY DEF YieldNow, Yield, Goto, GoOn, engineVars
<1>2. pc[i] \in {"create", "next"} /\ step[i] <= Steps
  BY <1>1 DEF Inv, OneStepAtATime, ProgramFits
<1>3. /\ pc \in [Invocations -> PCs]
      /\ step \in [Invocations -> 1 .. Steps + 1] /\ step[i] \in 1 .. Steps
      /\ at \in [Invocations -> {"get", "set", "yield", "return", "returned"}]
  <2>1. /\ pc \in [Invocations -> PCs] /\ step \in [Invocations -> 1 .. Steps + 1]
        /\ at \in [Invocations -> {"get", "set", "yield", "return", "returned"}]
    BY DEF ReplayTypeOK, TypeOK
  <2> QED
    BY <1>2, <2>1
<1>4. ReplayTypeOK'
  <2>1. step' \in [Invocations -> 1 .. Steps + 1]
    BY <1>1, <1>3
  <2>2. at' \in [Invocations -> {"get", "set", "yield", "return", "returned"}]
    BY <1>1, <1>3
  <2> QED
    BY <1>1, <2>1, <2>2 DEF ReplayTypeOK, Inv
<1>5. ASSUME NEW j \in Invocations, j # i
      PROVE  ProgramFits(j)' /\ SnapshotFits(j)'
  BY <1>1, <1>3, <1>5, OthersStay
<1>6. ProgramFits(i)'
  <2>1. recorded[i] = Undisturbed(2 * step[i] - 1) /\ kv[i] = step[i]
    BY <1>1, <1>2 DEF ProgramFits, EventsRecorded
  <2>2. 2 * (step[i] + 1) - 3 = 2 * step[i] - 1 /\ step[i] + 1 - 1 = step[i] /\ step[i] + 1 > 1
    BY <1>3
  <2> QED
    BY <2>1, <2>2, <1>1, <1>3 DEF ProgramFits, EventsRecorded
<1>7. SnapshotFits(i)'
  <2>1. step[i] + 1 - 2 = step[i] - 1
    BY <1>3
  <2> QED
    BY <2>1, <1>1, <1>2, <1>3 DEF SnapshotFits
<1>8. LocksFit' /\ HistoryFits'
  BY <1>1, <1>2, <1>3, EngineStays DEF ReplayTypeOK
<1> QED
  BY <1>4, <1>5, <1>6, <1>7, <1>8

LEMMA ReturnKeepsInv ==
  ASSUME Inv, Inv', ReplayInv, NEW i \in Invocations, Return(i)
  PROVE  ReplayInv'
<1> USE NoneAssumption, ReplayAssumption DEF ReplayInv
<1>1. /\ serving = i /\ native = NONE /\ serving' = NONE /\ at[i] = "return"
      /\ pc' = [pc EXCEPT ![i] = "drop"]
      /\ at' = [at EXCEPT ![i] = "returned"]
      /\ UNCHANGED <<inst, native, history, outcome, lockedBy, lost, snapshot, recorded, kv,
                     acked, step, local>>
  BY DEF Return, Finish, Goto, GoOn, engineVars
<1>2. /\ pc[i] \in {"create", "next"} /\ step[i] = Steps + 1
      /\ pc \in [Invocations -> PCs]
      /\ at \in [Invocations -> {"get", "set", "yield", "return", "returned"}]
  BY <1>1 DEF Inv, OneStepAtATime, ProgramFits, ReplayTypeOK, TypeOK
<1>3. ReplayTypeOK'
  BY <1>1, <1>2 DEF ReplayTypeOK, Inv
<1>4. ASSUME NEW j \in Invocations, j # i
      PROVE  ProgramFits(j)' /\ SnapshotFits(j)'
  BY <1>1, <1>2, <1>4, OthersStay
<1>5. ProgramFits(i)'
  BY <1>1, <1>2 DEF ProgramFits, EventsRecorded
<1>6. SnapshotFits(i)'
  <2>1. PICK m \in 0 .. Steps : snapshot[i] = Undisturbed(2 * m) /\ step[i] - 1 <= m
    BY <1>2 DEF SnapshotFits
  <2>2. m = Steps
    BY <2>1, <1>2
  <2> QED
    BY <2>1, <2>2, <1>1, <1>2 DEF SnapshotFits
<1>7. LocksFit' /\ HistoryFits'
  BY <1>1, <1>2, EngineStays DEF ReplayTypeOK
<1> QED
  BY <1>3, <1>4, <1>5, <1>6, <1>7

(* When the holder of a lock is done, it either is one turn ahead of the    *)
(* history, which is not at its end, or has run through all of it.          *)
LEMMA HolderIsAhead ==
  ASSUME Inv, ReplayInv, NEW i \in Invocations, NEW x \in Instances,
         inst[i] = x, lockedBy[x] = i, pc[i] = "done"
  PROVE  /\ outcome[x] = Durable!Running
         /\ \E m \in 0 .. Steps :
              /\ history[x] = Undisturbed(2 * m)
              /\ \/ /\ m < Steps /\ recorded[i] = Undisturbed(2 * (m + 1))
                    /\ OutcomeOf(i) = Durable!Running
                 \/ /\ m = Steps /\ recorded[i] = history[x]
                    /\ OutcomeOf(i) = Durable!DoneWith(Steps)
<1> USE NoneAssumption, ReplayAssumption DEF ReplayInv
<1>1. outcome[x] = Durable!Running /\ snapshot[i] = history[x]
  BY DEF LocksFit
<1>2. PICK m \in 0 .. Steps :
        /\ snapshot[i] = Undisturbed(2 * m)
        /\ IF at[i] = "returned" THEN m = Steps ELSE step[i] - 2 = m
  BY DEF SnapshotFits
<1>3. step[i] \in 1 .. Steps + 1
  BY DEF ReplayTypeOK
<1>4. at[i] \in {"get", "returned"} /\ recorded[i] = Undisturbed(2 * step[i] - 2)
  BY StandsStill DEF ProgramFits, EventsRecorded
<1>5. CASE at[i] = "returned"
  <2>1. step[i] = Steps + 1 /\ local[i] = Steps /\ m = Steps
    BY <1>5, <1>2 DEF ProgramFits
  <2>2. recorded[i] = Undisturbed(2 * m)
    <3>1. 2 * step[i] - 2 = 2 * m
      BY <2>1
    <3> QED
      BY <3>1, <1>4
  <2>3. IsPrefix(snapshot[i], recorded[i])
    <3>1. 2 * m \in Nat /\ 2 * m <= 2 * m
      OBVIOUS
    <3> QED
      BY <3>1, <2>2, <1>2, PrefixIsShorter
  <2> QED
    BY <2>1, <2>2, <2>3, <1>1, <1>2, <1>5 DEF OutcomeOf
<1>6. CASE at[i] # "returned"
  <2>1. step[i] - 2 = m /\ 2 * step[i] - 2 = 2 * (m + 1) /\ m < Steps
    BY <1>6, <1>2, <1>3
  <2>2. recorded[i] = Undisturbed(2 * (m + 1))
    BY <2>1, <1>4
  <2>3. IsPrefix(snapshot[i], recorded[i])
    <3>1. 2 * m \in Nat /\ 2 * (m + 1) \in Nat /\ 2 * m <= 2 * (m + 1)
      OBVIOUS
    <3> QED
      BY <3>1, <2>2, <1>2, PrefixIsShorter
  <2> QED
    BY <2>1, <2>2, <2>3, <1>1, <1>2, <1>6 DEF OutcomeOf
<1> QED
  BY <1>5, <1>6

LEMMA AckKeepsInv ==
  ASSUME Inv, Inv', ReplayInv, NEW i \in Invocations, Ack(i)
  PROVE  ReplayInv'
<1> USE NoneAssumption, ReplayAssumption DEF ReplayInv
<1> DEFINE x == inst[i]
<1>1. /\ pc[i] = "done" /\ i \notin acked /\ acked' = acked \cup {i}
      /\ UNCHANGED <<pc, inst, serving, native, lost, snapshot, recorded, kv, step, at, local>>
  BY DEF Ack, vars, bridgeVars, programVars
<1>2. x \in Instances
  BY <1>1 DEF LocksFit
<1>3. /\ history \in [Instances -> Seq(Events)]
      /\ lockedBy \in [Instances -> Invocations \cup {NONE}]
      /\ outcome \in [Instances -> {Durable!Running, Durable!DoneWith(Steps)}]
      /\ recorded \in [Invocations -> Seq(Events)] /\ acked \subseteq Invocations
  BY DEF ReplayTypeOK
<1>4. ASSUME NEW j \in Invocations
      PROVE  ProgramFits(j)' /\ SnapshotFits(j)'
  BY <1>1, OthersStay
<1>5. CASE lockedBy[x] # i
  <2>1. UNCHANGED <<outcome, history, lockedBy>>
    BY <1>5 DEF Ack
  <2>2. ReplayTypeOK'
    BY <1>1, <2>1 DEF ReplayTypeOK, Inv
  <2>3. HistoryFits'
    BY <2>1 DEF HistoryFits
  <2>4. \A y \in Instances : lockedBy[y] # i
    BY <1>5 DEF LocksFit
  <2>5. ASSUME NEW y \in Instances, NEW j \in Invocations, lockedBy'[y] = j
        PROVE  /\ inst'[j] = y /\ pc'[j] # "idle" /\ j \notin acked'
               /\ snapshot'[j] = history'[y] /\ outcome'[y] = Durable!Running
    BY <1>1, <2>1, <2>4, <2>5 DEF LocksFit
  <2>6. LocksFit'
    BY <1>1, <2>5 DEF LocksFit
  <2> QED
    BY <1>4, <2>2, <2>3, <2>6
<1>6. CASE lockedBy[x] = i
  <2>1. PICK m \in 0 .. Steps :
          /\ history[x] = Undisturbed(2 * m)
          /\ \/ /\ m < Steps /\ recorded[i] = Undisturbed(2 * (m + 1))
                /\ OutcomeOf(i) = Durable!Running
             \/ /\ m = Steps /\ recorded[i] = history[x]
                /\ OutcomeOf(i) = Durable!DoneWith(Steps)
    BY <1>1, <1>2, <1>6, HolderIsAhead
  <2>2. OutcomeOf(i) # Failed /\ OutcomeOf(i) \in {Durable!Running, Durable!DoneWith(Steps)}
    BY <2>1 DEF Failed, Durable!Running, Durable!DoneWith
  <2>3. /\ outcome' = [outcome EXCEPT ![x] = OutcomeOf(i)]
        /\ history' = [history EXCEPT ![x] = recorded[i]]
        /\ lockedBy' = [lockedBy EXCEPT ![x] = NONE]
    BY <1>6, <2>2 DEF Ack
  <2>4. ReplayTypeOK'
    <3>1. /\ history' \in [Instances -> Seq(Events)]
          /\ lockedBy' \in [Instances -> Invocations \cup {NONE}]
          /\ outcome' \in [Instances -> {Durable!Running, Durable!DoneWith(Steps)}]
          /\ acked' \subseteq Invocations
      BY <1>1, <1>3, <2>2, <2>3
    <3> QED
      BY <1>1, <3>1 DEF ReplayTypeOK, Inv
  <2>5. HistoryFits'
    <3>1. \E n \in 0 .. Steps : recorded[i] = Undisturbed(2 * n)
      <4>1. m < Steps => m + 1 \in 0 .. Steps
        OBVIOUS
      <4> QED
        BY <2>1, <4>1
    <3> QED
      BY <3>1, <2>3, <1>3 DEF HistoryFits
  <2>6. LocksFit'
    <3>1. ASSUME NEW y \in Instances, NEW j \in Invocations, lockedBy'[y] = j
          PROVE  y # x /\ lockedBy[y] = j /\ j # i
      BY <3>1, <2>3, <1>3 DEF LocksFit
    <3>2. ASSUME NEW y \in Instances, NEW j \in Invocations, lockedBy'[y] = j
          PROVE  /\ inst'[j] = y /\ pc'[j] # "idle" /\ j \notin acked'
                 /\ snapshot'[j] = history'[y] /\ outcome'[y] = Durable!Running
      BY <3>1, <3>2, <1>1, <1>3, <2>3 DEF LocksFit
    <3> QED
      BY <3>2, <1>1 DEF LocksFit
  <2> QED
    BY <1>4, <2>4, <2>5, <2>6
<1> QED
  BY <1>5, <1>6

LEMMA ReplayNextKeepsInv ==
  ASSUME Inv, Inv', ReplayInv, [ReplayNext]_allVars
  PROVE  ReplayInv'
<1>1. CASE UNCHANGED allVars
  <2>1. UNCHANGED <<pc, inst, serving, native, history, outcome, lockedBy, lost, snapshot,
                    recorded, kv, acked, step, at, local>>
    BY <1>1 DEF allVars, vars, bridgeVars, engineVars, programVars
  <2>2. ReplayTypeOK'
    BY <2>1 DEF ReplayInv, ReplayTypeOK, Inv
  <2>3. \A j \in Invocations : ProgramFits(j)' /\ SnapshotFits(j)'
    BY <2>1, OthersStay DEF ReplayInv
  <2>4. LocksFit' /\ HistoryFits'
    BY <2>1, EngineStays DEF ReplayInv
  <2> QED
    BY <2>2, <2>3, <2>4 DEF ReplayInv
<1>2. CASE ReplayNext
  <2>1. ASSUME NEW i \in Invocations, Works(i)
        PROVE  ReplayInv'
    BY <2>1, SettleKeepsInv, PollKeepsInv, AckKeepsInv, RunKeepsInv, CallNativeKeepsInv,
       GetValueKeepsInv, SetValueKeepsInv, YieldNowKeepsInv, ReturnKeepsInv DEF Works
  <2> QED
    BY <1>1, <1>2, <2>1, FetchKeepsInv, LoseLockKeepsInv DEF ReplayNext, Quiet
<1> QED
  BY <1>1, <1>2

(* The invariants of the bridge and of replay hold in every state.          *)
THEOREM ReplayInvariant == ReplaySpec => [](Inv /\ ReplayInv)
<1>1. ReplaySpec => []Inv
  BY ReplayIsABridge, BridgeInvariant, PTL
<1>2. Inv /\ Inv' /\ ReplayInv /\ [ReplayNext]_allVars => ReplayInv'
  BY ReplayNextKeepsInv
<1> QED
  BY <1>1, <1>2, ReplayInitInv, PTL DEF ReplaySpec

(* However many replays of an instance are alive and whenever locks are     *)
(* lost, each records what an undisturbed run would.                        *)
THEOREM ReplaySafety == ReplaySpec => [](ReplayTypeOK /\ EveryReplayIsUndisturbed)
<1>1. ReplayInv => ReplayTypeOK /\ EveryReplayIsUndisturbed
  <2> SUFFICES ASSUME ReplayInv, NEW i \in Invocations
               PROVE  IsPrefix(recorded[i], Undisturbed(2 * Steps))
    BY DEF ReplayInv, EveryReplayIsUndisturbed
  <2>1. /\ EventsRecorded(i) \in Nat /\ EventsRecorded(i) <= 2 * Steps
        /\ 2 * Steps \in Nat
    <3>1. /\ Steps \in Nat /\ step[i] \in 1 .. Steps + 1
          /\ pc[i] = "execute" => step[i] > 1
          /\ at[i] = "yield" => step[i] <= Steps
      BY ReplayAssumption DEF ReplayInv, ReplayTypeOK, ProgramFits
    <3>2. CASE pc[i] = "execute"
      BY <3>1, <3>2 DEF EventsRecorded
    <3>3. CASE pc[i] # "execute" /\ at[i] = "yield"
      BY <3>1, <3>3 DEF EventsRecorded
    <3>4. CASE pc[i] # "execute" /\ at[i] # "yield"
      BY <3>1, <3>4 DEF EventsRecorded
    <3> QED
      BY <3>1, <3>2, <3>3, <3>4
  <2> QED
    BY <2>1, PrefixIsShorter DEF ReplayInv, ProgramFits
<1> QED
  BY <1>1, ReplayInvariant, PTL

(* A step of the engine, the bridge or the program is a turn committed, the *)
(* completion of an instance, or nothing that durable execution shows.      *)
LEMMA StepsAreDurable ==
  ASSUME Inv, ReplayInv, [ReplayNext]_allVars
  PROVE  [Durable!Next]_(Durable!vars)
<1> USE NoneAssumption, ReplayAssumption
<1>1. ASSUME NEW i \in Invocations, Ack(i), lockedBy[inst[i]] = i
      PROVE  Durable!Next
  <2> DEFINE x == inst[i]
  <2>1. pc[i] = "done" /\ x \in Instances
    BY <1>1 DEF Ack, ReplayInv, LocksFit
  <2>2. PICK m \in 0 .. Steps :
          /\ history[x] = Undisturbed(2 * m)
          /\ \/ /\ m < Steps /\ recorded[i] = Undisturbed(2 * (m + 1))
                /\ OutcomeOf(i) = Durable!Running
             \/ /\ m = Steps /\ recorded[i] = history[x]
                /\ OutcomeOf(i) = Durable!DoneWith(Steps)
    BY <1>1, <2>1, HolderIsAhead
  <2>3. OutcomeOf(i) # Failed
    BY <2>2 DEF Failed, Durable!Running, Durable!DoneWith
  <2>4. /\ outcome[x] = Durable!Running
        /\ outcome' = [outcome EXCEPT ![x] = OutcomeOf(i)]
        /\ history' = [history EXCEPT ![x] = recorded[i]]
    BY <1>1, <2>1, <2>3 DEF Ack, ReplayInv, LocksFit
  <2>5. /\ m \in Nat /\ Len(history[x]) = 2 * m /\ Len(history[x]) \div 2 = m
        /\ history \in [Instances -> Seq(Events)]
        /\ outcome \in [Instances -> {Durable!Running, Durable!DoneWith(Steps)}]
    <3>1. m \in Nat /\ 2 * m \in Nat /\ (2 * m) \div 2 = m
      OBVIOUS
    <3>2. Len(history[x]) = 2 * m
      BY <2>2, <3>1, UndisturbedEvents
    <3> QED
      BY <3>1, <3>2 DEF ReplayInv, ReplayTypeOK
  <2>6. CASE m < Steps /\ OutcomeOf(i) = Durable!Running /\ recorded[i] = Undisturbed(2 * (m + 1))
    <3>1. recorded[i] = history[x] \o Durable!Turn(m + 1)
      BY <2>2, <2>5, <2>6, TurnContinues
    <3>2. outcome' = outcome
      BY <2>4, <2>5, <2>6
    <3> QED
      BY <2>1, <2>4, <2>5, <2>6, <3>1, <3>2 DEF Durable!Next, Durable!CommitTurn
  <2>7. CASE m = Steps /\ recorded[i] = history[x] /\ OutcomeOf(i) = Durable!DoneWith(Steps)
    <3>1. history' = history
      BY <2>4, <2>5, <2>7
    <3> QED
      BY <2>1, <2>4, <2>5, <2>7, <3>1 DEF Durable!Next, Durable!Complete
  <2> QED
    BY <2>2, <2>6, <2>7
<1>2. ASSUME NEW i \in Invocations, Ack(i), lockedBy[inst[i]] # i
      PROVE  UNCHANGED <<history, outcome>>
  BY <1>2 DEF Ack
<1>3. ASSUME NEW i \in Invocations, NEW x \in Instances, Fetch(i, x)
      PROVE  UNCHANGED <<history, outcome>>
  BY <1>3 DEF Fetch
<1>4. ASSUME NEW i \in Invocations, Works(i), ~Ack(i)
      PROVE  UNCHANGED <<history, outcome>>
  BY <1>4 DEF Works, Settle, Poll, Run, CallNative, GetValue, SetValue, YieldNow, Return,
       engineVars
<1>5. ASSUME NEW x \in Instances, LoseLock(x)
      PROVE  UNCHANGED <<history, outcome>>
  BY <1>5 DEF LoseLock
<1>6. ASSUME Quiet \/ UNCHANGED allVars
      PROVE  UNCHANGED <<history, outcome>>
  <2>1. UNCHANGED allVars
    BY <1>6 DEF Quiet
  <2> QED
    BY <2>1 DEF allVars, engineVars
<1> QED
  BY <1>1, <1>2, <1>3, <1>4, <1>5, <1>6 DEF ReplayNext, Durable!vars

(* Replays, lost locks and all, the program runs as if it ran once: the     *)
(* bridge under the engine implements durable execution.                    *)
THEOREM ReplayImplementsDurable == ReplaySpec => ImplementsDurable
<1>1. ReplayInit => Durable!Init
  BY DEF ReplayInit
<1>2. Inv /\ ReplayInv /\ [ReplayNext]_allVars => [Durable!Next]_(Durable!vars)
  BY StepsAreDurable
<1> QED
  BY <1>1, <1>2, ReplayInvariant, PTL DEF ReplaySpec, ImplementsDurable, Durable!Spec

-----------------------------------------------------------------------------
(* How many replays there are.                                              *)

LEMMA OneMore ==
  ASSUME NEW S, IsFiniteSet(S), NEW e
  PROVE  /\ IsFiniteSet(S \cup {e})
         /\ Cardinality(S) \in Nat
         /\ Cardinality(S \cup {e}) <= Cardinality(S) + 1
         /\ e \notin S => Cardinality(S \cup {e}) = Cardinality(S) + 1
  BY FS_AddElement, FS_CardinalityType

LEMMA AtMostTogether ==
  ASSUME NEW S, NEW T, IsFiniteSet(S), IsFiniteSet(T)
  PROVE  /\ IsFiniteSet(S \cup T)
         /\ Cardinality(S \cup T) <= Cardinality(S) + Cardinality(T)
<1>1. IsFiniteSet(S \cap T)
  BY FS_Intersection
<1>2. Cardinality(S) \in Nat /\ Cardinality(T) \in Nat /\ Cardinality(S \cap T) \in Nat
  BY <1>1, FS_CardinalityType
<1>3. /\ IsFiniteSet(S \cup T)
      /\ Cardinality(S \cup T) = Cardinality(S) + Cardinality(T) - Cardinality(S \cap T)
  BY FS_Union
<1> QED
  BY <1>2, <1>3

(* Two lengths of one undisturbed run are one length.                       *)
LEMMA SameLength ==
  ASSUME NEW m \in Nat, NEW n \in Nat, Undisturbed(2 * m) = Undisturbed(2 * n)
  PROVE  m = n
<1>1. 2 * m \in Nat /\ 2 * n \in Nat
  OBVIOUS
<1>2. 2 * m = 2 * n
  BY <1>1, UndisturbedEvents
<1> QED
  BY <1>2

(* An instance's account stands while its replays do what is not counted.   *)
LEMMA AccountStays ==
  ASSUME NEW x \in Instances, ReplaysAccounted, lost \in Nat, lost' \in Nat, lost <= lost',
         history'[x] = history[x], outcome'[x] = outcome[x], acked \subseteq acked',
         Replays(x)' = Replays(x), Holder(x)' = Holder(x)
  PROVE  \E m \in 0 .. Steps, committed \in SUBSET Replays(x)', stale \in SUBSET Replays(x)' :
           Accounts(x, m, committed, stale)'
<1>1. PICK m \in 0 .. Steps, committed \in SUBSET Replays(x), stale \in SUBSET Replays(x) :
        Accounts(x, m, committed, stale)
  BY DEF ReplaysAccounted
<1>2. Cardinality(stale) \in Nat /\ Cardinality(stale) <= lost
  BY <1>1, FS_CardinalityType DEF Accounts
<1>3. Cardinality(stale) <= lost'
  BY <1>2
<1>4. Accounts(x, m, committed, stale)'
  BY <1>1, <1>3 DEF Accounts
<1> QED
  BY <1>4

LEMMA InitAccounted == ReplayInit => ReplaysAccounted
<1> SUFFICES ASSUME ReplayInit PROVE ReplaysAccounted
  OBVIOUS
<1> USE ReplayAssumption, NoneAssumption
<1>1. Undisturbed(0) = << >>
  BY UndisturbedEvents DEF Undisturbed
<1>2. ASSUME NEW x \in Instances
      PROVE  Replays(x) = {} /\ Holder(x) = {}
  BY DEF Replays, Holder, ReplayInit, Init
<1>3. ASSUME NEW x \in Instances
      PROVE  Accounts(x, 0, {}, {})
  <2>1. IsFiniteSet({}) /\ Cardinality({}) = 0
    BY FS_EmptySet
  <2>2. history[x] = Undisturbed(2 * 0) /\ outcome[x] = Durable!Running /\ lost = 0
    <3>1. 2 * 0 = 0
      OBVIOUS
    <3> QED
      BY <1>1, <3>1 DEF ReplayInit, Durable!Init
  <2>3. Replays(x) = {} \cup {} \cup Holder(x)
    BY <1>2
  <2> QED
    BY <2>1, <2>2, <2>3 DEF Accounts
<1>4. 0 \in 0 .. Steps
  OBVIOUS
<1>5. \A i \in Invocations : inst[i] = NONE
  BY DEF ReplayInit, Init
<1> QED
  BY <1>3, <1>4, <1>5 DEF ReplaysAccounted

(* A new replay holds the lock of its instance, which nobody held.          *)
LEMMA FetchIsAccounted ==
  ASSUME Inv, ReplayInv, ReplaysAccounted, NEW i \in Invocations, NEW x \in Instances,
         Fetch(i, x)
  PROVE  ReplaysAccounted'
<1> USE NoneAssumption, ReplayAssumption
<1>1. /\ pc[i] = "idle" /\ pc' = [pc EXCEPT ![i] = "insert"]
      /\ inst' = [inst EXCEPT ![i] = x]
      /\ lockedBy[x] = NONE /\ lockedBy' = [lockedBy EXCEPT ![x] = i]
      /\ UNCHANGED <<history, outcome, lost, acked>>
  BY DEF Fetch, NewToken, Goto, NextInvocation
<1>2. /\ pc \in [Invocations -> PCs] /\ inst \in [Invocations -> Instances \cup {NONE}]
      /\ lockedBy \in [Instances -> Invocations \cup {NONE}] /\ lost \in 0 .. MaxLost
  BY DEF ReplayInv, ReplayTypeOK, TypeOK
<1>3. inst[i] = NONE
  BY <1>1 DEF ReplaysAccounted
<1>4. ASSUME NEW y \in Instances, y # x
      PROVE  Replays(y)' = Replays(y) /\ Holder(y)' = Holder(y)
  BY <1>1, <1>2, <1>3, <1>4 DEF Replays, Holder
<1>5. Holder(x) = {} /\ Holder(x)' = {i} /\ Replays(x)' = Replays(x) \cup {i}
  BY <1>1, <1>2, <1>3 DEF Replays, Holder
<1>6. ASSUME NEW y \in Instances
      PROVE  \E m \in 0 .. Steps, committed \in SUBSET Replays(y)', stale \in SUBSET Replays(y)' :
               Accounts(y, m, committed, stale)'
  <2>1. CASE y # x
    <3>1. lost \in Nat /\ lost' \in Nat /\ lost <= lost'
      BY <1>1, <1>2
    <3>2. history'[y] = history[y] /\ outcome'[y] = outcome[y] /\ acked \subseteq acked'
      BY <1>1
    <3> QED
      BY <2>1, <3>1, <3>2, <1>4, AccountStays
  <2>2. CASE y = x
    <3>1. PICK m \in 0 .. Steps, committed \in SUBSET Replays(x), stale \in SUBSET Replays(x) :
            Accounts(x, m, committed, stale)
      BY DEF ReplaysAccounted
    <3>2. Accounts(x, m, committed, stale)'
      BY <3>1, <1>1, <1>5 DEF Accounts
    <3> QED
      BY <3>1, <3>2, <1>5, <2>2
  <2> QED
    BY <2>1, <2>2
<1>7. \A j \in Invocations : pc'[j] = "idle" => inst'[j] = NONE
  BY <1>1, <1>2 DEF ReplaysAccounted
<1> QED
  BY <1>6, <1>7 DEF ReplaysAccounted

(* A lost lock turns the replay that held it into a stale one.              *)
LEMMA LoseLockIsAccounted ==
  ASSUME Inv, ReplayInv, ReplaysAccounted, NEW x \in Instances, LoseLock(x)
  PROVE  ReplaysAccounted'
<1> USE NoneAssumption, ReplayAssumption
<1>1. /\ lockedBy[x] # NONE /\ lockedBy' = [lockedBy EXCEPT ![x] = NONE]
      /\ lost' = lost + 1
      /\ UNCHANGED <<pc, inst, history, outcome, acked>>
  BY DEF LoseLock, vars, bridgeVars
<1>2. lockedBy \in [Instances -> Invocations \cup {NONE}] /\ lost \in Nat /\ lost' \in Nat
  BY <1>1 DEF ReplayInv, ReplayTypeOK
<1>3. \A y \in Instances : Replays(y)' = Replays(y)
  BY <1>1 DEF Replays
<1>4. ASSUME NEW y \in Instances, y # x
      PROVE  Holder(y)' = Holder(y)
  BY <1>1, <1>2, <1>4 DEF Holder
<1>5. PICK h \in Invocations : lockedBy[x] = h
  BY <1>1, <1>2
<1>6. Holder(x) = {h} /\ Holder(x)' = {} /\ h \in Replays(x)
  BY <1>1, <1>2, <1>5 DEF Holder, Replays, ReplayInv, LocksFit
<1>7. ASSUME NEW y \in Instances
      PROVE  \E m \in 0 .. Steps, committed \in SUBSET Replays(y)', stale \in SUBSET Replays(y)' :
               Accounts(y, m, committed, stale)'
  <2>1. CASE y # x
    <3>1. lost <= lost'
      BY <1>1, <1>2
    <3> QED
      BY <2>1, <3>1, <1>1, <1>2, <1>3, <1>4, AccountStays
  <2>2. CASE y = x
    <3>1. PICK m \in 0 .. Steps, committed \in SUBSET Replays(x), stale \in SUBSET Replays(x) :
            Accounts(x, m, committed, stale)
      BY DEF ReplaysAccounted
    <3>2. /\ IsFiniteSet(stale \cup {h}) /\ Cardinality(stale \cup {h}) \in Nat
          /\ Cardinality(stale \cup {h}) <= Cardinality(stale) + 1
          /\ Cardinality(stale) \in Nat /\ Cardinality(stale) <= lost
      BY <3>1, OneMore, FS_CardinalityType DEF Accounts
    <3>3. Cardinality(stale \cup {h}) <= lost'
      BY <3>2, <1>1, <1>2
    <3>4. Replays(x)' = committed \cup (stale \cup {h}) \cup Holder(x)'
      BY <3>1, <1>3, <1>6 DEF Accounts
    <3>5. Accounts(x, m, committed, stale \cup {h})'
      BY <3>1, <3>2, <3>3, <3>4, <1>1 DEF Accounts
    <3>6. committed \in SUBSET Replays(x)' /\ stale \cup {h} \in SUBSET Replays(x)'
      BY <3>1, <1>3, <1>6
    <3> QED
      BY <3>1, <3>5, <3>6, <2>2
  <2> QED
    BY <2>1, <2>2
<1> QED
  BY <1>1, <1>7 DEF ReplaysAccounted

(* The holder of a lock commits one turn, or the result; a stale replay is  *)
(* already accounted for.                                                   *)
LEMMA AckIsAccounted ==
  ASSUME Inv, ReplayInv, ReplaysAccounted, NEW i \in Invocations, Ack(i)
  PROVE  ReplaysAccounted'
<1> USE NoneAssumption, ReplayAssumption
<1>1. /\ pc[i] = "done" /\ i \notin acked /\ acked' = acked \cup {i}
      /\ UNCHANGED <<pc, inst, lost>>
  BY DEF Ack, vars, bridgeVars
<1>2. PICK x \in Instances : x = inst[i]
  BY <1>1 DEF ReplayInv, LocksFit
<1>3. /\ i \in Replays(x) /\ lost \in Nat /\ lost' \in Nat /\ lost <= lost'
      /\ \A y \in Instances : Replays(y)' = Replays(y)
  BY <1>2, <1>1 DEF ReplayInv, ReplayTypeOK, Replays
<1>4. /\ history \in [Instances -> Seq(Events)]
      /\ lockedBy \in [Instances -> Invocations \cup {NONE}]
      /\ outcome \in [Instances -> {Durable!Running, Durable!DoneWith(Steps)}]
  BY DEF ReplayInv, ReplayTypeOK
<1>5. ASSUME NEW y \in Instances, y # x \/ lockedBy[x] # i
      PROVE  \E m \in 0 .. Steps, committed \in SUBSET Replays(y)', stale \in SUBSET Replays(y)' :
               Accounts(y, m, committed, stale)'
  <2>1. /\ history'[y] = history[y] /\ outcome'[y] = outcome[y] /\ lockedBy'[y] = lockedBy[y]
    <3>1. CASE lockedBy[x] # i
      BY <1>2, <3>1 DEF Ack
    <3>2. CASE y # x /\ lockedBy[x] = i
      BY <1>2, <3>2, <1>4 DEF Ack
    <3> QED
      BY <1>5, <3>1, <3>2
  <2>2. Holder(y)' = Holder(y)
    BY <2>1 DEF Holder
  <2> QED
    BY <2>1, <2>2, <1>1, <1>3, AccountStays
<1>6. ASSUME lockedBy[x] = i
      PROVE  \E m \in 0 .. Steps, committed \in SUBSET Replays(x)', stale \in SUBSET Replays(x)' :
               Accounts(x, m, committed, stale)'
  <2>1. PICK m \in 0 .. Steps, committed \in SUBSET Replays(x), stale \in SUBSET Replays(x) :
          Accounts(x, m, committed, stale)
    BY <1>3 DEF ReplaysAccounted
  <2>2. PICK n \in 0 .. Steps :
          /\ history[x] = Undisturbed(2 * n)
          /\ \/ /\ n < Steps /\ recorded[i] = Undisturbed(2 * (n + 1))
                /\ OutcomeOf(i) = Durable!Running
             \/ /\ n = Steps /\ recorded[i] = history[x]
                /\ OutcomeOf(i) = Durable!DoneWith(Steps)
    BY <1>2, <1>1, <1>6, HolderIsAhead
  <2>3. outcome[x] = Durable!Running
    BY <1>2, <1>1, <1>6, HolderIsAhead
  <2>4. n = m
    BY <2>1, <2>2, SameLength DEF Accounts
  <2>5. OutcomeOf(i) # Failed /\ Durable!Running # Durable!DoneWith(Steps)
    BY <2>2 DEF Failed, Durable!Running, Durable!DoneWith
  <2>6. /\ outcome'[x] = OutcomeOf(i) /\ history'[x] = recorded[i] /\ lockedBy'[x] = NONE
    BY <1>2, <1>4, <1>6, <2>5 DEF Ack
  <2>7. Holder(x) = {i} /\ Holder(x)' = {}
    BY <2>6, <1>6 DEF Holder
  <2>8. /\ IsFiniteSet(committed \cup {i})
        /\ Cardinality(committed \cup {i}) = m + 1
        /\ committed \cup {i} \subseteq acked'
    BY <2>1, <2>3, <1>1, OneMore DEF Accounts
  <2>9. Replays(x)' = (committed \cup {i}) \cup stale \cup Holder(x)'
    BY <2>1, <2>7, <1>3 DEF Accounts
  <2>10. IsFiniteSet(stale) /\ Cardinality(stale) <= lost'
    BY <2>1, <1>1 DEF Accounts
  <2>11. committed \cup {i} \in SUBSET Replays(x)' /\ stale \in SUBSET Replays(x)'
    BY <2>1, <1>3
  <2>12. CASE n < Steps /\ recorded[i] = Undisturbed(2 * (n + 1)) /\ OutcomeOf(i) = Durable!Running
    <3>1. m + 1 \in 0 .. Steps
      BY <2>4, <2>12
    <3>2. Accounts(x, m + 1, committed \cup {i}, stale)'
      BY <2>4, <2>6, <2>8, <2>9, <2>10, <2>12 DEF Accounts
    <3> QED
      BY <3>1, <3>2, <2>11
  <2>13. CASE n = Steps /\ recorded[i] = history[x] /\ OutcomeOf(i) = Durable!DoneWith(Steps)
    <3>1. Accounts(x, m, committed \cup {i}, stale)'
      BY <2>2, <2>4, <2>5, <2>6, <2>8, <2>9, <2>10, <2>13 DEF Accounts
    <3> QED
      BY <3>1, <2>11
  <2> QED
    BY <2>2, <2>12, <2>13
<1>7. ASSUME NEW y \in Instances
      PROVE  \E m \in 0 .. Steps, committed \in SUBSET Replays(y)', stale \in SUBSET Replays(y)' :
               Accounts(y, m, committed, stale)'
  <2>1. CASE y = x /\ lockedBy[x] = i
    BY <2>1, <1>6
  <2> QED
    BY <2>1, <1>5
<1>8. \A j \in Invocations : pc'[j] = "idle" => inst'[j] = NONE
  BY <1>1 DEF ReplaysAccounted
<1> QED
  BY <1>7, <1>8 DEF ReplaysAccounted

LEMMA ReplayNextIsAccounted ==
  ASSUME Inv, ReplayInv, ReplaysAccounted, [ReplayNext]_allVars
  PROVE  ReplaysAccounted'
<1>1. ASSUME UNCHANGED <<inst, history, outcome, lockedBy, lost, acked>>,
             \A j \in Invocations : pc'[j] = "idle" => pc[j] = "idle"
      PROVE  ReplaysAccounted'
  <2>1. lost \in Nat /\ lost' \in Nat /\ lost <= lost'
    BY <1>1, ReplayAssumption DEF ReplayInv, ReplayTypeOK
  <2>2. \A x \in Instances : Replays(x)' = Replays(x) /\ Holder(x)' = Holder(x)
    BY <1>1 DEF Replays, Holder
  <2> QED
    BY <1>1, <2>1, <2>2, AccountStays DEF ReplaysAccounted
<1>2. ASSUME NEW i \in Invocations, Works(i), ~Ack(i)
      PROVE  ReplaysAccounted'
  <2>1. UNCHANGED <<inst, history, outcome, lockedBy, lost, acked>>
    <3>1. CASE Settle(i)
      BY <3>1 DEF Settle, InsertContext, GuardDrop, ServeDispose, engineVars
    <3>2. CASE Poll(i)
      BY <3>2 DEF Poll, TaskReady, TaskPending, DroppableAt
    <3>3. CASE Run(i) \/ CallNative(i)
      BY <3>3 DEF Run, ServeCreate, ServeNext, CallNative, BeginNative, engineVars
    <3>4. CASE GetValue(i) \/ SetValue(i)
      BY <3>4 DEF GetValue, SetValue, EndNative, engineVars
    <3>5. CASE YieldNow(i) \/ Return(i)
      BY <3>5 DEF YieldNow, Return, Yield, Finish, engineVars
    <3> QED
      BY <1>2, <3>1, <3>2, <3>3, <3>4, <3>5 DEF Works
  <2>2. \A j \in Invocations : pc'[j] = "idle" => pc[j] = "idle"
    <3>0. pc \in [Invocations -> PCs]
      BY DEF ReplayInv, ReplayTypeOK, TypeOK
    <3>1. CASE Settle(i)
      BY <3>0, <3>1 DEF Settle, InsertContext, GuardDrop, ServeDispose, JsServes, Goto
    <3>2. CASE Poll(i)
      BY <3>0, <3>2 DEF Poll, TaskReady, TaskPending, DroppableAt, Goto
    <3>3. CASE Run(i) \/ CallNative(i)
      <4>1. UNCHANGED pc \/ (\E to \in PCs \ {"idle"} : pc' = [pc EXCEPT ![i] = to])
        BY <3>3, NoneAssumption
        DEF Run, ServeCreate, ServeNext, JsServes, JsFree, Goto, CallNative, BeginNative,
            Inv, OneStepAtATime, OwnGenerator, PCs
      <4> QED
        BY <4>1, <3>0
    <3>4. CASE GetValue(i) \/ SetValue(i)
      BY <3>4 DEF GetValue, SetValue, EndNative
    <3>5. CASE YieldNow(i) \/ Return(i)
      BY <3>0, <3>5 DEF YieldNow, Return, Yield, Finish, Goto
    <3> QED
      BY <1>2, <3>1, <3>2, <3>3, <3>4, <3>5 DEF Works
  <2> QED
    BY <1>1, <2>1, <2>2
<1>3. CASE Quiet \/ UNCHANGED allVars
  <2>1. UNCHANGED <<pc, inst, history, outcome, lockedBy, lost, acked>>
    BY <1>3 DEF Quiet, allVars, vars, bridgeVars, engineVars
  <2> QED
    BY <1>1, <2>1
<1> QED
  BY <1>2, <1>3, AckIsAccounted, FetchIsAccounted, LoseLockIsAccounted DEF ReplayNext

(* The accounts of the replays add up in every state, whatever locks are    *)
(* lost and however the replays interleave.                                 *)
THEOREM ReplayCounts == ReplaySpec => []ReplayCountInv
<1>1. Inv /\ ReplayInv /\ ReplaysAccounted /\ [ReplayNext]_allVars => ReplaysAccounted'
  BY ReplayNextIsAccounted
<1>2. ReplaySpec => []ReplaysAccounted
  BY <1>1, InitAccounted, ReplayInvariant, PTL DEF ReplaySpec
<1>3. ReplayInv /\ ReplaysAccounted => ReplayCountInv
  BY DEF ReplayCountInv
<1> QED
  BY <1>2, <1>3, ReplayInvariant, PTL

(* An instance of Steps turns takes Steps + 1 replays and no more than one  *)
(* further one for every lock that was lost.                                *)
THEOREM ReplaysAreBounded == ReplaySpec => []OneReplayPerTurn
<1> USE NoneAssumption, ReplayAssumption
<1>1. ASSUME ReplayCountInv, NEW x \in Instances
      PROVE  /\ Cardinality(Replays(x)) <= Steps + 1 + lost
             /\ outcome[x] # Durable!Running => Cardinality(Replays(x) \cap acked) >= Steps + 1
  <2>1. PICK m \in 0 .. Steps, committed \in SUBSET Replays(x), stale \in SUBSET Replays(x) :
          Accounts(x, m, committed, stale)
    BY <1>1 DEF ReplayCountInv, ReplaysAccounted
  <2>2. /\ IsFiniteSet(committed) /\ IsFiniteSet(stale)
        /\ Cardinality(committed) \in Nat /\ Cardinality(stale) \in Nat
        /\ lost \in Nat /\ Cardinality(stale) <= lost
    BY <2>1, <1>1, FS_CardinalityType DEF Accounts, ReplayCountInv, ReplayInv, ReplayTypeOK
  <2>3. /\ IsFiniteSet(Holder(x)) /\ Cardinality(Holder(x)) \in Nat
        /\ Cardinality(Holder(x)) <= 1
        /\ outcome[x] # Durable!Running => Cardinality(Holder(x)) = 0
    <3>1. CASE Holder(x) = {}
      BY <3>1, FS_EmptySet
    <3>2. CASE Holder(x) # {}
      <4>1. PICK h \in Invocations : lockedBy[x] = h
        BY <3>2 DEF Holder
      <4>2. Holder(x) = {h}
        BY <4>1 DEF Holder
      <4>3. outcome[x] = Durable!Running
        BY <4>1, <1>1 DEF ReplayCountInv, ReplayInv, LocksFit
      <4>4. IsFiniteSet({h}) /\ Cardinality({h}) = 1
        BY FS_Singleton
      <4> QED
        BY <4>2, <4>3, <4>4
    <3> QED
      BY <3>1, <3>2
  <2>4. Cardinality(committed) + Cardinality(Holder(x)) <= Steps + 1
    <3>1. CASE outcome[x] = Durable!Running
      BY <3>1, <2>1, <2>3 DEF Accounts
    <3>2. CASE outcome[x] # Durable!Running
      BY <3>2, <2>1, <2>3 DEF Accounts
    <3> QED
      BY <3>1, <3>2
  <2>5. /\ IsFiniteSet(committed \cup stale)
        /\ Cardinality(committed \cup stale) \in Nat
        /\ Cardinality(committed \cup stale) <= Cardinality(committed) + Cardinality(stale)
    BY <2>2, AtMostTogether, FS_CardinalityType
  <2>6. /\ IsFiniteSet(Replays(x)) /\ Cardinality(Replays(x)) \in Nat
        /\ Cardinality(Replays(x)) <= Cardinality(committed \cup stale) + Cardinality(Holder(x))
    BY <2>1, <2>3, <2>5, AtMostTogether, FS_CardinalityType DEF Accounts
  <2>7. Cardinality(Replays(x)) <= Steps + 1 + lost
    BY <2>2, <2>3, <2>4, <2>5, <2>6
  <2>8. ASSUME outcome[x] # Durable!Running
        PROVE  Cardinality(Replays(x) \cap acked) >= Steps + 1
    <3>1. /\ IsFiniteSet(Replays(x) \cap acked)
          /\ committed \in SUBSET (Replays(x) \cap acked)
          /\ Cardinality(committed) = Steps + 1
      BY <2>1, <2>6, <2>8, FS_Intersection DEF Accounts
    <3>2. Cardinality(Replays(x) \cap acked) \in Nat
      BY <3>1, FS_CardinalityType
    <3>3. Cardinality(committed) <= Cardinality(Replays(x) \cap acked)
      BY <3>1, FS_Subset
    <3> QED
      BY <3>1, <3>2, <3>3
  <2> QED
    BY <2>7, <2>8
<1>2. ReplayCountInv => OneReplayPerTurn
  BY <1>1 DEF OneReplayPerTurn
<1> QED
  BY <1>2, ReplayCounts, PTL
=============================================================================
