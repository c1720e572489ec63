--------------------------- MODULE ClientCalls_proofs ---------------------------
EXTENDS ClientCalls, TLAPS

(***************************************************************************)
(* Proofs about the conversation of a user with an instance, for any       *)
(* number of messages and interventions and any timeouts below U32, as     *)
(* ClientAssumption has them.  The argument: Inv of                        *)
(* module ClientCalls is inductive.  It follows a message from its call to *)
(* the status (one lemma per station), and a wait from its call to its end.*)
(***************************************************************************)

(* What a sequence has at each place, also once something is put at its    *)
(* end or its head is taken away.                                          *)
LEMMA Elements ==
  ASSUME NEW S, NEW s \in Seq(S)
  PROVE  DOMAIN s = 1..Len(s) /\ Len(s) \in Nat /\ \A i \in DOMAIN s : s[i] \in S
OBVIOUS

LEMMA AtTheEnd ==
  ASSUME NEW S, NEW s \in Seq(S), NEW e \in S
  PROVE  /\ DOMAIN s \subseteq Nat
         /\ DOMAIN Append(s, e) = DOMAIN s \cup {Len(s) + 1}
         /\ Append(s, e)[Len(s) + 1] = e
         /\ \A i \in DOMAIN s : i < Len(s) + 1 /\ s[i] \in S /\ Append(s, e)[i] = s[i]
OBVIOUS

LEMMA WithoutHead ==
  ASSUME NEW S, NEW s \in Seq(S), s # <<>>
  PROVE  /\ Head(s) = s[1] /\ 1 \in DOMAIN s /\ s[1] \in S
         /\ Tail(s) \in Seq(S) /\ Len(Tail(s)) = Len(s) - 1
         /\ \A i \in DOMAIN Tail(s) :
              i \in Nat /\ i + 1 \in DOMAIN s /\ 1 < i + 1 /\ Tail(s)[i] = s[i + 1]
OBVIOUS

(* A version the user has seen passes through i64 and u64 unchanged.       *)
LEMMA SeenFits ==
  ASSUME TypeOK, seen <= Last
  PROVE  last_seen_version = seen
BY ClientAssumption DEF TypeOK, last_seen_version, AsU64

LEMMA InitInv == Init => Inv
<1> SUFFICES ASSUME Init PROVE Inv
  OBVIOUS
<1>1. TypeOK /\ seen <= Last
  <2>1. inbox \in Seq(Messages) /\ taken \in Seq(Messages)
    BY DEF Init
  <2>2. DOMAIN replies = {} /\ sent \in 0..Last /\ seen = 0
    BY ClientAssumption DEF Init
  <2>3. /\ status = "NotFound" /\ custom = NONE /\ version = 0 /\ values = {}
        /\ starting \in BOOLEAN /\ spoiled \in BOOLEAN
        /\ working = NONE /\ transit = {} /\ mode \in {"status", "values"}
        /\ at = "new" /\ call = NoCall /\ rejected = NONE /\ meddling = 0
    BY DEF Init
  <2> QED
    BY <2>1, <2>2, <2>3, ClientAssumption DEF TypeOK
<1>2. QueueInOrder /\ StatusOfTheLastReply /\ NothingLost
  BY DEF Init, QueueInOrder, StatusOfTheLastReply, NothingLost
<1>3. CallsFit /\ OneAtATime
  BY ClientAssumption DEF Init, CallsFit, OneAtATime, NoCall, Answered
<1>4. RepliesMatch /\ AwaitedInOrder
  BY DEF Init, RepliesMatch, AwaitedInOrder
<1> QED
  BY <1>1, <1>2, <1>3, <1>4 DEF Inv

(* The calls of the program keep the invariant.                            *)
LEMMA StartOrchestrationKeepsInv == Inv /\ StartOrchestration => Inv'
<1> SUFFICES ASSUME Inv, StartOrchestration PROVE Inv'
  OBVIOUS
<1> USE ClientAssumption DEF Inv, StartOrchestration, otherVars
<1>1. TypeOK' /\ seen' <= Last
  BY DEF TypeOK, NoCall
<1>2. QueueInOrder' /\ StatusOfTheLastReply' /\ NothingLost'
  BY DEF QueueInOrder, StatusOfTheLastReply, NothingLost
<1>3. CallsFit' /\ OneAtATime'
  BY DEF CallsFit, OneAtATime, NoCall, Answered
<1>4. RepliesMatch' /\ AwaitedInOrder'
  BY DEF RepliesMatch, AwaitedInOrder
<1> QED
  BY <1>1, <1>2, <1>3, <1>4

LEMMA CallEnqueueEventKeepsInv == Inv /\ CallEnqueueEvent => Inv'
<1> SUFFICES ASSUME Inv, CallEnqueueEvent PROVE Inv'
  OBVIOUS
<1>1. /\ at = "ready" /\ transit = {} /\ sent < Last
      /\ mode = "status" => \A m \in 1..sent : Answered(m)
      /\ sent' = sent + 1 /\ transit' = {sent + 1}
      /\ UNCHANGED <<storeVars, mode, at, call, seen, replies, final, rejected, otherVars>>
  BY DEF CallEnqueueEvent, Enqueued
<1>2. sent \in 0..Last /\ sent + 1 \in Messages
  BY <1>1, ClientAssumption DEF Inv, TypeOK, Messages
<1> USE ClientAssumption, <1>1, <1>2 DEF Inv, storeVars, otherVars
<1>3. TypeOK' /\ seen' <= Last
  BY DEF TypeOK, Messages
<1>4. QueueInOrder'
  BY DEF QueueInOrder, TypeOK, Messages
<1>5. StatusOfTheLastReply'
  BY DEF StatusOfTheLastReply
<1>6. NothingLost'
  BY DEF NothingLost, TypeOK
<1>7. CallsFit'
  BY DEF CallsFit, Answered, NoCall
<1>8. OneAtATime'
  <2> SUFFICES ASSUME mode = "status" PROVE OneAtATime'
    BY DEF OneAtATime
  <2>1. DOMAIN replies = 1..sent
    BY DEF OneAtATime, Answered
  <2>2. CASE sent > 0
    <3>1. Answered(sent)
      BY <2>1, <2>2 DEF Answered
    <3>2. inbox = <<>> /\ working = NONE /\ version <= seen
      BY <3>1 DEF OneAtATime, TypeOK
    <3> QED
      BY <2>1, <3>2 DEF OneAtATime, Answered, TypeOK
  <2>3. CASE sent = 0
    <3>1. inbox = <<>> /\ working = NONE /\ ~(version > seen)
      BY <2>3 DEF OneAtATime, TypeOK, Messages, QueueInOrder
    <3> QED
      BY <2>1, <3>1 DEF OneAtATime, Answered, TypeOK
  <2> QED
    BY <2>2, <2>3
<1>9. RepliesMatch' /\ AwaitedInOrder'
  BY DEF RepliesMatch, AwaitedInOrder
<1> QED
  BY <1>3, <1>4, <1>5, <1>6, <1>7, <1>8, <1>9

LEMMA CallWaitKeepsInv ==
  ASSUME Inv, NEW op \in Waits, NEW key \in Messages \cup {NONE}, NEW t \in Timeouts,
         CallWait(op, key, t),
         op = "waitForStatusChange" =>
           mode = "status" /\ key = sent /\ sent > 0 /\ ~Answered(sent),
         op = "waitForValue" => mode = "values" /\ key \in 1..sent /\ ~Answered(key)
  PROVE  Inv'
<1>1. /\ at' = "waiting"
      /\ call' = [op |-> op, timeout |-> t, polled |-> FALSE, key |-> key]
      /\ UNCHANGED <<storeVars, transit, mode, sent, seen, replies, final, rejected, otherVars>>
  BY DEF CallWait
<1> USE <1>1 DEF Inv, storeVars, otherVars
<1>2. TypeOK' /\ seen' <= Last
  BY DEF TypeOK
<1>3. QueueInOrder' /\ StatusOfTheLastReply'
  BY DEF QueueInOrder, StatusOfTheLastReply
<1>4. NothingLost'
  <2>1. at # "new"
    BY DEF CallWait
  <2> QED
    BY <2>1 DEF NothingLost
<1>5. CallsFit'
  BY DEF CallsFit, Answered, NoCall, Waits
<1>6. OneAtATime'
  BY DEF OneAtATime, Answered
<1>7. RepliesMatch' /\ AwaitedInOrder'
  BY DEF RepliesMatch, AwaitedInOrder
<1> QED
  BY <1>2, <1>3, <1>4, <1>5, <1>6, <1>7

LEMMA CallWaitsKeepInv == Inv /\ CallWaits => Inv'
<1> SUFFICES ASSUME Inv, NEW t \in Timeouts, CallWaitForReply(t) \/ CallWaitForOrchestration(t)
             PROVE  Inv'
  BY DEF CallWaits
<1>1. CASE CallWaitForOrchestration(t)
  BY <1>1, CallWaitKeepsInv DEF CallWaitForOrchestration, Waits
<1>2. CASE CallWaitForReply(t)
  <2>1. PICK m \in 1..sent :
          /\ ~Answered(m)
          /\ CallWait(IF mode = "status" THEN "waitForStatusChange" ELSE "waitForValue", m, t)
    BY <1>2 DEF CallWaitForReply
  <2>2. m \in Messages /\ sent \in 0..Last
    BY <2>1, ClientAssumption DEF Inv, TypeOK, Messages
  <2>3. CASE mode = "status"
    <3>1. m = sent /\ sent > 0
      BY <2>1, <2>2, <2>3 DEF Inv, OneAtATime, Answered
    <3> QED
      BY <2>1, <2>2, <2>3, <3>1, CallWaitKeepsInv DEF Waits
  <2>4. CASE mode = "values"
    BY <2>1, <2>2, <2>4, CallWaitKeepsInv DEF Waits
  <2> QED
    BY <2>3, <2>4 DEF Inv, TypeOK
<1> QED
  BY <1>1, <1>2

LEMMA GetStatusKeepsInv == Inv /\ GetStatus => Inv'
<1> SUFFICES ASSUME Inv, GetStatus PROVE Inv'
  OBVIOUS
<1>1. seen' = version
  BY DEF GetStatus, convert_status, Inv, StatusOfTheLastReply
<1>2. version <= Last /\ version \in Nat
  BY ClientAssumption DEF Inv, TypeOK, StatusOfTheLastReply, Messages
<1> USE <1>1, <1>2 DEF Inv, GetStatus, storeVars, otherVars
<1>3. TypeOK' /\ seen' <= Last
  BY DEF TypeOK
<1>4. QueueInOrder' /\ StatusOfTheLastReply' /\ NothingLost'
  BY DEF QueueInOrder, StatusOfTheLastReply, NothingLost
<1>5. CallsFit' /\ OneAtATime'
  BY DEF CallsFit, OneAtATime, Answered, NoCall
<1>6. RepliesMatch' /\ AwaitedInOrder'
  BY DEF RepliesMatch, AwaitedInOrder
<1> QED
  BY <1>3, <1>4, <1>5, <1>6

(* A message that gets to the store is the last of the queue.              *)
LEMMA EnqueueEventKeepsInv ==
  ASSUME Inv, NEW m \in Messages, EnqueueEvent(m)
  PROVE  Inv'
<1>1. /\ transit = {m} /\ m = sent /\ transit' = {}
      /\ UNCHANGED <<status, custom, version, values, starting, working, taken,
                     userVars, otherVars>>
  BY DEF EnqueueEvent, Inv, QueueInOrder
<1>2. \/ inbox' = Append(inbox, m)
      \/ inbox' = inbox /\ status = "NotFound" /\ ~starting
  BY DEF EnqueueEvent
<1>3. inbox \in Seq(Messages) /\ taken \in Seq(Messages)
  BY DEF Inv, TypeOK
<1>4. Messages \subseteq Int /\ QueueInOrder
  BY ClientAssumption DEF Inv, Messages
<1>5. QueueInOrder'
  <2> /\ m \in Int
      /\ \A i \in DOMAIN inbox : inbox[i] \in Int
      /\ \A i \in DOMAIN taken : taken[i] \in Int
    <3>1. \A i \in DOMAIN inbox : inbox[i] \in Messages
      BY <1>3, Elements
    <3>2. \A i \in DOMAIN taken : taken[i] \in Messages
      BY <1>3, Elements
    <3> QED
      BY <1>4, <3>1, <3>2
  <2>1. \A i \in DOMAIN inbox : inbox[i] < m
    BY <1>1, <1>4 DEF QueueInOrder
  <2>2. \A i \in DOMAIN taken : taken[i] < m
    BY <1>1, <1>4 DEF QueueInOrder
  <2>3. sent' = sent /\ taken' = taken
    BY <1>1 DEF userVars
  <2>4. CASE inbox' = Append(inbox, m)
    <3>1. /\ DOMAIN inbox' = DOMAIN inbox \cup {Len(inbox) + 1}
          /\ inbox'[Len(inbox) + 1] = m /\ DOMAIN inbox \subseteq Nat
          /\ \A i \in DOMAIN inbox : inbox'[i] = inbox[i] /\ i < Len(inbox) + 1
      BY <1>3, <2>4, AtTheEnd
    <3>2. Len(inbox) \in Nat
      BY <1>3
    <3>3. \A i \in DOMAIN inbox' : inbox'[i] \notin transit' /\ inbox'[i] <= sent'
      BY <1>1, <1>4, <2>3, <3>1 DEF QueueInOrder
    <3>4. ASSUME NEW i \in DOMAIN inbox', NEW j \in DOMAIN inbox', i < j
          PROVE  inbox'[i] < inbox'[j]
      BY <1>4, <2>1, <3>1, <3>2, <3>4 DEF QueueInOrder
    <3>5. \A i \in DOMAIN taken', j \in DOMAIN inbox' : taken'[i] < inbox'[j]
      BY <1>4, <2>2, <2>3, <3>1 DEF QueueInOrder
    <3> QED
      BY <1>1, <1>4, <2>3, <3>3, <3>4, <3>5 DEF QueueInOrder
  <2>5. CASE inbox' = inbox
    BY <1>1, <1>4, <2>3, <2>5 DEF QueueInOrder
  <2> QED
    BY <1>2, <2>4, <2>5
<1> USE <1>1, <1>3 DEF Inv, userVars, otherVars
<1>11. TypeOK' /\ seen' <= Last
  <2>1. inbox' \in Seq(Messages)
    BY <1>2
  <2> QED
    BY <2>1 DEF TypeOK
<1>6. StatusOfTheLastReply'
  BY DEF StatusOfTheLastReply
<1>7. NothingLost'
  <2>1. CASE inbox' = Append(inbox, m)
    BY <2>1 DEF NothingLost, TypeOK
  <2>2. CASE status = "NotFound" /\ ~starting
    <3>1. at = "new" => FALSE
      BY DEF NothingLost, Messages
    <3> QED
      BY <2>2, <3>1 DEF NothingLost
  <2> QED
    BY <1>2, <2>1, <2>2
<1>8. CallsFit'
  BY DEF CallsFit, Answered, NoCall
<1>9. OneAtATime'
  <2> SUFFICES ASSUME mode = "status" PROVE OneAtATime'
    BY DEF OneAtATime
  <2>1. inbox = <<>> /\ working = NONE /\ ~Answered(sent) /\ ~(version > seen)
    BY DEF OneAtATime
  <2>2. inbox' = <<>> \/ (Len(inbox') = 1 /\ inbox'[1] = sent)
    BY <1>2, <2>1
  <2> QED
    BY <2>1, <2>2 DEF OneAtATime, Answered
<1>10. RepliesMatch' /\ AwaitedInOrder'
  BY DEF RepliesMatch, AwaitedInOrder
<1> QED
  BY <1>5, <1>6, <1>7, <1>8, <1>9, <1>10, <1>11

(* The ends of waits, and polls in vain, keep the invariant.               *)
LEMMA WaitForStatusChangeKeepsInv == Inv /\ WaitForStatusChange => Inv'
<1> SUFFICES ASSUME Inv, WaitForStatusChange PROVE Inv'
  OBVIOUS
<1>1. /\ call.op = "waitForStatusChange" /\ call' = NoCall
      /\ UNCHANGED <<storeVars, transit, mode, sent, final, rejected, otherVars>>
  BY DEF WaitForStatusChange
<1>2. /\ mode = "status" /\ at = "waiting"
      /\ call.key = sent /\ ~Answered(sent) /\ sent > 0 /\ sent \in 0..Last
      /\ DOMAIN replies = 1..sent - 1
  <2>1. mode = "status" /\ call.key = sent /\ ~Answered(sent) /\ sent > 0 /\ at = "waiting"
    BY <1>1 DEF Inv, CallsFit, NoCall
  <2> QED
    BY <2>1 DEF Inv, OneAtATime, TypeOK, Answered
<1>3. last_seen_version = seen /\ version \in Nat /\ seen \in Nat
  BY SeenFits DEF Inv, TypeOK
<1>4. CASE version > seen
  <2>1. status # "NotFound" /\ custom = sent /\ version <= Last
    BY <1>2, <1>3, <1>4, ClientAssumption
    DEF Inv, StatusOfTheLastReply, OneAtATime, Messages
  <2>2. /\ seen' = version /\ at' = "ready"
        /\ replies' = [k \in DOMAIN replies \cup {sent} |->
                        IF k = sent THEN sent ELSE replies[k]]
    BY <1>1, <1>2, <1>3, <1>4, <2>1 DEF WaitForStatusChange, convert_status, Take
  <2>3. DOMAIN replies' = 1..sent
    BY <1>2, <2>2
  <2> USE <1>1, <1>2, <1>3, <2>1, <2>2, <2>3 DEF Inv, storeVars, otherVars
  <2>4. TypeOK' /\ seen' <= Last
    BY DEF TypeOK
  <2>5. QueueInOrder' /\ StatusOfTheLastReply'
    BY DEF QueueInOrder, StatusOfTheLastReply
  <2>6. NothingLost'
    BY DEF NothingLost
  <2>7. CallsFit'
    BY DEF CallsFit, NoCall
  <2>8. OneAtATime'
    BY <1>4 DEF OneAtATime, Answered
  <2>9. RepliesMatch' /\ AwaitedInOrder'
    BY DEF RepliesMatch, AwaitedInOrder
  <2> QED
    BY <2>4, <2>5, <2>6, <2>7, <2>8, <2>9
<1>5. CASE ~(version > seen)
  <2>1. at' = "over" /\ UNCHANGED <<seen, replies>>
    BY <1>3, <1>5 DEF WaitForStatusChange
  <2> USE <1>1, <1>2, <1>3, <2>1 DEF Inv, storeVars, otherVars
  <2>2. TypeOK' /\ seen' <= Last
    BY DEF TypeOK
  <2>3. QueueInOrder' /\ StatusOfTheLastReply' /\ NothingLost'
    BY DEF QueueInOrder, StatusOfTheLastReply, NothingLost
  <2>4. CallsFit' /\ OneAtATime'
    BY DEF CallsFit, NoCall, OneAtATime, Answered
  <2>5. RepliesMatch' /\ AwaitedInOrder'
    BY DEF RepliesMatch, AwaitedInOrder
  <2> QED
    BY <2>2, <2>3, <2>4, <2>5
<1> QED
  BY <1>4, <1>5

LEMMA WaitForValueKeepsInv == Inv /\ WaitForValue => Inv'
<1> SUFFICES ASSUME Inv, WaitForValue PROVE Inv'
  OBVIOUS
<1>1. /\ mode = "values" /\ call.key \in 1..sent /\ at = "waiting"
      /\ at' = "ready" /\ call' = NoCall
      /\ replies' = [k \in DOMAIN replies \cup {call.key} |->
                      IF k = call.key THEN call.key ELSE replies[k]]
      /\ UNCHANGED <<storeVars, transit, mode, sent, seen, final, rejected, otherVars>>
  BY DEF WaitForValue, Take, Inv, CallsFit, NoCall
<1> USE <1>1 DEF Inv, storeVars, otherVars
<1>2. TypeOK' /\ seen' <= Last
  BY DEF TypeOK
<1>3. QueueInOrder' /\ StatusOfTheLastReply' /\ NothingLost'
  BY DEF QueueInOrder, StatusOfTheLastReply, NothingLost
<1>4. CallsFit' /\ OneAtATime'
  BY DEF CallsFit, NoCall, OneAtATime
<1>5. RepliesMatch' /\ AwaitedInOrder'
  BY DEF RepliesMatch, AwaitedInOrder
<1> QED
  BY <1>2, <1>3, <1>4, <1>5

LEMMA WaitForOrchestrationKeepsInv == Inv /\ WaitForOrchestration => Inv'
<1> SUFFICES ASSUME Inv, WaitForOrchestration PROVE Inv'
  OBVIOUS
<1>1. /\ at = "waiting" /\ call' = NoCall /\ Over
      /\ final' = [status |-> status, custom |-> custom, version |-> version,
                   output |-> IF status = "Completed" THEN custom ELSE NONE]
      /\ at' = IF status = "Failed" THEN "over" ELSE "done"
      /\ UNCHANGED <<storeVars, transit, mode, sent, seen, replies, rejected, otherVars>>
  BY DEF WaitForOrchestration, convert_status, Over, Inv, CallsFit, NoCall
<1> USE <1>1 DEF Inv, storeVars, otherVars
<1>2. TypeOK' /\ seen' <= Last
  BY DEF TypeOK
<1>3. QueueInOrder' /\ StatusOfTheLastReply' /\ NothingLost'
  BY DEF QueueInOrder, StatusOfTheLastReply, NothingLost
<1>4. CallsFit' /\ OneAtATime'
  BY DEF CallsFit, NoCall, OneAtATime, Answered
<1>5. RepliesMatch'
  <2>1. ASSUME at' = "done", ~spoiled
        PROVE  final' = [status |-> "Completed", output |-> Last, custom |-> Last,
                         version |-> Last]
    <3>1. status = "Completed"
      BY <2>1 DEF Over
    <3>2. version = Last /\ custom = Last
      BY <2>1, <3>1, ClientAssumption DEF NothingLost
    <3> QED
      BY <3>1, <3>2
  <2> QED
    BY <2>1 DEF RepliesMatch
<1>6. AwaitedInOrder'
  BY DEF AwaitedInOrder
<1> QED
  BY <1>2, <1>3, <1>4, <1>5, <1>6

LEMMA FruitlessWaitKeepsInv == Inv /\ (PollInVain \/ WaitTimesOut) => Inv'
<1> SUFFICES ASSUME Inv, PollInVain \/ WaitTimesOut PROVE Inv'
  OBVIOUS
<1>1. /\ at = "waiting"
      /\ UNCHANGED <<storeVars, transit, mode, sent, seen, replies, final, otherVars>>
  BY DEF PollInVain, WaitTimesOut
<1>2. /\ call # NoCall
      /\ call \in [op : Waits, timeout : Timeouts, polled : BOOLEAN,
                   key : Messages \cup {NONE}]
  BY <1>1 DEF Inv, CallsFit, TypeOK
<1>3. \/ /\ call' = [call EXCEPT !.polled = TRUE] /\ UNCHANGED <<at, rejected>>
      \/ call' = NoCall /\ at' \in {"ready", "gaveup"} /\ rejected' \in Waits
  BY <1>2 DEF PollInVain, WaitTimesOut
<1> USE <1>1, <1>2, <1>3 DEF Inv, storeVars, otherVars
<1>4. TypeOK' /\ seen' <= Last
  <2>1. \/ call' = NoCall
        \/ call' \in [op : Waits, timeout : Timeouts, polled : BOOLEAN,
                     key : Messages \cup {NONE}]
    OBVIOUS
  <2>2. /\ at' \in {"new", "ready", "waiting", "done", "gaveup", "over"}
        /\ rejected' \in Waits \cup {NONE}
    BY DEF TypeOK
  <2> QED
    BY <2>1, <2>2 DEF TypeOK
<1>5. QueueInOrder' /\ StatusOfTheLastReply' /\ NothingLost'
  BY DEF QueueInOrder, StatusOfTheLastReply, NothingLost
<1>6. CallsFit'
  BY DEF CallsFit, NoCall, Answered, Waits
<1>7. OneAtATime'
  BY DEF OneAtATime, Answered
<1>8. RepliesMatch' /\ AwaitedInOrder'
  BY DEF RepliesMatch, AwaitedInOrder
<1> QED
  BY <1>4, <1>5, <1>6, <1>7, <1>8

(* The turns of the instance keep the invariant.                           *)
LEMMA TakeStartKeepsInv == Inv /\ TakeStart => Inv'
<1> SUFFICES ASSUME Inv, TakeStart PROVE Inv'
  OBVIOUS
<1>1. \/ status = "NotFound" /\ status' = "Running"
      \/ status # "NotFound" /\ status' = status
  BY DEF TakeStart
<1>2. /\ starting' \in BOOLEAN
      /\ UNCHANGED <<custom, version, values, inbox, working, taken, transit,
                     userVars, otherVars>>
  BY DEF TakeStart
<1> USE <1>2 DEF Inv, userVars, otherVars
<1>3. TypeOK' /\ seen' <= Last
  <2>1. status' \in {"NotFound", "Running", "Completed", "Failed"}
    BY <1>1 DEF TypeOK
  <2> QED
    BY <2>1 DEF TypeOK
<1>4. QueueInOrder' /\ StatusOfTheLastReply'
  BY <1>1 DEF QueueInOrder, StatusOfTheLastReply
<1>5. NothingLost'
  <2>1. status = "NotFound" => version = 0 /\ working = NONE
    BY DEF StatusOfTheLastReply
  <2> QED
    BY <1>1, <2>1 DEF NothingLost, TypeOK
<1>6. CallsFit' /\ OneAtATime'
  BY DEF CallsFit, OneAtATime, Answered, NoCall
<1>7. RepliesMatch' /\ AwaitedInOrder'
  BY DEF RepliesMatch, AwaitedInOrder
<1> QED
  BY <1>3, <1>4, <1>5, <1>6, <1>7

LEMMA DequeueKeepsInv == Inv /\ Dequeue => Inv'
<1> SUFFICES ASSUME Inv, Dequeue PROVE Inv'
  OBVIOUS
<1>1. /\ status = "Running" /\ working = NONE /\ inbox # <<>>
      /\ working' = inbox[1] /\ inbox' = Tail(inbox) /\ taken' = Append(taken, inbox[1])
      /\ UNCHANGED <<status, custom, version, values, starting, transit,
                     mode, at, sent, call, seen, replies, final, rejected, otherVars>>
  BY DEF Dequeue, userVars, Inv, TypeOK
<1>2. /\ inbox \in Seq(Messages) /\ taken \in Seq(Messages) /\ sent \in 0..Last
      /\ version \in Nat /\ Messages \subseteq Int
  BY ClientAssumption DEF Inv, TypeOK, Messages
<1>3. /\ DOMAIN inbox = 1..Len(inbox) /\ Len(inbox) \in Nat
      /\ \A i \in DOMAIN inbox : inbox[i] \in Messages
      /\ DOMAIN taken = 1..Len(taken) /\ Len(taken) \in Nat
      /\ \A i \in DOMAIN taken : taken[i] \in Messages
  BY <1>2, Elements
<1>4. /\ 1 \in DOMAIN inbox /\ inbox[1] \in Messages
      /\ inbox' \in Seq(Messages) /\ Len(inbox') = Len(inbox) - 1
      /\ \A i \in DOMAIN inbox' :
           i \in Nat /\ i + 1 \in DOMAIN inbox /\ 1 < i + 1 /\ inbox'[i] = inbox[i + 1]
  BY <1>1, <1>2, WithoutHead
<1>5. /\ taken' \in Seq(Messages) /\ Len(taken') = Len(taken) + 1
      /\ DOMAIN taken' = DOMAIN taken \cup {Len(taken) + 1}
      /\ taken'[Len(taken) + 1] = inbox[1]
      /\ \A i \in DOMAIN taken : i < Len(taken) + 1 /\ taken'[i] = taken[i]
  BY <1>1, <1>2, <1>4, AtTheEnd
<1>6. TypeOK' /\ seen' <= Last
  BY <1>1, <1>4, <1>5 DEF Inv, TypeOK, otherVars
<1>7. QueueInOrder'
  <2> USE DEF Inv, QueueInOrder
  <2>1. transit' \subseteq {sent'}
    BY <1>1
  <2>2. \A i \in DOMAIN inbox' : inbox'[i] \notin transit' /\ inbox'[i] <= sent'
    BY <1>1, <1>4
  <2>3. ASSUME NEW i \in DOMAIN inbox', NEW j \in DOMAIN inbox', i < j
        PROVE  inbox'[i] < inbox'[j]
    <3>1. i + 1 < j + 1
      BY <1>4, <2>3
    <3> QED
      BY <1>4, <3>1
  <2>4. ASSUME NEW i \in DOMAIN taken'
        PROVE  /\ taken'[i] \notin transit' /\ taken'[i] <= sent'
               /\ \A j \in DOMAIN inbox' : taken'[i] < inbox'[j]
    <3>1. CASE i \in DOMAIN taken
      BY <1>1, <1>4, <1>5, <3>1
    <3>2. CASE i = Len(taken) + 1
      BY <1>1, <1>4, <1>5, <3>2
    <3> QED
      BY <1>5, <3>1, <3>2
  <2> QED
    BY <2>1, <2>2, <2>3, <2>4
<1>8. StatusOfTheLastReply'
  <2>1. taken' # <<>> /\ working' = taken'[Len(taken')]
    BY <1>1, <1>3, <1>5
  <2>2. custom' # NONE => \E i \in DOMAIN taken' : taken'[i] = custom' /\ i < Len(taken')
    BY <1>1, <1>5 DEF Inv, StatusOfTheLastReply
  <2> QED
    BY <1>1, <2>1, <2>2 DEF Inv, StatusOfTheLastReply
<1>9. NothingLost'
  <2>1. working' # NONE
    BY <1>1, <1>2, <1>4, ClientAssumption
  <2>2. at = "new" => sent = 0
    BY DEF Inv, NothingLost
  <2>3. ASSUME ~spoiled
        PROVE  /\ \A i \in DOMAIN inbox' : inbox'[i] = Len(taken') + i
               /\ sent = Len(taken') + Len(inbox') + (IF transit = {} THEN 0 ELSE 1)
               /\ Len(taken') = version + 1
    <3>1. /\ \A i \in DOMAIN inbox : inbox[i] = Len(taken) + i
          /\ sent = Len(taken) + Len(inbox) + (IF transit = {} THEN 0 ELSE 1)
          /\ Len(taken) = version
      BY <1>1, <1>2, <1>3, <2>3 DEF Inv, NothingLost
    <3>2. \A i \in DOMAIN inbox' : inbox'[i] = Len(taken) + (i + 1)
      BY <1>4, <3>1
    <3>3. \A i \in DOMAIN inbox' : inbox'[i] = Len(taken') + i
      BY <1>3, <1>4, <1>5, <3>2
    <3>4. Len(taken') + Len(inbox') = Len(taken) + Len(inbox)
      BY <1>3, <1>4, <1>5
    <3> QED
      BY <1>5, <3>1, <3>3, <3>4
  <2> QED
    BY <1>1, <2>1, <2>2, <2>3 DEF Inv, NothingLost, otherVars
<1>10. CallsFit'
  BY <1>1 DEF Inv, CallsFit, Answered, NoCall
<1>11. OneAtATime'
  <2> SUFFICES ASSUME mode = "status" PROVE OneAtATime'
    BY <1>1 DEF OneAtATime
  <2>1. /\ ~Answered(sent) /\ Len(inbox) = 1 /\ inbox[1] = sent
        /\ transit = {} /\ ~(version > seen)
        /\ DOMAIN replies \in {1..sent, 1..sent - 1}
    BY <1>1 DEF Inv, OneAtATime
  <2>2. inbox' = <<>>
    BY <1>4, <2>1
  <2> QED
    BY <1>1, <2>1, <2>2 DEF OneAtATime, Answered
<1>12. RepliesMatch' /\ AwaitedInOrder'
  <2>1. RepliesMatch'
    BY <1>1 DEF Inv, RepliesMatch, otherVars
  <2>2. ASSUME NEW i \in DOMAIN taken', NEW j \in DOMAIN taken', i < j
        PROVE  taken'[i] < taken'[j]
    <3>1. i \in DOMAIN taken
      BY <1>3, <1>5, <2>2
    <3>2. CASE j \in DOMAIN taken
      BY <1>5, <2>2, <3>1, <3>2 DEF Inv, AwaitedInOrder
    <3>3. CASE j = Len(taken) + 1
      BY <1>4, <1>5, <3>1, <3>3 DEF Inv, QueueInOrder
    <3> QED
      BY <1>5, <3>2, <3>3
  <2>3. ASSUME ~spoiled, NEW i \in DOMAIN taken' PROVE taken'[i] = i
    <3>1. inbox[1] = Len(taken) + 1
      BY <1>4, <2>3 DEF Inv, NothingLost
    <3> QED
      BY <1>5, <2>3, <3>1 DEF Inv, AwaitedInOrder
  <2> QED
    BY <1>1, <2>1, <2>2, <2>3 DEF AwaitedInOrder, otherVars
<1> QED
  BY <1>6, <1>7, <1>8, <1>9, <1>10, <1>11, <1>12 DEF Inv

LEMMA ReplyKeepsInv == Inv /\ Reply => Inv'
<1> SUFFICES ASSUME Inv, Reply PROVE Inv'
  OBVIOUS
<1>1. /\ status = "Running" /\ working # NONE
      /\ custom' = working /\ version' = version + 1
      /\ values' = values \cup {working} /\ working' = NONE
      /\ status' = IF working = Last THEN "Completed" ELSE "Running"
      /\ UNCHANGED <<starting, inbox, taken, transit,
                     mode, at, sent, call, seen, replies, final, rejected, otherVars>>
  BY DEF Reply, userVars
<1>2. /\ working \in Messages /\ version \in Nat /\ Messages \subseteq Nat \ {0}
      /\ taken \in Seq(Messages) /\ sent \in 0..Last /\ seen \in Nat
  BY <1>1, ClientAssumption DEF Inv, TypeOK, Messages
<1>3. Len(taken) \in DOMAIN taken /\ taken[Len(taken)] = working /\ Len(taken) \in Nat
  BY <1>1, <1>2 DEF Inv, StatusOfTheLastReply
<1>4. version + 1 <= working
  <2>1. CASE version = 0
    BY <1>2, <2>1
  <2>2. CASE version > 0
    <3>1. custom \in Messages /\ version <= custom
      BY <2>2 DEF Inv, StatusOfTheLastReply
    <3>2. PICK i \in DOMAIN taken : taken[i] = custom /\ i < Len(taken)
      BY <1>1, <3>1, ClientAssumption DEF Inv, StatusOfTheLastReply, Messages
    <3>3. custom < working
      BY <1>3, <3>2 DEF Inv, AwaitedInOrder
    <3> QED
      BY <1>2, <3>1, <3>3
  <2> QED
    BY <1>2, <2>1, <2>2
<1>5. TypeOK' /\ seen' <= Last
  BY <1>1, <1>2 DEF Inv, TypeOK, otherVars
<1>6. QueueInOrder'
  BY <1>1 DEF Inv, QueueInOrder
<1>7. StatusOfTheLastReply'
  BY <1>1, <1>2, <1>3, <1>4 DEF StatusOfTheLastReply
<1>8. NothingLost'
  <2>1. ASSUME ~spoiled PROVE Len(taken) = version + 1 /\ working = version + 1
    BY <1>1, <1>3, <2>1 DEF Inv, NothingLost, AwaitedInOrder
  <2> QED
    BY <1>1, <1>2, <2>1, ClientAssumption DEF Inv, NothingLost, otherVars
<1>9. CallsFit'
  BY <1>1 DEF Inv, CallsFit, Answered, NoCall
<1>10. OneAtATime'
  <2> SUFFICES ASSUME mode = "status" PROVE OneAtATime'
    BY <1>1 DEF OneAtATime
  <2>1. /\ ~Answered(sent) /\ working = sent /\ transit = {} /\ inbox = <<>>
        /\ DOMAIN replies \in {1..sent, 1..sent - 1}
    BY <1>1 DEF Inv, OneAtATime
  <2> QED
    BY <1>1, <2>1 DEF OneAtATime, Answered
<1>11. RepliesMatch' /\ AwaitedInOrder'
  BY <1>1 DEF Inv, RepliesMatch, AwaitedInOrder, otherVars
<1> QED
  BY <1>5, <1>6, <1>7, <1>8, <1>9, <1>10, <1>11 DEF Inv

LEMMA FailKeepsInv == Inv /\ Fail /\ UNCHANGED spoiled /\ meddling' \in Nat => Inv'
<1> SUFFICES ASSUME Inv, Fail, UNCHANGED spoiled, meddling' \in Nat PROVE Inv'
  OBVIOUS
<1>1. /\ status = "Running" /\ status' = "Failed" /\ working' = NONE
      /\ UNCHANGED <<custom, version, values, starting, inbox, taken, transit,
                     mode, at, sent, call, seen, replies, final, rejected, spoiled>>
  BY DEF Fail, userVars
<1> USE <1>1 DEF Inv
<1>2. TypeOK' /\ seen' <= Last
  BY DEF TypeOK
<1>3. QueueInOrder' /\ StatusOfTheLastReply' /\ NothingLost'
  BY DEF QueueInOrder, StatusOfTheLastReply, NothingLost
<1>4. CallsFit' /\ OneAtATime'
  BY DEF CallsFit, OneAtATime, Answered, NoCall
<1>5. RepliesMatch' /\ AwaitedInOrder'
  BY DEF RepliesMatch, AwaitedInOrder
<1> QED
  BY <1>2, <1>3, <1>4, <1>5

(* So does what somebody else does.                                        *)
LEMMA StartAgainKeepsInv == Inv /\ StartAgain => Inv'
<1> SUFFICES ASSUME Inv, StartAgain PROVE Inv'
  OBVIOUS
<1>1. /\ starting' = TRUE /\ meddling' = meddling + 1
      /\ UNCHANGED <<status, custom, version, values, inbox, working, taken, transit,
                     mode, at, sent, call, seen, replies, final, rejected, spoiled>>
  BY DEF StartAgain, Meddle, userVars
<1> USE <1>1 DEF Inv
<1>2. TypeOK' /\ seen' <= Last
  BY DEF TypeOK
<1>3. QueueInOrder' /\ StatusOfTheLastReply' /\ NothingLost'
  BY DEF QueueInOrder, StatusOfTheLastReply, NothingLost
<1>4. CallsFit' /\ OneAtATime'
  BY DEF CallsFit, OneAtATime, Answered, NoCall
<1>5. RepliesMatch' /\ AwaitedInOrder'
  BY DEF RepliesMatch, AwaitedInOrder
<1> QED
  BY <1>2, <1>3, <1>4, <1>5

LEMMA DeleteInstanceKeepsInv ==
  ASSUME Inv, NEW force \in BOOLEAN, DeleteInstance(force)
  PROVE  Inv'
<1>1. /\ status' = "NotFound" /\ custom' = NONE /\ version' = 0 /\ values' = {}
      /\ inbox' = <<>> /\ working' = NONE /\ spoiled' = TRUE
      /\ meddling' = meddling + 1
      /\ UNCHANGED <<starting, taken, transit,
                     mode, at, sent, call, seen, replies, final, rejected>>
  BY DEF DeleteInstance, Meddle, userVars
<1>2. seen \in Nat
  BY DEF Inv, TypeOK
<1> USE <1>1, <1>2 DEF Inv
<1>3. TypeOK' /\ seen' <= Last
  BY DEF TypeOK
<1>4. QueueInOrder' /\ StatusOfTheLastReply' /\ NothingLost'
  BY DEF QueueInOrder, StatusOfTheLastReply, NothingLost
<1>5. CallsFit' /\ OneAtATime'
  BY DEF CallsFit, OneAtATime, Answered, NoCall
<1>6. RepliesMatch' /\ AwaitedInOrder'
  BY DEF RepliesMatch, AwaitedInOrder
<1> QED
  BY <1>3, <1>4, <1>5, <1>6

(* Inv holds in every state, whatever is called in which order.            *)
THEOREM ClientInvariant == Spec => []Inv
<1>1. Inv /\ [Next]_vars => Inv'
  <2> SUFFICES ASSUME Inv, [Next]_vars PROVE Inv'
    OBVIOUS
  <2>1. CASE StartOrchestration \/ CallEnqueueEvent \/ CallWaits \/ GetStatus
    BY <2>1, StartOrchestrationKeepsInv, CallEnqueueEventKeepsInv, CallWaitsKeepInv,
       GetStatusKeepsInv
  <2>2. CASE \E m \in Messages : EnqueueEvent(m)
    BY <2>2, EnqueueEventKeepsInv
  <2>3. CASE Resolve \/ PollInVain \/ WaitTimesOut
    BY <2>3, WaitForStatusChangeKeepsInv, WaitForValueKeepsInv,
       WaitForOrchestrationKeepsInv, FruitlessWaitKeepsInv DEF Resolve
  <2>4. CASE TakeStart \/ Dequeue \/ Reply
    BY <2>4, TakeStartKeepsInv, DequeueKeepsInv, ReplyKeepsInv
  <2>5. CASE ActivityFails \/ CancelInstance
    <3>1. Fail /\ UNCHANGED spoiled /\ meddling' \in Nat
      BY <2>5 DEF ActivityFails, CancelInstance, Meddle, otherVars, Inv, TypeOK
    <3> QED
      BY <3>1, FailKeepsInv
  <2>6. CASE StartAgain \/ \E force \in BOOLEAN : DeleteInstance(force)
    BY <2>6, StartAgainKeepsInv, DeleteInstanceKeepsInv
  <2>7. CASE UNCHANGED vars
    <3>1. /\ UNCHANGED <<status, custom, version, values, starting, inbox, working, taken,
                         transit>>
          /\ UNCHANGED <<mode, at, sent, call, seen, replies, final, rejected, spoiled,
                         meddling>>
      BY <2>7 DEF vars, storeVars, userVars, otherVars
    <3> USE <3>1 DEF Inv
    <3>2. TypeOK' /\ seen' <= Last
      BY DEF TypeOK
    <3>3. QueueInOrder' /\ StatusOfTheLastReply' /\ NothingLost'
      BY DEF QueueInOrder, StatusOfTheLastReply, NothingLost
    <3>4. CallsFit' /\ OneAtATime'
      BY DEF CallsFit, OneAtATime, Answered, NoCall
    <3>5. RepliesMatch' /\ AwaitedInOrder'
      BY DEF RepliesMatch, AwaitedInOrder
    <3> QED
      BY <3>2, <3>3, <3>4, <3>5
  <2> QED
    BY <2>1, <2>2, <2>3, <2>4, <2>5, <2>6, <2>7 DEF Next, Stopped
<1> QED
  BY InitInv, <1>1, PTL DEF Spec

(* The user takes for the reply to a message what is the reply to it, and  *)
(* awaited messages are taken in their order: for conversations of any     *)
(* length, with any timeouts below U32 (ClientAssumption) and any          *)
(* interference, also for a user who goes on after a wait was rejected.    *)
THEOREM ClientSafety == Spec => [](RepliesMatch /\ AwaitedInOrder)
<1>1. Inv => RepliesMatch /\ AwaitedInOrder
  BY DEF Inv
<1> QED
  BY ClientInvariant, <1>1, PTL

-----------------------------------------------------------------------------
(* The contract of ChatContract.  What only moves a message towards the    *)
(* instance, or a wait towards its end, is not seen there.                 *)
LEMMA UnseenCalls ==
  ASSUME Inv,
         \/ StartOrchestration \/ CallWaits \/ GetStatus
         \/ \E m \in Messages : EnqueueEvent(m)
         \/ WaitForOrchestration \/ PollInVain \/ WaitTimesOut
         \/ TakeStart \/ StartAgain
  PROVE  UNCHANGED Contract!vars
BY DEF Contract!vars, StartOrchestration, CallWaits, CallWaitForReply,
       CallWaitForOrchestration, CallWait, GetStatus, EnqueueEvent, WaitForOrchestration,
       PollInVain, WaitTimesOut, TakeStart, StartAgain, storeVars, userVars, otherVars

(* The head of the queue is the next message of the contract.              *)
LEMMA DequeueKeepsContract == Inv /\ Dequeue => Contract!Next
<1> SUFFICES ASSUME Inv, Dequeue PROVE Contract!Next
  OBVIOUS
<1> DEFINE m == Head(inbox)
<1>1. inbox \in Seq(Messages) /\ taken \in Seq(Messages) /\ inbox # <<>>
  BY DEF Inv, TypeOK, Dequeue
<1>2. m = inbox[1] /\ 1 \in DOMAIN inbox /\ m \in 1..Last
  BY <1>1, WithoutHead DEF Messages
<1>3. m <= sent /\ \A i \in DOMAIN taken : taken[i] < m
  BY <1>2 DEF Inv, QueueInOrder
<1>4. ~spoiled => m = Len(taken) + 1
  BY <1>2 DEF Inv, NothingLost
<1>5. Contract!Take(m)
  BY <1>3, <1>4 DEF Dequeue, userVars, otherVars, Contract!Take
<1> QED
  BY <1>2, <1>5 DEF Contract!Next

(* A newer status is the reply to the message that is waited for, and is   *)
(* among the replies of the instance as it now is.                         *)
LEMMA ReplyIsLearned == Inv /\ (WaitForStatusChange \/ WaitForValue) =>
                          [Contract!Next]_Contract!vars
<1> SUFFICES ASSUME Inv, WaitForStatusChange \/ WaitForValue
             PROVE  [Contract!Next]_Contract!vars
  OBVIOUS
<1>1. CASE WaitForStatusChange
  <2>1. CASE version <= last_seen_version
    <3>1. UNCHANGED <<sent, taken, working, values, replies, spoiled>>
      BY <1>1, <2>1, SeenFits
      DEF Inv, TypeOK, WaitForStatusChange, storeVars, otherVars
    <3> QED
      BY <3>1 DEF Contract!vars
  <2>2. CASE ~(version <= last_seen_version)
    <3>1. version > seen /\ version > 0
      BY <2>2, SeenFits DEF Inv, TypeOK
    <3>2. /\ call.key = sent /\ custom = sent /\ ~Answered(sent)
          /\ custom \in Messages /\ custom \in values
      BY <1>1, <3>1, ClientAssumption
      DEF Inv, CallsFit, OneAtATime, StatusOfTheLastReply, WaitForStatusChange, Messages
    <3>3. convert_status.custom = custom
      BY <3>1 DEF convert_status, Inv, StatusOfTheLastReply
    <3>4. replies' = [k \in DOMAIN replies \cup {sent} |->
                        IF k = sent THEN sent ELSE replies[k]]
      BY <1>1, <2>2, <3>2, <3>3 DEF WaitForStatusChange, Take
    <3>5. Contract!Learn(sent)
      BY <1>1, <3>2, <3>4
      DEF WaitForStatusChange, Answered, storeVars, otherVars, Contract!Learn
    <3> QED
      BY <3>2, <3>5 DEF Contract!Next, Messages
  <2> QED
    BY <2>1, <2>2
<1>2. CASE WaitForValue
  <2>1. call.key \in values /\ call.key \in Messages /\ ~Answered(call.key)
    BY <1>2 DEF WaitForValue, Inv, CallsFit, TypeOK
  <2>2. Contract!Learn(call.key)
    BY <1>2, <2>1
    DEF WaitForValue, Take, Answered, storeVars, otherVars, Contract!Learn
  <2> QED
    BY <2>1, <2>2 DEF Contract!Next, Messages
<1> QED
  BY <1>1, <1>2

(* Replies, failures and deletions are the contract's own.                 *)
LEMMA InstanceKeepsContract ==
  ASSUME Inv
  PROVE  /\ CallEnqueueEvent => Contract!Next
         /\ Reply => Contract!Next
         /\ Fail /\ UNCHANGED spoiled => [Contract!Next]_Contract!vars
         /\ \A force \in BOOLEAN : DeleteInstance(force) => Contract!Next
<1>1. CallEnqueueEvent => Contract!Send
  BY DEF CallEnqueueEvent, storeVars, otherVars, Contract!Send
<1>2. Reply => Contract!Reply
  BY DEF Reply, userVars, otherVars, Contract!Reply
<1>3. ASSUME Fail, UNCHANGED spoiled PROVE [Contract!Next]_Contract!vars
  <2>1. CASE working = NONE
    BY <1>3, <2>1 DEF Fail, userVars, Contract!vars
  <2>2. CASE working # NONE
    <3>1. Contract!Fail
      BY <1>3, <2>2 DEF Fail, userVars, Contract!Fail
    <3> QED
      BY <3>1 DEF Contract!Next
  <2> QED
    BY <2>1, <2>2
<1>4. \A force \in BOOLEAN : DeleteInstance(force) => Contract!Delete
  BY DEF DeleteInstance, userVars, Contract!Delete
<1> QED
  BY <1>1, <1>2, <1>3, <1>4 DEF Contract!Next

(* Calls that run on any thread, waits that time out and are made again,   *)
(* and other people's calls keep the contract: messages are worked on in   *)
(* the order of their calls and replies are learned once, after they were  *)
(* published and never from an instance that is gone.                      *)
THEOREM ClientImplementsContract == Spec => ImplementsContract
<1>1. Init => Contract!Init
  BY DEF Init, Contract!Init
<1>2. Inv /\ [Next]_vars => [Contract!Next]_Contract!vars
  <2> SUFFICES ASSUME Inv, [Next]_vars PROVE [Contract!Next]_Contract!vars
    OBVIOUS
  <2>1. CASE UNCHANGED vars
    BY <2>1 DEF vars, storeVars, userVars, otherVars, Contract!vars
  <2>2. CASE Dequeue \/ WaitForStatusChange \/ WaitForValue
    BY <2>2, DequeueKeepsContract, ReplyIsLearned
  <2>3. CASE CallEnqueueEvent \/ Reply \/ \E force \in BOOLEAN : DeleteInstance(force)
    BY <2>3, InstanceKeepsContract
  <2>4. CASE ActivityFails \/ CancelInstance
    <3>1. Fail /\ UNCHANGED spoiled
      BY <2>4 DEF ActivityFails, CancelInstance, otherVars
    <3> QED
      BY <3>1, InstanceKeepsContract
  <2> QED
    BY <2>1, <2>2, <2>3, <2>4, UnseenCalls DEF Next, Resolve, Stopped
<1> QED
  BY ClientInvariant, <1>1, <1>2, PTL DEF Spec, ImplementsContract, Contract!Spec
=============================================================================
