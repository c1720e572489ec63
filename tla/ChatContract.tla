------------------------------ MODULE ChatContract ------------------------------
(***************************************************************************)
(* What a conversation with an orchestration promises its user, without    *)
(* the store, the queue, versions, waits and their timeouts: messages are  *)
(* taken in the order they were sent, one after the other, none left out   *)
(* unless the instance was deleted; and the user learns the reply to a     *)
(* message, once, when the instance as it now is has replied to it.        *)
(***************************************************************************)
EXTENDS Integers, Sequences

CONSTANTS
  Last,      \* the number of the last message
  NONE       \* no message

VARIABLES
  sent,      \* messages sent so far
  taken,     \* the messages taken so far, in order
  busy,      \* the message the instance works on, or NONE
  replied,   \* messages the instance, as it now is, has replied to
  learned,   \* message -> the reply the user took for it
  lost       \* the instance was deleted

vars == <<sent, taken, busy, replied, learned, lost>>

Init ==
  /\ sent = 0 /\ taken = <<>> /\ busy = NONE /\ replied = {}
  /\ learned = [m \in {} |-> NONE]
  /\ lost = FALSE

Send ==
  /\ sent < Last /\ sent' = sent + 1
  /\ UNCHANGED <<taken, busy, replied, learned, lost>>

Take(m) ==
  /\ busy = NONE /\ m <= sent
  /\ \A i \in DOMAIN taken : taken[i] < m
  /\ ~lost => m = Len(taken) + 1
  /\ busy' = m /\ taken' = Append(taken, m)
  /\ UNCHANGED <<sent, replied, learned, lost>>

Reply ==
  /\ busy # NONE
  /\ replied' = replied \cup {busy} /\ busy' = NONE
  /\ UNCHANGED <<sent, taken, learned, lost>>

\* The work on a message fails or is cancelled.
Fail ==
  /\ busy # NONE /\ busy' = NONE
  /\ UNCHANGED <<sent, taken, replied, learned, lost>>

\* What was replied, and what was not taken, is gone.
Delete ==
  /\ busy' = NONE /\ replied' = {} /\ lost' = TRUE
  /\ UNCHANGED <<sent, taken, learned>>

Learn(m) ==
  /\ m \in replied \ DOMAIN learned
  /\ learned' = [k \in DOMAIN learned \cup {m} |-> IF k = m THEN m ELSE learned[k]]
  /\ UNCHANGED <<sent, taken, busy, replied, lost>>

Next ==
  \/ Send \/ Reply \/ Fail \/ Delete
  \/ \E m \in 1..Last : Take(m) \/ Learn(m)

Spec == Init /\ [][Next]_vars
=============================================================================
