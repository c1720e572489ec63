---------------------------- MODULE ActivityContract ----------------------------
(***************************************************************************)
(* What the activity bridge promises the worker and the author of an       *)
(* activity, without tokens, maps, futures or promises:                    *)
(*                                                                         *)
(*   - the worker gets one answer: the result of code that returned, an    *)
(*     error of code that threw or cannot end any more, or, when it had    *)
(*     cancelled the activity, nothing but its time back;                  *)
(*   - code nobody waits for goes on all the same, and ends at most once;  *)
(*   - code that asks whether it is cancelled is told what is so at that   *)
(*     moment, also after the worker has given it up.                      *)
(***************************************************************************)
CONSTANTS Invocations, NONE

VARIABLES
  answer,     \* what the worker got for an invocation, or NONE
  code,       \* what the user's function is doing
  cancelled,  \* invocations nobody wants the result of
  told        \* what the code of an invocation knows of that

vars == <<answer, code, cancelled, told>>

Codes == {"pending", "running", "fulfilled", "rejected", "lost"}

Init ==
  /\ answer = [a \in Invocations |-> NONE]
  /\ code = [a \in Invocations |-> "pending"]
  /\ cancelled = [a \in Invocations |-> FALSE]
  /\ told = [a \in Invocations |-> FALSE]

Code(a, from, to) ==
  /\ code[a] = from
  /\ code' = [code EXCEPT ![a] = to]
  /\ UNCHANGED <<answer, cancelled, told>>

Start(a) == Code(a, "pending", "running")

End(a) == Code(a, "running", "fulfilled") \/ Code(a, "running", "rejected")

\* Node goes down: code that has not ended by now never will.
Lose(lost) ==
  /\ \A a \in lost : code[a] \in {"pending", "running"}
  /\ code' = [a \in Invocations |-> IF a \in lost THEN "lost" ELSE code[a]]
  /\ UNCHANGED <<answer, cancelled, told>>

Cancel(a) ==
  /\ answer[a] = NONE
  /\ cancelled' = [cancelled EXCEPT ![a] = TRUE]
  /\ UNCHANGED <<answer, code, told>>

Ask(a) ==
  /\ code[a] = "running"
  /\ told' = [told EXCEPT ![a] = cancelled[a]]
  /\ UNCHANGED <<answer, code, cancelled>>

Answer(a) ==
  /\ answer[a] = NONE
  /\ \E result \in {"ok", "err", "aborted"} :
       /\ result = "ok" => code[a] = "fulfilled"
       /\ result = "err" => code[a] \in {"rejected", "lost"}
       /\ result = "aborted" => cancelled[a]
       /\ answer' = [answer EXCEPT ![a] = result]
  /\ UNCHANGED <<code, cancelled, told>>

Next ==
  \/ \E a \in Invocations : Start(a) \/ End(a) \/ Cancel(a) \/ Ask(a) \/ Answer(a)
  \/ \E lost \in SUBSET Invocations : Lose(lost)

Spec == Init /\ [][Next]_vars
=============================================================================
