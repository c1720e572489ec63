--------------------------- MODULE InvocationProtocol ---------------------------
(***************************************************************************)
(* What the orchestration bridge promises to the authors of orchestrations *)
(* and to the replay engine, without tokens, maps, generators or threads:  *)
(*                                                                         *)
(*   - the code of an invocation runs in steps, one step at a time in the  *)
(*     whole process, and each step follows a call from the engine's side; *)
(*   - an invocation is given up only between its steps: while its code    *)
(*     runs, it has not ended;                                             *)
(*   - what code does to a context it does to its own, and once the        *)
(*     invocation is over it can do nothing to any.                        *)
(***************************************************************************)
CONSTANT Invocations

VARIABLES
  phase,   \* what each invocation is doing
  actedOn  \* invocation -> invocations whose code acted on its context

vars == <<phase, actedOn>>

Phases == {"new", "called", "stepping", "awaiting", "ending", "over"}

Init ==
  /\ phase = [i \in Invocations |-> "new"]
  /\ actedOn = [i \in Invocations |-> {}]

Move(i, from, to) ==
  /\ phase[i] \in from
  /\ phase' = [phase EXCEPT ![i] = to]
  /\ UNCHANGED actedOn

Begin(i) == Move(i, {"new"}, "called")

\* The code of i starts a step; no other code is in one.
Step(i) ==
  /\ \A j \in Invocations : phase[j] # "stepping"
  /\ Move(i, {"called"}, "stepping")

Yield(i) == Move(i, {"stepping"}, "awaiting")

Resume(i) == Move(i, {"awaiting"}, "called")

\* The code returned or threw, the call was refused, or the engine dropped the
\* invocation while it waited for a task.
Stop(i) == Move(i, {"stepping", "called", "awaiting"}, "ending")

Close(i) == Move(i, {"ending"}, "over")

Act(i) ==
  /\ phase[i] \notin {"new", "over"}
  /\ \A j \in Invocations \ {i} : phase[j] # "stepping"
  /\ actedOn' = [actedOn EXCEPT ![i] = @ \cup {i}]
  /\ UNCHANGED phase

Next == \E i \in Invocations :
  Begin(i) \/ Step(i) \/ Yield(i) \/ Resume(i) \/ Stop(i) \/ Close(i) \/ Act(i)

Spec == Init /\ [][Next]_vars
=============================================================================
