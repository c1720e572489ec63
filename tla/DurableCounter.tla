----------------------------- MODULE DurableCounter -----------------------------
(***************************************************************************)
(* What durable execution promises for the counter orchestration of        *)
(* __tests__/replay_isolation.test.js, whatever replays it takes: the      *)
(* committed history is what one undisturbed run of the program would have *)
(* produced so far, it grows by one turn at a time, and the instance       *)
(* completes with the right count.  It never fails.                        *)
(***************************************************************************)
EXTENDS Naturals, Sequences

CONSTANTS Instances, Steps

VARIABLES history, outcome

vars == <<history, outcome>>

Set(n) == <<"set", n>>
Now == <<"now", 0>>

\* Turn n of the program: bump the counter, then yield utcNow.
Turn(n) == <<Set(n), Now>>

Running == <<"running", 0>>
DoneWith(n) == <<"done", n>>

Init ==
  /\ history = [x \in Instances |-> << >>]
  /\ outcome = [x \in Instances |-> Running]

CommitTurn(x) ==
  LET n == Len(history[x]) \div 2 IN
  /\ outcome[x] = Running
  /\ n < Steps
  /\ history' = [history EXCEPT ![x] = @ \o Turn(n + 1)]
  /\ UNCHANGED outcome

Complete(x) ==
  /\ outcome[x] = Running
  /\ Len(history[x]) = 2 * Steps
  /\ outcome' = [outcome EXCEPT ![x] = DoneWith(Steps)]
  /\ UNCHANGED history

Next == \E x \in Instances : CommitTurn(x) \/ Complete(x)

Spec == Init /\ [][Next]_vars
=============================================================================
