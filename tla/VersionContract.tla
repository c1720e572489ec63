---------------------------- MODULE VersionContract ----------------------------
(***************************************************************************)
(* What versions promise the author of an orchestration, without the Map,  *)
(* the Runtimes, their registries and the lookup by two keys: an execution *)
(* that is asked for by version runs at it, any other at one version that  *)
(* its first committed turn settles; and each turn runs code that the      *)
(* process at hand was given for just that version.                        *)
(***************************************************************************)
CONSTANTS Instances, Versions, Functions, NONE

VARIABLES
  authored,  \* version -> code the process was given for it
  life,      \* instance -> absent, due, turn or over
  asked,     \* instance -> version its execution was asked for by, or NONE
  settled,   \* instance -> version its execution has run at, or NONE
  at,        \* instance -> version of the turn that is on, or NONE
  code       \* instance -> the code of that turn, or NONE

vars == <<authored, life, asked, settled, at, code>>

Init ==
  /\ authored = [v \in Versions |-> {}]
  /\ life = [x \in Instances |-> "absent"]
  /\ asked = [x \in Instances |-> NONE]
  /\ settled = [x \in Instances |-> NONE]
  /\ at = [x \in Instances |-> NONE]
  /\ code = [x \in Instances |-> NONE]

Author(v, f) ==
  /\ authored' = [authored EXCEPT ![v] = @ \cup {f}]
  /\ UNCHANGED <<life, asked, settled, at, code>>

\* Another process begins with nothing; turns that were on are due again.
Restart ==
  /\ authored' = [v \in Versions |-> {}]
  /\ life' = [x \in Instances |-> IF life[x] = "turn" THEN "due" ELSE life[x]]
  /\ at' = [x \in Instances |-> NONE]
  /\ code' = [x \in Instances |-> NONE]
  /\ UNCHANGED <<asked, settled>>

Begin(x, v) ==
  /\ life[x] = "absent"
  /\ life' = [life EXCEPT ![x] = "due"]
  /\ asked' = [asked EXCEPT ![x] = v]
  /\ UNCHANGED <<authored, settled, at, code>>

Turn(x, v, f) ==
  /\ life[x] = "due"
  /\ asked[x] \in {v, NONE} /\ settled[x] \in {v, NONE}
  /\ f \in authored[v]
  /\ life' = [life EXCEPT ![x] = "turn"]
  /\ at' = [at EXCEPT ![x] = v]
  /\ code' = [code EXCEPT ![x] = f]
  /\ UNCHANGED <<authored, asked, settled>>

EndTurn(x, then) ==
  /\ life[x] = "turn"
  /\ life' = [life EXCEPT ![x] = then]
  /\ at' = [at EXCEPT ![x] = NONE]
  /\ code' = [code EXCEPT ![x] = NONE]
  /\ UNCHANGED authored

Commit(x) ==
  /\ EndTurn(x, "due") \/ EndTurn(x, "over")
  /\ settled' = [settled EXCEPT ![x] = at[x]]
  /\ UNCHANGED asked

Lose(x) == EndTurn(x, "due") /\ UNCHANGED <<asked, settled>>

\* A new execution of the instance settles its version anew.
Continue(x, v) ==
  /\ EndTurn(x, "due")
  /\ asked' = [asked EXCEPT ![x] = v]
  /\ settled' = [settled EXCEPT ![x] = NONE]

Next ==
  \/ \E v \in Versions, f \in Functions : Author(v, f)
  \/ Restart
  \/ \E x \in Instances, v \in Versions \cup {NONE} : Begin(x, v) \/ Continue(x, v)
  \/ \E x \in Instances, v \in Versions, f \in Functions : Turn(x, v, f)
  \/ \E x \in Instances : Commit(x) \/ Lose(x)

Spec == Init /\ [][Next]_vars
=============================================================================
