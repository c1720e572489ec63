------------------------------ MODULE TaskPromise ------------------------------
(***************************************************************************)
(* What a yielded task promises the author of an orchestration, without    *)
(* turns, replays, polls and histories:                                    *)
(*                                                                         *)
(*   - its parts end one after the other, in any order, each once;         *)
(*   - the generator goes on once, with one answer;                        *)
(*   - a task alone answers with its value or throws its error, all() with *)
(*     every part's outcome at that part's place when the last has ended,  *)
(*     race() with the part that ended first;                              *)
(*   - what cannot be done is refused, whatever has ended.                 *)
(***************************************************************************)
EXTENDS Naturals, Sequences, KeyedMap, TaskValues

CONSTANTS
  Tasks,        \* what may be yielded
  Outcomes(_),  \* how a part of a type may end
  NONE

VARIABLES
  task,    \* what is yielded
  ended,   \* how the parts that have ended did
  first,   \* the part that ended first, or NONE
  answer   \* what the generator goes on with, or NONE

vars == <<task, ended, first, answer>>

Init ==
  /\ task \in Tasks
  /\ ended = << >>
  /\ first = NONE
  /\ answer = NONE

Composites == {"join", "select"}
Composable == {"activity", "timer", "waitEvent", "getValueFromInstance"}

Parts == IF task.type \in Composites THEN task.tasks ELSE <<task>>

Usable(k) == task.type \in Composites => Parts[k].type \in Composable

Refusals ==
  IF task.type = "select" /\ Len(Parts) # 2 THEN {"exactly 2 tasks"}
  ELSE IF task.type \in Composites /\ \E k \in DOMAIN Parts : Parts[k].type \in Composites
       THEN {"nested join/select"}
       ELSE {}

Message(text) == [throw |-> Raw(text)]
Thrown(k) == [throw |-> ErrorMessage(Parsed(ended[k].err))]

\* With typed parsing a string that reads as JSON is read once more.
Reads(v) == IF task.typed THEN tryJsonParse(v) ELSE v
Value(k) == ValueAs(Parts[k].type, ended[k])

Item(k) ==
  CASE ~Usable(k) -> Obj([err |-> Str(Raw("unsupported task"))])
    [] Usable(k) /\ Failed(ended[k]) -> Obj([err |-> Reads(Parsed(ended[k].err))])
    [] OTHER -> Obj([ok |-> Reads(Value(k))])

AllAnswers ==
  IF \A k \in DOMAIN Parts : Usable(k) => k \in DOMAIN ended
  THEN {[next |-> Arr([k \in DOMAIN Parts |-> Item(k)])]}
  ELSE {}

RaceAnswers ==
  IF \E k \in DOMAIN Parts : ~Usable(k) THEN {Message("unsupported task")}
  ELSE IF first = NONE THEN {}
  ELSE IF Failed(ended[first]) THEN {Thrown(first)}
  ELSE {[next |-> Obj([index |-> first - 1, value |-> Reads(Value(first))])]}

AloneAnswers ==
  IF 1 \notin DOMAIN ended THEN {}
  ELSE IF Failed(ended[1]) THEN {Thrown(1)}
  ELSE {[next |-> IF task.type = "activity" THEN Reads(Value(1)) ELSE Value(1)]}

\* The answers the task may be given now: one, or none yet.
Answers ==
  IF Refusals # {} THEN {Message(text) : text \in Refusals}
  ELSE CASE task.type = "join" -> AllAnswers
         [] task.type = "select" -> RaceAnswers
         [] task.type = "orchestration" -> {[next |-> Null]}
         [] OTHER -> AloneAnswers

\* A part ends, also after the answer.  What is refused or detached has no
\* parts to wait for.
End(k) ==
  /\ Refusals = {} /\ task.type # "orchestration"
  /\ Usable(k) /\ k \notin DOMAIN ended
  /\ \E outcome \in Outcomes(Parts[k].type) : ended' = With(ended, k, outcome)
  /\ first' = IF first = NONE THEN k ELSE first
  /\ UNCHANGED <<task, answer>>

Answer ==
  /\ answer = NONE
  /\ answer' \in Answers
  /\ UNCHANGED <<task, ended, first>>

Next == Answer \/ \E k \in DOMAIN Parts : End(k)

Spec == Init /\ [][Next]_vars
=============================================================================
