---------------------------- MODULE MCTaskExecution ----------------------------
(* Every task type on its own, joins and selects over the combinations that *)
(* take different ways through execute_task, and the rejected ones.         *)
EXTENDS TaskExecution

Leaf(type) == [type |-> type, typed |-> FALSE, tasks |-> << >>]
Typed(t) == [t EXCEPT !.typed = TRUE]
All(ts) == [type |-> "join", typed |-> FALSE, tasks |-> ts]
Race(ts) == [type |-> "select", typed |-> FALSE, tasks |-> ts]

activity == Leaf("activity")
timer == Leaf("timer")
event == Leaf("waitEvent")
kv == Leaf("getValueFromInstance")
guid == Leaf("newGuid")

MCTasks ==
  {activity, Typed(activity), timer, event, kv, guid, Leaf("orchestration")}
  \cup {All(<< >>), All(<<activity, timer>>), All(<<activity, guid, kv>>),
        Typed(All(<<activity, event>>)), All(<<timer, Race(<<timer, event>>)>>)}
  \cup {Race(<<activity, timer>>), Race(<<event, kv>>), Typed(Race(<<activity, activity>>)),
        Race(<<guid, activity>>), Race(<<activity, guid>>), Race(<<activity>>),
        Race(<<activity, timer, event>>), Race(<<activity, Race(<<timer, event>>)>>)}

\* An atom, a string that is no JSON, and a string that reads as JSON.
MCValues == {Atom("n"), Str(Raw("s")), Str(Json(Atom("n")))}
MCFailures == {Raw("boom"), Json(Str(Raw("boom")))}
=============================================================================
