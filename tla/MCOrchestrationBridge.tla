------------------------- MODULE MCOrchestrationBridge -------------------------
(* Two replays of one instance, with one typed task type: an invocation and *)
(* a competitor for the JavaScript thread, the map and the generator ids.   *)
EXTENDS OrchestrationBridge

CONSTANTS r1, r2, o1, activity

MCInvocations == {r1, r2}
MCInstances == {o1}
MCTypedTypes == {activity}
=============================================================================
