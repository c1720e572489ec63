--------------------------- MODULE MCRuntimeLifecycle ---------------------------
(* Two calls of start() and two of shutdown(), in any order and overlapping *)
(* in any way, with an activity and an orchestration registered at any time *)
(* between.                                                                 *)
EXTENDS RuntimeLifecycle
=============================================================================
