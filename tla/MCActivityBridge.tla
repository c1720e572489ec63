---------------------------- MODULE MCActivityBridge ----------------------------
(* Two executions of one activity, as after a lost worker lock: one may be  *)
(* cancelled, dropped or finished while the other runs.                     *)
EXTENDS ActivityBridge
=============================================================================
