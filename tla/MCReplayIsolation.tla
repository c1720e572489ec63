--------------------------- MODULE MCReplayIsolation ---------------------------
(* One instance, two dispatcher slots and up to MaxLost lost locks: the     *)
(* scenario of the regression test, with the lock lost at any moment.  An   *)
(* instance needs Steps + 1 replays and one more per lost lock, so the      *)
(* bound on the invocations cuts nothing off.                               *)
EXTENDS ReplayIsolation

CONSTANT o1

MCInstances == {o1}
MCInvocations == 1 .. (Steps + 1 + MaxLost)
=============================================================================
