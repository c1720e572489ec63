------------------------------ MODULE MCClientCalls ------------------------------
(* A conversation of three messages, its waits with a timeout or a negative *)
(* one, while somebody else does two things to the instance.                *)
EXTENDS ClientCalls

MCTimeouts == {5, -1}
=============================================================================
