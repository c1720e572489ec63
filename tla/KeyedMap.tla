-------------------------------- MODULE KeyedMap --------------------------------
(* The map operations of the two languages (Map of JavaScript, HashMap of   *)
(* Rust) on a map held as a function: set/insert and delete/remove.  They   *)
(* are written out, not built from :> and @@, so that the provers can       *)
(* expand them.                                                             *)
EXTENDS Functions

With(f, k, v) == [x \in DOMAIN f \cup {k} |-> IF x = k THEN v ELSE f[x]]

\* The map without key k, whether or not it was there.
Without(f, k) == Restrict(f, DOMAIN f \ {k})
=============================================================================
