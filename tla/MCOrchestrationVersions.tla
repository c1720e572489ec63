------------------------- MODULE MCOrchestrationVersions -------------------------
(* Two Runtime objects in one process, one of them alone on its store: the  *)
(* instance x is in both stores, y in the first Runtime's only.             *)
EXTENDS OrchestrationVersions, TLC

CONSTANTS r1, r2, x, y, f1, f2

MCRuntimes == {r1, r2}
MCInstances == {x, y}
MCStore == (r1 :> {x, y}) @@ (r2 :> {x})
MCVersions == {1, 2}
MCFunctions == {f1, f2}
Symmetry == Permutations(MCFunctions)
=============================================================================
