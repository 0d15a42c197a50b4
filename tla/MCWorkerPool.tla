---------------------------- MODULE MCWorkerPool ----------------------------
(* Small instances of the worker pool.  r1 and r2 are rows of two people;  *)
(* r3 and any further row belong to the person of r1.                      *)
EXTENDS WorkerPoolRefinement, TLC

CONSTANTS r1, r2

People == [r \in Rows |-> IF r = r2 THEN "second person" ELSE "first person"]

AnyRow == {Rows}
WithPrecision == {Rows, {r2}}

Symmetry == Permutations(Workers) \cup Permutations(Rows \ {r2})
=============================================================================
