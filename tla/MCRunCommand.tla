---------------------------- MODULE MCRunCommand ----------------------------
(* Two rows of two people in two workbooks, one profile they can both win. *)
EXTENDS RunCommand, TLC

CONSTANTS r1, r2, f1, f2

DistinctPeople == (r1 :> r1) @@ (r2 :> r2)
Workbooks == (r1 :> f1) @@ (r2 :> f2)
=============================================================================
