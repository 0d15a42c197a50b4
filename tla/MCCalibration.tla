--------------------------- MODULE MCCalibration ----------------------------
(* Four rows, three of them shown in a sitting, two scores: ties, labels   *)
(* of several sittings, violations of order that pool more than two        *)
(* labels, and cuts that do and do not reach the target.                   *)
EXTENDS Calibration

RowsSymmetry == Permutations(Rows)
=============================================================================
