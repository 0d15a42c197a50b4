SPECIFICATION Spec
CONSTANTS
    Rows = {r1, r2, r3, r4}
    Scores = {1, 3}
    Sample = 3
    Target = 40
    MinKept = 2
    MaxExtra = 5
    MaxCommands = 3
SYMMETRY RowsSymmetry
INVARIANTS
    PromiseKept
    CutIsLowest
    FitIsIsotonic
    CurveMonotone
CHECK_DEADLOCK FALSE
