\* One PATCH at a time, beside creations, deletions and fuel entries.
CONSTANTS
    Periods = {n1, n2}
    Requests = {q1}
    Times = {1, 2, 3}
    YearOf <- MCYearOf
    Years = {2026, 2027}
    Values = {w1, w2}
    FuelKeys = {k1}
    Files <- MCFiles
    Runs = {r1}
    NULL = NULL
    KEEP = KEEP
SYMMETRY MCSymmetry
SPECIFICATION Spec
CHECK_DEADLOCK FALSE
INVARIANTS
    NoOverlap
    YearTouched
PROPERTIES
    ChangeMarksAnnualRuns
