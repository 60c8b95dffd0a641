\* Two PATCHes of one period, each with a copy of it read before the lock.
CONSTANTS
    Periods = {n1, n2}
    Requests = {q1, q2}
    Times = {1, 2, 3, 4}
    YearOf <- MCYearOf
    Years = {2026, 2027}
    Values = {w1}
    FuelKeys = {}
    Files <- MCFiles
    Runs = {}
    NULL = NULL
    KEEP = KEEP
SPECIFICATION Spec
CHECK_DEADLOCK FALSE
INVARIANTS
    NoOverlap
