\* One voyage, edited at every point of one annual run.
CONSTANTS
    Voyages = {v1}
    Years = {2026, 2027}
    Times = {2}
    YearOf <- MCYearOf
    Plans = {p1}
    Distances = {d1}
    Fuels = {f1}
    Tons = {t1}
    RecordTimes = {2}
    Runs = {r1}
    RunYear <- MCRunYear
    CutOff <- MCCutOff
    Specs = {s1, s2}
    Rates = {w1}
    NULL = NULL
    KEEP = KEEP
    NoRow = NoRow
SYMMETRY MCSymmetry
SPECIFICATION SpecAR
CHECK_DEADLOCK FALSE
INVARIANTS
    UndisturbedRunIsCurrent
PROPERTIES
    ConfirmedActualsFrozen
    ChangeMarksAnnualRuns
