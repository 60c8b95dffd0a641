\* A change commits between the reads of a run and its INSERT.
CONSTANTS
    Voyages = {v1}
    Years = {2026, 2027}
    Times = {2}
    YearOf <- MCYearOf
    Plans = {p1, p2}
    Distances = {d1}
    Fuels = {f1}
    Tons = {t1}
    RecordTimes = {2}
    Runs = {r1}
    RunYear <- MCRunYear
    CutOff <- MCCutOff
    Specs = {s1, s2}
    Rates = {w1}
    NULL = NULL
    KEEP = KEEP
    NoRow = NoRow
SPECIFICATION SpecAR
CHECK_DEADLOCK FALSE
INVARIANTS
    FreshRunIsCurrent
