\* One voyage with everything the handlers can put into its row.
CONSTANTS
    Voyages = {v1}
    Years = {2026, 2027}
    Times = {1, 2}
    YearOf <- MCYearOf
    Plans = {p1, p2}
    Distances = {d1}
    Fuels = {f1, f2}
    Tons = {t1}
    RecordTimes = {}
    Runs = {r1}
    NULL = NULL
    KEEP = KEEP
    NoRow = NoRow
SYMMETRY MCSymmetry
SPECIFICATION Spec
CHECK_DEADLOCK FALSE
INVARIANTS
    TypeOK
    StatusPolicyYear
    TimesOrdered
    PlanYearSpanned
    ActualYearSpanned
    ConfirmedComplete
    ProgressIsPlanned
    ConfirmedIsMeasured
    PairsAreUnsubstituted
PROPERTIES
    ImplementsStages
    CompletionKeepsVoyageCounted
    SnapshotChangeMarksRuns
    PlanFrozenAfterDeparture
    PlanChangeMarksCalculation
