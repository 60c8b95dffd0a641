\* Any changes beside one run and its reproductions.
CONSTANTS
    Runs = {r1}
    Vessels = {v1, v2}
    v1 = v1
    Fuels = {f1, f2}
    f1 = f1
    f2 = f2
    Later = {y1, y2}
    y1 = y1
    Year = Year
    Profile = Profile
    Rows = {a1, a2, b1}
    a1 = a1
    a2 = a2
    b1 = b1
    Values = {a, b}
    a = a
    b = b
    ValueOf <- MCValueOf
    Environments = {e1, e2, e3}
    e1 = e1
    e2 = e2
    e3 = e3
    Numerics <- MCNumerics
    NULL = NULL
    MaxChanges = 2
SPECIFICATION MCSpec
CHECK_DEADLOCK FALSE
INVARIANTS
    BrokenMeansTampered
    RevisedMeansRevised
