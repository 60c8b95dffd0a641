\* Two imports, one reading, hand entries; pages of one row.
CONSTANTS
    Ids = {1, 2}
    Numbers = {n1, n2}
    HandNumbers = {n1, NULL}
    n1 = n1
    n2 = n2
    Departures = {1, 2}
    Limit = 1
    Imports = {i1, i2}
    Fuels = {f1, f2}
    f1 = f1
    f2 = f2
    Files <- MCFiles
    MaxRows = 3
    NULL = NULL
SYMMETRY MCSymmetry
SPECIFICATION SpecVI
INVARIANTS
    ListedOnce
    NumbersComeWhole
    DryRunForetells
PROPERTIES
    ImportsKeepNumbers
