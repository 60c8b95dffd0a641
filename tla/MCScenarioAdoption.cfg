\* Adoptions one after another, beside everything that happens to voyages.
CONSTANTS
    Voyages = {v1, v2}
    Scenarios = {s1, s2, s3}
    Requests = {q1}
    NULL = NULL
SPECIFICATION SpecSA
CHECK_DEADLOCK FALSE
INVARIANTS
    AtMostOneAdopted
    AdoptedWhereCompared
PROPERTIES
    AdoptionTakesEffect
