\* Two adoption requests, each with a copy of its scenario read before the
\* lock.
CONSTANTS
    Voyages = {v1, v2}
    Scenarios = {s1, s2}
    Requests = {q1, q2}
    NULL = NULL
SPECIFICATION SpecSA
CHECK_DEADLOCK FALSE
INVARIANTS
    AtMostOneAdopted
