\* Three requests over a pool of two connections: two turns and a look-up, or
\* any other three, that overlap.
CONSTANTS
    Requests = {q1, q2, q3}
    PoolSize = 2
    MaxRequests = 3
    NULL = NULL
    Figures = {1045, 1050, 1100}
    Quanta = {10, 100}
    Originals = {1045}
    MaxNamed = 1
    MaxTools = 1
    MaxHistory = 3
    Names = {n1}
    Places = {p1, p2}
    MaxTime = 3
    Files = {{low, high}, {whole}}
    Seed = {whole}
SPECIFICATION Spec
CHECK_DEADLOCK FALSE
INVARIANTS
    AnswersAreGrounded
    LookupsAgree
    ShownPosition
    ActiveRowsAreWholeFiles
PROPERTIES
    RequestsEnd
