\* Two requests at a time about three accounts.
CONSTANTS
    Users = {u1, u2, u3}
    InitialAdmins = {u1, u2}
    Requests = {q1, q2}
    NULL = NULL
SPECIFICATION Spec
CHECK_DEADLOCK FALSE
PROPERTIES
    AdminRemainsUnlessPromoted
