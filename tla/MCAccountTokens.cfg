\* Two requests at a time about an account and its successor.
CONSTANTS
    MaxUsers = 2
    Requests = {q1, q2}
    MaxTokens = 3
    MaxSessions = 2
    MaxPassword = 1
    NULL = NULL
SPECIFICATION Spec
CHECK_DEADLOCK FALSE
INVARIANTS
    OnlyNewestLink
    SessionsFollowPassword
PROPERTIES
    LinkWorksOnce
    WithdrawnUntouched
    RequestsEnd
