SPECIFICATION Spec
CONSTANTS
    NULL = NULL
    Emails = {e}
    Workers = {w1, w2}
    MaxAttempts = 2
    MaxCodes = 2
    MaxInvites = 1
    MaxDeaths = 0
INVARIANT OneLiveCode
CHECK_DEADLOCK FALSE
