SPECIFICATION Spec
CONSTANTS
    NULL = NULL
    Emails = {e}
    Workers = {w1}
    MaxAttempts = 2
    MaxCodes = 2
    MaxInvites = 1
    MaxDeaths = 1
INVARIANT CapSurvivesDrops
CHECK_DEADLOCK FALSE
