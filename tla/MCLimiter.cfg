SPECIFICATION LimiterSpec
CONSTANTS
    e = e
    Keys = {e, ip1, ip2}
    Limit <- Limits
    Window <- Windows
    MaxKeys = 1
    MaxStamps = 3
INVARIANT WindowRespected
INVARIANT MapBounded
