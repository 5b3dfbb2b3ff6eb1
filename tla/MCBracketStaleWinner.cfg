SPECIFICATION Spec
CONSTANTS
    NULL = NULL
    s1 = s1  s2 = s2  f = f  a1 = a1  a2 = a2  a3 = a3  k1 = k1  k2 = k2
    p1 = p1  p2 = p2  p3 = p3  p4 = p4  gA = gA
    Participants = {p1, p2, p3, p4}
    Groups = {}
    Workers = {w1, w2}
    Matches <- CupMatches
    Source <- CupSource
    GroupOf <- CupGroupOf
    InitStatus <- CupStatus
    NameOrder <- Names
    Submissions <- CupScores
    Reported <- CupMatches
    StatusRequests = {"scheduled", "live"}
    ManualResolve = FALSE
    MayFail = FALSE
INVARIANT WinnerPlays
