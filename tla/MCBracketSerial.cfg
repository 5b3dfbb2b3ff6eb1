SPECIFICATION Spec
CONSTANTS
    NULL = NULL
    s1 = s1  s2 = s2  f = f  a1 = a1  a2 = a2  a3 = a3  k1 = k1  k2 = k2
    p1 = p1  p2 = p2  p3 = p3  p4 = p4  gA = gA
    Participants = {p1, p2, p3}
    Groups = {gA}
    Workers = {w1}
    Matches <- LeagueMatches
    Source <- LeagueSource
    GroupOf <- LeagueGroupOf
    InitStatus <- LeagueStatus
    NameOrder <- Names
    Submissions <- LeagueScores
    Reported = {a1, a2, a3, k1, k2}
    StatusRequests = {"scheduled", "live"}
    ManualResolve = FALSE
    MayFail = TRUE
INVARIANT WinnerPlays
INVARIANT PlacementsCurrent
INVARIANT OpenGroupUnresolved
PROPERTY CorrectionsSpareStarted
