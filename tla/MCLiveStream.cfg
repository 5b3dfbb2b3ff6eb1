SPECIFICATION FairSpec
CONSTANTS
    Readers = {r1}
    Workers = {w1, w2}
    Statuses = {"published", "draft"}
    Capacity = 1
    MaxSaves = 2
INVARIANT TypeOK
INVARIANT NoSendOnClosed
PROPERTY HiddenGoesSilent
PROPERTY UpdatesReach
PROPERTY Released
