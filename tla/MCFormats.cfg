SPECIFICATION Spec
CONSTANTS
    Fields <- MCFields
    Splits <- MCSplits
    PairLists <- MCPairLists
    Assignments <- MCAssignments
    Registered <- MCRegistered
    Documents <- MCDocuments
    Scores <- MCScores
INVARIANT BracketIsTree
INVARIANT MeetOnce
INVARIANT SeedsSpread
INVARIANT UniformAdvancersOnce
INVARIANT ScoreMatchesPlay
