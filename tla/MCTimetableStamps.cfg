SPECIFICATION Spec
CONSTANTS
    NULL = NULL
    Teams = {a, b}
    Courts = {c1}
    Workers = {w1}
    Starts = {0, 2}
    Length = 2
    Rest = 0
    MaxFixtures = 1
    MaxSlots = 2
    MaxRequests = 5
INVARIANT StampAlwaysMirrors
SYMMETRY Symmetric
CHECK_DEADLOCK FALSE
