SPECIFICATION Spec
CONSTANTS
    NULL = NULL
    a = a  o = o  b = b
    Users = {a, o, b}
    InitRole <- Starting
    Sids = {i1, i2, i3}
    Workers = {w1, w2}
    MaxGen = 1
    Logins = {a, o}
    Managed = {a, o}
    MayFail = FALSE
SYMMETRY IdSymmetry
INVARIANT BorrowedByActiveAdmin
