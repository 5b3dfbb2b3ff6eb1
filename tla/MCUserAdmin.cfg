SPECIFICATION Spec
CONSTANTS
    NULL = NULL
    u1 = u1  u2 = u2  u3 = u3  u4 = u4
    Users = {u1, u2, u3, u4}
    Workers = {w1, w2, w3}
    InitRole <- Starting
INVARIANT TypeOK
INVARIANT SuperAdminRemains
PROPERTY AdministrationAtomic
SYMMETRY Symmetries
