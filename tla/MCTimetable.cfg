SPECIFICATION Spec
CONSTANTS
    NULL = NULL
    Teams = {a, b, c}
    Courts = {c1, c2}
    Workers = {w1, w2}
    Starts = {0, 2}
    Length = 2
    Rest = 1
    MaxFixtures = 2
    MaxSlots = 2
    MaxRequests = 5
INVARIANT TypeOK
INVARIANT NoDoubleBooking
INVARIANT NoTwinFixtures
INVARIANT StampMirrorsSlot
PROPERTY CourtsImplementCalendar
SYMMETRY Symmetric
CHECK_DEADLOCK FALSE
