SPECIFICATION Spec
CONSTANTS
    NULL = NULL
    Emails = {e}
    Workers = {w1, w2}
    MaxAttempts = 2
    MaxCodes = 3
    MaxInvites = 1
    MaxDeaths = 1
CONSTRAINT ThirdUndisturbed
INVARIANT SupersededRetired
INVARIANT GuessesBounded
INVARIANT CodeUsedOnce
PROPERTY RevocationTerminal
SYMMETRY Symmetric
CHECK_DEADLOCK FALSE
