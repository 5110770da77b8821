\* Three executables; arrays of one entry, so that most entries grow one; one
\* allocation and up to two calls of libdwarf fail, anywhere.
CONSTANTS
    NULL = NULL
    Bad = Bad
    MIN_CAPACITY = 1
    IntBits = 4
    Programs <- Documented
    MaxFailures = 1
    MaxErrors = 2
SPECIFICATION Spec
INVARIANTS
    TypeOK
    EntriesOwnTheirStrings
    FreedOnce
    GivenUpLeaks
    LeaksKnown
    UndefinedKnown
PROPERTY ImplementsDebugIndex
