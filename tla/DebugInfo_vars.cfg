\* An executable with a variable of a type of every sort; nothing fails.
CONSTANTS
    NULL = NULL
    Bad = Bad
    MIN_CAPACITY = 1
    IntBits = 4
    Programs <- OnlyTypes
    MaxFailures = 0
    MaxErrors = 0
SPECIFICATION Spec
INVARIANT VariablesAsInC
