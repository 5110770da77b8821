\* One operand is enough.
CONSTANTS
    t1 = t1
    t2 = t2
    Threads = {t1, t2}
    Merged = Merged
    Garbage = Garbage
    NullFrame = NullFrame
    DebugInfo = {TRUE}
    MaxOperands = 1
SPECIFICATION Spec
INVARIANT LookupsInOwnFrame
