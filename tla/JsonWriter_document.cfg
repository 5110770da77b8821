\* Two threads, with and without debugging information; every list of up to two operands.
CONSTANTS
    t1 = t1
    t2 = t2
    Threads = {t1, t2}
    Merged = Merged
    Garbage = Garbage
    NullFrame = NullFrame
    DebugInfo = {TRUE, FALSE}
    MaxOperands = 2
SPECIFICATION Spec
SYMMETRY Symmetry
INVARIANTS
    TypeOK
    WellFormed
    OwnFrame
