\* Every address, the pcs of the module's code and of another module, and two
\* frames.
CONSTANTS
    NoVariable = NoVariable
    PtrRange = 64
    IntRange = 16
    Infos <- Programs
    segmBase = 8
    PCs = {8, 9, 10, 11, 12, 13, 14, 15, 30}
    SPs = {52, 60}
SPECIFICATION Spec
INVARIANT VariableAtAddress
