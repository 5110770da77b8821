\* Five registers, three operands for each instruction, and any number of
\* instructions one after the other.
CONSTANTS
    RAX = RAX
    RBP = RBP
    RCX = RCX
    RDX = RDX
    RSI = RSI
    NoReg = NoReg
    Regs <- SomeRegs
    MaxOperands = 3
SPECIFICATION Spec
SYMMETRY Symmetry
INVARIANTS
    TypeOK
    PointerKept
    OthersUntouched
    RegisterOperandFree
    RegisterOperandMoved
