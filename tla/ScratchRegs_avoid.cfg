\* One operand is enough.
CONSTANTS
    RAX = RAX
    RBP = RBP
    RCX = RCX
    RDX = RDX
    RSI = RSI
    NoReg = NoReg
    Regs <- SomeRegs
    MaxOperands = 1
SPECIFICATION Spec
SYMMETRY Symmetry
INVARIANT
    ScratchAvoidsOperand
