--------------------------- MODULE MCScratchRegs ----------------------------
(* Instances of ScratchRegs for TLC. *)
EXTENDS ScratchRegs, TLC

CONSTANTS RCX, RDX, RSI

SomeRegs == {RAX, RBP, RCX, RDX, RSI}

\* RAX is the register line 409 names and RBP the frame pointer; nothing tells
\* the others apart.
Symmetry == Permutations({RCX, RDX, RSI})
=============================================================================
