-------------------------- MODULE ScratchRegsProofs --------------------------
(***************************************************************************)
(* Theorems about ScratchRegs, for any set of registers and any number of  *)
(* operands: whatever drreg hands out, the address of the entry survives,  *)
(* the application's registers do, and register operands are saved from    *)
(* registers that are not the tracer's own.                                *)
(***************************************************************************)
EXTENDS ScratchRegs, TLAPS

\* The registers are fixed names, and enough of them.
LEMMA Registers == RAX \in Regs /\ RBP \in Regs /\ NoReg \notin Regs
  BY ScratchRegsAssumption

\* No register is the tracer's before the first instruction.
LEMMA InitInv == Init => ScratchInv
  BY ScratchRegsAssumption DEF Init, ScratchInv, TypeOK, PointerKept, OthersUntouched,
     RegisterOperandFree, RegisterOperandMoved, Nothing, Scratch

\* Reserving the two registers, which were the application's.
LEMMA CreateStep == ScratchInv /\ createInstrContext => ScratchInv'
  BY Registers DEF ScratchInv, createInstrContext, Reservable, Scratch, TypeOK,
     PointerKept, OthersUntouched, RegisterOperandFree, RegisterOperandMoved

\* The TLS slot is read into regDstAddr.
LEMMA LoadStep == ScratchInv /\ loadPointer => ScratchInv'
  BY Registers DEF ScratchInv, loadPointer, Scratch, TypeOK,
     PointerKept, OthersUntouched, RegisterOperandFree, RegisterOperandMoved

\* A call leaves both registers alone.
LEMMA CallStep == ScratchInv /\ saveCall => ScratchInv'
  BY Registers DEF ScratchInv, saveCall, Scratch, TypeOK,
     PointerKept, OthersUntouched, RegisterOperandFree, RegisterOperandMoved

\* ensureNotUsing, first half: the pointer moves to regVal if it must.
LEMMA SwapStep == ScratchInv /\ swapScratch => ScratchInv'
  BY Registers DEF ScratchInv, swapScratch, MovePointer, Overlaps, Scratch, TypeOK,
     PointerKept, OthersUntouched, RegisterOperandFree, RegisterOperandMoved

\* ensureNotUsing, second half: the new value register is not regDstAddr.
LEMMA ReplaceStep == ScratchInv /\ replaceValue => ScratchInv'
  BY Registers DEF ScratchInv, replaceValue, ChangeValue, AllowedRegs, Overlaps, Scratch,
     TypeOK, PointerKept, OthersUntouched, RegisterOperandFree, RegisterOperandMoved

\* The header of an operand goes through regVal.
LEMMA SaveStep == ScratchInv /\ saveOpnd => ScratchInv'
  BY Registers, ScratchRegsAssumption
     DEF ScratchInv, saveOpnd, saveReg, saveIndir, Scratch, TypeOK,
     PointerKept, OthersUntouched, RegisterOperandFree, RegisterOperandMoved

\* What an address points at is read into regVal.
LEMMA StoreStep == ScratchInv /\ storeOperand => ScratchInv'
  BY Registers DEF ScratchInv, storeOperand, Nothing, Scratch, TypeOK,
     PointerKept, OthersUntouched, RegisterOperandFree, RegisterOperandMoved

\* The TLS slot gets the pointer back.
LEMMA PointerStep == ScratchInv /\ storePointer => ScratchInv'
  BY Registers DEF ScratchInv, storePointer, Scratch, TypeOK,
     PointerKept, OthersUntouched, RegisterOperandFree, RegisterOperandMoved

\* Both registers are given back.
LEMMA DestroyStep == ScratchInv /\ destroyInstrContext => ScratchInv'
  BY Registers, ScratchRegsAssumption DEF ScratchInv, destroyInstrContext, Scratch, TypeOK,
     PointerKept, OthersUntouched, RegisterOperandFree, RegisterOperandMoved

\* The inductive invariant holds in every state.
LEMMA ScratchInvariant == Spec => []ScratchInv
<1>1. Init => ScratchInv
  BY InitInv
<1>2. ScratchInv /\ [Next]_vars => ScratchInv'
  <2> SUFFICES ASSUME ScratchInv, [Next]_vars
               PROVE  ScratchInv'
    OBVIOUS
  <2>1. CASE createInstrContext
    BY <2>1, CreateStep
  <2>2. CASE loadPointer
    BY <2>2, LoadStep
  <2>3. CASE saveCall
    BY <2>3, CallStep
  <2>4. CASE swapScratch
    BY <2>4, SwapStep
  <2>5. CASE replaceValue
    BY <2>5, ReplaceStep
  <2>6. CASE saveOpnd
    BY <2>6, SaveStep
  <2>7. CASE storeOperand
    BY <2>7, StoreStep
  <2>8. CASE storePointer
    BY <2>8, PointerStep
  <2>9. CASE destroyInstrContext
    BY <2>9, DestroyStep
  <2>10. CASE UNCHANGED vars
    BY <2>10 DEF vars, ScratchInv, Scratch, TypeOK, PointerKept, OthersUntouched,
       RegisterOperandFree, RegisterOperandMoved
  <2> QED
    BY <2>1, <2>2, <2>3, <2>4, <2>5, <2>6, <2>7, <2>8, <2>9, <2>10 DEF Next
<1> QED
  BY <1>1, <1>2, PTL DEF Spec

\* The entry's address survives every sequence of swaps and new registers
\* (ensureNotUsing, move).
THEOREM PointerSurvives == Spec => []PointerKept
<1>1. ScratchInv => PointerKept
  BY DEF ScratchInv
<1> QED
  BY <1>1, ScratchInvariant, PTL

\* Whatever registers drreg hands out, every other register is the
\* application's, and every reserved register is given back.
THEOREM ApplicationPreserved == Spec => []OthersUntouched
<1>1. ScratchInv => OthersUntouched
  BY DEF ScratchInv
<1> QED
  BY <1>1, ScratchInvariant, PTL

\* A register operand and the frame pointer are saved from a register that is
\* not one of the tracer's (saveReg, insertInstrumentation).
THEOREM RegisterOperandsFree == Spec => []RegisterOperandFree
<1>1. ScratchInv => RegisterOperandFree
  BY DEF ScratchInv
<1> QED
  BY <1>1, ScratchInvariant, PTL

\* When ensureNotUsing has exchanged the two roles, the pointer register is not
\* the register of the operand any more.
THEOREM OperandsMoved == Spec => []RegisterOperandMoved
<1>1. ScratchInv => RegisterOperandMoved
  BY DEF ScratchInv
<1> QED
  BY <1>1, ScratchInvariant, PTL

\* The tracer has two registers, never a null one, while it saves an entry,
\* and none in between.
THEOREM ScratchTypes == Spec => []TypeOK
<1>1. ScratchInv => TypeOK
  BY DEF ScratchInv
<1> QED
  BY <1>1, ScratchInvariant, PTL
=============================================================================
