---------------------------- MODULE ScratchRegs -----------------------------
(***************************************************************************)
(* The two scratch registers of the instrumentation                        *)
(* (json_tracer/insert_instrumentation.c): regDstAddr points at the entry  *)
(* that is being filled, regVal carries the values stored there.  Both are *)
(* borrowed from the application through drreg, which may pick a register  *)
(* the instruction itself uses; ensureNotUsing then moves them away.       *)
(*                                                                         *)
(* The generated code is straight-line, so that generating an instruction  *)
(* and executing it are one step of the model.                             *)
(***************************************************************************)
EXTENDS Naturals, FiniteSets

CONSTANTS
    Regs,        \* the general-purpose registers drreg may hand out
    RAX, RBP,    \* two of them
    NoReg,       \* DR_REG_NULL: an address without a base or an index
    MaxOperands  \* bound: the operands of the instruction

ASSUME ScratchRegsAssumption ==
    /\ {RAX, RBP} \subseteq Regs
    /\ NoReg \notin Regs
    /\ Cardinality(Regs) > 4
    /\ MaxOperands \in Nat

VARIABLES
    phase,       \* what insertInstrumentation does next
    regDstAddr, regVal,
    content,     \* content[r]: "app", the application's value, in r or where
                 \* drreg will restore it from; "pointer", the entry's
                 \* address; or another "value" of the tracer
    operand,     \* the registers of the operand being saved
    operands,    \* how many operands are saved
    baseVal      \* what saveIndir stored as the value of the base register

vars == <<phase, regDstAddr, regVal, content, operand, operands, baseVal>>

Scratch == {regDstAddr, regVal} \ {NoReg}
Nothing == [kind |-> "none", reg1 |-> NoReg, reg2 |-> NoReg]

Init ==
    /\ phase = "create"
    /\ regDstAddr = NoReg /\ regVal = NoReg
    /\ content = [r \in Regs |-> "app"]
    /\ operand = Nothing
    /\ operands = 0
    /\ baseVal = "none"

-----------------------------------------------------------------------------
(* drreg, an extension of DynamoRIO: which registers it may hand out.  A    *)
(* reserved register may be overwritten; drreg restores an unreserved one   *)
(* by the next time the application reads it.                               *)

Reservable(allowed) == allowed \ Scratch

createInstrContext ==
    /\ phase = "create"
    /\ \E dst \in Reservable(Regs) : \E val \in Reservable(Regs) \ {dst} :
           /\ regDstAddr' = dst /\ regVal' = val
           /\ content' = [content EXCEPT ![dst] = "value", ![val] = "value"]
    /\ phase' = "load"
    /\ UNCHANGED <<operand, operands, baseVal>>

loadPointer ==
    /\ phase = "load"
    /\ content' = [content EXCEPT ![regDstAddr] = "pointer"]
    /\ operand' = [kind |-> "bp", reg1 |-> RBP, reg2 |-> RBP]
    /\ phase' = "ensure"
    /\ UNCHANGED <<regDstAddr, regVal, operands, baseVal>>

\* A call is saved by a clean call, which needs neither register.
saveCall ==
    /\ phase = "load"
    /\ phase' = "destroy"
    /\ UNCHANGED <<regDstAddr, regVal, content, operand, operands, baseVal>>

-----------------------------------------------------------------------------
(* ensureNotUsing(reg1, reg2) *)

\* fault: the slip of line 409, made here too
OverlapsRAX(r) == r = RAX
Overlaps(r) == r \in {operand.reg1, operand.reg2}

\* fault: both arguments are left in the vector
AllAllowed(reg1, reg2) == Regs
\* fault: DR_REG_NULL is left in the vector
NullAllowed(reg1, reg2) == Regs \cup {NoReg}
\* The vector of allowed registers.  Line 409 takes out the register with the
\* number of the enumerator reg of value_type_t, which is RAX, and not reg1.
AllowedRegs(reg1, reg2) ==
    Regs \ ((IF reg1 \in Regs THEN {RAX} ELSE {}) \cup {reg2})

\* fault: the pointer is not moved along
SwapOnly(swap) == UNCHANGED content
\* move: regVal gets the pointer before the two registers change roles.
MovePointer(swap) ==
    content' = IF swap THEN [content EXCEPT ![regVal] = content[regDstAddr]]
                       ELSE content

swapScratch ==
    /\ phase = "ensure"
    /\ LET swap == Overlaps(regDstAddr)
       IN  /\ MovePointer(swap)
           /\ regDstAddr' = IF swap THEN regVal ELSE regDstAddr
           /\ regVal' = IF swap THEN regDstAddr ELSE regVal
    /\ phase' = "reserve"
    /\ UNCHANGED <<operand, operands, baseVal>>

\* fault: the old value register is not given back
KeepOld(r) == content' = [content EXCEPT ![r] = "value"]
\* drreg_unreserve_register, then drreg_reserve_register.
ChangeValue(r) == content' = [content EXCEPT ![regVal] = "app", ![r] = "value"]

\* A new value register, if the operand uses this one.
replaceValue ==
    /\ phase = "reserve"
    /\ IF Overlaps(regVal)
       THEN \E r \in AllowedRegs(operand.reg1, operand.reg2) \ {regDstAddr} :
                /\ regVal' = r
                /\ ChangeValue(r)
       ELSE UNCHANGED <<regVal, content>>
    /\ phase' = "store"
    /\ UNCHANGED <<regDstAddr, operand, operands, baseVal>>

-----------------------------------------------------------------------------
(* saveOperands.  An operand that is neither a general-purpose register nor *)
(* a base-displacement address changes nothing here.                        *)

\* isSrc, type and name go through regVal first.
saveReg(r) ==
    /\ operand' = [kind |-> "register", reg1 |-> r, reg2 |-> r]
    /\ UNCHANGED baseVal
    /\ phase' = "ensure"

\* saveIndir stores the base value before it calls ensureNotUsing.
saveIndir(base, index) ==
    /\ operand' = [kind |-> "address", reg1 |-> base, reg2 |-> index]
    /\ baseVal' = IF base \in Regs THEN content[base] ELSE "none"
    /\ phase' = "ensure"

saveOpnd ==
    /\ phase = "operands"
    /\ operands < MaxOperands
    /\ operands' = operands + 1
    /\ content' = [content EXCEPT ![regVal] = "value"]
    /\ \/ \E r \in Regs : saveReg(r)
       \/ \E base, index \in Regs \cup {NoReg} : saveIndir(base, index)
    /\ UNCHANGED <<regDstAddr, regVal>>

\* After ensureNotUsing: storeReg of a register operand, or loadValueOpnd of
\* the memory the address registers point at and the store of what was read.
storeOperand ==
    /\ phase = "store"
    /\ IF operand.kind = "address"
       THEN content' = [content EXCEPT ![regVal] = "value"]
       ELSE UNCHANGED content
    /\ operand' = Nothing
    /\ baseVal' = "none"
    /\ phase' = "operands"
    /\ UNCHANGED <<regDstAddr, regVal, operands>>

\* addPointer, storePointer, then destroyInstrContext.
storePointer ==
    /\ phase = "operands"
    /\ phase' = "destroy"
    /\ UNCHANGED <<regDstAddr, regVal, content, operand, operands, baseVal>>

destroyInstrContext ==
    /\ phase = "destroy"
    /\ content' = [content EXCEPT ![regVal] = "app", ![regDstAddr] = "app"]
    /\ regDstAddr' = NoReg /\ regVal' = NoReg
    /\ operands' = 0
    /\ phase' = "create"
    /\ UNCHANGED <<operand, baseVal>>

Next ==
    \/ createInstrContext
    \/ loadPointer
    \/ saveCall
    \/ swapScratch
    \/ replaceValue
    \/ saveOpnd
    \/ storeOperand
    \/ storePointer
    \/ destroyInstrContext

Spec == Init /\ [][Next]_vars

-----------------------------------------------------------------------------
(* Properties. *)

\* The type invariant.
TypeOK ==
    /\ phase \in {"create", "load", "ensure", "reserve", "store", "operands",
                  "destroy"}
    /\ regDstAddr \in IF phase = "create" THEN {NoReg} ELSE Regs
    /\ regVal \in IF phase = "create" THEN {NoReg} ELSE Regs
    /\ content \in [Regs -> {"app", "pointer", "value"}]
    /\ operand \in [kind : {"none", "bp", "register", "address"},
                    reg1 : Regs \cup {NoReg}, reg2 : Regs \cup {NoReg}]
    /\ operands \in 0 .. MaxOperands
    /\ baseVal \in {"none", "app", "pointer", "value"}

\* Every store goes through a register that still holds the entry's address,
\* and the TLS slot gets that address back, whatever sequence of swaps and
\* new registers the operands caused.
PointerKept ==
    phase \in {"ensure", "reserve", "store", "operands"} =>
        content[regDstAddr] = "pointer"

\* The application sees its own registers: only the two scratch registers, which
\* are different, hold anything else.
OthersUntouched ==
    /\ \A r \in Regs \ Scratch : content[r] = "app"
    /\ regDstAddr = regVal => regVal = NoReg

\* When the value of a register operand, or of RBP, is stored, that register
\* is not one of the tracer's own.
RegisterOperandFree ==
    phase = "store" /\ operand.kind # "address" => operand.reg1 \notin Scratch

\* The inductive invariant: besides the properties above, the pointer register
\* is clear of a register operand as soon as the two have changed roles.
RegisterOperandMoved ==
    /\ operand.kind \in {"bp", "register"} =>
           operand.reg1 \in Regs /\ operand.reg2 = operand.reg1
    /\ phase \in {"reserve", "store"} /\ operand.kind # "address" =>
           regDstAddr # operand.reg1
    /\ phase \in {"ensure", "reserve", "store"} => operand.kind # "none"

ScratchInv ==
    /\ TypeOK
    /\ PointerKept
    /\ OthersUntouched
    /\ RegisterOperandFree
    /\ RegisterOperandMoved

\* insert_instrumentation.c:116: ensureNotUsing "changes the value and
\* destination address registers to not be some given register".
ScratchAvoidsOperand ==
    phase = "store" => Scratch \cap {operand.reg1, operand.reg2} = {}

\* README.md:26, 30: the entry holds the "base register ... value" from
\* "immediately before executing the instruction".
BaseValueSaved ==
    baseVal \in {"none", "app"}
=============================================================================
