----------------------------- MODULE EntrySlot ------------------------------
(***************************************************************************)
(* What the fields of a trace entry hold when the entry is printed.  The   *)
(* buffer of a thread is never cleared: an entry is written over the one   *)
(* that used the same slot before the last flush, operand by operand, and  *)
(* the operand values share the words of a union (trace_entry.h), so that  *)
(* a word the saving code of insert_instrumentation.c skips and the        *)
(* printing code of json_writer.c reads is left over from an earlier       *)
(* instruction.                                                            *)
(*                                                                         *)
(* The model records for every word which instruction wrote it.            *)
(***************************************************************************)
EXTENDS Naturals, Sequences

CONSTANTS
    BUF_ENTRIES,  \* the slots of the buffer
    MaxOperands,  \* bound: the operands of an instruction (8 in the code)
    MaxInstr      \* bound: the instructions executed

ASSUME EntrySlotAssumption ==
    BUF_ENTRIES \in Nat /\ MaxOperands \in Nat \ {0} /\ MaxInstr \in Nat

VARIABLES
    words,    \* words[s][k][x]: who wrote word x of operand k of slot s
    kinds,    \* kinds[s]: the operands of the entry in slot s
    owner,    \* owner[s]: the instruction whose entry is in slot s
    next,     \* the slot the TLS pointer points at
    count,    \* how many instructions were executed
    printed   \* the words the last flush printed

vars == <<words, kinds, owner, next, count, printed>>

\* The operands instr_get_src and instr_get_dst return: a pointer-sized or
\* another register, an immediate, an absolute and a PC-relative address, a
\* base-displacement address with or without a base register and with or
\* without a readable value ("bare" has neither), a branch target; "target" is
\* that of a call.
Indirect == {"indirect", "noBase", "noValue", "bare"}
Kinds == {"gpr", "register", "immediate", "absolute", "relative", "branch"}
         \cup Indirect

\* The words of operand_value_t: isSrc, then the union.
isSrc == 0
Union == 1 .. 10
Words == {isSrc} \cup Union

-----------------------------------------------------------------------------
(* The words each saving function writes. *)

\* name, and val for a register that reg_to_pointer_sized can widen
saveReg(kind) == IF kind = "gpr" THEN {1, 2} ELSE {1}
saveImm == {1}
\* fault: the address is not stored
saveMemValueOnly(kind) == IF kind = "relative" THEN {1} ELSE {1, 3}
\* isFar, addr, and val unless the address is PC-relative
saveMem(kind) == IF kind = "relative" THEN {1, 2} ELSE {1, 2, 3}
\* isFar, baseNull, baseName, disp, valNull; baseVal; val
saveIndir(kind) ==
    {1, 2, 3, 5, 6} \cup (IF kind \in {"noBase", "bare"} THEN {} ELSE {4})
                    \cup (IF kind \in {"noValue", "bare"} THEN {} ELSE {7})

saveOpnd(kind) ==
    {isSrc} \cup
    CASE kind \in {"gpr", "register"} -> saveReg(kind)
      [] kind = "immediate" -> saveImm
      [] kind \in {"absolute", "relative"} -> saveMem(kind)
      [] kind \in Indirect -> saveIndir(kind)
      [] kind = "branch" -> {}

\* saveDirCall sets type and, by createTargetOpnd, pc, name and sp.
saveDirCall == Union

Saved(kind) == IF kind = "target" THEN saveDirCall ELSE saveOpnd(kind)

(* The words each printing function reads. *)

writeReg == {1, 2}
writeImm == {1}
writeMem == {1, 2, 3}
writeIndir(kind) ==
    {1, 2, 5, 6} \cup (IF kind \in {"noBase", "bare"} THEN {} ELSE {3, 4})
                 \cup (IF kind \in {"noValue", "bare"} THEN {} ELSE {7})
writeTarget == 1 .. 9

writeOpnd(kind) ==
    {isSrc} \cup
    CASE kind \in {"gpr", "register"} -> writeReg
      [] kind = "immediate" -> writeImm
      [] kind \in {"absolute", "relative"} -> writeMem
      [] kind \in Indirect -> writeIndir(kind)
      [] kind = "target" -> writeTarget
      [] kind = "branch" -> {}

-----------------------------------------------------------------------------
Slots == 0 .. BUF_ENTRIES - 1
OperandLists == UNION {[1 .. n -> Kinds] : n \in 0 .. MaxOperands}

Init ==
    /\ words = [s \in Slots |-> [k \in 1 .. MaxOperands |-> [x \in Words |-> 0]]]
    /\ kinds = [s \in Slots |-> <<>>]
    /\ owner = [s \in Slots |-> 0]
    /\ next = 0
    /\ count = 0
    /\ printed = {}

\* fault: the size of an entry is counted in entries, not in bytes
addPointerScaled == next' = next + BUF_ENTRIES + 1
addPointer == next' = next + 1

\* The code does not ask for room: it relies on the bound that Tracer shows
\* (BufferBound).  saveOperands numbers sources and destinations together.
SaveEntry(operands) ==
    /\ next < BUF_ENTRIES
    /\ count < MaxInstr
    /\ count' = count + 1
    /\ words' = [words EXCEPT ![next] =
                    [k \in 1 .. MaxOperands |->
                        [x \in Words |->
                            IF k <= Len(operands) /\ x \in Saved(operands[k])
                            THEN count'
                            ELSE @[k][x]]]]
    /\ kinds' = [kinds EXCEPT ![next] = operands]
    /\ owner' = [owner EXCEPT ![next] = count']
    /\ addPointer
    /\ UNCHANGED printed

saveOperands == \E operands \in OperandLists : SaveEntry(operands)
saveCall == SaveEntry(<<"target">>)

\* What is printed of the entry in slot s: numVals operands.
writeTraceEntry(s) ==
    UNION {{[of |-> owner[s], kind |-> kinds[s][k], word |-> x,
             by |-> words[s][k][x]] : x \in writeOpnd(kinds[s][k])} :
           k \in 1 .. Len(kinds[s])}

outputInstr ==
    /\ next > 0
    /\ printed' = UNION {writeTraceEntry(s) : s \in 0 .. next - 1}
    /\ next' = 0
    /\ UNCHANGED <<words, kinds, owner, count>>

Idle == count = MaxInstr /\ next = 0 /\ UNCHANGED vars

Next == saveOperands \/ saveCall \/ outputInstr \/ Idle

Spec == Init /\ [][Next]_vars

-----------------------------------------------------------------------------
(* Properties. *)

\* The type invariant.
TypeOK ==
    /\ words \in [Slots -> [1 .. MaxOperands -> [Words -> 0 .. MaxInstr]]]
    /\ kinds \in [Slots -> OperandLists \cup {<<"target">>}]
    /\ owner \in [Slots -> 0 .. MaxInstr]
    /\ next \in 0 .. BUF_ENTRIES
    /\ count \in 0 .. MaxInstr

Stale(p) == p.by # p.of

\* Whatever kinds of operands used the slot before, only three printed fields
\* can come from an earlier instruction: the value of a PC-relative memory
\* operand, the value of a register that is not general purpose, and the
\* source flag of a call target.
StaleFieldsKnown ==
    \A p \in printed : Stale(p) => <<p.kind, p.word>> \in
        {<<"relative", 3>>, <<"register", 2>>, <<"target", isSrc>>}
=============================================================================
