--------------------------- MODULE VariableLookup ---------------------------
(***************************************************************************)
(* Which variable is at an address: getVariableInfo of                     *)
(* json_tracer/debug_info_client.c, in C's arithmetic: pointers wrap       *)
(* around, the distance of the address from the frame base is cut to an    *)
(* int, and the sum of a local's int offset and unsigned size is unsigned, *)
(* so that the comparison with it is one of unsigned numbers.              *)
(*                                                                         *)
(* Debugging information is a record: funcs, a sequence of functions with  *)
(* lowPC, length and a sequence vars of locals (name, offset, size); and   *)
(* vars, a sequence of static variables (name, addr, size).                *)
(***************************************************************************)
EXTENDS Integers, Sequences

CONSTANTS
    PtrRange, IntRange,  \* how many values a pointer and an int have (2^64
                         \* and 2^32)
    Infos,               \* the debugging information of some programs
    segmBase,            \* where the main module is loaded
    PCs, SPs,            \* the values of pc and sp to look up
    NoVariable           \* the result whose varName is NULL

Addresses == 0 .. PtrRange - 1

ASSUME VariableLookupAssumption ==
    /\ IntRange \in Nat \ {0} /\ IntRange % 2 = 0
    /\ PtrRange \in Nat \ {0} /\ PtrRange % IntRange = 0
    /\ segmBase \in Addresses
    /\ PCs \subseteq Addresses /\ SPs \subseteq Addresses

MinInt == -(IntRange \div 2)
MaxInt == IntRange \div 2 - 1
UnsignedInts == 0 .. IntRange - 1

\* The module ends before the address space does.  The return address is
\* just below the frame base, so that a local ends before it, or lies above,
\* as a parameter on the stack does.
InModule(start, length) ==
    /\ start \in Nat /\ length \in UnsignedInts
    /\ segmBase + start + length < PtrRange
InFrame(v) ==
    /\ v.offset \in MinInt .. MaxInt /\ v.size \in UnsignedInts
    /\ v.offset >= 0 \/ v.offset + v.size < 0
ASSUME InfosAssumption ==
    \A i \in Infos :
        /\ Len(i.funcs) \in Nat /\ Len(i.vars) \in Nat
        /\ \A k \in 1 .. Len(i.funcs) :
               /\ InModule(i.funcs[k].lowPC, i.funcs[k].length)
               /\ Len(i.funcs[k].vars) \in Nat
               /\ \A j \in 1 .. Len(i.funcs[k].vars) : InFrame(i.funcs[k].vars[j])
        /\ \A j \in 1 .. Len(i.vars) : InModule(i.vars[j].addr, i.vars[j].size)

VARIABLES
    info, varAddr, pc, sp,  \* the arguments of the last call
    answer                  \* its result

vars == <<info, varAddr, pc, sp, answer>>

-----------------------------------------------------------------------------
(* C's arithmetic. *)

Pointer(n) == n % PtrRange
Unsigned(n) == n % IntRange
Signed(n) == IF Unsigned(n) <= MaxInt THEN Unsigned(n) ELSE Unsigned(n) - IntRange

-----------------------------------------------------------------------------
(* The loops find the first match. *)

First(S) == CHOOSE j \in S : \A k \in S : j <= k

\* fault: the end of a function belongs to it
UpToEnd(f, at) == at >= f.lowPC /\ at <= Pointer(f.lowPC + f.length)
InFunction(f, at) == at >= f.lowPC /\ at < Pointer(f.lowPC + f.length)

\* fault: so does the end of a variable
LocalUpToEnd(v, stackOffset) ==
    /\ stackOffset >= v.offset
    /\ Unsigned(stackOffset) <= Unsigned(v.offset + v.size)
HoldsLocal(v, stackOffset) ==
    /\ stackOffset >= v.offset
    /\ Unsigned(stackOffset) < Unsigned(v.offset + v.size)

HoldsStatic(v, segmOffset) ==
    segmOffset >= v.addr /\ segmOffset < Pointer(v.addr + v.size)

\* The locals of f that hold the address, and the functions around pc that
\* have such a local.
Held(f, stackOffset) ==
    {j \in 1 .. Len(f.vars) : HoldsLocal(f.vars[j], stackOffset)}
Holders(i, at, stackOffset) ==
    {k \in 1 .. Len(i.funcs) :
        InFunction(i.funcs[k], at) /\ Held(i.funcs[k], stackOffset) # {}}

\* The locals of the functions that contain pc come first.
getVariableInfo(i, addr, at, frame) ==
    LET stackOffset == Signed(Pointer(addr - frame))
        holders == Holders(i, Pointer(at - segmBase), stackOffset)
        statics == {j \in 1 .. Len(i.vars) :
                       HoldsStatic(i.vars[j], Pointer(addr - segmBase))}
        f == i.funcs[First(holders)]
    IN  CASE holders # {} ->
                 [name |-> f.vars[First(Held(f, stackOffset))].name,
                  isLocal |-> TRUE]
          [] holders = {} /\ statics # {} ->
                 [name |-> i.vars[First(statics)].name, isLocal |-> FALSE]
          [] OTHER -> NoVariable

Init ==
    /\ info \in Infos
    /\ varAddr = 0 /\ pc \in PCs /\ sp \in SPs
    /\ answer = getVariableInfo(info, varAddr, pc, sp)

\* The next call: the information of a program does not change.
Lookup ==
    /\ varAddr' \in Addresses /\ pc' \in PCs /\ sp' \in SPs
    /\ answer' = getVariableInfo(info, varAddr', pc', sp')
    /\ UNCHANGED info

Next == Lookup

Spec == Init /\ [][Next]_vars

-----------------------------------------------------------------------------
(* Properties. *)

\* The reference, in unbounded integers: the variables whose bytes are at
\* varAddr, of the function that contains pc in the frame sp, and static ones.
LocalsAt ==
    UNION {{[name |-> v.name, isLocal |-> TRUE] :
               v \in {x \in {f.vars[k] : k \in 1 .. Len(f.vars)} :
                         varAddr - sp \in x.offset .. x.offset + x.size - 1}} :
           f \in {x \in {info.funcs[k] : k \in 1 .. Len(info.funcs)} :
                     pc - segmBase \in x.lowPC .. x.lowPC + x.length - 1}}
StaticsAt ==
    {[name |-> v.name, isLocal |-> FALSE] :
        v \in {x \in {info.vars[k] : k \in 1 .. Len(info.vars)} :
                  varAddr - segmBase \in x.addr .. x.addr + x.size - 1}}
Exact ==
    IF LocalsAt \cup StaticsAt = {} THEN answer = NoVariable
                                    ELSE answer \in LocalsAt \cup StaticsAt

\* An address below the frame base, no further away than an int can say, is
\* found to be the right local or none, although the comparison is unsigned.
ExactBelowBase == varAddr - sp \in MinInt .. -1 => Exact

\* Where pc is in no function with variables, the answer is exact for every
\* address of the process.
ExactOutsideFunctions ==
    (\A k \in 1 .. Len(info.funcs) :
        pc - segmBase \in info.funcs[k].lowPC
                          .. info.funcs[k].lowPC + info.funcs[k].length - 1
            => info.funcs[k].vars = <<>>)
    => Exact

\* debug_info.h:55: getVariableInfo gets "the information of a variable at a
\* certain memory address", a static one for instance.
VariableAtAddress == StaticsAt # {} => answer \in StaticsAt
=============================================================================
