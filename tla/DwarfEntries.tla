---------------------------- MODULE DwarfEntries ----------------------------
(***************************************************************************)
(* How json_tracer/debug_info.c makes an entry of a DWARF debugging        *)
(* information entry (a DIE): loops over the attributes, in the order in   *)
(* which the compiler wrote them, that fill a type, a variable or a        *)
(* function; conversions and allocations may fail on the way.              *)
(*                                                                         *)
(* A DIE is a record of its place off in the file, the id of its handle, a *)
(* sequence attrs of attributes [at, val] and a sequence of children.  val *)
(* is Bad if libdwarf cannot convert it; a reference is a place.  A string *)
(* is [text, at]: its words and the block of memory it is in.  Blocks and  *)
(* calls of libdwarf are named for the DIE they are made for; F is the set *)
(* of those that fail.  An operator returns, besides what the function     *)
(* returns, the mallocs, the reallocs and the calls that it tries, whether *)
(* it crashes, and whether it goes wild: reads an uninitialised DIE.       *)
(***************************************************************************)
EXTENDS Integers, Sequences

CONSTANTS
    NULL,          \* the null pointer, and a field never set
    Bad,           \* an attribute that libdwarf cannot convert
    MIN_CAPACITY,  \* the length of a new array (16)
    IntBits        \* the width of an unsigned (32)

ASSUME DwarfEntriesAssumption == MIN_CAPACITY \in Nat \ {0} /\ IntBits \in Nat

Unsigned(n) == n % 2^IntBits

\* A loop over a sequence that updates a record, which is computed once for
\* each iteration however often Step mentions it.
Loop(Step(_, _), base, s) ==
    LET after[n \in 0 .. Len(s)] ==
            IF n = 0 THEN base
                     ELSE LET e == after[n - 1] IN Step(e, s[n])
    IN  after[Len(s)]

-----------------------------------------------------------------------------
(* The arrays. *)

NewArray == [items |-> <<>>, capacity |-> MIN_CAPACITY, allocated |-> MIN_CAPACITY]

\* fault: an array is grown one entry too late
FullPlusOne(array) == Len(array.items) = array.capacity + 1
Full(array) == Len(array.items) = array.capacity

\* appendFuncEntry, appendVarEntry, appendTypeEntry and appendLocalVarEntry:
\* the capacity is doubled before reallocarray is known to succeed, and an
\* entry whose reallocarray fails is dropped.
append(array, entry, fails) ==
    IF Full(array) /\ fails THEN [array EXCEPT !.capacity = 2 * @]
    ELSE LET grown == 2 * array.capacity
         IN  [items |-> Append(array.items, entry),
              capacity |-> IF Full(array) THEN grown ELSE array.capacity,
              allocated |-> IF Full(array) THEN grown ELSE array.allocated]

\* An entry was written past the end of the array.
Overrun(array) == Len(array.items) > array.allocated

-----------------------------------------------------------------------------
(* Types. *)

getAttributeString(val, block, F) ==
    IF val = Bad \/ block \in F THEN NULL ELSE [text |-> <<val>>, at |-> block]

StringBlock(val, block) == IF val = Bad THEN {} ELSE {block}

\* What all the loops over attributes do with DW_AT_name.
SetName(e, val, block, F) ==
    [e EXCEPT !.name = getAttributeString(val, block, F),
              !.mallocs = @ \cup StringBlock(val, block)]

\* fault: one name for each type, shared by all that have it
NameOncePerType(x, t) == <<<<x[1], t>>, "type", t>>
\* The name of type t is copied anew for each DIE x that has it.
TypeName(x, t) == <<x, "type", t>>

NoType == [name |-> NULL, size |-> 0, mallocs |-> {}, reallocs |-> {},
           crash |-> FALSE]

\* getTypeEntry returns 0
Known(type) == type.name # NULL /\ type.size # 0

Starred(text) == Append(text, "*")

\* DW_AT_type of a type without a name: the name of the type referred to, in
\* the same string made longer by realloc, whose failure is not checked.
Refer(e, type, block, F) ==
    LET tried == [e EXCEPT !.mallocs = @ \cup type.mallocs,
                           !.reallocs = @ \cup type.reallocs,
                           !.crash = @ \/ type.crash]
    IN  IF ~Known(type) THEN tried
        ELSE [tried EXCEPT
                !.name = [type.name EXCEPT !.text = Starred(@)],
                !.reallocs = @ \cup {block},
                !.crash = @ \/ block \in F]

\* getAttributeUnsigned cuts what libdwarf returns to an unsigned.
getAttributeUnsigned(val) == IF val = Bad THEN NULL ELSE Unsigned(val)

\* getAttributeType: what it finds at the offset that an attribute refers to.
getAttributeType(entry, val) == IF val = Bad THEN NoType ELSE entry[val]

\* fault: a later name takes the place of the first
AnyName(e) == TRUE
Unnamed(e) == e.name = NULL

\* An attribute of type t, read for DIE x.  The first name wins, the type's
\* own or one derived from what entry has for the type referred to.
TypeStep(x, t, F, entry, e, a) ==
    CASE a.at = "name" /\ Unnamed(e) ->
             SetName(e, a.val, TypeName(x, t), F)
      [] a.at = "byte_size" ->
             [e EXCEPT !.size = IF a.val = Bad THEN 0
                                ELSE getAttributeUnsigned(a.val)]
      [] a.at = "type" /\ Unnamed(e) ->
             Refer(e, getAttributeType(entry, a.val), <<x, "star", t>>, F)
      [] OTHER -> e

TypeLoop(types, x, t, F, entry) ==
    Loop(LAMBDA e, a : TypeStep(x, t, F, entry, e, a), NoType, types[t].attrs)

\* What DIE x gets for each type.  The recursion ends because no type of C
\* refers to itself: the members of a structure are children of its DIE.
getTypeEntry(types, x, F) ==
    LET entry[t \in DOMAIN types] == TypeLoop(types, x, t, F, entry)
    IN  entry

-----------------------------------------------------------------------------
(* Variables: getVarEntry and getLocalVarEntry differ in the operation that *)
(* they expect in a location.                                               *)

Variable == [name |-> NULL, type |-> NoType, place |-> NULL,
             mallocs |-> {}, reallocs |-> {}, crash |-> FALSE]

\* getLocationEntryAddress and getAttributeFrameOffset: the operand of a
\* location that is one operation, op.
Location(val, op) == IF val # Bad /\ val.op = op THEN val.n ELSE NULL

\* An address that is not found is 0, an offset is left as it was.
SetPlace(e, val, op) ==
    IF op = "fbreg" /\ Location(val, op) = NULL THEN e
    ELSE [e EXCEPT !.place = Location(val, op)]

SetType(e, type) ==
    [e EXCEPT !.type = IF Known(type) THEN type ELSE NoType,
              !.mallocs = @ \cup type.mallocs,
              !.reallocs = @ \cup type.reallocs,
              !.crash = @ \/ type.crash]

VariableStep(die, op, F, entry, e, a) ==
    CASE a.at = "name" -> SetName(e, a.val, <<die.id, "name">>, F)
      [] a.at = "type" -> SetType(e, getAttributeType(entry, a.val))
      [] a.at = "location" -> SetPlace(e, a.val, op)
      [] OTHER -> e

getVariable(types, die, op, F) ==
    LET entry == getTypeEntry(types, die.id, F)
    IN  Loop(LAMBDA e, a : VariableStep(die, op, F, entry, e, a),
             Variable, die.attrs)

\* An offset may be 0, an address may not.
HasOffset(v) == v.name # NULL /\ Known(v.type) /\ v.place # NULL
HasAddress(v) == HasOffset(v) /\ v.place # 0

-----------------------------------------------------------------------------
(* Functions. *)

\* fault: the case of DW_AT_low_pc ends with a break
LowOnly(e, val) == [e EXCEPT !.lowPC = IF val = Bad THEN NULL ELSE val]
\* The case of DW_AT_low_pc falls through to the one of DW_AT_high_pc, which
\* reads the same address again: the length is 0 until a high pc is found.
SetLow(e, val) ==
    IF val = Bad THEN [e EXCEPT !.lowPC = NULL]
                 ELSE [e EXCEPT !.lowPC = val, !.length = Unsigned(val - val)]

\* A high pc is a length or an address, from which it is subtracted.
SetHigh(e, val) ==
    IF val = Bad THEN e
    ELSE IF val.form = "length" THEN [e EXCEPT !.length = getAttributeUnsigned(val.n)]
    ELSE [e EXCEPT !.length = Unsigned(e.lowPC - val.n)]

Function == [name |-> NULL, lowPC |-> NULL, length |-> NULL, mallocs |-> {}]

FuncStep(die, F, e, a) ==
    CASE a.at = "name" -> SetName(e, a.val, <<die.id, "name">>, F)
      [] a.at = "low_pc" -> SetLow(e, a.val)
      [] a.at = "high_pc" -> SetHigh(e, a.val)
      [] OTHER -> e

fillFuncNonVars(die, F) ==
    Loop(LAMBDA e, a : FuncStep(die, F, e, a), Function, die.attrs)

EmptyLocals(wild) ==
    [vars |-> NewArray, mallocs |-> {}, reallocs |-> {}, calls |-> {},
     done |-> FALSE, crash |-> FALSE, wild |-> wild]
NoLocals == EmptyLocals(FALSE)

\* The call that finds the first child of a DIE, and the one that finds the
\* DIE after it; the reallocarray of the array of a kind, or of the locals.
childOf(die) == <<die.id, "child">>
siblingOf(die) == <<die.id, "sibling">>
growth(die, kind) == <<die.id, "grow", kind>>

\* What child y adds to the locals e, if v was read from it.
AddLocal(e, y, v, F) ==
    LET grow == growth(y, "local")
        grows == HasOffset(v) /\ Full(e.vars)
    IN  [vars |-> IF HasOffset(v) THEN append(e.vars, v, grow \in F) ELSE e.vars,
         mallocs |-> e.mallocs \cup v.mallocs,
         reallocs |-> e.reallocs \cup v.reallocs
                      \cup (IF grows THEN {grow} ELSE {}),
         calls |-> e.calls \cup {siblingOf(y)},
         done |-> siblingOf(y) \in F,
         crash |-> v.crash, wild |-> FALSE]

\* The locals are the children that have an offset in the frame, up to the
\* last child or the first of which libdwarf cannot find the sibling.
LocalStep(types, F, e, y) ==
    IF e.done \/ e.crash \/ Overrun(e.vars) THEN e
    ELSE AddLocal(e, y, getVariable(types, y, "fbreg", F), F)

\* dwarf_child is asked only whether there is no child: after an error the
\* loop begins with a DIE that was never set.
fillFuncVars(types, die, F) ==
    IF childOf(die) \in F THEN EmptyLocals(TRUE)
    ELSE Loop(LAMBDA e, y : LocalStep(types, F, e, y), NoLocals, die.children)

\* What getFuncEntry returns, if f and v were read.
FuncEntry(die, F, f, v) ==
    LET block == <<die.id, "vars">>
        complete == f.name # NULL /\ f.lowPC \notin {NULL, 0} /\ f.length # NULL
        vars == IF complete THEN v ELSE NoLocals
    IN  [ok |-> complete /\ block \notin F,
         entry |-> [name |-> f.name, lowPC |-> f.lowPC, length |-> f.length,
                    vars |-> vars.vars, varsAt |-> block],
         mallocs |-> {block} \cup (IF block \in F THEN {}
                                   ELSE f.mallocs \cup vars.mallocs),
         reallocs |-> IF block \in F THEN {} ELSE vars.reallocs,
         calls |-> IF complete /\ block \notin F THEN {childOf(die)} \cup vars.calls
                                                 ELSE {},
         crash |-> block \notin F /\ vars.crash,
         wild |-> block \notin F /\ vars.wild]

getFuncEntry(types, die, F) ==
    FuncEntry(die, F, fillFuncNonVars(die, F), fillFuncVars(types, die, F))

-----------------------------------------------------------------------------
(* Any entry. *)

Kinds == {"func", "var", "type"}

\* The last attribute of the three that tell entries apart decides.  A DIE
\* without attributes is a variable: 1, returned for an error, is that
\* enumerator.
KindStep(kind, a) ==
    CASE a.at = "low_pc" -> "func"
      [] a.at = "location" -> "var"
      [] a.at = "byte_size" -> "type"
      [] OTHER -> kind

getEntryType(die) ==
    Loop(KindStep, IF die.attrs = <<>> THEN "var" ELSE "error", die.attrs)

getEntry(types, die, F) ==
    LET kind == getEntryType(die)
        Result(ok, e) == [ok |-> ok, entry |-> e, mallocs |-> e.mallocs,
                          reallocs |-> e.reallocs, calls |-> {},
                          crash |-> e.crash, wild |-> FALSE]
        var == getVariable(types, die, "addr", F)
        type == getTypeEntry(types, die.id, F)[die.off]
    IN  CASE kind = "func" -> getFuncEntry(types, die, F)
          [] kind = "var" -> Result(HasAddress(var), var)
          [] kind = "type" -> Result(Known(type), type)
          [] kind = "error" -> Result(FALSE, NoType)
=============================================================================
