------------------------------ MODULE DebugInfo ------------------------------
(***************************************************************************)
(* The debugging information of an executable (json_tracer/debug_info.c):  *)
(* getDebugInfo opens a libdwarf session, reads every compilation unit DIE *)
(* by DIE, keeps the entries that are complete in three arrays that grow,  *)
(* and closes the session; destroyDebugInfo frees what it returned.  Every *)
(* allocation may fail, and every call of libdwarf that goes on to another *)
(* unit or DIE; an attribute that libdwarf cannot read is in the program.  *)
(*                                                                         *)
(* Memory is a set of blocks, named by what is in them; the session is one *)
(* more thing to give back.  Undefined behaviour ends a behaviour.         *)
(***************************************************************************)
EXTENDS DwarfEntries, SequencesExt

CONSTANTS
    Programs,    \* the debugging information of some executables
    MaxFailures, \* bound: the allocations that fail in a behaviour
    MaxErrors    \* bound: the calls of libdwarf that fail

ASSUME DebugInfoAssumption == MaxFailures \in Nat /\ MaxErrors \in Nat

\* The types that a DIE refers to.
Targets(die) ==
    {die.attrs[i].val : i \in {j \in 1 .. Len(die.attrs) : die.attrs[j].at = "type"}}
        \ {Bad}

\* What libdwarf reads as a DIE: sequences, references that lead to types, and
\* high pcs that are a length or an address.
IsDie(types, die) ==
    /\ Len(die.attrs) \in Nat /\ Len(die.children) \in Nat
    /\ Targets(die) \subseteq DOMAIN types
    /\ \A i \in 1 .. Len(die.attrs) :
           LET a == die.attrs[i]
           IN  a.at = "high_pc" /\ a.val # Bad => a.val.form \in {"length", "address"}

\* No chain of references comes back to where it began.
AreTypes(types) ==
    /\ IsFiniteSet(DOMAIN types)
    /\ \A t \in DOMAIN types : IsDie(types, types[t])
    /\ \A S \in (SUBSET DOMAIN types) \ {{}} :
           \E t \in S : Targets(types[t]) \cap S = {}

\* A DIE is read together with its children; each has a place of its own, and
\* what the code takes for a type is a type.
IsEntry(types, die) ==
    /\ IsDie(types, die)
    /\ \A j \in 1 .. Len(die.children) :
           /\ IsDie(types, die.children[j])
           /\ die.children[j].off # die.off
           /\ \A i \in 1 .. j - 1 : die.children[j].off # die.children[i].off
    /\ getEntryType(die) = "type" => die.off \in DOMAIN types

Places(die) == {die.off} \cup {die.children[i].off : i \in 1 .. Len(die.children)}

\* No DIE of a unit is in two places.
IsUnit(types, unit) ==
    /\ Len(unit.children) \in Nat
    /\ \A i \in 1 .. Len(unit.children) : IsEntry(types, unit.children[i])
    /\ \A i, j \in 1 .. Len(unit.children) :
           i # j => Places(unit.children[i]) \cap Places(unit.children[j]) = {}

ASSUME ProgramsAssumption ==
    \A p \in Programs :
        /\ AreTypes(p.types)
        /\ Len(p.cus) \in Nat
        /\ \A n \in 1 .. Len(p.cus) : IsUnit(p.types, p.cus[n])

VARIABLES
    program,   \* [cus |-> the compilation units, types |-> the type DIEs]
    pc,        \* where the reader is, or how it ended
    cu, child, \* the current unit, and how many of its DIEs it has begun
    turn,      \* how many times libdwarf has given it the root of a unit
    path,      \* the unit's file path
    info,      \* the arrays of debug_info_t, once they are allocated
    held,      \* the blocks allocated and not freed, and the session
    lost,      \* the allocations that have failed
    unread,    \* the calls of libdwarf that have failed
    badFree    \* whether free was called for anything but such a block

reading == <<cu, child, turn, path>>
vars == <<program, pc, reading, info, held, lost, unread, badFree>>

session == <<"session">>
infoBlock == <<"info">>
arrayBlock(k) == <<k>>

\* A DIE is read by a handle: another one whenever its unit is given anew.
Handle(n, die) ==
    [id |-> <<n, die.off>>, off |-> die.off, attrs |-> die.attrs,
     children |-> die.children]
Given(n, die) ==
    [Handle(n, die) EXCEPT
        !.children = [i \in 1 .. Len(@) |-> Handle(n, @[i])]]

Unit == program.cus[cu]
Root == Handle(turn, Unit)
Die == Given(turn, Unit.children[child])

pathBlock(root) == <<root.id, "path">>

\* Some of the allocations and some of the calls tried fail.
Fail(F, blocks, calls) ==
    /\ F \subseteq blocks \cup calls
    /\ lost' = lost \cup (F \cap blocks)
    /\ unread' = unread \cup (F \cap calls)
    /\ Cardinality(lost') <= MaxFailures
    /\ Cardinality(unread') <= MaxErrors

-----------------------------------------------------------------------------
(* getDebugInfo *)

Init ==
    /\ program \in Programs
    /\ pc = "open"
    /\ cu = 0 /\ child = 0 /\ turn = 0
    /\ path = NULL
    /\ info = [k \in Kinds |-> NewArray]
    /\ held = {}
    /\ lost = {} /\ unread = {}
    /\ badFree = FALSE

\* A file that cannot be opened, or holds no DWARF, is closed at once.
createDwarfSession ==
    /\ pc = "open"
    /\ \/ pc' = "allocate" /\ held' = {session}
       \/ pc' = "failed" /\ UNCHANGED held
    /\ UNCHANGED <<program, reading, info, lost, unread, badFree>>

\* dwarfToDebugInfo and allocate: the arrays that were allocated are not freed
\* if another one was not.
allocate ==
    /\ pc = "allocate"
    /\ LET arrays == {arrayBlock(k) : k \in Kinds}
       IN  \E F \in SUBSET ({infoBlock} \cup arrays) :
               /\ infoBlock \in F => F = {infoBlock}
               /\ Fail(F, {infoBlock} \cup arrays, {})
               /\ pc' = IF F = {} THEN "unit" ELSE "failed"
               /\ held' = CASE F = {} -> held \cup {infoBlock} \cup arrays
                            [] infoBlock \in F -> held \ {session}
                            [] OTHER -> (held \cup arrays) \ (F \cup {session})
    /\ UNCHANGED <<program, reading, info, badFree>>

\* What getNextCURootDie gives to addCU.
GiveRoot ==
    /\ pc' = "root"
    /\ turn' = turn + 1 /\ child' = 0
    /\ UNCHANGED <<program, path, info, held, lost, badFree>>

\* getNextCURootDie, when libdwarf finds another unit.
nextCU ==
    /\ pc = "unit" /\ cu < Len(program.cus)
    /\ cu' = cu + 1
    /\ UNCHANGED unread
    /\ GiveRoot

\* The calls that look for the next unit.
headerCall == <<<<turn + 1, "unit">>, "header">>
rootCall == <<<<turn + 1, "unit">>, "root">>

\* getNextCURootDie asks the header only whether it is past the last unit: after
\* an error it goes on to ask for a root, and is given the current unit's.
sameCU ==
    /\ pc = "unit" /\ cu > 0
    /\ Fail({headerCall}, {}, {headerCall})
    /\ UNCHANGED cu
    /\ GiveRoot

\* The value of an attribute, for a reader who does not care for the order.
Value(die, at) ==
    LET hits == {i \in DOMAIN die.attrs : die.attrs[i].at = at}
    IN  IF hits = {} THEN Bad ELSE die.attrs[CHOOSE i \in hits : TRUE].val

\* getCUFilePath calls strlen for a directory or a name that is not there,
\* unless the root has no attributes at all.
PathCrashes(root) ==
    root.attrs # <<>> /\ Bad \in {Value(root, "comp_dir"), Value(root, "name")}

\* addCU up to its loop.  dwarf_child is asked only whether there is no child:
\* after an error the loop begins with a DIE that was never set.
addCU ==
    /\ pc = "root"
    /\ LET blocks == IF Root.attrs = <<>> \/ PathCrashes(Root) THEN {}
                                                              ELSE {pathBlock(Root)}
           calls == IF PathCrashes(Root) THEN {} ELSE {childOf(Root)}
       IN  \E F \in SUBSET (blocks \cup calls) :
               /\ Fail(F, blocks, calls)
               /\ held' = held \cup (blocks \ F)
               /\ path' = IF blocks \ F = {} THEN NULL ELSE pathBlock(Root)
               /\ pc' = CASE PathCrashes(Root) -> "crashed"
                          [] childOf(Root) \in F -> "wild"
                          [] OTHER -> IF Root.children = <<>> THEN "unit"
                                                              ELSE "sibling"
    /\ UNCHANGED <<program, cu, child, turn, info, badFree>>

\* The next DIE of the unit, if there is one.  When libdwarf cannot tell, the
\* whole information is given up: of it only the record is freed.
nextSibling ==
    /\ pc = "sibling"
    /\ \/ /\ child < Len(Unit.children)
          /\ child' = child + 1 /\ pc' = "entry"
          /\ UNCHANGED <<held, lost, unread>>
       \/ /\ child = Len(Unit.children)
          /\ pc' = "unit"
          /\ UNCHANGED <<child, held, lost, unread>>
       \/ /\ child > 0
          /\ Fail({siblingOf(Die)}, {}, {siblingOf(Die)})
          /\ pc' = "failed" /\ held' = held \ {infoBlock, session}
          /\ UNCHANGED child
    /\ UNCHANGED <<program, cu, turn, path, info, badFree>>

\* What may fail for a DIE or its children.
Users(die) == {die.id} \cup {die.children[i].id : i \in 1 .. Len(die.children)}
MayFail(die) ==
    (Users(die) \X {"name", "vars", "child", "sibling"})
    \cup (Users(die) \X {"type", "star"} \X DOMAIN program.types)
    \cup (Users(die) \X {"grow"} \X (Kinds \cup {"local"}))

\* fault: an entry is kept although its function returned 1
KeepAny(r) == TRUE
Keep(r) == r.ok

\* What addFunc, addVar and addType do with the entry r, of kind k, that was read.
addRead(k, r, F) ==
    LET grow == growth(Die, k)
        appends == Keep(r) /\ ~r.crash /\ ~r.wild
        grows == appends /\ Full(info[k])
        array == append(info[k], [e |-> r.entry, path |-> path], grow \in F)
        overrun == \/ appends /\ Overrun(array)
                   \/ appends /\ k = "func" /\ Overrun(r.entry.vars)
    IN  /\ Fail(F, r.mallocs \cup r.reallocs
                      \cup (IF grows THEN {grow} ELSE {}), r.calls)
        /\ held' = held \cup (r.mallocs \ F)
        /\ info' = IF appends THEN [info EXCEPT ![k] = array] ELSE info
        /\ pc' = CASE r.crash -> "crashed"
                   [] r.wild -> "wild"
                   [] overrun -> "overrun"
                   [] OTHER -> "sibling"

\* What these return is ignored.  Bound: for one DIE at most one allocation or
\* call fails.
addEntry ==
    /\ pc = "entry"
    /\ \E F \in {{}} \cup {{b} : b \in MayFail(Die)} :
           addRead(getEntryType(Die), getEntry(program.types, Die, F), F)
    /\ UNCHANGED <<program, reading, badFree>>

\* getNextCURootDie, when no unit is left, or when libdwarf gives no root: the
\* session is closed and what was read so far is returned either way.
finish ==
    /\ pc = "unit"
    /\ \/ cu = Len(program.cus) /\ UNCHANGED <<lost, unread>>
       \/ Fail({rootCall}, {}, {rootCall})
    /\ pc' = "ready"
    /\ held' = held \ {session}
    /\ UNCHANGED <<program, reading, info, badFree>>

-----------------------------------------------------------------------------
(* destroyDebugInfo *)

Items(k) == info[k].items
Locals(item) == item.e.vars.items

\* fault: the path of a function is freed with it
FreeFuncAndPath(item) ==
    <<item.e.name.at, item.path>>
    \o [j \in DOMAIN Locals(item) |-> Locals(item)[j].name.at]
    \o <<item.e.varsAt>>
\* Not the path, nor the names of the locals' types.
FreeFunc(item) ==
    <<item.e.name.at>>
    \o [j \in DOMAIN Locals(item) |-> Locals(item)[j].name.at]
    \o <<item.e.varsAt>>

\* fault: the name of a variable's type is not freed
FreeVarOnly(item) == <<item.e.name.at>>
FreeVar(item) == <<item.e.name.at, item.e.type.name.at>>

FreeType(item) == <<item.e.name.at>>

\* The arguments of free, in order.
Frees ==
    LET All(k, Free(_)) == FlattenSeq([i \in DOMAIN Items(k) |-> Free(Items(k)[i])])
    IN  All("func", FreeFunc) \o <<arrayBlock("func")>>
        \o All("var", FreeVar) \o <<arrayBlock("var")>>
        \o All("type", FreeType) \o <<arrayBlock("type"), infoBlock>>

destroyDebugInfo ==
    /\ pc = "ready"
    /\ pc' = "gone"
    /\ badFree' = ~(IsInjective(Frees) /\ ToSet(Frees) \subseteq held \cup {NULL})
    /\ held' = held \ ToSet(Frees)
    /\ UNCHANGED <<program, reading, info, lost, unread>>

Ended == pc \in {"failed", "gone", "crashed", "overrun", "wild"} /\ UNCHANGED vars

Next ==
    \/ createDwarfSession
    \/ allocate
    \/ nextCU
    \/ sameCU
    \/ addCU
    \/ nextSibling
    \/ addEntry
    \/ finish
    \/ destroyDebugInfo
    \/ Ended

Spec == Init /\ [][Next]_vars

-----------------------------------------------------------------------------
(* What a file describes, as C has it.  tag says what a DIE is, which the  *)
(* code never reads.                                                       *)

NoText == <<>>
NoEntry == [kind |-> "none"]

Refers(die) == Value(die, "type") # Bad

\* The name of each type in C, in words.
TypeText ==
    LET text[t \in DOMAIN program.types] ==
            LET die == program.types[t]
                target == IF Refers(die) THEN text[Value(die, "type")] ELSE <<"void">>
            IN  CASE die.tag = "pointer" -> target \o <<"*">>
                  [] die.tag = "const" -> <<"const">> \o target
                  [] die.tag = "array" -> target \o <<"[]">>
                  [] die.tag \in {"base", "struct", "enum", "typedef"} ->
                         IF Value(die, "name") # Bad THEN <<Value(die, "name")>>
                                                     ELSE <<die.tag>>
    IN  text

\* How many bytes a variable of each type takes.
TypeSize ==
    LET size[t \in DOMAIN program.types] ==
            LET die == program.types[t]
                target == IF Refers(die) THEN size[Value(die, "type")] ELSE 0
            IN  IF Value(die, "byte_size") # Bad THEN Value(die, "byte_size")
                ELSE IF die.tag = "array"
                THEN (Value(die.children[1], "upper_bound") + 1) * target
                ELSE target
    IN  size

Located(die, op) ==
    Value(die, "location") # Bad /\ Value(die, "location").op = op

Describes(die, op) == Value(die, "name") # Bad /\ Refers(die) /\ Located(die, op)

\* A variable, of a type with the given name.
DescribedVar(die, text) ==
    [name |-> <<Value(die, "name")>>, type |-> text,
     size |-> TypeSize[Value(die, "type")], place |-> Value(die, "location").n]

\* The variables of the program, global or local, as C has them.
DescribedVars ==
    LET tops == UNION {ToSet(unit.children) : unit \in ToSet(program.cus)}
        dies == tops \cup UNION {ToSet(die.children) : die \in tops}
    IN  {DescribedVar(die, TypeText[Value(die, "type")]) :
            die \in {d \in dies : Describes(d, "addr") \/ Describes(d, "fbreg")}}

-----------------------------------------------------------------------------
(* How the code departs from C. *)

\* Left out: a type whose own DIE gives no size, and one that neither has a
\* name nor refers to a type that is kept: typedef, const and array types,
\* pointers to these and to void, structures without a name.
\* Misnamed: an enumeration without a name is taken for a pointer to the type
\* of its values.
Reported ==
    LET text[t \in DOMAIN program.types] ==
            LET die == program.types[t]
                target == IF Refers(die) THEN text[Value(die, "type")] ELSE NoText
            IN  IF Value(die, "byte_size") = Bad THEN NoText
                ELSE IF Value(die, "name") # Bad THEN TypeText[t]
                ELSE IF target = NoText THEN NoText
                ELSE target \o <<"*">>
    IN  text

Reports(die, op) ==
    Describes(die, op) /\ Reported[Value(die, "type")] # NoText

ReportedVar(die) == DescribedVar(die, Reported[Value(die, "type")])

ReportedFunc(die) ==
    LET locals == SelectSeq(die.children, LAMBDA y : Reports(y, "fbreg"))
        high == Value(die, "high_pc")
    IN  [kind |-> "func", name |-> <<Value(die, "name")>>,
         lowPC |-> Value(die, "low_pc"),
         length |-> IF high = Bad THEN 0
                    ELSE IF high.form = "length" THEN high.n
                    ELSE high.n - Value(die, "low_pc"),
         vars |-> [i \in DOMAIN locals |-> ReportedVar(locals[i])]]

\* What is kept of a DIE.
Described(die) ==
    CASE die.tag = "func" /\ Bad \notin {Value(die, "name"), Value(die, "low_pc")} ->
             ReportedFunc(die)
      [] die.tag = "var" /\ Reports(die, "addr") ->
             [kind |-> "var", var |-> ReportedVar(die)]
      [] die.off \in DOMAIN program.types /\ Reported[die.off] # NoText ->
             [kind |-> "type", name |-> Reported[die.off],
              size |-> TypeSize[die.off]]
      [] OTHER -> NoEntry

-----------------------------------------------------------------------------
(* Properties. *)

\* A complete entry of kind k.
Whole(k, e) ==
    CASE k = "func" -> /\ NULL \notin {e.name, e.lowPC, e.length} /\ e.lowPC # 0
                       /\ \A v \in ToSet(e.vars.items) : HasOffset(v)
      [] k = "var" -> HasAddress(e)
      [] k = "type" -> Known(e)

\* The type invariant: what is stored is complete, of its kind, and was read
\* from the file no further than the reader is.
TypeOK ==
    /\ program \in Programs
    /\ pc \in {"open", "allocate", "unit", "root", "sibling", "entry", "ready", "gone",
               "failed", "crashed", "overrun", "wild"}
    /\ cu \in 0 .. Len(program.cus)
    /\ child \in 0 .. (IF cu = 0 THEN 0 ELSE Len(Unit.children))
    /\ turn \in Nat /\ cu <= turn
    /\ Cardinality(lost) \in 0 .. MaxFailures
    /\ Cardinality(unread) \in 0 .. MaxErrors
    /\ \A k \in Kinds : \A i \in DOMAIN Items(k) : Whole(k, Items(k)[i].e)
    /\ badFree \in BOOLEAN

\* The blocks of strings and arrays that a stored entry points at.
Pointed(k, item) ==
    CASE k = "func" ->
             {item.e.name.at, item.e.varsAt}
             \cup UNION {{v.name.at, v.type.name.at} : v \in ToSet(Locals(item))}
      [] k = "var" -> {item.e.name.at, item.e.type.name.at}
      [] k = "type" -> {item.e.name.at}

Stored == UNION {{<<k, i>> : i \in DOMAIN Items(k)} : k \in Kinds}

\* While the information is in use no entry points at memory that is freed,
\* and no two share a string, whatever types they have in common and whatever
\* failed on the way: each can be freed by itself.
EntriesOwnTheirStrings ==
    pc \in {"unit", "root", "sibling", "entry", "ready"} =>
        /\ \A s \in Stored : Pointed(s[1], Items(s[1])[s[2]]) \subseteq held
        /\ \A s, u \in Stored :
               s = u \/ Pointed(s[1], Items(s[1])[s[2]])
                            \cap Pointed(u[1], Items(u[1])[u[2]]) = {}

\* destroyDebugInfo frees live blocks only, each of them once: a path, which
\* all the functions and variables of a unit share, is not one of them.
FreedOnce == ~badFree

\* What remains allocated of the session, the record, the arrays and the
\* strings of stored entries.  After destroyDebugInfo, the names of the locals'
\* types.  When NULL is returned, all but the session and the record: the
\* arrays that were allocated when another was not, and whatever was read
\* before libdwarf could not go on.
TypeNamesOfLocals ==
    UNION {{v.type.name.at : v \in ToSet(Locals(item))} : item \in ToSet(Items("func"))}
InfoArrays == {arrayBlock(k) : k \in Kinds}
InfoBlocks == InfoArrays \cup UNION {Pointed(s[1], Items(s[1])[s[2]]) : s \in Stored}
LeaksKnown ==
    /\ pc \in {"failed", "ready", "gone"} => session \notin held
    /\ pc = "failed" =>
           held \cap (InfoBlocks \cup {infoBlock}) =
               IF turn > 0 THEN InfoBlocks
               ELSE IF lost = {} \/ infoBlock \in lost THEN {}
               ELSE InfoArrays \ lost
    /\ pc = "gone" => held \cap (InfoBlocks \cup {infoBlock}) = TypeNamesOfLocals

\* Of the entries that were kept, and of the locals that were kept with them,
\* destroyDebugInfo leaves nothing but these type names.  What else it leaves
\* are unit paths and strings of entries that were given up.
Keepers ==
    LET At(e) == e.name.at[1]
    IN  {At(item.e) : item \in ToSet(Items("var")) \cup ToSet(Items("type"))}
        \cup UNION {{At(item.e)} \cup {At(v) : v \in ToSet(Locals(item))} :
                        item \in ToSet(Items("func"))}
GivenUpLeaks ==
    pc = "gone" =>
        \A b \in held : b \in TypeNamesOfLocals \/ b[1] \notin Keepers

\* Each misuse of memory has its cause.  A crash: the unit has no directory or
\* no name, or the name of a type of this very DIE could not be made longer.
\* A write past an array: that array could not be grown before.  A DIE that was
\* never set: libdwarf could not tell whether this one has children.
Grew(kind) == \A b \in lost : b # <<b[1], "grow", kind>>
UndefinedKnown ==
    /\ pc = "crashed" =>
           IF child = 0 THEN PathCrashes(Unit)
           ELSE \E x \in Users(Die), t \in DOMAIN program.types :
                    <<x, "star", t>> \in lost
    /\ pc = "overrun" =>
           \/ ~Grew(getEntryType(Die))
           \/ \E i \in 1 .. Len(Die.children) : growth(Die.children[i], "local") \in lost
    /\ pc = "wild" => childOf(IF child = 0 THEN Root ELSE Die) \in unread

\* The refinement of DebugIndex: the DIEs of all units, one after the other.
Dies == FlattenSeq([n \in DOMAIN program.cus |-> program.cus[n].children])

ShownVar(v) ==
    [name |-> v.name.text, type |-> v.type.name.text, size |-> v.type.size,
     place |-> v.place]
Shown(k, item) ==
    CASE k = "func" ->
             [kind |-> k, name |-> item.e.name.text, lowPC |-> item.e.lowPC,
              length |-> item.e.length,
              vars |-> [i \in DOMAIN Locals(item) |-> ShownVar(Locals(item)[i])]]
      [] k = "var" -> [kind |-> k, var |-> ShownVar(item.e)]
      [] k = "type" ->
             [kind |-> k, name |-> item.e.name.text, size |-> item.e.size]

\* README.md:32: when nothing has failed, the information has the variables of
\* the program, each with its name and the name and the size of its type.
VarsShown ==
    {ShownVar(item.e) : item \in ToSet(Items("var"))}
    \cup UNION {{ShownVar(v) : v \in ToSet(Locals(item))} :
                    item \in ToSet(Items("func"))}
VariablesAsInC ==
    pc = "ready" /\ lost = {} /\ unread = {} => VarsShown = DescribedVars

\* What memory that runs out leaves of an entry.  A function may lose locals.
\* A type whose name cannot be copied is named for the type that it refers
\* to, as a pointer.
Renamed(new, old) == new = old \/ Last(new) = "*"
VarPart(v, whole) ==
    Renamed(v.type, whole.type) /\ v = [whole EXCEPT !.type = v.type]
Part(e, whole) ==
    /\ e.kind = whole.kind
    /\ CASE e.kind = "func" ->
                /\ e = [whole EXCEPT !.vars = e.vars]
                /\ \E S \in SUBSET DOMAIN whole.vars :
                       LET kept == SetToSortSeq(S, <)
                       IN  /\ Len(kept) = Len(e.vars)
                           /\ \A i \in DOMAIN kept :
                                  VarPart(e.vars[i], whole.vars[kept[i]])
         [] e.kind = "var" -> VarPart(e.var, whole.var)
         [] e.kind = "type" ->
                Renamed(e.name, whole.name) /\ e = [whole EXCEPT !.name = e.name]

\* What libdwarf that fails leaves of an entry: a function's first locals.
Cut(e, whole) ==
    /\ e.kind = "func" /\ whole.kind = "func"
    /\ e = [whole EXCEPT !.vars = e.vars]
    /\ IsPrefix(e.vars, whole.vars)

ReadSoFar ==
    Len(FlattenSeq([n \in 1 .. cu - 1 |-> program.cus[n].children])) + child
    - (IF pc = "entry" THEN 1 ELSE 0)

DI == INSTANCE DebugIndex WITH
        IndexKinds <- Kinds,
        PartOf <- Part,
        CutOf <- Cut,
        file <- [i \in DOMAIN Dies |-> Described(Dies[i])],
        next <- ReadSoFar,
        index <- [k \in Kinds |->
                     [i \in DOMAIN Items(k) |-> Shown(k, Items(k)[i])]],
        shortages <- Cardinality(lost),
        errors <- Cardinality(unread),
        status <- CASE pc \in {"failed", "gone"} -> "gone"
                    [] pc = "ready" -> "ready"
                    [] pc \in {"crashed", "overrun", "wild"} -> "undefined"
                    [] OTHER -> "reading"

\* The reader implements DebugIndex: in the order of the file, every complete
\* function, variable and type is kept, under the name Reported.  An entry, a
\* function's locals or an enumeration's name are lost only in the step in which
\* an allocation fails, a function's last locals and the units that follow only
\* when libdwarf fails, which may also make the reader read a unit again.
ImplementsDebugIndex == DI!SafeSpec
=============================================================================
