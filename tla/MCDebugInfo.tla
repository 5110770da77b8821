---------------------------- MODULE MCDebugInfo ----------------------------
(* Instances of DebugInfo for TLC: units with the attributes, in the order, *)
(* that GCC gives them with -g3 -gdwarf-4.                                   *)
EXTENDS DebugInfo

A(at, val) == [at |-> at, val |-> val]
Addr(n) == A("location", [op |-> "addr", n |-> n])
Offset(n) == A("location", [op |-> "fbreg", n |-> n])
Node(off, tag, attrs, children) ==
    [off |-> off, tag |-> tag, attrs |-> attrs, children |-> children]
UnitOf(attrs, children) == Node("unit", "unit", attrs, children)
RootOf(children) == UnitOf(<<A("name", "a.c"), A("comp_dir", "/src")>>, children)

Type(off, tag, attrs) == Node(off, tag, attrs, <<>>)
Entry(type) == type.off :> type
Types ==
    Entry(Type("int", "base", <<A("byte_size", 4), A("name", "int")>>))
    @@ Entry(Type("int*", "pointer", <<A("byte_size", 8), A("type", "int")>>))
    @@ Entry(Type("int**", "pointer", <<A("byte_size", 8), A("type", "int*")>>))
    @@ Entry(Type("void*", "pointer", <<A("byte_size", 8)>>))
    @@ Entry(Type("color", "enum",
                  <<A("name", "color"), A("byte_size", 4), A("type", "int")>>))
    @@ Entry(Type("unnamed", "enum", <<A("byte_size", 4), A("type", "int")>>))
    @@ Entry(Type("num", "typedef", <<A("name", "num"), A("type", "int")>>))
    @@ Entry(Type("const", "const", <<A("type", "int")>>))
    @@ Entry(Type("struct", "struct", <<A("byte_size", 6)>>))
    @@ Entry(Node("int[3]", "array", <<A("type", "int")>>,
                  <<Type("3", "subrange", <<A("upper_bound", 2)>>)>>))
    @@ Entry(Type("const*", "pointer", <<A("byte_size", 8), A("type", "const")>>))

Var(off, type, at) == Node(off, "var", <<A("name", off), A("type", type), at>>, <<>>)
Func(off, low, length, children) ==
    Node(off, "func", <<A("name", off), A("low_pc", low),
                       A("high_pc", [form |-> "length", n |-> length])>>, children)
Block(children) == Node("block", "block", <<A("low_pc", 2)>>, children)

Program(cus) == [cus |-> cus, types |-> Types]

\* Types of every sort, and a global of each.
OfTypes ==
    Program(<<RootOf(<<Types["int"], Types["int*"], Types["color"], Types["num"]>>),
              RootOf(<<Var("p", "int**", Addr(3)), Var("c", "color", Addr(4)),
                     Var("u", "unnamed", Addr(5)), Var("v", "void*", Addr(6)),
                     Var("k", "const*", Addr(7)), Var("a", "int[3]", Addr(8)),
                     Var("s", "struct", Addr(9)), Var("n", "num", Addr(10)),
                     Node("e", "var", <<A("name", "e"), A("type", "int")>>, <<>>)>>)>>)

\* Functions with locals, one of them in a nested block, and without a name
\* or an end.
OfFunctions ==
    Program(<<RootOf(<<Func("f", 1, 3,
                          <<Var("i", "int", Offset(-5)), Var("s", "int", Addr(8)),
                            Var("j", "int*", Offset(0)), Var("k", "num", Offset(-2)),
                            Block(<<>>)>>),
                     Node("g", "func", <<A("low_pc", 4)>>, <<>>),
                     Node("h", "func", <<A("name", "h"), A("low_pc", 5)>>, <<>>)>>),
              RootOf(<<>>),
              RootOf(<<Func("main", 6, 2, <<>>), Node("none", "asm", <<>>, <<>>)>>)>>)

\* A unit whose directory is unknown; attributes that cannot be converted.
Incomplete ==
    Program(<<RootOf(<<Var("x", Bad, Addr(3)), Var("y", "int", A("location", Bad)),
                     Node("z", "var", <<A("name", Bad), A("type", "int"), Addr(3)>>,
                          <<>>)>>),
              UnitOf(<<>>, <<Var("w", "int", Addr(9))>>),
              UnitOf(<<A("name", "b.c")>>, <<>>)>>)

OnlyTypes == {OfTypes}
Documented == {OfTypes, OfFunctions, Incomplete}
=============================================================================
