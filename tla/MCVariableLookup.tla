-------------------------- MODULE MCVariableLookup --------------------------
(* Instances of VariableLookup for TLC: a 6-bit address space with 4-bit    *)
(* integers.  The module is loaded at 8, its code takes 8 bytes and its     *)
(* data the next 5; the stack is at the upper end, further from the module  *)
(* than an int can say.                                                     *)
EXTENDS VariableLookup

Local(name, offset, size) == [name |-> name, offset |-> offset, size |-> size]
Static(name, addr, size) == [name |-> name, addr |-> addr, size |-> size]
Func(lowPC, length, locals) == [lowPC |-> lowPC, length |-> length, vars |-> locals]

\* The return address and the frame pointer are at -1 and -2.
Programs ==
    {[funcs |-> <<Func(0, 3, <<Local("i", -3, 1), Local("buf", -7, 3)>>),
                  Func(3, 2, <<>>)>>,
      vars |-> <<Static("s", 9, 2), Static("t", 12, 1)>>],
     [funcs |-> <<Func(1, 4, <<Local("x", -5, 2), Local("seventh", 0, 1)>>)>>,
      vars |-> <<>>]}
=============================================================================
