--------------------------- MODULE MCTracerModules ---------------------------
(* Instances of TracerModules for TLC. *)
EXTENDS TracerModules

CONSTANTS t1, t2, Lib

\* A thread that calls a library and leaves it, next to one that enters it;
\* two threads that run a library in turn; a thread that ends in it.
Calls ==
    {[t \in Threads |-> IF t = t1 THEN <<Lib, Lib, Main>> ELSE <<Lib, Main>>],
     [t \in Threads |-> IF t = t1 THEN <<Lib, Main>> ELSE <<Main, Lib>>],
     [t \in Threads |-> IF t = t1 THEN <<Main, Main>> ELSE <<Lib, Lib>>]}
=============================================================================
