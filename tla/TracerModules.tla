---------------------------- MODULE TracerModules ----------------------------
(***************************************************************************)
(* The tracer composed with the libraries of the process.  An entry holds  *)
(* no more than the address of its instruction: outputInstr looks its      *)
(* module up when it writes the entry, twice, and uses what it finds       *)
(* unchecked, while another thread may unload libraries.  Nothing in       *)
(* tracer.c waits for that, its load and unload events only print.         *)
(*                                                                         *)
(* The program is the environment: each thread runs a sequence of          *)
(* instructions of some libraries, and a library is unloaded only when no  *)
(* thread runs code of it, which is what a correct program ensures.        *)
(***************************************************************************)
EXTENDS Tracer

CONSTANTS
    Libraries,  \* the modules of the process
    Main,       \* the executable, and what is never unloaded
    Programs    \* bound: programs[t][i] has the i-th instruction of thread t

ASSUME TracerModulesAssumption ==
    /\ Main \in Libraries
    /\ Programs \subseteq [Threads -> Seq(Libraries)]

VARIABLES
    program,    \* the program that runs
    modules     \* modules[l]: "absent", "loaded" or "unloaded"

moduleVars == <<program, modules>>
allVars == <<vars, moduleVars>>

\* The library of the i-th instruction of t.
LibraryOf(t, i) == IF i \in DOMAIN program[t] THEN program[t][i] ELSE Main

\* t is in the flush at the head of a block: the instruction before has run,
\* the block's first has not.
AtBlockHead(t) ==
    t \notin leaving /\ pc[t] \in {"lock", "write", "header", "entry", "reset"}

\* The libraries whose code t is in.
Running(t) ==
    {LibraryOf(t, executed[t])}
    \cup (IF AtBlockHead(t) THEN {LibraryOf(t, executed[t] - 1)} ELSE {})

-----------------------------------------------------------------------------
ModulesInit ==
    /\ Init
    /\ program \in Programs
    /\ modules = [l \in Libraries |-> IF l = Main THEN "loaded" ELSE "absent"]

\* The program's next instruction is of a library that is loaded.
NextIsLoaded(t) ==
    /\ executed[t] < Len(program[t])
    /\ modules[program[t][executed[t] + 1]] = "loaded"

\* A block is code of one library.
RunBlock(t) ==
    /\ NextIsLoaded(t)
    /\ \/ \E n \in 1 .. MaxBlock, kind \in Kinds : FirstInstr(t, n, kind)
       \/ /\ LibraryOf(t, executed[t] + 1) = LibraryOf(t, executed[t])
          /\ \E kind \in Kinds : LaterInstr(t, kind)
    /\ UNCHANGED moduleVars

\* Everything else is as in Tracer.
OtherStep ==
    /\ \/ \E t \in Threads : ExitGroup(t) \/ Client(t)
       \/ eventExit
       \/ Terminated
    /\ UNCHANGED moduleVars

eventModuleLoad(l) ==
    /\ process = "running"
    /\ \E t \in Threads : pc[t] = "app"
    /\ modules[l] = "absent"
    /\ modules' = [modules EXCEPT ![l] = "loaded"]
    /\ UNCHANGED <<vars, program>>

\* The thread that unloads it runs in another library, like all the others.
\* Bound: what is unloaded is not loaded again.
eventModuleUnload(l) ==
    /\ process = "running"
    /\ \E t \in Threads : pc[t] = "app"
    /\ l # Main /\ modules[l] = "loaded"
    /\ \A t \in Threads : pc[t] \in {"unborn", "done"} \/ l \notin Running(t)
    /\ modules' = [modules EXCEPT ![l] = "unloaded"]
    /\ UNCHANGED <<vars, program>>

ModulesNext ==
    \/ \E t \in Threads : RunBlock(t)
    \/ OtherStep
    \/ \E l \in Libraries : eventModuleLoad(l) \/ eventModuleUnload(l)

ModulesSpec == ModulesInit /\ [][ModulesNext]_allVars

\* A thread whose program has ended, or whose next library is gone, exits.
FairModulesSpec == ModulesSpec /\ Fairness

-----------------------------------------------------------------------------
\* The entries of the buffer that outputInstr still has to write.
Unwritten(t) ==
    CASE pc[t] \in {"write", "header", "entry"} -> curr[t] .. tlsPtr[t] - 1
      [] pc[t] = "reset" -> {}
      [] OTHER -> 0 .. tlsPtr[t] - 1

\* dr_lookup_module, whose result writeTraceEntry and
\* writeInterleavedTraceEntry dereference, finds the module of every entry: a
\* thread that leaves a library flushes before it runs anything else, so that
\* nobody can know that the library is no longer in use while entries of it
\* are waiting to be written.
ModuleLoaded ==
    \A t \in Threads : \A i \in Unwritten(t) :
        modules[LibraryOf(t, slots[t][i])] = "loaded"
=============================================================================
