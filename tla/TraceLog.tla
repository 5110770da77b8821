------------------------------ MODULE TraceLog ------------------------------
(***************************************************************************)
(* What the JSON tracer promises about its log files, with no buffer, no   *)
(* lock and no basic block: every thread has a log of its own, the process *)
(* has one interleaved log, and each recorded entry reaches both exactly   *)
(* once, in the order the thread recorded it, before the thread's log is   *)
(* closed.  Tracer is shown to implement this module.                      *)
(***************************************************************************)
EXTENDS Naturals, Sequences

CONSTANTS
    Threads,  \* the application threads
    Entry     \* the trace entries a thread can record

VARIABLES
    state,     \* state[t]: the life of t's log file
    recorded,  \* recorded[t]: the entries t has recorded, oldest first
    log,       \* log[t]: the entries in t's own log file
    merged     \* the entries in the interleaved log, tagged with their thread

vars == <<state, recorded, log, merged>>

Init ==
    /\ state = [t \in Threads |-> "none"]
    /\ recorded = [t \in Threads |-> <<>>]
    /\ log = [t \in Threads |-> <<>>]
    /\ merged = <<>>

Open(t) ==
    /\ state[t] = "none"
    /\ state' = [state EXCEPT ![t] = "open"]
    /\ UNCHANGED <<recorded, log, merged>>

Record(t) ==
    /\ state[t] = "open"
    /\ \E e \in Entry : recorded' = [recorded EXCEPT ![t] = Append(@, e)]
    /\ UNCHANGED <<state, log, merged>>

\* The oldest entry of t not logged yet goes to both logs.
Log(t) ==
    /\ state[t] = "open"
    /\ Len(log[t]) < Len(recorded[t])
    /\ LET e == recorded[t][Len(log[t]) + 1]
       IN  /\ log' = [log EXCEPT ![t] = Append(@, e)]
           /\ merged' = Append(merged, [tid |-> t, entry |-> e])
    /\ UNCHANGED <<state, recorded>>

\* A log is closed only when it is complete.
Close(t) ==
    /\ state[t] = "open"
    /\ log[t] = recorded[t]
    /\ state' = [state EXCEPT ![t] = "closed"]
    /\ UNCHANGED <<recorded, log, merged>>

Next == \E t \in Threads : Open(t) \/ Record(t) \/ Log(t) \/ Close(t)

SafeSpec == Init /\ [][Next]_vars

\* Nothing recorded stays unlogged for ever.
Fairness == \A t \in Threads : WF_vars(Log(t))

Spec == SafeSpec /\ Fairness
=============================================================================
