------------------------------ MODULE SumFiles ------------------------------
(***************************************************************************)
(* What the example program promises, with no threads and no locks: each   *)
(* file named on the command line is read once or found unreadable, and    *)
(* the summary printed at the end covers exactly the files that were read. *)
(***************************************************************************)
EXTENDS FileSummary

VARIABLES
    files,    \* the files to summarise
    taken,    \* those that were opened, or could not be
    counted,  \* those that were opened
    output    \* the summary printed, NoOutput before

CONSTANT NoOutput

vars == <<files, taken, counted, output>>

Init == files = {} /\ taken = {} /\ counted = {} /\ output = NoOutput

\* The command line names some files, numbered from 0.
Accept ==
    /\ files = {}
    /\ files' # {}
    /\ files' = 0 .. Cardinality(files') - 1
    /\ UNCHANGED <<taken, counted, output>>

Take(i, readable) ==
    /\ i \in files \ taken
    /\ taken' = taken \cup {i}
    /\ counted' = IF readable THEN counted \cup {i} ELSE counted
    /\ UNCHANGED <<files, output>>

Report ==
    /\ files # {} /\ taken = files
    /\ output = NoOutput
    /\ output' = Totals(counted, Accepted)
    /\ UNCHANGED <<files, taken, counted>>

Next ==
    \/ Accept
    \/ \E i \in files, readable \in BOOLEAN : Take(i, readable)
    \/ Report

Spec == Init /\ [][Next]_vars
=============================================================================
