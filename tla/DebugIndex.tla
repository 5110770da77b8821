----------------------------- MODULE DebugIndex -----------------------------
(***************************************************************************)
(* What the debugging information reader promises, with no attributes,     *)
(* arrays or pointers: the entries that a file describes, read in order    *)
(* and kept by kind, until they are destroyed.  Nothing is left out, and   *)
(* no entry is cut short, but in the very step in which memory runs short  *)
(* or the file cannot be read on.                                          *)
(***************************************************************************)
EXTENDS Naturals, Sequences

CONSTANTS
    IndexKinds,  \* the kinds of entries
    NoEntry,     \* a part of the file that describes nothing to keep
    PartOf(_, _), \* what a shortage of memory may leave of an entry
    CutOf(_, _)   \* what an error in the file may leave of an entry

VARIABLES
    file,      \* what the file describes, in its order
    next,      \* how many of these have been read
    index,     \* index[k]: the entries of kind k kept so far
    shortages, \* how many times memory ran short
    errors,    \* how many times the file could not be read
    status     \* "reading", "ready", "gone" or "undefined"

indexVars == <<file, next, index, shortages, errors, status>>

Init ==
    /\ next = 0
    /\ index = [k \in IndexKinds |-> <<>>]
    /\ shortages = 0 /\ errors = 0
    /\ status = "reading"

Described == file[next + 1]
Short == shortages' > shortages
Unreadable == errors' > errors

Read ==
    /\ status = "reading" /\ next < Len(file)
    /\ next' = next + 1
    /\ UNCHANGED <<file, status>>

Keep ==
    /\ Read
    /\ Described # NoEntry
    /\ \E k \in IndexKinds :
           /\ k = Described.kind
           /\ \A j \in IndexKinds \ {k} : index'[j] = index[j]
           /\ Len(index'[k]) = Len(index[k]) + 1
           /\ SubSeq(index'[k], 1, Len(index[k])) = index[k]
           /\ LET e == index'[k][Len(index'[k])]
              IN  \/ e = Described
                  \/ Short /\ PartOf(e, Described)
                  \/ Unreadable /\ CutOf(e, Described)

Skip ==
    /\ Read
    /\ Described = NoEntry \/ Short
    /\ UNCHANGED index

\* An error may end the file early, or lead back to what was read before.
Finish ==
    /\ status = "reading"
    /\ next = Len(file) \/ Unreadable
    /\ status' = "ready"
    /\ UNCHANGED <<file, next, index, shortages>>

Again ==
    /\ status = "reading"
    /\ Unreadable
    /\ next' \in 0 .. next
    /\ UNCHANGED <<file, index, shortages, status>>

\* NULL is returned.
GiveUp ==
    /\ status = "reading"
    /\ next = 0 \/ Short \/ Unreadable
    /\ status' = "gone"
    /\ UNCHANGED <<file, next, index>>

Destroy ==
    /\ status = "ready"
    /\ status' = "gone"
    /\ UNCHANGED <<file, next, index, shortages, errors>>

\* Memory is misused: from then on nothing is promised.
Break == status = "reading" /\ status' = "undefined"

\* A failure that loses no entry.
Delay == (Short \/ Unreadable) /\ UNCHANGED <<file, next, index, status>>

Next ==
    /\ shortages' >= shortages /\ errors' >= errors
    /\ Keep \/ Skip \/ Finish \/ Again \/ GiveUp \/ Destroy \/ Break \/ Delay

SafeSpec == Init /\ [][Next]_indexVars
=============================================================================
