----------------------------- MODULE JsonWriter -----------------------------
(***************************************************************************)
(* The log files as text (json_tracer/json_writer.c): every fprintf        *)
(* appends to a JSON document that is never read back, so that commas and  *)
(* brackets are right only if the flag firstLine says where the document   *)
(* stands.  An entry goes to the trace of its thread and, wrapped in an    *)
(* object with the thread id, to the interleaved trace of the process.     *)
(* Both remember the last entry of the main module: getVariableInfo looks  *)
(* the variables of memory operands up in the frame of that entry.         *)
(*                                                                         *)
(* outputInstr's mutex is the subject of Tracer; here an entry is written  *)
(* to its two files in one step.                                           *)
(***************************************************************************)
EXTENDS Naturals, Sequences

CONSTANTS
    Threads,      \* the application threads
    Merged,       \* the interleaved trace
    Garbage,      \* what an uninitialised field holds
    NullFrame,    \* the frame of a call's entry, whose bp is 0
    DebugInfo,    \* the results of getDebugInfo: TRUE, FALSE for NULL
    MaxOperands   \* bound: the operands of an entry

ASSUME JsonWriterAssumption ==
    /\ Merged \notin Threads
    /\ Garbage \notin Threads /\ NullFrame \notin Threads
    /\ DebugInfo \subseteq BOOLEAN
    /\ MaxOperands \in Nat

Traces == Threads \cup {Merged}

VARIABLES
    status,     \* status[f]: "none", "open" or "closed"
    doc,        \* doc[f]: where the document stands
    firstLine,  \* json_trace_t's fields
    info,
    frame,      \* frame[f]: the fields pc and sp, the frame of a thread
    lookups,    \* the frames the last entry was looked up in
    crashed     \* whose NULL pointer was used: "file", "info" or "none"

vars == <<status, doc, firstLine, info, frame, lookups, crashed>>

-----------------------------------------------------------------------------
(* A reader of the document, token by token: "[" "]" "{" "}" ",", "member"  *)
(* for a key with a scalar and "key" for one whose value follows.  It       *)
(* keeps the open brackets and what may come next.                          *)

Start == [stack |-> <<>>, next |-> "value"]
Broken == [stack |-> <<>>, next |-> "broken"]
Complete == [stack |-> <<>>, next |-> "sep"]

Top(d) == IF d.stack = <<>> THEN "none" ELSE d.stack[Len(d.stack)]
Push(d, b) == Append(d.stack, b)
Pop(d) == SubSeq(d.stack, 1, Len(d.stack) - 1)

Read(d, token) ==
    CASE token = "[" /\ d.next \in {"value", "firstValue"} ->
             [stack |-> Push(d, "array"), next |-> "firstValue"]
      [] token = "{" /\ d.next \in {"value", "firstValue"} ->
             [stack |-> Push(d, "object"), next |-> "firstKey"]
      [] token = "]" /\ Top(d) = "array" /\ d.next \in {"firstValue", "sep"} ->
             [stack |-> Pop(d), next |-> "sep"]
      [] token = "}" /\ Top(d) = "object" /\ d.next \in {"firstKey", "sep"} ->
             [stack |-> Pop(d), next |-> "sep"]
      [] token = "member" /\ d.next \in {"firstKey", "nextKey"} ->
             [d EXCEPT !.next = "sep"]
      [] token = "key" /\ d.next \in {"firstKey", "nextKey"} ->
             [d EXCEPT !.next = "value"]
      [] token = "," /\ d.next = "sep" /\ d.stack # <<>> ->
             [d EXCEPT !.next = IF Top(d) = "array" THEN "value" ELSE "nextKey"]
      [] OTHER -> Broken

Printed(d, tokens) ==
    LET after[n \in 0 .. Len(tokens)] ==
            IF n = 0 THEN d ELSE Read(after[n - 1], tokens[n])
    IN  after[Len(tokens)]

-----------------------------------------------------------------------------
(* The text of an entry. *)

\* Operands: a memory or indirect operand may be found to be a variable.
Operands == {"register", "immediate", "memory", "indirect", "target", "null"}
LooksUp(kind) == kind \in {"memory", "indirect"}

Members(n) == [i \in 1 .. 2 * n |-> IF i % 2 = 1 THEN "," ELSE "member"]
Object == <<"{", "member", ",", "member", "}">>

\* A variable found always has a type with a name (DebugInfo).
writeVar == <<"{", "member", ",", "member", ",", "key">> \o Object \o <<"}">>

writeOpnd(kind, found) ==
    <<"{", "member">>
    \o Members(CASE kind = "register" -> 3
                 [] kind = "immediate" -> 2
                 [] kind = "memory" -> 4
                 [] kind = "indirect" -> 7
                 [] kind = "target" -> 3
                 [] kind = "null" -> 1)
    \o (IF found THEN <<",", "key">> \o writeVar ELSE <<>>)
    \o <<"}">>

Separated(texts) ==
    LET join[n \in 0 .. Len(texts)] ==
            IF n = 0 THEN <<>>
            ELSE IF n = 1 THEN texts[1]
            ELSE join[n - 1] \o <<",">> \o texts[n]
    IN  join[Len(texts)]

\* The comma before an element of the outermost array.
Comma(first) == IF first THEN <<>> ELSE <<",">>

\* e: whether the source file is known, the operands, and which of them are
\* variables.
writeTraceEntry(e, first, debug) ==
    Comma(first)
    \o <<"{", "member", ",", "key">> \o Object \o <<",">>
    \o (IF e.file THEN <<"member", ",", "member", ",">> ELSE <<>>)
    \o <<"key", "[">>
    \o Separated([i \in 1 .. Len(e.operands) |->
                     writeOpnd(e.operands[i],
                               debug /\ e.variable /\ LooksUp(e.operands[i]))])
    \o <<"]", "}">>

\* fault: firstLine is not set for the entry inside the object
WrappedAsWritten(first) == first
\* firstLine = true: no comma between "entry": and the entry.
WrappedFirst(first) == TRUE

writeInterleavedTraceEntry(e, first, debug) ==
    Comma(first) \o <<"{", "member", ",", "key">>
    \o writeTraceEntry(e, WrappedFirst(first), debug) \o <<"}">>

-----------------------------------------------------------------------------
Init ==
    /\ status = [f \in Traces |-> "none"]
    /\ doc = [f \in Traces |-> Start]
    /\ firstLine = [f \in Traces |-> FALSE]
    /\ info = [f \in Traces |-> FALSE]
    /\ frame = [f \in Traces |-> Garbage]
    /\ lookups = {}
    /\ crashed = "none"

\* fdopen may return NULL, which the first fprintf does not survive.
createTraceFile(f) ==
    \/ /\ crashed' = "file"
       /\ UNCHANGED <<status, doc, firstLine, info, frame, lookups>>
    \/ /\ status' = [status EXCEPT ![f] = "open"]
       /\ doc' = [doc EXCEPT ![f] = Printed(Start, <<"[">>)]
       /\ firstLine' = [firstLine EXCEPT ![f] = TRUE]
       /\ \E debug \in DebugInfo : info' = [info EXCEPT ![f] = debug]
       /\ UNCHANGED <<frame, lookups, crashed>>

\* dr_client_main
OpenInterleaved ==
    /\ status[Merged] = "none"
    /\ createTraceFile(Merged)

\* eventThreadInit
OpenOwn(t) ==
    /\ status[Merged] = "open" /\ status[t] = "none"
    /\ createTraceFile(t)

OperandLists ==
    UNION {[1 .. n -> Operands \ {"target"}] : n \in 0 .. MaxOperands}
Entries ==
    [inMain : BOOLEAN, file : BOOLEAN, variable : BOOLEAN,
     operands : OperandLists \cup {<<"target">>}]

\* saveDirCall sets bp to 0.
IsCall(e) == e.operands = <<"target">>

\* fault: the flag stays set after an entry
StillFirst(t) == UNCHANGED firstLine
NotFirst(t) == firstLine' = [firstLine EXCEPT ![t] = FALSE, ![Merged] = FALSE]

\* fault: one frame for the whole process
FrameOfProcess(t, bp) == frame' = [f \in Traces |-> bp]
SetFrame(t, bp) == frame' = [frame EXCEPT ![t] = bp, ![Merged] = bp]

\* The body of outputInstr's loop.  Only an entry of the main module sets the
\* frame, before its operands are looked up.
LogEntry(t, e) ==
    /\ status[t] = "open" /\ status[Merged] = "open"
    /\ doc' = [doc EXCEPT
                 ![t] = Printed(@, writeTraceEntry(e, firstLine[t], info[t])),
                 ![Merged] = Printed(@, writeInterleavedTraceEntry(
                                          e, firstLine[Merged], info[Merged]))]
    /\ NotFirst(t)
    /\ IF e.inMain THEN SetFrame(t, IF IsCall(e) THEN NullFrame ELSE t)
                   ELSE UNCHANGED frame
    /\ lookups' = IF \E i \in 1 .. Len(e.operands) : LooksUp(e.operands[i])
                  THEN {<<t, frame'[f]>> : f \in {x \in {t, Merged} : info[x]}}
                  ELSE {}
    /\ UNCHANGED <<status, info, crashed>>

\* fault: the closing bracket is printed only for an empty trace
NoEnd(f) == <<>>
End(f) == <<"]">>

\* destroyDebugInfo dereferences its argument: without debugging information
\* the process crashes here, before fclose.
destroyTraceFile(f) ==
    /\ doc' = [doc EXCEPT ![f] = Printed(@, End(f))]
    /\ IF info[f] THEN /\ status' = [status EXCEPT ![f] = "closed"]
                       /\ UNCHANGED crashed
                  ELSE /\ crashed' = "info"
                       /\ UNCHANGED status
    /\ UNCHANGED <<firstLine, info, frame, lookups>>

\* eventThreadExit
CloseOwn(t) ==
    /\ status[t] = "open"
    /\ destroyTraceFile(t)

\* eventExit, after the exit of every thread
CloseInterleaved ==
    /\ status[Merged] = "open"
    /\ \A t \in Threads : status[t] # "open"
    /\ \E t \in Threads : status[t] = "closed"
    /\ destroyTraceFile(Merged)

Ended == (crashed # "none" \/ status[Merged] = "closed") /\ UNCHANGED vars

Next ==
    \/ /\ crashed = "none"
       /\ \/ OpenInterleaved
          \/ \E t \in Threads :
                \/ OpenOwn(t)
                \/ \E e \in Entries : LogEntry(t, e)
                \/ CloseOwn(t)
          \/ CloseInterleaved
    \/ Ended

Spec == Init /\ [][Next]_vars

-----------------------------------------------------------------------------
(* Properties. *)

\* The type invariant.
TypeOK ==
    /\ status \in [Traces -> {"none", "open", "closed"}]
    /\ \A f \in Traces :
           /\ doc[f].stack \in {<<>>, <<"array">>}
           /\ doc[f].next \in {"value", "firstValue", "sep"}
    /\ firstLine \in [Traces -> BOOLEAN]
    /\ info \in [Traces -> BOOLEAN]
    /\ frame \in [Traces -> Threads \cup {Garbage, NullFrame}]
    /\ lookups \subseteq Threads \X (Threads \cup {Garbage, NullFrame})
    /\ crashed \in {"none", "file", "info"}

\* Every log is JSON at every moment, as far as it goes: an array that is open
\* while the trace is and complete once it is closed; no interleaving of
\* entries, empty operand lists or missing source files breaks it.
WellFormed ==
    \A f \in Traces :
        /\ status[f] = "none" => doc[f] = Start
        /\ status[f] = "open" /\ crashed = "none" =>
               doc[f] = [stack |-> <<"array">>,
                         next |-> IF firstLine[f] THEN "firstValue" ELSE "sep"]
        /\ status[f] = "closed" => doc[f] = Complete

\* A thread's own trace never looks a variable up in another thread's frame,
\* and the two traces never disagree about an entry of the main module.
OwnFrame ==
    \A t \in Threads :
        /\ frame[t] \notin Threads \ {t}
        /\ frame[Merged] = t => frame[t] = t

\* debug_info.h:55-56: a variable is looked up in the frame of the "current PC"
\* and of "the stack pointer prior to the function call": not in that of a
\* function another thread executes.
LookupsInOwnFrame == \A p \in lookups : p[2] \notin Threads \ {p[1]}
=============================================================================
