------------------------------- MODULE Tracer -------------------------------
(***************************************************************************)
(* The JSON tracer (json_tracer/tracer.c and the recording half of         *)
(* json_tracer/insert_instrumentation.c) as DynamoRIO runs it: the         *)
(* application's threads execute instrumented basic blocks, each recorded  *)
(* instruction appends an entry to the thread's private buffer, the first  *)
(* instruction of every block and the thread's exit flush the buffer to    *)
(* the thread's trace file and, under interleavedTraceMutex, to the        *)
(* interleaved trace that all threads share.                               *)
(*                                                                         *)
(* An entry is abstracted to the ordinal of the instruction it describes:  *)
(* what the fields of an entry hold is the subject of EntrySlot, how they  *)
(* are printed that of JsonWriter.                                         *)
(***************************************************************************)
EXTENDS Integers, Sequences, FiniteSets

CONSTANTS
    Threads,      \* the application threads
    NoThread,     \* no holder of the mutex
    BUF_ENTRIES,  \* the entries a thread's buffer holds (1024 in tracer.c)
    MaxBlock,     \* the longest basic block DynamoRIO builds
    MaxInstr      \* bound: the instructions a thread executes in a behaviour

ASSUME TracerAssumption ==
    /\ NoThread \notin Threads
    /\ BUF_ENTRIES \in Nat
    /\ MaxBlock \in 1 .. BUF_ENTRIES
    /\ MaxInstr \in Nat

VARIABLES
    process,      \* "running", "stopping" (exit_group was called), "exited"
    pc,           \* pc[t]: where t is, in its code or in a tracer callback
    left,         \* left[t]: instructions t has yet to run of its block
    slots,        \* slots[t]: the trace_entry_t array data->buf
    tlsPtr,       \* tlsPtr[t]: the raw TLS slot, the next free entry of buf
    bufEnd,       \* bufEnd[t]: the local variable buf of outputInstr
    curr,         \* curr[t]: the loop variable of outputInstr
    leaving,      \* the threads that eventThreadExit has been called for
    mutex,        \* the holder of interleavedTraceMutex
    file,         \* file[t]: the entries written to t's trace file
    interleaved,  \* the entries written to the interleaved trace file
    header,       \* the thread id at its end that no entry follows yet
    executed,     \* history: how many instructions t has executed
    recorded      \* history: the entries t has put in its buffer

bufferVars == <<slots, tlsPtr, recorded>>
logVars == <<file, interleaved, header>>
vars == <<process, pc, left, slots, tlsPtr, bufEnd, curr, leaving, mutex,
          file, interleaved, header, executed, recorded>>

Kinds == {"inline", "call", "indirect"}
Empty == 0      \* a slot of the zeroed pages dr_raw_mem_alloc returns
Index == 0 .. BUF_ENTRIES - 1
Labels == {"unborn", "app", "lock", "write", "header", "entry", "reset",
           "close", "done"}

-----------------------------------------------------------------------------
Init ==
    /\ process = "running"
    /\ pc = [t \in Threads |-> "unborn"]
    /\ left = [t \in Threads |-> 0]
    /\ slots = [t \in Threads |-> [i \in Index |-> Empty]]
    /\ tlsPtr = [t \in Threads |-> 0]
    /\ bufEnd = [t \in Threads |-> 0]
    /\ curr = [t \in Threads |-> 0]
    /\ leaving = {}
    /\ mutex = NoThread
    /\ file = [t \in Threads |-> <<>>]
    /\ interleaved = <<>>
    /\ header = NoThread
    /\ executed = [t \in Threads |-> 0]
    /\ recorded = [t \in Threads |-> <<>>]

\* DynamoRIO calls this in the new thread: the first thread of the process,
\* or one a running thread creates.  It allocates the buffer, points the TLS
\* slot at it and opens the trace file.
eventThreadInit(t) ==
    /\ process = "running"
    /\ pc[t] = "unborn"
    /\ \/ \A u \in Threads : pc[u] = "unborn"
       \/ \E u \in Threads : pc[u] = "app"
    /\ pc' = [pc EXCEPT ![t] = "app"]
    /\ UNCHANGED <<process, left, bufferVars, bufEnd, curr, leaving, mutex,
                   logVars, executed>>

-----------------------------------------------------------------------------
(* The instrumentation of one instruction.  The operators whose comment     *)
(* says "fault" are no part of the model: each is a wrong version of the    *)
(* next definition, and shows that a property fails when the code is wrong. *)

\* Fill the entry the TLS slot points at, then advance the slot.
SaveEntry(t) ==
    LET entry == executed[t] + 1
    IN  /\ slots' = [slots EXCEPT ![t][tlsPtr[t]] = entry]
        /\ tlsPtr' = [tlsPtr EXCEPT ![t] = @ + 1]
        /\ recorded' = [recorded EXCEPT ![t] = Append(@, entry)]

\* An instruction that is not a call is saved inline, a direct call by the
\* clean call saveDirCall; saveCall has no case for the other calls.
insertInstrumentation(t, kind) ==
    /\ executed[t] < MaxInstr
    /\ executed' = [executed EXCEPT ![t] = @ + 1]
    /\ \/ kind \in {"inline", "call"} /\ SaveEntry(t)
       \/ kind = "indirect" /\ UNCHANGED bufferVars

\* fault: a block whose first instruction leaves no entry is not flushed
FirstInstrIfSaved(t, n, kind) ==
    /\ process = "running" /\ pc[t] = "app"
    /\ kind = "inline" \/ n = 1
    /\ insertInstrumentation(t, kind)
    /\ left' = [left EXCEPT ![t] = n - 1]
    /\ bufEnd' = [bufEnd EXCEPT ![t] = tlsPtr'[t]]
    /\ pc' = [pc EXCEPT ![t] = IF kind = "indirect" THEN @ ELSE "lock"]
    /\ UNCHANGED <<process, curr, leaving, mutex, logVars>>

\* The first instruction of a block of n.  eventInstr inserts the clean call
\* after the instrumentation, so the entry of the first instruction is in the
\* buffer when outputInstr reads the TLS slot.  A call ends its block.  A
\* fault or a signal may leave the previous block unfinished, so left[t] need
\* not be 0.
FirstInstr(t, n, kind) ==
    /\ process = "running" /\ pc[t] = "app"
    /\ kind = "inline" \/ n = 1
    /\ insertInstrumentation(t, kind)
    /\ left' = [left EXCEPT ![t] = n - 1]
    /\ bufEnd' = [bufEnd EXCEPT ![t] = tlsPtr'[t]]
    /\ pc' = [pc EXCEPT ![t] = "lock"]
    /\ UNCHANGED <<process, curr, leaving, mutex, logVars>>

\* A later instruction of the block.
LaterInstr(t, kind) ==
    /\ process = "running" /\ pc[t] = "app"
    /\ left[t] > 0
    /\ kind = "inline" \/ left[t] = 1
    /\ insertInstrumentation(t, kind)
    /\ left' = [left EXCEPT ![t] = @ - 1]
    /\ UNCHANGED <<process, pc, bufEnd, curr, leaving, mutex, logVars>>

-----------------------------------------------------------------------------
(* outputInstr, statement by statement. *)

\* fault: nothing is locked
AnyMutex == TRUE
\* fault: the mutex is destroyed as soon as the process starts to exit
MutexUntilExit == mutex = NoThread /\ process = "running"

FreeMutex == mutex = NoThread

dr_mutex_lock(t) ==
    /\ pc[t] = "lock"
    /\ FreeMutex
    /\ mutex' = t
    /\ curr' = [curr EXCEPT ![t] = 0]
    /\ pc' = [pc EXCEPT ![t] = "write"]
    /\ UNCHANGED <<process, left, bufferVars, bufEnd, leaving, logVars, executed>>

\* fault: off by one
MoreButLast(t) == curr[t] + 1 < bufEnd[t]
MoreEntries(t) == curr[t] < bufEnd[t]

\* writeTraceEntry(&data->traceFile, *curr)
WriteOwn(t) ==
    /\ pc[t] = "write"
    /\ MoreEntries(t)
    /\ file' = [file EXCEPT ![t] = Append(@, slots[t][curr[t]])]
    /\ pc' = [pc EXCEPT ![t] = "header"]
    /\ UNCHANGED <<process, left, bufferVars, bufEnd, curr, leaving, mutex,
                   interleaved, header, executed>>

\* writeInterleavedTraceEntry first prints the thread id ...
WriteHeader(t) ==
    /\ pc[t] = "header"
    /\ header' = t
    /\ pc' = [pc EXCEPT ![t] = "entry"]
    /\ UNCHANGED <<process, left, bufferVars, bufEnd, curr, leaving, mutex,
                   file, interleaved, executed>>

\* ... then the entry, which a reader attributes to the id before it; curr++.
WriteEntry(t) ==
    /\ pc[t] = "entry"
    /\ interleaved' =
           Append(interleaved, [tid |-> header, entry |-> slots[t][curr[t]]])
    /\ header' = NoThread
    /\ curr' = [curr EXCEPT ![t] = @ + 1]
    /\ pc' = [pc EXCEPT ![t] = "write"]
    /\ UNCHANGED <<process, left, bufferVars, bufEnd, leaving, mutex, file,
                   executed>>

\* fault: no unlock
KeepMutex == UNCHANGED mutex

ReleaseMutex == mutex' = NoThread

dr_mutex_unlock(t) ==
    /\ pc[t] = "write"
    /\ ~MoreEntries(t)
    /\ ReleaseMutex
    /\ pc' = [pc EXCEPT ![t] = "reset"]
    /\ UNCHANGED <<process, left, bufferVars, bufEnd, curr, leaving, logVars,
                   executed>>

\* fault: the TLS slot is not reset
NoRewind(t) == UNCHANGED tlsPtr
\* fault: it is reset to the entry before the buffer
RewindTooFar(t) == tlsPtr' = [tlsPtr EXCEPT ![t] = @ - bufEnd[t] - 1]

Rewind(t) == tlsPtr' = [tlsPtr EXCEPT ![t] = 0]

\* The last line of outputInstr, then the return to the caller.
ResetPointer(t) ==
    /\ pc[t] = "reset"
    /\ Rewind(t)
    /\ pc' = [pc EXCEPT ![t] = IF t \in leaving THEN "close" ELSE "app"]
    /\ UNCHANGED <<process, left, slots, recorded, bufEnd, curr, leaving,
                   mutex, logVars, executed>>

outputInstr(t) ==
    \/ dr_mutex_lock(t)
    \/ WriteOwn(t)
    \/ WriteHeader(t)
    \/ WriteEntry(t)
    \/ dr_mutex_unlock(t)
    \/ ResetPointer(t)

-----------------------------------------------------------------------------
(* Threads and the process end. *)

\* fault: the exit event does not flush
ExitWithoutFlush(t) ==
    /\ pc[t] = "app"
    /\ leaving' = leaving \cup {t}
    /\ pc' = [pc EXCEPT ![t] = "close"]
    /\ UNCHANGED <<process, left, bufferVars, bufEnd, curr, mutex, logVars,
                   executed>>

\* eventThreadExit calls outputInstr first: a thread that returns from its
\* start routine, or one that DynamoRIO stopped in application code.
eventThreadExit(t) ==
    /\ pc[t] = "app"
    /\ leaving' = leaving \cup {t}
    /\ bufEnd' = [bufEnd EXCEPT ![t] = tlsPtr[t]]
    /\ pc' = [pc EXCEPT ![t] = "lock"]
    /\ UNCHANGED <<process, left, bufferVars, curr, mutex, logVars, executed>>

\* A thread waiting in dr_mutex_lock is at a safe point: when the process
\* ends DynamoRIO stops it there, abandons the flush it was about to do and
\* calls eventThreadExit, which starts another.
StopWaiting(t) ==
    /\ process = "stopping"
    /\ pc[t] = "lock"
    /\ t \notin leaving
    /\ leaving' = leaving \cup {t}
    /\ bufEnd' = [bufEnd EXCEPT ![t] = tlsPtr[t]]
    /\ UNCHANGED <<process, pc, left, bufferVars, curr, mutex, logVars, executed>>

\* The rest of eventThreadExit, after outputInstr: the trace file is closed
\* and the thread's memory is freed.
CloseTrace(t) ==
    /\ pc[t] = "close"
    /\ pc' = [pc EXCEPT ![t] = "done"]
    /\ UNCHANGED <<process, left, bufferVars, bufEnd, curr, leaving, mutex,
                   logVars, executed>>

\* A thread calls exit_group: no application code runs after it.
ExitGroup(t) ==
    /\ process = "running"
    /\ pc[t] = "app"
    /\ process' = "stopping"
    /\ UNCHANGED <<pc, left, bufferVars, bufEnd, curr, leaving, mutex,
                   logVars, executed>>

\* DynamoRIO calls this after the exit event of every thread.
eventExit ==
    /\ process # "exited"
    /\ \A t \in Threads : pc[t] \in {"unborn", "done"}
    /\ \E t \in Threads : pc[t] = "done"
    /\ process' = "exited"
    /\ UNCHANGED <<pc, left, bufferVars, bufEnd, curr, leaving, mutex,
                   logVars, executed>>

Terminated == process = "exited" /\ UNCHANGED vars

-----------------------------------------------------------------------------
Application(t) ==
    \/ \E n \in 1 .. MaxBlock, kind \in Kinds : FirstInstr(t, n, kind)
    \/ \E kind \in Kinds : LaterInstr(t, kind)
    \/ ExitGroup(t)

Client(t) ==
    \/ eventThreadInit(t)
    \/ outputInstr(t)
    \/ eventThreadExit(t)
    \/ StopWaiting(t)
    \/ CloseTrace(t)

Next ==
    \/ \E t \in Threads : Application(t) \/ Client(t)
    \/ eventExit
    \/ Terminated

Spec == Init /\ [][Next]_vars

\* The operating system schedules every thread that can run, and the bounded
\* programs of the model end: a thread with no instruction left to execute
\* can only exit.  dr_mutex_lock needs no more than weak fairness because
\* each of the other threads can take the mutex only finitely often.
Fairness ==
    /\ \A t \in Threads : WF_vars(outputInstr(t) \/ StopWaiting(t))
    /\ \A t \in Threads : WF_vars(CloseTrace(t))
    /\ \A t \in Threads : WF_vars(Application(t) \/ eventThreadExit(t))

FairSpec == Spec /\ Fairness

-----------------------------------------------------------------------------
(* Properties. *)

\* The type invariant.
TypeOK ==
    /\ process \in {"running", "stopping", "exited"}
    /\ pc \in [Threads -> Labels]
    /\ left \in [Threads -> Nat]
    /\ slots \in [Threads -> [Index -> Nat]]
    /\ tlsPtr \in [Threads -> Nat]
    /\ bufEnd \in [Threads -> Nat]
    /\ curr \in [Threads -> Nat]
    /\ leaving \in SUBSET Threads
    /\ mutex \in Threads \cup {NoThread}
    /\ file \in [Threads -> Seq(Nat)]
    /\ interleaved \in Seq([tid : Threads \cup {NoThread}, entry : Nat])
    /\ header \in Threads \cup {NoThread}
    /\ executed \in [Threads -> Nat]
    /\ recorded \in [Threads -> Seq(Nat)]

\* The instrumentation never checks that the buffer has room (addPointer and
\* saveDirCall just advance the TLS slot): a thread stays inside its buffer
\* only because every block starts with a flush and no block is longer than
\* the buffer, whatever blocks, faults and exits follow each other.
BufferBound == \A t \in Threads : tlsPtr[t] <= BUF_ENTRIES

\* How many entries at the front of t's buffer are in t's file already.
Logged(t) ==
    CASE pc[t] \in {"write", "reset"} -> curr[t]
      [] pc[t] \in {"header", "entry"} -> curr[t] + 1
      [] OTHER -> 0

\* What t has recorded is what its file holds followed by what its buffer
\* still holds.
LoggedInOrder(t) ==
    /\ Len(recorded[t]) = Len(file[t]) + tlsPtr[t] - Logged(t)
    /\ \A i \in 1 .. Len(file[t]) : file[t][i] = recorded[t][i]
    /\ \A i \in Logged(t) .. tlsPtr[t] - 1 :
           slots[t][i] = recorded[t][Len(file[t]) + i - Logged(t) + 1]

\* No entry is lost, repeated or reordered between saveEntry and the trace
\* file, wherever a thread is stopped.
InOrderOnce == \A t \in Threads : LoggedInOrder(t)

\* The entries of t among the first n of an interleaved trace.
EntriesOf(trace, t, n) == {j \in 1 .. n : trace[j].tid = t}

\* outputInstr writes each entry to both files: the k-th entry that a reader
\* of the interleaved trace attributes to a thread is the k-th of that
\* thread's own trace, and only an entry being written now is in one file
\* and not in the other.
InterleavedMatches ==
    /\ \A i \in 1 .. Len(interleaved) :
           LET t == interleaved[i].tid
               k == Cardinality(EntriesOf(interleaved, t, i))
           IN  /\ t \in Threads
               /\ k \in 1 .. Len(file[t])
               /\ interleaved[i].entry = file[t][k]
    /\ \A t \in Threads :
           Cardinality(EntriesOf(interleaved, t, Len(interleaved))) =
               IF pc[t] \in {"header", "entry"} THEN Len(file[t]) - 1
                                                ELSE Len(file[t])

\* A thread is between lock and unlock exactly when it holds the mutex.
Exclusion ==
    \A t \in Threads : pc[t] \in {"write", "header", "entry"} <=> mutex = t

\* The thread id at the end of the interleaved trace is the writer's.
HeaderOwner == \A t \in Threads : pc[t] = "entry" => header = t

\* A thread's buffer never holds more than the block it runs.
Room ==
    \A t \in Threads :
        /\ tlsPtr[t] <= MaxBlock
        /\ left[t] < MaxBlock
        /\ pc[t] = "app" => tlsPtr[t] + left[t] < MaxBlock
        /\ pc[t] \in {"unborn", "close", "done"} => tlsPtr[t] = 0

\* What outputInstr's local variables say during a flush.
FlushWindow ==
    \A t \in Threads :
        /\ pc[t] \in {"lock", "write", "header", "entry", "reset"} =>
               bufEnd[t] = tlsPtr[t]
        /\ pc[t] = "write" => curr[t] <= bufEnd[t]
        /\ pc[t] \in {"header", "entry"} => curr[t] < bufEnd[t]
        /\ pc[t] = "reset" => curr[t] = bufEnd[t]

\* The inductive invariant: the mutex is held by the one thread that flushes,
\* nobody else can move the thread id or the entries under it, and a flush
\* ends with the TLS slot where it was when it began.  The invariants above
\* follow from these four, or are inductive relative to them.
FlushInv == Exclusion /\ HeaderOwner /\ Room /\ FlushWindow

\* The promise of TraceLog: the state of a log is read off pc, and an entry is
\* logged when it is in both files.
LogState ==
    [t \in Threads |-> CASE pc[t] = "unborn" -> "none"
                         [] pc[t] = "done" -> "closed"
                         [] OTHER -> "open"]
LogFile ==
    [t \in Threads |-> IF pc[t] \in {"header", "entry"}
                       THEN SubSeq(file[t], 1, Len(file[t]) - 1)
                       ELSE file[t]]

TL == INSTANCE TraceLog WITH
        Entry <- 1 .. MaxInstr,
        state <- LogState,
        log <- LogFile,
        merged <- interleaved

\* Safety: the tracer implements TraceLog step by step, so that a log is
\* closed only when it and the interleaved trace hold every recorded entry.
ImplementsTraceLog == TL!SafeSpec

\* Liveness: every recorded entry eventually reaches both files (the fairness
\* of TraceLog), because each flush ends and each thread flushes at its next
\* block or at its exit.
EventuallyLogged == TL!Fairness

\* Liveness: no thread that DynamoRIO has told the tracer of is left waiting
\* in a callback; its exit event completes.
EveryTraceCloses == \A t \in Threads : pc[t] = "app" ~> pc[t] = "done"
=============================================================================
