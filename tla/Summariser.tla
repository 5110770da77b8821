----------------------------- MODULE Summariser -----------------------------
(***************************************************************************)
(* The example program of the repository, sum_program: main parses the     *)
(* command line, starts numThreads workers, joins them and prints; worker  *)
(* id summarises the files id, id + numThreads, id + 2 numThreads, ... on  *)
(* its own and adds each summary to netSummary under netSummaryMutex.      *)
(* Operations on netSummary are split into the read and the write of one   *)
(* map entry, so that only the mutex makes them atomic.                    *)
(***************************************************************************)
EXTENDS FileSummary

CONSTANTS
    MaxArgs,     \* bound: the largest argc
    MaxThreads,  \* bound: the largest number of threads asked for
    NoWorker,    \* no holder of a mutex
    NoOutput     \* nothing has been printed

Workers == 0 .. MaxThreads - 1

ASSUME SummariserAssumption ==
    /\ MaxArgs \in Nat
    /\ MaxThreads \in Nat
    /\ NoWorker \notin Workers

\* What the conversions can find in a line.
LineType == [comma : BOOLEAN, tag : Int \cup {NotANumber}, tagEnds : BOOLEAN,
             value : Int \cup {NotANumber}, valueEnds : BOOLEAN]

\* The files that a command line of MaxArgs arguments can name.
ASSUME LinesAssumption ==
    /\ INT_MAX \in Nat
    /\ \A i \in 0 .. MaxArgs - 3 : Lines[i] \in Seq(LineType)

VARIABLES
    main,        \* where main is
    argc, argv1, \* the command line
    numThreads,  \* args::numThreads and summariser::numThreads
    fileNames,   \* how many file names there are
    started,     \* the variable i of startThreads
    joined,      \* how many threads joinThreads has joined
    pc,          \* pc[w]: where worker w is
    index,       \* index[w]: the variable i of summariserFunc
    part,        \* part[w]: the summary of the file w has read
    rest,        \* rest[w]: the tags of part[w] not combined yet
    cell,        \* cell[w]: the map entry w has read
    netSummary,
    fileNamesMutex, netSummaryMutex,
    taken,       \* history: the files tried
    counted,     \* history: the files opened
    combined,    \* history: the files whose summary is in netSummary
    output       \* what printSummary printed

mainVars == <<argc, argv1, numThreads, fileNames, started, joined>>
workerVars == <<pc, index, part, rest, cell>>
history == <<taken, counted, combined>>
vars == <<main, mainVars, workerVars, netSummary, fileNamesMutex,
          netSummaryMutex, history, output>>

Zero == [count |-> 0, sum |-> 0]
FileIndex == 0 .. fileNames - 1

\* numThreads starts as whatever the stack held.
Init ==
    /\ main = "args"
    /\ argc \in 1 .. MaxArgs
    /\ argv1 \in (-1 .. MaxThreads) \cup {NotANumber}
    /\ numThreads \in -1 .. MaxThreads
    /\ fileNames = 0
    /\ started = 0 /\ joined = 0
    /\ pc = [w \in Workers |-> "none"]
    /\ index = [w \in Workers |-> 0]
    /\ part = [w \in Workers |-> NoSummary]
    /\ rest = [w \in Workers |-> {}]
    /\ cell = [w \in Workers |-> Zero]
    /\ netSummary = NoSummary
    /\ fileNamesMutex = NoWorker /\ netSummaryMutex = NoWorker
    /\ taken = {} /\ counted = {} /\ combined = {}
    /\ output = NoOutput

-----------------------------------------------------------------------------
(* The main thread. *)

ParseArgs ==
    /\ main = "args"
    /\ LET a == args(argc, argv1, numThreads)
       IN  /\ numThreads' = a.numThreads
           /\ fileNames' = a.fileNames
           /\ main' = IF isValid(a) THEN "start" ELSE "done"
    /\ UNCHANGED <<argc, argv1, started, joined, workerVars, netSummary,
                   fileNamesMutex, netSummaryMutex, history, output>>

StartThread ==
    /\ main = "start"
    /\ started < numThreads
    /\ pc' = [pc EXCEPT ![started] = "loop"]
    /\ index' = [index EXCEPT ![started] = started]
    /\ started' = started + 1
    /\ UNCHANGED <<main, argc, argv1, numThreads, fileNames, joined, part,
                   rest, cell, netSummary, fileNamesMutex, netSummaryMutex,
                   history, output>>

\* The constructor of std::thread throws when the system has no more threads.
\* Nothing catches it: std::terminate ends the process, workers included.
StartThreadThrows ==
    /\ main = "start"
    /\ started < numThreads
    /\ main' = "terminated"
    /\ UNCHANGED <<mainVars, workerVars, netSummary, fileNamesMutex,
                   netSummaryMutex, history, output>>

AllStarted ==
    /\ main = "start"
    /\ started = numThreads
    /\ main' = "join"
    /\ UNCHANGED <<mainVars, workerVars, netSummary, fileNamesMutex,
                   netSummaryMutex, history, output>>

\* fault: joinThreads stops before the last thread
JoinedAllButOne == joined + 1 >= numThreads
JoinedAll == joined = numThreads

JoinThread ==
    /\ main = "join"
    /\ ~JoinedAll
    /\ pc[joined] = "exit"
    /\ joined' = joined + 1
    /\ UNCHANGED <<main, argc, argv1, numThreads, fileNames, started,
                   workerVars, netSummary, fileNamesMutex, netSummaryMutex,
                   history, output>>

\* The loop runs with netSummaryMutex locked; nobody else is left to want it.
printSummary ==
    /\ main = "join"
    /\ JoinedAll
    /\ netSummaryMutex = NoWorker
    /\ output' = netSummary
    /\ main' = "done"
    /\ UNCHANGED <<mainVars, workerVars, netSummary, fileNamesMutex,
                   netSummaryMutex, history>>

-----------------------------------------------------------------------------
(* Worker w: summariserFunc. *)

\* fault: every worker goes through all the files
NextIndexByOne(w) == index' = [index EXCEPT ![w] = @ + 1]
NextIndex(w) == index' = [index EXCEPT ![w] = @ + numThreads]

\* fault: off by one
OneFileMore(w) == index[w] <= fileNames
MoreFiles(w) == index[w] < fileNames

\* openFile locks fileNamesMutex ...
LockNames(w) ==
    /\ pc[w] = "loop"
    /\ MoreFiles(w)
    /\ fileNamesMutex = NoWorker
    /\ fileNamesMutex' = w
    /\ pc' = [pc EXCEPT ![w] = "open"]
    /\ UNCHANGED <<main, mainVars, index, part, rest, cell, netSummary,
                   netSummaryMutex, history, output>>

\* fault: an unreadable file leaves the mutex locked
UnlockIfOpen(isOpen) ==
    fileNamesMutex' = IF isOpen THEN NoWorker ELSE fileNamesMutex
UnlockNames(isOpen) == fileNamesMutex' = NoWorker

\* ... tries the file and unlocks; "continue" if it is not open.
openFile(w, isOpen) ==
    /\ pc[w] = "open"
    /\ taken' = taken \cup {index[w]}
    /\ UnlockNames(isOpen)
    /\ \/ /\ isOpen
          /\ counted' = counted \cup {index[w]}
          /\ pc' = [pc EXCEPT ![w] = "parse"]
          /\ UNCHANGED index
       \/ /\ ~isOpen
          /\ NextIndex(w)
          /\ pc' = [pc EXCEPT ![w] = "loop"]
          /\ UNCHANGED counted
    /\ UNCHANGED <<main, mainVars, part, rest, cell, netSummary,
                   netSummaryMutex, combined, output>>

SummariseFile(w) ==
    /\ pc[w] = "parse"
    /\ part' = [part EXCEPT ![w] = getSummary(Lines[index[w]])]
    /\ pc' = [pc EXCEPT ![w] = "lock"]
    /\ UNCHANGED <<main, mainVars, index, rest, cell, netSummary,
                   fileNamesMutex, netSummaryMutex, history, output>>

\* fault: combineSummary does not lock
NetUnguarded == TRUE
FreeNet == netSummaryMutex = NoWorker

\* combineSummary: lock ...
LockNet(w) ==
    /\ pc[w] = "lock"
    /\ FreeNet
    /\ netSummaryMutex' = w
    /\ rest' = [rest EXCEPT ![w] = DOMAIN part[w]]
    /\ pc' = [pc EXCEPT ![w] = "find"]
    /\ UNCHANGED <<main, mainVars, index, part, cell, netSummary,
                   fileNamesMutex, history, output>>

\* std::map iterates in key order.
NextTag(w) == CHOOSE tag \in rest[w] : \A other \in rest[w] : tag <= other

\* ... read the entry of the next tag, none standing for Zero ...
FindTag(w) ==
    /\ pc[w] = "find"
    /\ rest[w] # {}
    /\ cell' = [cell EXCEPT ![w] =
                   IF NextTag(w) \in DOMAIN netSummary
                   THEN netSummary[NextTag(w)]
                   ELSE Zero]
    /\ pc' = [pc EXCEPT ![w] = "store"]
    /\ UNCHANGED <<main, mainVars, index, part, rest, netSummary,
                   fileNamesMutex, netSummaryMutex, history, output>>

\* ... write it back ...
StoreTag(w) ==
    /\ pc[w] = "store"
    /\ netSummary' = Put(netSummary, NextTag(w),
                         AddEntry(cell[w], part[w][NextTag(w)]))
    /\ rest' = [rest EXCEPT ![w] = @ \ {NextTag(w)}]
    /\ pc' = [pc EXCEPT ![w] = "find"]
    /\ UNCHANGED <<main, mainVars, index, part, cell, fileNamesMutex,
                   netSummaryMutex, history, output>>

\* ... unlock, then the next file.
UnlockNet(w) ==
    /\ pc[w] = "find"
    /\ rest[w] = {}
    /\ netSummaryMutex' = NoWorker
    /\ combined' = combined \cup {index[w]}
    /\ NextIndex(w)
    /\ pc' = [pc EXCEPT ![w] = "loop"]
    /\ UNCHANGED <<main, mainVars, part, rest, cell, netSummary,
                   fileNamesMutex, taken, counted, output>>

Return(w) ==
    /\ pc[w] = "loop"
    /\ ~MoreFiles(w)
    /\ pc' = [pc EXCEPT ![w] = "exit"]
    /\ UNCHANGED <<main, mainVars, index, part, rest, cell, netSummary,
                   fileNamesMutex, netSummaryMutex, history, output>>

-----------------------------------------------------------------------------
Main ==
    \/ ParseArgs
    \/ StartThread
    \/ StartThreadThrows
    \/ AllStarted
    \/ JoinThread
    \/ printSummary

summariserFunc(w) ==
    /\ main # "terminated"
    /\ \/ LockNames(w)
       \/ \E isOpen \in BOOLEAN : openFile(w, isOpen)
       \/ SummariseFile(w)
       \/ LockNet(w)
       \/ FindTag(w)
       \/ StoreTag(w)
       \/ UnlockNet(w)
       \/ Return(w)

Ended == main \in {"done", "terminated"} /\ UNCHANGED vars

Next == Main \/ (\E w \in Workers : summariserFunc(w)) \/ Ended

Spec == Init /\ [][Next]_vars

\* The operating system runs every thread that can run.  Weak fairness is
\* enough for the mutexes: every worker takes each of them at most once per
\* file, so in the end the others stop competing.
Fairness == WF_vars(Main) /\ \A w \in Workers : WF_vars(summariserFunc(w))

FairSpec == Spec /\ Fairness

-----------------------------------------------------------------------------
(* Properties. *)

Entries == [count : Nat, sum : Int]
IsSummary(s) == \A tag \in DOMAIN s : tag \in Nat /\ s[tag] \in Entries

\* The type invariant.
TypeOK ==
    /\ main \in {"args", "start", "join", "done", "terminated"}
    /\ argc \in 1 .. MaxArgs
    /\ argv1 \in Int \cup {NotANumber}
    /\ numThreads \in Int
    /\ fileNames \in Nat
    /\ started \in 0 .. MaxThreads /\ joined \in 0 .. MaxThreads
    /\ pc \in [Workers -> {"none", "loop", "open", "parse", "lock", "find",
                           "store", "exit"}]
    /\ index \in [Workers -> Nat]
    /\ \A w \in Workers : IsSummary(part[w])
    /\ \A w \in Workers : rest[w] \subseteq DOMAIN part[w]
    /\ cell \in [Workers -> Entries]
    /\ IsSummary(netSummary)
    /\ fileNamesMutex \in Workers \cup {NoWorker}
    /\ netSummaryMutex \in Workers \cup {NoWorker}
    /\ combined \subseteq counted /\ counted \subseteq taken
    /\ taken \subseteq FileIndex

\* Whatever the uninitialised numThreads held, workers are started only for a
\* command line with at least one file for each: 0 threads would make the
\* step of summariserFunc's loop 0, and too many would leave some idle.
StartedWithFiles ==
    main \in {"start", "join"} =>
        /\ numThreads \in 1 .. fileNames
        /\ numThreads = argv1
        /\ fileNames = argc - 2

\* Two workers never have the same file in hand, and none has one that was
\* combined before: the strides of the workers partition the files.
FilesPartitioned ==
    \A w \in Workers :
        pc[w] \in {"parse", "lock", "find", "store"} =>
            /\ index[w] \in counted \ combined
            /\ \A v \in Workers \ {w} :
                   pc[v] \in {"open", "parse", "lock", "find", "store"} =>
                       index[v] # index[w]

\* Between two critical sections netSummary is the sum over the lines of the
\* files combined so far, and of no others: no update is lost.
NetIsTotal ==
    netSummaryMutex = NoWorker => netSummary = Totals(combined, Accepted)

\* The promise of SumFiles: the printed summary covers every file that could
\* be opened, each once, whatever the interleaving.
SF == INSTANCE SumFiles WITH files <- FileIndex

ImplementsSumFiles == SF!Spec

\* Liveness: the program ends, a summary being printed unless the arguments
\* are invalid or a thread could not be created.
Terminates == <>(main \in {"done", "terminated"})
=============================================================================
