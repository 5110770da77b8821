-------------------------------- MODULE Args --------------------------------
(***************************************************************************)
(* The command line of the example program (sum_program/args.cpp): a       *)
(* number of threads, then the names of the files.  std::stoi is not part  *)
(* of the repository: the thread argument is the integer it returns, or    *)
(* NotANumber where it throws.                                             *)
(***************************************************************************)
EXTENDS Integers

CONSTANT NotANumber  \* an argument std::stoi or std::stod cannot convert

validNumberArgs(argc) == argc >= 3

stoiThrows(threads) == threads = NotANumber

setThreads(argc, threads) ==
    /\ ~stoiThrows(threads)
    /\ threads > 0
    /\ threads <= argc - 2

\* The constructor.  numThreads has no initialiser: garbage is what the stack
\* held, and stays where an early return comes before the assignment.
args(argc, threads, garbage) ==
    [numThreads |-> IF validNumberArgs(argc) /\ ~stoiThrows(threads)
                    THEN threads
                    ELSE garbage,
     fileNames  |-> IF validNumberArgs(argc) /\ setThreads(argc, threads)
                    THEN argc - 2
                    ELSE 0]

\* fault: the check trusts that numThreads was set
OnlyPositive(a) == a.numThreads > 0

isValid(a) == a.numThreads > 0 /\ a.numThreads <= a.fileNames
=============================================================================
