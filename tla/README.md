# TLA+ models of pctda

The repository holds a DynamoRIO client that traces a program into JSON log
files (`json_tracer/`) and a multi-threaded example program to trace
(`sum_program/`). This directory models both, checks them with TLC and proves
with TLAPS every safety property that a passing run checks, but for two of the
debugging information reader.

```
tlc -config Tracer.cfg MCTracerModules     # a run; PROJECT.json lists all
tlapm TracerProofs.tla                     # one of eight modules of proofs
```

## Inventory

| Part | State | Operations | What is hard | What makes it correct |
|---|---|---|---|---|
| Tracer (`tracer.c`) | per thread: a buffer of 1024 entries, a raw TLS slot that points at the next free one, a log file; per process: the interleaved log and its mutex | thread init and exit events, the basic-block event, the flush `outputInstr`, module load and unload, process exit | unchecked buffer; flush under a lock that all threads share, around reads and writes outside it; blocks cut short by faults; shutdown while threads wait; an entry's module is looked up at the flush, when it may be gone | nothing recorded is lost, repeated or reordered; both logs agree; every log is completed |
| Instrumentation (`insert_instrumentation.c`) | two scratch registers, the slot being filled | save pc, opcode and operands inline; direct calls by a clean call | the registers borrowed may be those of the instruction; slots are reused without clearing | values are the application's, of this instruction; the application's registers are restored |
| JSON writer (`json_writer.c`) | `firstLine`, debugging information, the frame of the last main-module entry | open, write, write interleaved, close | text is never read back; the shared log mixes threads | documents are JSON; variables are looked up in the right frame |
| Variable lookup (`debug_info_client.c`) | none (the loaded library) | `getVariableInfo` | pointer, signed and unsigned arithmetic | the variable found is the one at the address |
| Debugging information reader (`debug_info.c`) | growing arrays of functions, variables, types | read all compilation units, assemble entries from attributes, free | failing conversions, allocations and calls of libdwarf; names derived from other types, strings owned by several entries | stored entries are those of the file; arrays are not overrun; each string is freed once |
| Example program (`sum_program/`) | command line, shared map, two mutexes, workers | parse arguments, start and join workers, summarise and combine files, print | distribution of the files, lost updates, threads that cannot be created | the printed summary covers each readable file once |

The tracer's threads call the instrumentation (code generated into their
blocks), which fills the buffer; the flush reads it and calls the JSON writer,
which calls the lookup for memory operands. DynamoRIO (events, clean calls,
drreg, safe points), libdwarf and the C++ library are external. `PROJECT.json`
lists the hazards of each part at the line where they bite.

## Modules

| Module | Models | State and actions against the code |
|---|---|---|
| `TraceLog` | what the tracer promises, with no buffer and no lock | `Record`, `Log`, `Close`: an entry goes to both logs, a log is closed only when complete |
| `Tracer` | `tracer.c`, the recording half of `insert_instrumentation.c` | `slots`, `tlsPtr`: `data->buf` and the TLS slot; `bufEnd`, `curr`: the locals of `outputInstr`; `FirstInstr`, `LaterInstr`: one instrumented instruction, the first of a block followed by the clean call; the six steps of `outputInstr`; `StopWaiting`: DynamoRIO stops a thread that waits for the lock, abandons its flush and runs its exit event |
| `TracerModules` | `Tracer` among libraries that come and go (`eventModuleLoad`, `eventModuleUnload`, the look-up in `writeTraceEntry`) | `program`: the libraries whose code each thread runs; `modules`: which are loaded; every step is a step of `Tracer`, a load or an unload |
| `EntrySlot` | the union of `trace_entry.h`, what each `save...` writes and each `write...` reads | `words` records for each word of a slot which instruction wrote it |
| `ScratchRegs` | `createInstrContext`, `ensureNotUsing` and their callers | `content`: whose value a register has; generation and execution of the straight-line code are one step |
| `JsonWriter` | `json_writer.c` | `doc`: where the document stands for a reader of the tokens printed; `firstLine`, `info`, `frame`: fields of `json_trace_t`; an entry is written to both files in one step, which `Tracer` justifies |
| `VariableLookup` | `getVariableInfo` | one call for each step, compared with a reference in unbounded integers |
| `DwarfEntries` | `getTypeEntry`, `getVarEntry`, `getLocalVarEntry`, `getFuncEntry`, the `append...` functions of `debug_info.c` | operators: the loops over attributes and over a function's children, with the set of the allocations and calls that fail as an argument |
| `DebugIndex` | what the reader promises, with no attributes, arrays or pointers | `Keep`, `Skip`: an entry of the file is kept or describes nothing; `Again`: an error leads back to what was read before; `GiveUp`, `Finish`, `Destroy` |
| `DebugInfo` | the rest of `debug_info.c` | `cu`, `child`: the loops of `populateDebugInfo` and `addCU`; `turn`: the handle of the unit's root, a new one whenever libdwarf gives it; `info`: the three arrays of `debug_info_t`; `held`: the memory not freed; `lost`, `unread`: the allocations and the libdwarf calls that failed; one action per function that allocates, reads or frees, and one for each way out of `getNextCURootDie` (`nextCU`, `sameCU`, `finish`) |
| `Args`, `FileSummary` | `args.cpp`; `parseLine` and `getSummary` | operators, and the reference totals |
| `SumFiles` | what the example program promises, with no threads | `Take`: a file is read or found unreadable; `Report`: the totals of the files read |
| `Summariser` | `summariser.cpp`, `main.cpp` | `pc[w]`: the statement of worker `w`; a combination reads and writes one map entry in two steps, so that only the mutex makes it atomic |
| `MC...` | instances for TLC | constants, symmetry, example programs and files |
| `...Proofs` | the theorems about the module of that name (`TracerProofs`: about `Tracer` and `TracerModules`) | see Proofs |
| `Induction` | nothing: induction over numbers and finite sets, and runs of recursive functions, for the proofs | see Proofs |

Operators marked "fault" are no part of a model. Each is a wrong version of
the definition after it: put in its place, it makes a property fail, which
shows that the property says something about that line of code.

## Runs

| Run | Bounds | Shows |
|---|---|---|
| `Tracer` | 2 threads, buffer and blocks of 2, 3 instructions per thread, 1 library, 3 programs | types, `BufferBound`, `InOrderOnce`, `InterleavedMatches`, the inductive `FlushInv`, `ModuleLoaded`, refinement of `TraceLog`; every recorded entry reaches both logs and every log is closed |
| `EntrySlot_stale` | 2 slots, 4 instructions | only three printed fields can be stale: the value of a PC-relative operand, the value of a register that is not general purpose, the source flag of a call target. They *are* stale in some behaviours, although README.md:26 promises values "from immediately before executing the instruction" |
| `ScratchRegs_safety` | 5 registers, 3 operands, any number of instructions | the entry's address survives; only scratch registers are overwritten |
| `ScratchRegs_avoid` | 1 operand | **fails**: insert_instrumentation.c:409 excludes the wrong register |
| `ScratchRegs_base` | 1 operand | **fails**: the base register is stored before the scratch registers move away from it |
| `JsonWriter_document` | 2 threads, operand lists up to 2, with and without debugging information, any `fdopen` failing | both logs are JSON at every moment; a thread's own log keeps its own frame |
| `JsonWriter_frame` | 1 operand | **fails**: the interleaved log looks variables up in another thread's frame |
| `VariableLookup_exact` | pointers of 64 values, ints of 16, every address | exact below the frame base and outside functions with variables |
| `VariableLookup_any` | the same | **fails**: a static variable is taken for a local one |
| `DebugInfo` | 3 executables, arrays of 1 entry; one allocation and up to two calls of `dwarf_child`, `dwarf_siblingof_b` and `dwarf_next_cu_header_d` fail, attributes that cannot be read are in the data | what is kept is what the file describes, under the names that the code gives to types (`Reported`); each entry owns its strings; what is freed and what leaks; the cause of each misuse of memory; refinement of `DebugIndex` |
| `DebugInfo_vars` | 1 executable, nothing fails | **fails**: variables whose type has no size or no name of its own are missing, and an unnamed enumeration is taken for a pointer type |
| `Summariser` | up to 4 files, 3 workers, every `argc`, thread argument and initial garbage | each readable file counts once; no update is lost; refinement of `SumFiles`; the program ends |

A run that fails checks one sentence of a comment or of the README against the
code; the finding in `PROJECT.json` quotes it. Other divergences and defects
are modelled without a run of their own:

- an indirect call leaves no entry (README.md:22 says "one entry per
  instruction"; kind `"indirect"` of `Tracer`);
- a line whose tag is above `INT_MAX` is ignored (README.md:6 says "unsigned
  integer"; `Accepted` of `FileSummary`, next to `WellFormed`);
- the process crashes when a log is closed if the main module has no debugging
  information (json_writer.c:74, debug_info.c:206; debug_info.h:44-45 says
  getDebugInfo may return NULL; `crashed` of `JsonWriter`);
- locals of nested blocks are missed: `fillFuncVars` reads the children of a
  function, not theirs;
- `destroyDebugInfo` leaks the paths of the units and the type names of locals
  (`LeaksKnown`), and nothing keeps hold of the strings of an entry that was
  given up (`GivenUpLeaks`);
- when NULL is returned, the session and the record are given back but no array
  and no entry (`LeaksKnown`);
- when `reallocarray` fails, the capacity has already been doubled, and later
  entries are written past the array; when `realloc` fails, NULL is written to;
  when `dwarf_child` fails, an uninitialised DIE is read; a unit without a
  directory or a name crashes `getCUFilePath` (`UndefinedKnown` has all four). An
  enumeration whose own name cannot be copied is named for its underlying type,
  as a pointer (`Renamed`);
- a function keeps its first locals when libdwarf cannot find the sibling of one
  of them (`Cut`), and a unit is read again, its entries being kept twice, when
  the header of the next one cannot be read (`Again`). A root that cannot be read
  is taken for the end of the file: debug_info.h:45 says "returning NULL on
  error", but what was read so far is returned (`finish`).

The information about variables is compared twice. `TypeText`, `TypeSize` and
`DescribedVars` say what C has, from the tags of the DIEs, which the code never
reads; against these `DebugInfo_vars` fails. `Reported`
says which of the types the code names, and how: the refinement of `DebugIndex`
is of the entries as `Reported` has them, in the order of the file, with every
failure.

Why the bounds are enough. *Tracer*: the buffer bound is reached, threads
interleave in every step of a flush, and each thread flushes several times, so
that slots are reused. A library that is unloaded is not loaded again: a second
load adds a module for which nothing is waiting. The programs are a thread that
calls a library and returns, next to one that enters it; two threads in it in
turn; and one that ends in it. The proofs drop all of these bounds but the one
on loading again.
*DebugInfo*: arrays of one entry grow at almost every append; the executables
have a type of every sort, in the attribute order of GCC, functions with and
without name, end and locals, and attributes that cannot be converted. One
failing allocation suffices for each place of a failure, because what an entry
may lose does not depend on the others; two failing calls read a unit a second
time and fail in it again. Among the allocations and calls for one DIE only one
fails. Handles have the number of the turn in which they were given, so that
a unit read again makes new strings.
*EntrySlot*: operands have words of their own, and a stale word needs two uses
of a slot; the proofs drop the bounds.
*ScratchRegs*: nothing tells registers apart but the one with the number of
line 409 and RBP; the state returns to its start after each instruction, so
that all behaviours are covered. *JsonWriter*: a document's state does not
grow. *VariableLookup*: all addresses are enumerated; the ratio of the widths
is what matters, and the module is further from the stack than an int can say,
as in a real process; the proofs hold for all ranges of values. *Summariser*: four files on three workers give one
worker two files; two workers with four give both two.

## Fairness

`Tracer`, and `TracerModules` with it: the operating system schedules every
thread that can run (weak fairness of each thread's steps), and programs are
finite, so that a thread that executes no more instructions exits, as does one
whose next library is gone. Loads and unloads are not fair: nothing waits for
them. Weak fairness is enough for the mutex: the others can take it only
finitely often. `Summariser`: weak fairness of main and of each worker, for the
same reason.

## Proofs

`TracerProofs` proves, for any threads, any buffer size and any run length:

- `TypeCorrect`, `FlushCorrect`, `NoOverflow`: `Spec => []TypeOK`,
  `[]FlushInv`, `[]BufferBound`;
- `EveryEntryInOrder`: `[]InOrderOnce`; `TracesAgree`: `[]InterleavedMatches`;
- `Refinement`: `Spec => ImplementsTraceLog`.

The only assumption is `TracerAssumption`: no thread is `NoThread`, and no
basic block has more instructions than the buffer has entries (DynamoRIO
bounds the size of a block; `tracer.c:12` sets the buffer to 1024 entries).
Without it `BufferBound` is false.

`BufferBound` is not inductive: it does not say how full the buffer may be
when a block starts, or that the reset after a flush restores room. `FlushInv`
does. It is the conjunction of `Exclusion` (a thread is between lock and
unlock exactly if it holds the mutex), `HeaderOwner` (the thread id at the end
of the interleaved log is the writer's), `Room` (buffer and rest of the block
fit together) and `FlushWindow` (the end of the buffer read before the lock is
still right, and `curr` is inside). `TypeOK /\ FlushInv` is inductive:
`SafeInit`, `TypeStep`, `FlushStep`. `InOrderOnce` and `InterleavedMatches` are
inductive relative to it (`OrderStep`, `MatchStep`), and the step lemma of the
refinement uses all of them: each step of `Tracer` is a `Record`, `Log`,
`Open` or `Close` of `TraceLog` or leaves its variables unchanged.

`TracerProofs` also proves, for any threads, libraries and programs, `Composition`
(`ModulesSpec => Spec`), so that everything above holds among libraries that
come and go, and `EntriesHaveModules` (`[]ModuleLoaded`). `ModulesInv`
strengthens `ModuleLoaded`: while the process runs, the entries that wait are
of libraries that their thread is in, because the flush at the head of a block
empties the buffer before a thread runs code of another library. What is
assumed of the program is in `eventModuleUnload`: it unloads no library that a
thread is in.

`ScratchRegsProofs` proves, for any set of registers, any choice of drreg and
any sequence of operands: `PointerSurvives` (`[]PointerKept`),
`ApplicationPreserved` (`[]OthersUntouched`) and `RegisterOperandsFree`
(`[]RegisterOperandFree`), from `ScratchRegsAssumption` (RAX and RBP are
registers, `NoReg` is none). The inductive invariant `ScratchInv` adds to these
three `RegisterOperandMoved`: between the two halves of `ensureNotUsing` the
pointer register is already clear of a register operand. The same statement is
false for address operands, which is what `ScratchRegs_avoid` shows.
`OperandsMoved` and `ScratchTypes` state that property and `[]TypeOK`.

`EntrySlotProofs` proves `SlotTypes` (`[]TypeOK`) and `StaleFields`
(`[]StaleFieldsKnown`) for any buffer, number of operands and length of run.
`StaleFieldsKnown` speaks of what was printed; the inductive `SlotsInv` adds
that every word saved for an entry that waits is that entry's own.
`PrintedWords` compares the saving and the printing functions kind by kind.

**Recursion.** The code's loops over attributes, children, lines and tokens are
recursive functions or folds. The library's induction theorems take an operator
as a parameter, which the provers cannot instantiate; `Induction` states them
for a set instead, the set of the numbers that have the property
(`SetInduction`, from the well-foundedness of `<`), and for the subsets of a
finite set (`SizeInduction`). `RecursionExists` gives every recursion a run:
the sequence of the values that it goes through, related by its step. The
proofs below argue about runs.

`SummariserProofs`, for any number of arguments, threads, files and lines:

- `EveryWorkerHasAFile` (`[]StartedWithFiles`) and `FilesShared`
  (`[]FilesPartitioned`). `StridesInv` says that the index of worker `w` is
  `w + k * numThreads` for some `k`, and that every combined file lies behind
  the worker that combined it; `StridesDisjoint` is the arithmetic.
- `SumsCorrect` (`[]SumsInv`), `NoUpdateLost` (`[]NetIsTotal`) and
  `SummariserTypes` (`[]TypeOK`). `netSummary` is compared with the totals of a
  set of lines, in no order: those of the files combined, and, while a worker
  holds the mutex, of the tags that it has combined so far. `MapThenSumSet` over
  a set is shown not to depend on the order in which it is folded.
- `WorkersProgress` (`[]DoneInv`) and from it `PrintsTotals`
  (`Spec => ImplementsSumFiles`): no worker leaves out a file of its stride, and
  one that has exited has nothing in its hands, so that what main prints after
  the last join are the totals of all the files that could be read.

`SummariserAssumption` bounds the constants; `LinesAssumption` says what a line
can be: any integers or none for its tag and value, rightly ended or not.

`JsonWriterProofs`, for any threads and lists of operands of any length:
`FramesOwned` (`[]OwnFrame`), `DocumentsFollowed` (`[]DocsInv`),
`DocumentsWellFormed` (`[]WellFormed`) and `WriterTypes` (`[]TypeOK`).
`WellFormed` says where a reader of JSON is between two entries: in the array,
before a comma exactly if `firstLine` is false; and that a closed log is a whole
document. `DocsInv` adds what a crash leaves: a log that was open is as it was or
complete. `Leads(s, d, e)` says that the text `s` takes the reader
from `d` to `e`, and is composed piece by piece from tokens to entries.

`VariableLookupProofs`, for any widths, any debugging information and any
address: `ExactBelow` (`[]ExactBelowBase`) and `ExactOutside`
(`[]ExactOutsideFunctions`). It compares C's arithmetic, with its wrapping,
cutting and unsigned comparison, with that of integers. `InModule` and
`InFrame` are its assumptions about an executable: the main module does not
reach across the end of the address space, sizes fit an unsigned and offsets
an int; and a local of a function either ends below its frame base or, like a
parameter passed on the stack, begins at or above it, because on x86-64 the
return address lies between the two. The numbers of values of pointers and ints
are constants, instead of their widths, so that no power of two is in the way of
the provers.

`DebugInfoProofs`, for any executable that libdwarf can read, any
`MIN_CAPACITY`, and any allocation or call of libdwarf that fails at each DIE:

- `ReaderTypes` (`[]TypeOK`): what is kept has all that its kind needs;
- `ArraysHold` (`[]ArraysSound`): no entry is outside its array, unless that very
  array could not be grown. That an array grows before the next entry is stored
  is `AppendSound`;
- `UndefinedBehaviour` (`[]UndefinedKnown`): each misuse of memory has its cause.
  A crash: the unit has no directory or name, or the name of a type of this very
  DIE could not be made longer. A write past an array: that array could not be
  grown before. An uninitialised DIE: `dwarf_child` failed for this one;
- `StringsOwned` (`[]EntriesOwnTheirStrings`), `FreesOnce` (`[]FreedOnce`) and
  `LeaksAre` (`[]LeaksKnown`, after `destroyDebugInfo` and after a NULL).

The invariant of the first three is `ReaderInv`. A loop over attributes is a run
whose step is named by `StepOf`, so that one lemma serves all of them.
`getTypeEntry` calls itself for the type referred to; `TypeFound`, what it
returns, is shown by induction over the types that are not settled yet, of which
one refers to settled types only. The last three need `OwnInv`, relative to
`ReaderInv`. "No two entries share a string" is not inductive, for it does not
say that the strings of the next DIE are new. `StoredApart` does: every string
of an entry is one of a handle that has been read (`WasRead`), namely of the DIE
the entry was made of or of a child of it (`EntryOwned`); a unit that is read
again has handles of a later turn. `Memory` says what is
allocated at each place of the reader. With the two, `destroyDebugInfo` flattens
lists of strings that have nothing in common (`Flattened`, `AllFreed`), and what
remains of them are the names of the locals' types (`LeftOver`).

`ProgramsAssumption` says what an executable is. Attributes and children are
sequences; a reference leads to a type (`IsDie`); no chain of references comes
back to where it began (`AreTypes`), as a structure that points at itself does so
through its members, which are children of its DIE and which the reader does not
follow; no DIE is in two places of a unit (`IsEntry`, `IsUnit`); what the code
takes for a type is one; and a high pc is a length or an address.

**Only model-checked.** Liveness (`EventuallyLogged`, `EveryTraceCloses`,
`Terminates`), which needs fairness and `ENABLED`, and these the prover does not
handle; `ImplementsDebugIndex`, that an entry kept has the name, the type and the size
that the file gives it; and `GivenUpLeaks`, that what `destroyDebugInfo` leaves of
entries that were kept are type names of locals only. The references of the
first do not care for the order of the attributes and the code does (`SetLow`,
`Refer`), and the second would be false for a type whose name came after its
reference to another type; a proof of either needs conditions on that order
first. All other
properties of the passing runs are theorems.

## What is not modelled

- JSON escaping and symbol lookup: wording of the logs.
- Code outside every module (generated code): the look-up of its module fails
  in the flush that follows, whatever else happens.
- The loading of `libdebuginfo.so` (`ensureLoaded`): each call loads a private
  copy again and stores its handle in a variable all threads share; every copy
  has the same routines, so that no order of the stores can be wrong.
- A list of attributes that libdwarf cannot read is that of a DIE with none; what
  happens after an uninitialised DIE is read, or memory is misused otherwise.
- That getDebugInfo does not return if the header of a unit can never be read:
  `sameCU` is the step that is repeated, `MaxErrors` bounds how often.
- An error in the middle of a file of the example program ends its loop as the
  end of the file does (summariser.cpp:103): `Lines` are the lines up to it.
- A high pc that is an address (before DWARF 4) is in `SetHigh`, where it is
  subtracted the wrong way round as in debug_info.c:820, but no executable of
  the run has one.
- Rounding of sums of doubles, and what DynamoRIO does inside. The model of
  drreg assumes its most favourable behaviour: that a register given back holds
  the application's value at once.
- A composition of `Tracer` and `JsonWriter`: `JsonWriter` writes an entry to
  its two files in one step, which the mutex of `Tracer` (`InterleavedMatches`)
  justifies, so that the composition would show nothing that the two do not.
- Build files and example data have no behaviour of their own.

## Plan

Done, in this order: `TraceLog`, `Tracer` and its proofs; `EntrySlot`,
`ScratchRegs`, `JsonWriter`, `VariableLookup`; `Args`, `FileSummary`,
`SumFiles`, `Summariser`; `DwarfEntries`, `DebugIndex`, `DebugInfo`;
`TracerModules`; the proofs of all these.

Left: executables in the DWARF of other compilers, with addresses for high pcs;
more than one failing allocation for a DIE; `ImplementsDebugIndex` and
`GivenUpLeaks` as theorems, from conditions on the order of attributes that
compilers keep.
