\* Two threads, a buffer of two entries and blocks of up to two instructions:
\* the buffer fills completely.  One library besides the executable.
CONSTANTS
    t1 = t1
    t2 = t2
    Threads = {t1, t2}
    NoThread = NoThread
    BUF_ENTRIES = 2
    MaxBlock = 2
    MaxInstr = 3
    Lib = Lib
    Main = Main
    Libraries = {Main, Lib}
    Programs <- Calls
SPECIFICATION FairModulesSpec
INVARIANTS
    TypeOK
    BufferBound
    InOrderOnce
    InterleavedMatches
    FlushInv
    ModuleLoaded
PROPERTIES
    ImplementsTraceLog
    EventuallyLogged
    EveryTraceCloses
