\* Up to four files and three workers: one worker has two files.
CONSTANTS
    NotANumber = NotANumber
    NoWorker = NoWorker
    NoOutput = NoOutput
    INT_MAX = 7
    MaxArgs = 6
    MaxThreads = 3
    Lines <- SharedTag
SPECIFICATION FairSpec
INVARIANTS
    TypeOK
    StartedWithFiles
    FilesPartitioned
    NetIsTotal
PROPERTIES
    ImplementsSumFiles
    Terminates
