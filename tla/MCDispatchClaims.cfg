CONSTANTS
    p1 = p1
    p2 = p2
    d1 = d1
    d2 = d2
    o1 = o1
    NoPrinter = NoPrinter
    Printers = {p1}
    JobQueuePrinters = {}
    MaxJobs = 2
    Dispatchers = {d1, d2}
    Operators = {}
    MaxNativeRuns = 0
    MaxCrashes = 1
SPECIFICATION FairSpec
CONSTRAINT NoneCancelled
INVARIANTS
    TypeOK
    StartedAtMostOnce
    OneRecordPerJob
    RecordMatchesStatus
    IInv
PROPERTIES
    ClaimedInUploadOrder
    QueuedJobIsDispatched
    ImplementsLifecycle
