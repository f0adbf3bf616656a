CONSTANTS
    p1 = p1
    p2 = p2
    d1 = d1
    d2 = d2
    o1 = o1
    NoPrinter = NoPrinter
    Printers = {p1, p2}
    JobQueuePrinters = {p2}
    MaxJobs = 2
    Dispatchers = {d1}
    Operators = {o1}
    MaxNativeRuns = 1
    MaxCrashes = 0
SPECIFICATION Spec
CONSTRAINT QueuePrintersIdle
INVARIANTS
    IInv
PROPERTIES
    ReorderedJobsGoFirst
    ImplementsLifecycle
