CONSTANTS
    d1 = d1
    c1 = c1
    o1 = o1
    NoPrinter = NoPrinter
    NumPrinters = 1
    Clients = {c1}
    Requests = {"confirm"}
    Answers = {"up", "down"}
    DeviceStatuses = {"IDLE", "PRINTING", "FINISHED"}
    MaxExponent = 1
    MaxJobs = 1
    Dispatchers = {d1}
    Operators = {}
    MaxCrashes = 1
SPECIFICATION FairSpec
INVARIANTS
    LockedPrinterGetsNoJob
PROPERTIES
    IdlePrinterIsFed
