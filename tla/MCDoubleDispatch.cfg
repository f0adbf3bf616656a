CONSTANTS
    d1 = d1
    c1 = c1
    o1 = o1
    NoPrinter = NoPrinter
    NumPrinters = 1
    Clients = {}
    Requests = {}
    Answers = {"up"}
    DeviceStatuses = {"IDLE", "PRINTING", "FINISHED"}
    MaxExponent = 1
    MaxJobs = 2
    Dispatchers = {d1}
    Operators = {}
    MaxCrashes = 0
SPECIFICATION Spec
PROPERTIES
    OthersStayQueued
