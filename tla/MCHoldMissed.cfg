CONSTANTS
    c1 = c1
    c2 = c2
    NumPrinters = 1
    Clients = {c1}
    Requests = {"list"}
    Answers = {"up"}
    DeviceStatuses = {"IDLE", "PRINTING", "PAUSED", "FINISHED", "STOPPED", "ERROR", "OFFLINE"}
    MaxRestarts = 0
    MaxExponent = 1
SPECIFICATION Spec
PROPERTIES
    ObservedEndIsLocked
