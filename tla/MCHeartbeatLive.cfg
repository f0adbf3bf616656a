CONSTANTS
    c1 = c1
    c2 = c2
    NumPrinters = 2
    Clients = {c1}
    Requests = {"list"}
    Answers = {"up", "down", "odd"}
    DeviceStatuses = {"IDLE", "PRINTING"}
    MaxRestarts = 0
    MaxExponent = 1
SPECIFICATION FairSpec
CONSTRAINT OddFirst
PROPERTIES
    StatusConverges
