CONSTANTS
    c1 = c1
    c2 = c2
    NumPrinters = 1
    Clients = {c1}
    Requests = {"start", "pause", "resume", "cancel", "emergency_stop", "power_on", "power_off", "list", "confirm"}
    Answers = {"up", "down", "odd"}
    DeviceStatuses = {"IDLE", "PRINTING", "PAUSED", "FINISHED", "STOPPED", "OFFLINE"}
    MaxRestarts = 1
    MaxExponent = 1
SPECIFICATION Spec
INVARIANTS
    IInv
PROPERTIES
    HoldIsNeverLost
