CONSTANTS
    p1 = p1
    None = None
    Printers = {p1}
    Statuses = {"IDLE", "ERROR", "OFFLINE"}
    MaxExponent = 1
    MaxChanges = 2
    MaxRestarts = 1
SPECIFICATION FairSpec
INVARIANTS
    IInv
    NoLostWakeup
PROPERTIES
    EachAlertIsNews
    ReachableIsShown
    AlertIsRecorded
