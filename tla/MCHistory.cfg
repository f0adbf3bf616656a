CONSTANTS
    n1 = n1
    n2 = n2
    MaxJobs = 2
    Names = {n1, n2}
    MaxPrints = 2
    MaxLocal = 1
    MaxTime = 1
    Outcomes = {"completed", "error"}
    MaxRestarts = 1
    Limit = 2
    SecondsPerWeek = 1
SPECIFICATION FairSpec
CONSTRAINTS
    FirstNameFixed
    OneTimeMissing
INVARIANTS
    IInv
    UnambiguousRecordIsRight
    RecordsAreDistinct
    RunTimeHasPassed
    ReportsAddUp
PROPERTIES
    FirstEndIsRecorded
