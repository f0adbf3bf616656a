CONSTANTS
    n1 = n1
    n2 = n2
    MaxJobs = 2
    Names = {n1, n2}
    MaxPrints = 2
    MaxLocal = 0
    MaxTime = 2
    Outcomes = {"completed"}
    MaxRestarts = 0
    Limit = 2
    SecondsPerWeek = 1
SPECIFICATION FairSpec
PROPERTIES
    EndedJobIsRecorded
