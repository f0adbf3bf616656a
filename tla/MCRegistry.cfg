CONSTANTS
    h1 = h1
    h2 = h2
    c1 = c1
    c2 = c2
    NoHost = NoHost
    Hosts = {h1, h2}
    Clients = {c1, c2}
    Statuses = {"IDLE", "PRINTING"}
    Outcomes = {"failed"}
    TimesLeft = {0}
    MaxPrinters = 2
    MaxJobs = 2
    MaxRestarts = 1
    Budget = 2
SPECIFICATION Spec
SYMMETRY Interchangeable
CONSTRAINT WithinBudget
INVARIANTS
    IInv
    IdsNameOnePrinter
    JobsHaveTheirPrinter
    ChosenQueueIsShortest
