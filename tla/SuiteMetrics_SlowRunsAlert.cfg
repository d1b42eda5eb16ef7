CONSTANTS
    Clients = {q1}
    RunKinds <- FastSlowTimeout
    HistoryDays = {1}
    TakesAwareTimes = TRUE
    TicksPerDay = 2
    MaxClock = 3
    MaxSuite = 2
    MaxRuns = 3
    Faults = {}
SPECIFICATION Spec
INVARIANTS
    SlowRunsAlert
