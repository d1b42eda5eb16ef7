CONSTANTS
    Clients = {q1}
    RunKinds <- FastSlowTimeout
    HistoryDays = {1, 2}
    TakesAwareTimes = TRUE
    TicksPerDay = 2
    MaxClock = 4
    MaxSuite = 2
    MaxRuns = 3
    Faults = {"read"}
SPECIFICATION Spec
INVARIANTS
    TypeOK
    AnswersAreSnapshots
    HistoryCoversWindow
    AggregatesAreRight
PROPERTIES
    EveryRequestIsAnswered
