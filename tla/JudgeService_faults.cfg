CONSTANTS
    Tasks = {t1, t2, t3}
    ToolTasks = {t3}
    Runs = {good}
    Good = {good}
    Handlers = {h1, h2}
    MaxSize = 2
    MaxCost = 1
    Estimate = 1
    CallCost = 1
    ModelScores = {2}
    MaxRestarts = 1
    MaxPairwise = 1
    MaxLost = 1
    Endpoints = {"evaluate", "pairwise", "clear"}
SPECIFICATION Spec
INVARIANTS
    TypeOK
    CacheIsLRU
    BilledBounded
PROPERTIES
    ImplementsMemo
    EveryCallLands
