CONSTANTS
    Tasks = {t1}
    ToolTasks = {}
    Runs = {good, bad}
    Good = {good}
    Handlers = {h1}
    MaxSize = 2
    MaxCost = 2
    Estimate = 1
    ModelScores = {0, 1, 2}
    MaxRestarts = 0
    CallCost = 1
    MaxPairwise = 0
    MaxLost = 1
    Endpoints = {"evaluate"}
SPECIFICATION Spec
INVARIANTS
    RecallsOwnTrajectory
