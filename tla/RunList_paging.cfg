SPECIFICATION Spec
CONSTANTS
    RunIds = {1, 2, 3, 4}
    Started <- MCStarted
    Clients = {"c1"}
    Limits = {1, 2}
INVARIANTS
    TypeOK
    NoRunIsMissed
    RepeatsAreNewRuns
    ListedRunsAreFound
