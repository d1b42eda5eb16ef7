CONSTANTS
    MaxCalls = 5
    LogMayFail = TRUE
    StoreMayFail = TRUE
SPECIFICATION Spec
INVARIANTS
    TypeOK
    PassIffTrajectory
    StoredTrajectoryComplete
    AgentNeverAbortsSuite
    LateHooksAreHarmless
PROPERTIES
    Terminates
    ImplementsLifecycle
