CONSTANTS
    Jobs = {j1}
    Workers = {w1, w2}
    TaskIds = {"t1", "t2", "t3"}
    Categories = {"qa", "tools"}
    Asked <- MCAsked
    Libraries <- MCLibraries
    MaxDeliveries = 2
    MaxCrashes = 2
    JudgeAnswers = {"scored", "http_error", "raises"}
    Faults = {"task", "commit", "publish", "process", "node", "slow", "expire"}
SPECIFICATION Spec
INVARIANTS
    TypeOK
    WholeSuites
    SuitesAnswerRequests
    OneSuitePerDelivery
    ResultIsCommitted
    SingleHolder
    SuitesNeedNodeDeaths
PROPERTIES
    EveryJobSettles
    ImplementsContract
