CONSTANTS
    Jobs = {j1}
    Workers = {w1, w2}
    TaskIds = {"t1", "t2", "t3"}
    Categories = {"qa", "tools"}
    Asked <- OneTask
    Libraries <- GoodOnly
    MaxDeliveries = 1
    MaxCrashes = 1
    JudgeAnswers = {"scored"}
    Faults = {"process"}
SPECIFICATION Spec
PROPERTIES
    AckOnlyAfterCompletion
