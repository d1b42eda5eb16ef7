CONSTANTS
    Jobs = {j1, j2}
    Workers = {w1, w2}
    TaskIds = {"t1", "t2", "t3"}
    Categories = {"qa", "tools"}
    Asked <- OneTask
    Libraries <- GoodOnly
    MaxDeliveries = 1
    MaxCrashes = 0
    JudgeAnswers = {"scored"}
    Faults = {}
SPECIFICATION Spec
PROPERTIES
    EveryJobSucceeds
