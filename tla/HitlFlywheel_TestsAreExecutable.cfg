CONSTANTS
    Runs = {r1}
    Tasks = {t1}
    Ids = {i1, i2}
    Servers = {s1}
    Requests = {q1}
    TakesAwareTimes = TRUE
    MaxDeaths = 0
SPECIFICATION Spec
INVARIANTS
    TestsAreExecutable
