CONSTANTS
    Runs = {r1}
    Tasks = {t1}
    Ids = {i1, i2}
    Servers = {s1, s2}
    Requests = {q1, q2, q3}
    TakesAwareTimes = TRUE
    MaxDeaths = 1
SPECIFICATION Spec
INVARIANTS
    TypeOK
    GoldenRowHasItsTest
    TestsAreWhole
    OrphansNeedFaults
PROPERTIES
    EveryRequestEnds
