CONSTANTS
    Jobs = {j1, j2}
    Suites = {s1, s2}
    Clients = {c1}
    Ticks = 3
    Faults = {"redis", "network"}
SPECIFICATION Spec
INVARIANTS
    TypeOK
    OneOutcome
    ToldIsCommitted
PROPERTIES
    ResultIsTold
    EveryStreamEnds
