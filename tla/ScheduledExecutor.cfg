SPECIFICATION FairSpec
CONSTANTS
    Jobs = {j1, j2}
    MaxTime = 1
    MaxStops = 1
INVARIANTS
    NeverEarly
    RunOrder
PROPERTY EventuallyRuns
CHECK_DEADLOCK FALSE
