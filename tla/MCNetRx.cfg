CONSTANTS
    Size = 5
    Wrap = 10
    MinTarget = 4
    MaxTarget = 5
    Weight = 1
    OtherCpu = FALSE
    When = {}
    Mishaps = 2
SPECIFICATION Spec
INVARIANTS BuffersInWindow ResponsesSeen StarvedIsWatched
