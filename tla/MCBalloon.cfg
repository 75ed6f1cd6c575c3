SPECIFICATION FairSpec
CONSTANTS
    u1 = u1
    Watch = Watch
    Total = 6
    Floor = 2
    Batch = 2
    Users = {u1}
    Targets = {0, 3, 9}
    Writes = 2
    Failures = 1
    When = {}
INVARIANTS NotForgotten
 
CHECK_DEADLOCK FALSE
