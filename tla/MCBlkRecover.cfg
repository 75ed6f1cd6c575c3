SPECIFICATION FairSpec
CONSTANTS
    r1 = r1
    r2 = r2
    r3 = r3
    NoReq = NoReq
    NoTable = NoTable
    Reqs = {r1, r2}
    Chunks <- Chunks2
    Backends <- Hosts
    Grants = 5
    Others = 2
    Migrations = 2
    When = {"connected"}
INVARIANTS PendingHeld  RecoveredFirst StoppedIsWatched
PROPERTIES Device AllEnded
CHECK_DEADLOCK FALSE
