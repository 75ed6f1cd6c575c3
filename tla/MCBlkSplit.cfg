SPECIFICATION Spec
CONSTANTS
    r1 = r1
    r2 = r2
    r3 = r3
    NoReq = NoReq
    NoTable = NoTable
    Reqs = {r1, r2, r3}
    Chunks <- Chunks2
    Backends <- SameRings
    Grants = 9
    Others = 0
    Migrations = 2
    When = {"connected", "splitting"}
INVARIANTS StoppedIsWatched
CHECK_DEADLOCK FALSE
