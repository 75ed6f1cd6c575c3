CONSTANTS
    blk = blk
    net = net
    Clients = {blk, net}
    Uses <- TwoDrivers
    Faults = {"nomem", "resume"}
    MaxFrames = 2
    EntriesPerFrame = 2
    NReserved = 1
    MaxBatch = 1
    DeferBatch = 1
    NoRef = NoRef
SPECIFICATION FairSpec
CHECK_DEADLOCK FALSE
INVARIANTS OneOwner NoLostWakeup UnownedIsClosed
PROPERTIES ParkedReclaimed
