SPECIFICATION FairSpec
CONSTANTS
    store = store
    blk = blk
    None = None
    Bits = 2
    Words = 2
    NIrqs = 2
    Drivers = {store, blk}
    Callers = {store}
    CallerPort <- StorePort
    MaxResumes = 1
INVARIANTS NoCallAfterUnbind NoEventLost
PROPERTIES Served
