SPECIFICATION FairSpec
CONSTANTS
    c1 = c1
    c2 = c2
    process = process
    errors = errors
    NoCmd = NoCmd
    NoId = NoId
    Cmds = {c1, c2}
    Long = {c2}
    Resetters = {process, errors}
    Interruptible = {process}
    MaxReqs = 2
    Hosts <- TwoHosts
    Failures = 1
    Resets = 1
    Suspends = 1
    When = {}
INVARIANTS  IdsKept
PROPERTIES Device Returns
CHECK_DEADLOCK FALSE
