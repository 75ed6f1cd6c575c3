SPECIFICATION FairSpec
CONSTANTS
    c1 = c1
    w1 = w1
    NoOne = NoOne
    Clients = {c1}
    Watches = {w1}
    Ops = 3
    Changes = 1
    Suspends = 1
INVARIANTS ReplyMatches TransactionsKnown NoEventLost NoCallbackAfter
PROPERTY Ends
CHECK_DEADLOCK FALSE
