CONSTANTS
    Size = 2
    Wrap = 8
SPECIFICATION FairSpec
INVARIANTS EntriesIntact NobodySleepsOnWork
PROPERTIES AllAnswered
