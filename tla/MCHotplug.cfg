\* A disk that is plugged in twice, two users, a migration.
SPECIFICATION FairSpec
CONSTANTS
    u1 = u1
    u2 = u2
    Users = {u1, u2}
    Plugs = 2
    Forced = 1
    Migrations = 1
    Failures = 1
    When = {}
    Xenwatch = Xenwatch
INVARIANT InfoLives
PROPERTY Settles
CHECK_DEADLOCK FALSE
