CONSTANTS
    Size = 4
    Wrap = 8
    MaxSlots = 2
    When = {}
    Migrations = 1
SPECIFICATION FairSpec
INVARIANTS EachOnRingOnce RoomForPacket AnsweredIsCollected
PROPERTIES QueueStarts
