\* The channel has room for every packet, so nothing may be lost in it.
CONSTANTS
    JumpLimit = 2
    Capacity = 6
    Deadline = 2
    MaxSeq = 5
SPECIFICATION FairSpec
PROPERTIES HeldIsDelivered
CHECK_DEADLOCK FALSE
