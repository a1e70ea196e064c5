CONSTANTS
    JumpLimit = 2
    Capacity = 6
    Deadline = 2
    MaxSeq = 4
SPECIFICATION Spec
PROPERTIES GapWaitsForDeadline
CHECK_DEADLOCK FALSE
