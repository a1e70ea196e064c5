CONSTANTS
    JumpLimit = 2
    Capacity = 6
    Deadline = 1
    MaxSeq = 6
SPECIFICATION Spec
PROPERTIES JumpClearsQueue
CHECK_DEADLOCK FALSE
