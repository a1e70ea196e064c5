\* A channel of two packets fills up; a jump is more than two numbers.
CONSTANTS
    JumpLimit = 2
    Capacity = 2
    Deadline = 2
    MaxSeq = 6
SPECIFICATION Spec
INVARIANTS TypeOK InOrder HeldIsBlocked HeldHasTimer
PROPERTIES SkipHasCause LossOnlyWhenFull OrderedSpec
CHECK_DEADLOCK FALSE
