\* A full map, a number below all it holds, and copies of each.
CONSTANTS
    MAX_TIMESTAMPS = 3
    MaxSeq = 4
    MaxClock = 2
    MaxArrivals = 5
    DebugMessages = TRUE
SPECIFICATION Spec
INVARIANTS TypeOK NewestAreExact PanicNeedsClockStep
CHECK_DEADLOCK FALSE
