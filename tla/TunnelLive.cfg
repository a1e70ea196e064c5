\* One interface, which keeps the temporal check small, and a packet each way.
CONSTANTS
    wan = wan
    lte = lte
    addr = addr
    Configured <- MCOneInterface
    MaxSessions = 2
    MaxSockets = 2
    MaxRestarts = 1
    MaxMade = 1
    MaxUp = 1
    MaxDown = 1
    JumpLimit = 1
    Capacity = 3
    Deadline = 0
SPECIFICATION FairSpec
PROPERTIES SessionJoins ServerIsLoop ClientIsLoop
CHECK_DEADLOCK FALSE
