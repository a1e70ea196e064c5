CONSTANTS
    wan = wan
    lte = lte
    addr = addr
    Configured <- MCOneInterface
    MaxSessions = 2
    MaxSockets = 3
    MaxRestarts = 1
    MaxMade = 2
    MaxUp = 0
    MaxDown = 2
    JumpLimit = 1
    Capacity = 3
    Deadline = 0
SPECIFICATION Spec
PROPERTIES DownlinkLateIsOvertaken
CHECK_DEADLOCK FALSE
