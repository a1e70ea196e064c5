\* One interface, and packets from the server to the client.
CONSTANTS
    wan = wan
    lte = lte
    addr = addr
    Configured <- MCOneInterface
    MaxSessions = 2
    MaxSockets = 3
    MaxRestarts = 1
    MaxMade = 2
    MaxUp = 0
    MaxDown = 3
    JumpLimit = 1
    Capacity = 3
    Deadline = 0
SPECIFICATION Spec
INVARIANTS DownlinkOfSession DownlinkInOrder
CHECK_DEADLOCK FALSE
