\* Two interfaces, and packets from the client to the server.
CONSTANTS
    wan = wan
    lte = lte
    addr = addr
    Configured <- MCTwoInterfaces
    MaxSessions = 2
    MaxSockets = 3
    MaxRestarts = 1
    MaxMade = 0
    MaxUp = 3
    MaxDown = 0
    JumpLimit = 1
    Capacity = 3
    Deadline = 0
SYMMETRY Symmetry
SPECIFICATION Spec
INVARIANTS TypeOK ConnectionsOfOneSession UplinkInOrder
PROPERTIES UplinkLateIsOvertaken
CHECK_DEADLOCK FALSE
