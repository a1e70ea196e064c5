CONSTANTS
    wan = wan
    lte = lte
    sat = sat
    addr = addr
    server = server
    s1 = s1
    Server = server
    s2 = s2
    Sessions = {s1, s2}
    Configured <- MCConfigured
    ServerRoutes <- MCServerRoutes
    Destinations <- MCDestinations
    MaxPackets = 1
SPECIFICATION FairSpec
INVARIANTS TypeOK RoutesFollowHandshake NoDisconnectedAwaited StatePanicNeedsUnsentHello
PROPERTIES LostConnectionIsReopened
CHECK_DEADLOCK FALSE
