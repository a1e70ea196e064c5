CONSTANTS
    c1 = c1
    c2 = c2
    a1 = a1
    a2 = a2
    s1 = s1
    s2 = s2
    s3 = s3
    Clients = {c1, c2}
    Addresses = {a1, a2}
    SessionsOf <- MCSessionsOf
    RoutesOf <- MCRoutesOf
    Destinations <- MCDestinations
    MaxPackets = 1
SPECIFICATION Spec
INVARIANTS EndpointsHaveConnections
CHECK_DEADLOCK FALSE
