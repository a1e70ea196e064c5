---------------------------- MODULE MCClientLoop ----------------------------
(* Three interfaces to one server, whose routes are those the server sends: a *)
(* default route and the tunnel's network.                                  *)
EXTENDS ClientLoop

CONSTANTS wan, lte, sat, addr, server, s1, s2

MCConfigured == {<<wan, addr>>, <<lte, addr>>, <<sat, addr>>}
MCServerRoutes ==
    <<[address |-> {}, subnet_mask |-> {}], [address |-> {1}, subnet_mask |-> {2}]>>
MCDestinations == {{}, {2}}
=============================================================================
