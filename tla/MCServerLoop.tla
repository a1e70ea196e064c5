---------------------------- MODULE MCServerLoop ----------------------------
(***************************************************************************)
(* A client with two sessions and one with one, two addresses, and routes   *)
(* under one netmask: each client announces the network of its own TUN      *)
(* address; one announces a default route in its first session and another  *)
(* network in its second, the other a default route.                        *)
(***************************************************************************)
EXTENDS ServerLoop, TLC

CONSTANTS c1, c2, a1, a2, s1, s2, s3

Route(address, mask) == [address |-> address, subnet_mask |-> mask]

MCSessionsOf == (c1 :> {s1, s2}) @@ (c2 :> {s3})
MCRoutesOf ==
    (s1 :> <<Route({}, {}), Route({1}, {1})>>) @@ (s2 :> <<Route({3}, {3}), Route({1}, {1})>>)
    @@ (s3 :> <<Route({}, {}), Route({2}, {1})>>)
MCDestinations == {{1}, {2}}

(* "In case we have active connections. Await new connection attempts and   *)
(* await messages from existing connections.": the branch taken when there  *)
(* are endpoints has connections to await.                                  *)
EndpointsHaveConnections ==
    panic = "none" /\ HasEndpoints(conman) => CanAwait(conman)
=============================================================================
