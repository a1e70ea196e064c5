------------------------------- MODULE Router -------------------------------
(***************************************************************************)
(* The routing table (crates/common/src/router.rs) as pure operators on a   *)
(* sequence of mappings.  An IPv4 address or subnet mask is the set of its  *)
(* bits that are 1, so `address & mask` is an intersection and 0.0.0.0 is   *)
(* the empty set.                                                           *)
(***************************************************************************)
EXTENDS Naturals, Sequences, Functions, FiniteSetsExt

NetworkAddress(route) == route.address \cap route.subnet_mask

ReachableFrom(route, address) == NetworkAddress(route) = address \cap route.subnet_mask

(* 0.0.0.0/0 *)
IsDefault(route) == route.address = {} /\ route.subnet_mask = {}

DefaultPositions(routes) == {i \in DOMAIN routes : IsDefault(routes[i].route)}

InsertRouteAppends(routes, route, id) ==
    IF [route |-> route, endpoint_id |-> id] \in Range(routes) THEN routes
    ELSE Append(routes, [route |-> route, endpoint_id |-> id])

(* A new mapping goes to the end of the table, a known one stays where it   *)
(* is; then the first default route and the last mapping change places.     *)
InsertRoute(routes, route, id) ==
    LET mapping == [route |-> route, endpoint_id |-> id]
        pushed  == IF mapping \in Range(routes) THEN routes ELSE Append(routes, mapping)
        first   == Min(DefaultPositions(pushed))
        last    == Len(pushed)
    IN IF DefaultPositions(pushed) = {} THEN pushed
       ELSE [pushed EXCEPT ![first] = pushed[last], ![last] = pushed[first]]

(* The endpoints of every mapping that reaches the address. *)
Lookup(routes, address) ==
    {m.endpoint_id : m \in {r \in Range(routes) : ReachableFrom(r.route, address)}}

RemoveRoutesKeeps(routes, gone) == routes

(* remove_route_to_endpoint for each of the endpoints in gone: the mappings *)
(* that stay keep their order.                                              *)
RemoveRoutes(routes, gone) ==
    LET kept[i \in 0 .. Len(routes)] ==
            IF i = 0 THEN <<>>
            ELSE IF routes[i].endpoint_id \in gone THEN kept[i - 1]
            ELSE Append(kept[i - 1], routes[i])
    IN kept[Len(routes)]
=============================================================================
