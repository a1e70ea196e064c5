-------------------------- MODULE ConnectionManager --------------------------
(***************************************************************************)
(* The connection manager of a node (crates/common/src/connection_manager,  *)
(* endpoint.rs and connection.rs) as pure operators over a record: every    *)
(* operator takes the manager before a handler runs and returns the manager *)
(* after it.  The event loops of the server and of the client are built     *)
(* from them.                                                               *)
(*                                                                          *)
(* A connection is keyed by its interface name and its peer's address.  The *)
(* outcome of a socket call is a parameter: which writes fail, whether a    *)
(* socket can be set up.                                                    *)
(*                                                                          *)
(* A definition named after another with a mistake at the end of its name   *)
(* is a mutant of it; nothing else uses it.                                 *)
(***************************************************************************)
EXTENDS Router, FiniteSets

ConnectionStates == {"Startup", "Connected", "Disconnected"}

NewManager == [endpoints |-> <<>>, routes |-> <<>>, session_history |-> {}]

Ids(cm) == DOMAIN cm.endpoints
HasEndpoints(cm) == Ids(cm) # {}
Keys(endpoint) == DOMAIN endpoint.connections
HasConnections(endpoint) == Keys(endpoint) # {}

(* select_all panics when it is given no future: some endpoint must have a  *)
(* connection when the event loop waits for the endpoints.                  *)
CanAwait(cm) == \E id \in Ids(cm) : HasConnections(cm.endpoints[id])

(* What may end a node's process: the panics the manager's state decides,   *)
(* where the endpoint of a route is unwrapped and where select_all is given *)
(* no future; and those of calls to the system that are unwrapped, where a  *)
(* socket is set up or read, a sorted packet written to the TUN device, a   *)
(* log file written, or the time between two readings of the clock taken    *)
(* that a clock step has put in reverse.                                    *)
StatePanics == {"route", "select_all"}
CallPanics == {"socket", "recv", "tun", "log", "clock"}

NewConnection == [state |-> "Startup", enabled |-> TRUE]

NewEndpoint(session) == [session_id |-> session, connections |-> <<>>, tx_counter |-> 0]

WithEndpoint(cm, id, endpoint) ==
    [cm EXCEPT !.endpoints =
        [i \in Ids(cm) \cup {id} |-> IF i = id THEN endpoint ELSE cm.endpoints[i]]]

(* The connections that are not listed yet are added to the endpoint. *)
WithConnections(endpoint, keys) ==
    [endpoint EXCEPT !.connections =
        [k \in Keys(endpoint) \cup keys |->
            IF k \in Keys(endpoint) THEN endpoint.connections[k] ELSE NewConnection]]

Disconnect(endpoint, failed) ==
    [endpoint EXCEPT !.connections =
        [k \in Keys(endpoint) |->
            [endpoint.connections[k] EXCEPT !.state = IF k \in failed THEN "Disconnected" ELSE @]]]

AcknowledgeRevives(endpoint, failed) ==
    [endpoint EXCEPT !.connections =
        [k \in Keys(endpoint) |->
            [endpoint.connections[k] EXCEPT !.state =
                IF k \in failed THEN "Disconnected" ELSE "Connected"]]]

(* acknowledge: a HelloAck on every connection that is not Disconnected,    *)
(* whose write fails on the connections in failed.                          *)
Acknowledge(endpoint, failed) ==
    [endpoint EXCEPT !.connections =
        [k \in Keys(endpoint) |->
            [endpoint.connections[k] EXCEPT !.state =
                IF @ = "Disconnected" \/ k \in failed THEN "Disconnected" ELSE "Connected"]]]

InsertRoutes(routes, static_routes, id) ==
    LET insert[i \in 0 .. Len(static_routes)] ==
            IF i = 0 THEN routes ELSE InsertRoute(insert[i - 1], static_routes[i], id)
    IN insert[Len(static_routes)]

-----------------------------------------------------------------------------
RefusedAlways(cm, id, session) ==
    /\ session \in cm.session_history
    /\ id \in Ids(cm) => cm.endpoints[id].session_id # session

(* handle_hello up to adding the connection: an endpoint that is not known  *)
(* is created; one that is known under another session is overwritten       *)
(* unless that session was used before, which ends the handler.             *)
Refused(cm, id, session) ==
    /\ id \in Ids(cm)
    /\ cm.endpoints[id].session_id # session
    /\ session \in cm.session_history

GreetedIgnoresSession(cm, id, session) ==
    IF id \in Ids(cm) THEN cm
    ELSE [WithEndpoint(cm, id, NewEndpoint(session)) EXCEPT !.session_history = @ \cup {session}]

GreetedForgets(cm, id, session) ==
    IF id \in Ids(cm)
    THEN IF cm.endpoints[id].session_id = session THEN cm
         ELSE WithEndpoint(cm, id, NewEndpoint(session))
    ELSE [WithEndpoint(cm, id, NewEndpoint(session)) EXCEPT !.session_history = @ \cup {session}]

Greeted(cm, id, session) ==
    IF id \in Ids(cm) /\ cm.endpoints[id].session_id = session
    THEN cm
    ELSE [WithEndpoint(cm, id, NewEndpoint(session)) EXCEPT !.session_history = @ \cup {session}]

(* handle_hello: added says whether the socket of an unknown connection     *)
(* could be set up; the routes are learnt either way.                       *)
HandleHello(cm, id, session, static_routes, key, added, failed) ==
    IF Refused(cm, id, session)
    THEN cm
    ELSE LET greeted  == Greeted(cm, id, session)
             endpoint == IF added THEN WithConnections(greeted.endpoints[id], {key})
                         ELSE greeted.endpoints[id]
         IN [WithEndpoint(greeted, id, Acknowledge(endpoint, failed))
                EXCEPT !.routes = InsertRoutes(@, static_routes, id)]

(* A Hello on an established connection.  Its session is not looked at, and *)
(* an endpoint that is not known is not created.                            *)
HandleEstablishedHello(cm, id, key, failed) ==
    IF id \notin Ids(cm) THEN cm
    ELSE WithEndpoint(cm, id, Acknowledge(WithConnections(cm.endpoints[id], {key}), failed))

(* A HelloAck on an established connection. *)
HandleHelloAck(cm, id, static_routes, key) ==
    IF id \notin Ids(cm) THEN cm
    ELSE LET endpoint == cm.endpoints[id]
         IN [WithEndpoint(cm, id,
                [endpoint EXCEPT !.connections =
                    [k \in Keys(endpoint) |->
                        [endpoint.connections[k] EXCEPT !.state =
                            IF k = key /\ @ = "Startup" THEN "Connected" ELSE @]]])
                EXCEPT !.routes = InsertRoutes(@, static_routes, id)]

HandlePacketFromTunCountsWrites(cm, address, refused) ==
    [cm EXCEPT !.endpoints =
        [id \in Ids(cm) |->
            IF id \notin Lookup(cm.routes, address) THEN cm.endpoints[id]
            ELSE LET endpoint == cm.endpoints[id]
                     written  == {k \in Keys(endpoint) : endpoint.connections[k].enabled}
                 IN [Disconnect(endpoint, written \cap refused[id])
                        EXCEPT !.tx_counter = @ + Cardinality(written)]]]

(* handle_packet_from_tun: the packet is numbered and written once per      *)
(* routed endpoint, on all its enabled connections whatever their state;    *)
(* refused[id] are those that answered ConnectionRefused.                   *)
HandlePacketFromTun(cm, address, refused) ==
    [cm EXCEPT !.endpoints =
        [id \in Ids(cm) |->
            IF id \notin Lookup(cm.routes, address) THEN cm.endpoints[id]
            ELSE LET endpoint == cm.endpoints[id]
                     written  == {k \in Keys(endpoint) : endpoint.connections[k].enabled}
                 IN [Disconnect(endpoint, written \cap refused[id]) EXCEPT !.tx_counter = @ + 1]]]

-----------------------------------------------------------------------------
(* Endpoints without connections leave, and their routes with them. *)
PurgeEmpty(cm) ==
    LET empty == {id \in Ids(cm) : ~HasConnections(cm.endpoints[id])}
    IN [cm EXCEPT !.endpoints = Restrict(cm.endpoints, Ids(cm) \ empty),
                  !.routes = RemoveRoutes(@, empty)]

WithoutConnections(endpoint, keys) ==
    [endpoint EXCEPT !.connections = Restrict(endpoint.connections, Keys(endpoint) \ keys)]

(* remove_connection looks for the connection in one endpoint, then for     *)
(* empty endpoints among all of them.                                       *)
RemoveConnection(cm, id, key) ==
    PurgeEmpty(IF id \notin Ids(cm) THEN cm
               ELSE WithEndpoint(cm, id, WithoutConnections(cm.endpoints[id], {key})))

DisconnectedKeys(endpoint) ==
    {k \in Keys(endpoint) : endpoint.connections[k].state = "Disconnected"}

RemoveDisconnectedOnly(cm) ==
    [cm EXCEPT !.endpoints =
        [id \in Ids(cm) |->
            WithoutConnections(cm.endpoints[id], DisconnectedKeys(cm.endpoints[id]))]]

(* remove_disconnected: remove_connection for every Disconnected one.  With *)
(* none of them, empty endpoints stay.                                      *)
RemoveDisconnected(cm) ==
    IF \A id \in Ids(cm) : DisconnectedKeys(cm.endpoints[id]) = {}
    THEN cm
    ELSE PurgeEmpty([cm EXCEPT !.endpoints =
            [id \in Ids(cm) |->
                WithoutConnections(cm.endpoints[id], DisconnectedKeys(cm.endpoints[id]))]])

-----------------------------------------------------------------------------
(* create_new_connection for each of keys, in any order: outcome[k] says    *)
(* how far it got.  The endpoint exists before the Hello is sent, the       *)
(* connection only afterwards; session is the one a new endpoint draws.     *)
CreateConnections(cm, id, keys, session, outcome) ==
    LET reached  == {k \in keys : outcome[k] # "socket_error"}
        opened   == {k \in keys : outcome[k] = "ok"}
        endpoint == IF id \in Ids(cm) THEN cm.endpoints[id] ELSE NewEndpoint(session)
    IN IF reached = {} THEN cm ELSE WithEndpoint(cm, id, WithConnections(endpoint, opened))

EnsureEndpointConnectionsAny(cm, id, configured, outcome) ==
    IF id \notin Ids(cm) \/ HasConnections(cm.endpoints[id]) THEN cm
    ELSE CreateConnections(cm, id, configured, cm.endpoints[id].session_id, outcome)

(* ensure_endpoint_connections: every configured connection the endpoint    *)
(* does not list, in whatever state, is opened again.                       *)
EnsureEndpointConnections(cm, id, configured, outcome) ==
    IF id \notin Ids(cm) THEN cm
    ELSE CreateConnections(cm, id, configured \ Keys(cm.endpoints[id]),
                           cm.endpoints[id].session_id, outcome)

(* greet_all_endpoints: a Hello on every connection that is not             *)
(* Disconnected; the network is unreachable from those in unreachable.      *)
GreetAll(cm, unreachable) ==
    [cm EXCEPT !.endpoints =
        [id \in Ids(cm) |-> Disconnect(cm.endpoints[id], unreachable)]]

(* handle_selective_duplication_command *)
DuplicationCommand(cm, interface_name, enabled) ==
    [cm EXCEPT !.endpoints =
        [id \in Ids(cm) |->
            [cm.endpoints[id] EXCEPT !.connections =
                [k \in Keys(cm.endpoints[id]) |->
                    IF k[1] = interface_name
                    THEN [cm.endpoints[id].connections[k] EXCEPT !.enabled = enabled]
                    ELSE cm.endpoints[id].connections[k]]]]]
==============================================================================
