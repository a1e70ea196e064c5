----------------------------- MODULE ClientLoop -----------------------------
(***************************************************************************)
(* The client's event loop (crates/client/src/main.rs) around its           *)
(* connection manager, whose only endpoint is the server.  With an endpoint *)
(* one iteration awaits one event, handles it to the end and removes the    *)
(* Disconnected connections; without, it tries to open every configured     *)
(* connection at once.                                                      *)
(*                                                                          *)
(* The environment: HelloAcks arrive on any connection at any time, early   *)
(* or late; a connection times out at any time; writes fail; opening a      *)
(* connection fails in its socket or in the Hello it sends.  Any call whose *)
(* result is unwrapped may fail and end the process in a panic.             *)
(***************************************************************************)
EXTENDS ConnectionManager

CONSTANTS
    Server,         \* the server's endpoint id
    Configured,     \* <<interface name, server address>> of every interface
    ServerRoutes,   \* the routes the server's HelloAcks carry
    Sessions,       \* the session ids a new endpoint may draw
    Destinations,   \* destination addresses of packets read from the TUN device
    MaxPackets      \* bound on tx_counter

ASSUME ConfiguredAssumption == Configured # {}
ASSUME SessionsAssumption == Sessions # {}
ASSUME ServerRoutesAssumption == ServerRoutes \in Seq(Range(ServerRoutes)) \ {<<>>}
ASSUME MaxPacketsAssumption == MaxPackets \in Nat

VARIABLES
    conman,     \* the connection manager
    panic,      \* what ended the process, if anything did
    sendFailed  \* the Hello of a connection to open could not be sent (history)

vars == <<conman, panic, sendFailed>>

Interfaces == {key[1] : key \in Configured}
Outcomes == [Configured -> {"ok", "socket_error", "send_error"}]
ServerKeys == IF Server \in Ids(conman) THEN Keys(conman.endpoints[Server]) ELSE {}

(* Start-up opens every configured connection; a failure ends the process   *)
(* before the loop.                                                         *)
Init ==
    /\ \E session \in Sessions :
        conman = CreateConnections(NewManager, Server, Configured, session,
                                   [key \in Configured |-> "ok"])
    /\ panic = "none"
    /\ sendFailed = FALSE

(* With endpoints the loop polls the keepalive timer first and races all    *)
(* other events in random order: one that is ready may be taken before an   *)
(* await of another panics.                                                 *)
Busy == panic = "none" /\ HasEndpoints(conman)
Idle == panic = "none" /\ ~HasEndpoints(conman)

EndIteration(cm) ==
    /\ conman' = RemoveDisconnected(cm)
    /\ UNCHANGED panic

Panic(cause) == panic' = cause /\ UNCHANGED <<conman, sendFailed>>

(* Events::NewEstablishedMessage with a HelloAck of the server. *)
ReceiveHelloAck(key) ==
    /\ Busy
    /\ key \in ServerKeys
    /\ EndIteration(HandleHelloAck(conman, Server, ServerRoutes, key))
    /\ UNCHANGED sendFailed

(* The debug message of handle_established_message unwraps the time between *)
(* two copies of one HelloAck.                                              *)
HelloAckPanics ==
    /\ Busy
    /\ ServerKeys # {}
    /\ Panic("clock")

(* Events::ConnectionTimeout *)
ConnectionTimeout(key) ==
    /\ Busy
    /\ key \in ServerKeys
    /\ EndIteration(RemoveConnection(conman, Server, key))
    /\ UNCHANGED sendFailed

(* Events::TunnelPacket.  The endpoint of every route is unwrapped. *)
SendPacket(address) ==
    LET routed == Lookup(conman.routes, address)
    IN /\ Busy
       /\ \A id \in routed \cap Ids(conman) : conman.endpoints[id].tx_counter < MaxPackets
       /\ IF routed \subseteq Ids(conman)
          THEN \E refused \in [routed -> SUBSET Configured] :
                    /\ EndIteration(HandlePacketFromTun(conman, address, refused))
                    /\ UNCHANGED sendFailed
          ELSE Panic("route")

SendKeepaliveNoSweep(unreachable, outcome) ==
    /\ Busy
    /\ conman' =
        EnsureEndpointConnections(GreetAll(conman, unreachable), Server, Configured, outcome)
    /\ sendFailed' = (sendFailed \/ \E key \in Configured \ ServerKeys : outcome[key] = "send_error")
    /\ UNCHANGED panic

(* Events::SendKeepalive, every second: greet on every connection, then     *)
(* open those that are missing.                                             *)
SendKeepalive(unreachable, outcome) ==
    /\ Busy
    /\ EndIteration(
        EnsureEndpointConnections(GreetAll(conman, unreachable), Server, Configured, outcome))
    /\ sendFailed' = (sendFailed \/ \E key \in Configured \ ServerKeys : outcome[key] = "send_error")

(* Events::DuplicationMessage *)
ReceiveDuplicationCommand(interface_name, enabled) ==
    /\ Busy
    /\ EndIteration(DuplicationCommand(conman, interface_name, enabled))
    /\ UNCHANGED sendFailed

(* The branch without endpoints. *)
Reconnect(session, outcome) ==
    /\ Idle
    /\ conman' = CreateConnections(conman, Server, Configured, session, outcome)
    /\ sendFailed' = (sendFailed \/ \E key \in Configured : outcome[key] = "send_error")
    /\ UNCHANGED panic

(* The events that leave the manager as it is: packets received and sorted, *)
(* sorter deadlines, read errors.                                           *)
OtherEvent == Busy /\ EndIteration(conman) /\ UNCHANGED sendFailed

(* No endpoint has a connection: select_all panics. *)
AwaitPanics ==
    /\ Busy /\ ~CanAwait(conman)
    /\ Panic("select_all")

(* make_socket panics when there is no socket to be had, or it cannot be    *)
(* bound to its device for any other reason than that there is no such      *)
(* device, while a connection is reopened or the client starts over.        *)
MakeSocketPanics ==
    /\ Idle \/ (Busy /\ Configured # ServerKeys)
    /\ Panic("socket")

(* A sorted packet is refused by the TUN device, which a payload that is no *)
(* IP packet is enough for; a log line or the flush after a keepalive       *)
(* fails; so does a read of the duplication socket.                         *)
EventPanics ==
    \/ Busy /\ CanAwait(conman) /\ Panic("tun")
    \/ Busy /\ (Panic("log") \/ Panic("recv"))

Next ==
    \/ \E key \in Configured : ReceiveHelloAck(key) \/ ConnectionTimeout(key)
    \/ \E address \in Destinations : SendPacket(address)
    \/ \E unreachable \in SUBSET Configured, outcome \in Outcomes :
        SendKeepalive(unreachable, outcome)
    \/ \E interface_name \in Interfaces, enabled \in BOOLEAN :
        ReceiveDuplicationCommand(interface_name, enabled)
    \/ \E session \in Sessions, outcome \in Outcomes : Reconnect(session, outcome)
    \/ HelloAckPanics
    \/ OtherEvent
    \/ AwaitPanics
    \/ MakeSocketPanics
    \/ EventPanics

Spec == Init /\ [][Next]_vars

(* Now and then the keepalive is sent everywhere and the connection of an   *)
(* interface can be opened.                                                 *)
Opens(key) == {outcome \in Outcomes : outcome[key] = "ok"}

KeepaliveOpens(key) == \E outcome \in Opens(key) : SendKeepalive({}, outcome)

ReconnectOpens(key) ==
    \E session \in Sessions, outcome \in Opens(key) : Reconnect(session, outcome)

(* The keepalive timer is polled before every other event, a client without *)
(* endpoints only reconnects, and an interface that is tried again and      *)
(* again works again at some time.                                          *)
Fairness ==
    \A key \in Configured : SF_vars(KeepaliveOpens(key)) /\ SF_vars(ReconnectOpens(key))

FairSpec == Spec /\ Fairness

-----------------------------------------------------------------------------
TypeOK ==
    /\ Ids(conman) \subseteq {Server}
    /\ \A id \in Ids(conman) :
        /\ conman.endpoints[id].session_id \in Sessions
        /\ conman.endpoints[id].tx_counter \in 0 .. MaxPackets
        /\ Keys(conman.endpoints[id]) \subseteq Configured
        /\ conman.endpoints[id].connections \in
                [Keys(conman.endpoints[id]) -> [state : ConnectionStates, enabled : BOOLEAN]]
    /\ panic \in {"none"} \cup StatePanics \cup CallPanics /\ sendFailed \in BOOLEAN

(* A client with a Connected connection has learnt every route of the       *)
(* server, and a client that lost its last connection has forgotten them:   *)
(* no route is left without its endpoint.                                   *)
RoutesFollowHandshake ==
    /\ (\E key \in ServerKeys : conman.endpoints[Server].connections[key].state = "Connected")
       => {m.route : m \in Range(conman.routes)} = Range(ServerRoutes)
    /\ {m.endpoint_id : m \in Range(conman.routes)} \subseteq Ids(conman)

(* The loop never waits on a connection it found Disconnected: every branch *)
(* that can find one also cleans up.                                        *)
NoDisconnectedAwaited ==
    \A key \in ServerKeys : conman.endpoints[Server].connections[key].state # "Disconnected"

(* Lost connections, timeouts and refused writes never bring the manager    *)
(* into a state that ends the process: no packet meets a route without its  *)
(* endpoint, and the loop awaits an endpoint without connections only after *)
(* the Hello of a connection it opened could not be sent.                   *)
StatePanicNeedsUnsentHello ==
    /\ panic # "route"
    /\ panic = "select_all" => sendFailed

(* Every configured connection that was lost is opened again, whether other *)
(* connections keep the endpoint alive, the client starts over or it has an *)
(* endpoint without any, unless the process ends.                           *)
LostConnectionIsReopened ==
    \A key \in Configured : key \notin ServerKeys ~> (key \in ServerKeys \/ panic # "none")
=============================================================================
