------------------------------- MODULE Tunnel -------------------------------
(***************************************************************************)
(* A client and the server over a network: the handlers of                  *)
(* ConnectionManager on both sides, and the packet sorter of the endpoint   *)
(* each of them has for the other.                                          *)
(*                                                                          *)
(* A datagram in the network may be received at any time, any number of     *)
(* times or never: that is delay, reordering, repetition and loss.          *)
(* Connections time out at any time, either process ends and starts again   *)
(* at any time.  Failing writes are left to ServerLoop and ClientLoop, and  *)
(* the way from a sorter to the TUN device to ReceivePath.                  *)
(*                                                                          *)
(* The n-th socket the client opens has the address n: the operating system *)
(* gives it an ephemeral port, never one used before.  Sessions are drawn   *)
(* in the order 1, 2, ..., as no two are equal.  Packets carry, besides     *)
(* their number, the numbering it belongs to, which the code does not know: *)
(* the session of the client's endpoint, or how many endpoints the server   *)
(* had made for the client.                                                 *)
(***************************************************************************)
EXTENDS ConnectionManager

CONSTANTS
    Configured,     \* <<interface name, server address>> of the client's interfaces
    MaxSessions,    \* bound on the sessions the client draws
    MaxSockets,     \* bound on the sockets the client opens
    MaxRestarts,    \* bound on the restarts of the server
    MaxMade,        \* bound on the count of endpoints the server makes
    MaxUp,          \* bound on the client's tx_counter
    MaxDown,        \* bound on the server's tx_counter
    JumpLimit, Capacity, Deadline   \* of the sorters

ASSUME ConfiguredAssumption == IsFiniteSet(Configured) /\ Configured # {}
ASSUME BoundsAssumption ==
    /\ {MaxSessions, MaxSockets, MaxRestarts, MaxMade, MaxUp, MaxDown} \subseteq Nat
    /\ MaxSessions # 0
    /\ Cardinality(Configured) <= MaxSockets
ASSUME SorterAssumption == {JumpLimit, Deadline} \subseteq Nat /\ Capacity \in Nat \ {0}

Sorter == INSTANCE PacketSorter

VARIABLES
    client,         \* the client's connection manager
    bound,          \* the local address of each of its connections
    sockets,        \* the session every socket of the client was opened in
    clientSorter,   \* the sorter of its endpoint
    clientInput,    \* the packets given to that sorter (history)
    server,         \* the server's connection manager
    serverSorter,   \* the sorter of the endpoint of the client
    serverInput,    \* the packets given to that sorter (history)
    made,           \* how many endpoints the server has made (history)
    restarts,       \* how often the server was restarted
    network         \* the datagrams that were sent

clientVars == <<client, bound, sockets, clientSorter, clientInput>>
serverVars == <<server, serverSorter, serverInput, made, restarts>>
vars == <<clientVars, serverVars, network>>

ClientId == "client"
ServerId == "server"
AnyAddress == {}
Routes == <<[address |-> AnyAddress, subnet_mask |-> {}]>>

Addresses == 1 .. MaxSockets
Sessions == 1 .. MaxSessions
Interface == "DYN-interface"
KeyOf(address) == <<Interface, address>>

Hello(address, session) == [type |-> "Hello", address |-> address, session |-> session]
HelloAck(address) == [type |-> "HelloAck", address |-> address]
Packet(type, address, from, seq) ==
    [type |-> type, address |-> address, from |-> from, seq |-> seq]

Arrived(type) == {m \in network : m.type = type}
Input(m) == [from |-> m.from, seq |-> m.seq]

Last(s) == s[Len(s)]
ClientKeys(cm) == IF ServerId \in Ids(cm) THEN Keys(cm.endpoints[ServerId]) ELSE {}
ServerKeys(cm) == IF ClientId \in Ids(cm) THEN Keys(cm.endpoints[ClientId]) ELSE {}
Established(address) == KeyOf(address) \in ServerKeys(server)
NextSession == Last(sockets) + 1

(* An endpoint is another one than before when its session is, or when it   *)
(* was gone; then its sorter is new.                                        *)
SameEndpoint(before, after, id) ==
    /\ id \in Ids(before) \cap Ids(after)
    /\ before.endpoints[id].session_id = after.endpoints[id].session_id

KeepSorterUnlessGone(before, after, id, kept, new) ==
    IF id \in Ids(before) \cap Ids(after) THEN kept ELSE new

KeepSorter(before, after, id, kept, new) ==
    IF SameEndpoint(before, after, id) THEN kept ELSE new

-----------------------------------------------------------------------------
(* The client                                                               *)

ClientBecomes(cm) ==
    /\ client' = cm
    /\ clientSorter' = KeepSorter(client, cm, ServerId, clientSorter, Sorter!New)
    /\ clientInput' = KeepSorter(client, cm, ServerId, clientInput, {})

(* The connections the manager has gained are bound to the next addresses,  *)
(* and all of its connections have sent a Hello.                            *)
OpenAndGreet(cm, kept) ==
    LET session == cm.endpoints[ServerId].session_id
        new     == ClientKeys(cm) \ DOMAIN kept
        n       == Cardinality(new)
    IN /\ Len(sockets) + n <= MaxSockets
       /\ sockets' = sockets \o [i \in 1 .. n |-> session]
       /\ \E order \in Bijection(new, 1 .. n) :
            bound' = [key \in ClientKeys(cm) |->
                        IF key \in DOMAIN kept THEN kept[key] ELSE Len(sockets) + order[key]]
       /\ network' = network \cup {Hello(address, session) : address \in Range(bound')}

Opening(opened) == [key \in Configured |-> IF key \in opened THEN "ok" ELSE "socket_error"]

(* Events::SendKeepalive: the connections of the interfaces in opened are   *)
(* opened if they are missing.                                              *)
SendKeepalive(opened) ==
    /\ HasEndpoints(client)
    /\ LET cm == EnsureEndpointConnections(GreetAll(client, {}), ServerId, Configured, Opening(opened))
       IN ClientBecomes(cm) /\ OpenAndGreet(cm, bound)
    /\ UNCHANGED serverVars

(* The branch of the client's loop without endpoints. *)
Reconnect(opened) ==
    /\ ~HasEndpoints(client)
    /\ NextSession \in Sessions
    /\ opened # {}
    /\ LET cm == CreateConnections(client, ServerId, Configured, NextSession, Opening(opened))
       IN ClientBecomes(cm) /\ OpenAndGreet(cm, <<>>)
    /\ UNCHANGED serverVars

(* The client's process ends and is started again. *)
RestartClient ==
    /\ NextSession \in Sessions
    /\ LET cm == CreateConnections(NewManager, ServerId, Configured, NextSession, Opening(Configured))
       IN ClientBecomes(cm) /\ OpenAndGreet(cm, <<>>)
    /\ UNCHANGED serverVars

ClientReceivesHelloAck(m) ==
    /\ \E key \in DOMAIN bound :
        /\ bound[key] = m.address
        /\ ClientBecomes(HandleHelloAck(client, ServerId, Routes, key))
    /\ UNCHANGED <<bound, sockets, serverVars, network>>

ClientTimeoutKeepsEndpoint(key) ==
    /\ ClientBecomes(WithEndpoint(client, ServerId,
                        WithoutConnections(client.endpoints[ServerId], {key})))
    /\ bound' = Restrict(bound, DOMAIN bound \ {key})
    /\ UNCHANGED <<sockets, serverVars, network>>

ClientTimeout(key) ==
    /\ ClientBecomes(RemoveConnection(client, ServerId, key))
    /\ bound' = Restrict(bound, DOMAIN bound \ {key})
    /\ UNCHANGED <<sockets, serverVars, network>>

ClientSends ==
    LET sent == HandlePacketFromTun(client, AnyAddress, [id \in {ServerId} |-> {}])
    IN /\ Lookup(client.routes, AnyAddress) # {}
       /\ client.endpoints[ServerId].tx_counter < MaxUp
       /\ ClientBecomes(sent)
       /\ LET endpoint == client.endpoints[ServerId]
          IN network' = network \cup
                {Packet("Uplink", address, [session |-> endpoint.session_id, made |-> 0], endpoint.tx_counter) :
                    address \in Range(bound)}
       /\ UNCHANGED <<bound, sockets, serverVars>>

ClientReceivesPacket(m) ==
    /\ m.address \in Range(bound)
    /\ clientSorter' = Sorter!InsertPacket(clientSorter, m.seq)
    /\ clientInput' = clientInput \cup {Input(m)}
    /\ UNCHANGED <<client, bound, sockets, serverVars, network>>

ClientDeadline ==
    /\ HasEndpoints(client)
    /\ clientSorter.deadline_timer = 0
    /\ clientSorter' =
        Sorter!AdvanceQueue([clientSorter EXCEPT !.deadline_timer = Sorter!Never])
    /\ UNCHANGED <<client, bound, sockets, clientInput, serverVars, network>>

-----------------------------------------------------------------------------
(* The server                                                               *)

ServerBecomes(cm) ==
    /\ server' = cm
    /\ serverSorter' = KeepSorter(server, cm, ClientId, serverSorter, Sorter!New)
    /\ serverInput' = KeepSorter(server, cm, ClientId, serverInput, {})
    /\ made' =
        IF ClientId \in Ids(cm) /\ ~SameEndpoint(server, cm, ClientId)
        THEN Min({MaxMade, made + 1}) ELSE made

Acknowledged(cm) ==
    network \cup {HelloAck(address) : address \in {a \in Addresses : KeyOf(a) \in ServerKeys(cm)}}

ServerReceivesHelloKeepsRoutes(m) ==
    /\ LET cm == HandleHello(server, ClientId, m.session, Routes, KeyOf(m.address), TRUE, {})
       IN /\ ServerBecomes([cm EXCEPT !.routes = server.routes])
          /\ network' = IF Refused(server, ClientId, m.session) THEN network ELSE Acknowledged(cm)
    /\ UNCHANGED <<clientVars, restarts>>

(* Events::NewConnection: from an unknown address, or read after another    *)
(* Hello from that address had made it known.                               *)
ServerReceivesHello(m) ==
    /\ LET cm == HandleHello(server, ClientId, m.session, Routes, KeyOf(m.address), TRUE, {})
       IN /\ ServerBecomes(cm)
          /\ network' = IF Refused(server, ClientId, m.session) THEN network ELSE Acknowledged(cm)
    /\ UNCHANGED <<clientVars, restarts>>

(* Events::NewEstablishedMessage with a Hello. *)
ServerReceivesEstablishedHello(m) ==
    /\ Established(m.address)
    /\ LET cm == HandleEstablishedHello(server, ClientId, KeyOf(m.address), {})
       IN ServerBecomes(cm) /\ network' = Acknowledged(cm)
    /\ UNCHANGED <<clientVars, restarts>>

ServerTimeout(address) ==
    /\ Established(address)
    /\ ServerBecomes(RemoveConnection(server, ClientId, KeyOf(address)))
    /\ UNCHANGED <<clientVars, restarts, network>>

ServerSends ==
    LET sent == HandlePacketFromTun(server, AnyAddress, [id \in {ClientId} |-> {}])
    IN /\ Lookup(server.routes, AnyAddress) # {}
       /\ server.endpoints[ClientId].tx_counter < MaxDown
       /\ ServerBecomes(sent)
       /\ LET endpoint == server.endpoints[ClientId]
          IN network' = network \cup
                {Packet("Downlink", address, [session |-> endpoint.session_id, made |-> made],
                        endpoint.tx_counter) :
                    address \in {a \in Addresses : Established(a)}}
       /\ UNCHANGED <<clientVars, restarts>>

(* A packet is read from an established connection only; on the unconnected *)
(* socket it is not a Hello and ignored.                                    *)
ServerReceivesPacket(m) ==
    /\ Established(m.address)
    /\ serverSorter' = Sorter!InsertPacket(serverSorter, m.seq)
    /\ serverInput' = serverInput \cup {Input(m)}
    /\ UNCHANGED <<clientVars, server, made, restarts, network>>

ServerDeadline ==
    /\ HasEndpoints(server)
    /\ serverSorter.deadline_timer = 0
    /\ serverSorter' =
        Sorter!AdvanceQueue([serverSorter EXCEPT !.deadline_timer = Sorter!Never])
    /\ UNCHANGED <<clientVars, server, serverInput, made, restarts, network>>

(* The server's process ends and is started again: the endpoints and the    *)
(* session history are gone.                                                *)
RestartServer ==
    /\ restarts < MaxRestarts
    /\ restarts' = restarts + 1
    /\ ServerBecomes(NewManager)
    /\ UNCHANGED <<clientVars, network>>

-----------------------------------------------------------------------------
Init ==
    /\ client = CreateConnections(NewManager, ServerId, Configured, 1, Opening(Configured))
    /\ \E order \in Bijection(Configured, 1 .. Cardinality(Configured)) : bound = order
    /\ sockets = [i \in 1 .. Cardinality(Configured) |-> 1]
    /\ clientSorter = Sorter!New /\ serverSorter = Sorter!New
    /\ clientInput = {} /\ serverInput = {}
    /\ server = NewManager
    /\ made = 0
    /\ restarts = 0
    /\ network = {Hello(address, 1) : address \in Range(bound)}

ClientStep ==
    \/ \E opened \in SUBSET Configured : SendKeepalive(opened) \/ Reconnect(opened)
    \/ RestartClient
    \/ \E m \in Arrived("HelloAck") : ClientReceivesHelloAck(m)
    \/ \E key \in ClientKeys(client) : ClientTimeout(key)
    \/ ClientSends
    \/ \E m \in Arrived("Downlink") : ClientReceivesPacket(m)
    \/ ClientDeadline

ServerStep ==
    \/ \E m \in Arrived("Hello") : ServerReceivesHello(m) \/ ServerReceivesEstablishedHello(m)
    \/ \E address \in Addresses : ServerTimeout(address)
    \/ ServerSends
    \/ \E m \in Arrived("Uplink") : ServerReceivesPacket(m)
    \/ ServerDeadline
    \/ RestartServer

Next == ClientStep \/ ServerStep

Spec == Init /\ [][Next]_vars

(* For liveness Hellos also get lost, instead of only never being read.     *)
Lose(m) ==
    /\ network' = network \ {m}
    /\ UNCHANGED <<clientVars, serverVars>>

LossyNext == Next \/ \E m \in Arrived("Hello") : Lose(m)

Closed(address) == address \notin Range(bound)

(* The keepalive timer ticks and is polled before every other event; of the *)
(* datagrams that are sent again and again on a path, one is received; a    *)
(* connection whose peer has closed its socket is not refreshed and times   *)
(* out; a datagram does not stay in the network forever.                    *)
Fairness ==
    /\ WF_vars(\E opened \in SUBSET Configured : SendKeepalive(opened))
    /\ \A address \in Addresses :
        /\ SF_vars(\E m \in Arrived("Hello") : m.address = address /\ ServerReceivesHello(m))
        /\ SF_vars(\E m \in Arrived("HelloAck") : m.address = address /\ ClientReceivesHelloAck(m))
        /\ WF_vars(Closed(address) /\ ServerTimeout(address))
        /\ \A session \in Sessions :
            WF_vars(/\ Closed(address) /\ Hello(address, session) \in network
                    /\ Lose(Hello(address, session)))

LossySpec == Init /\ [][LossyNext]_vars
FairSpec == LossySpec /\ Fairness

-----------------------------------------------------------------------------
ConnectionStatesOK(cm, id) ==
    \A key \in Keys(cm.endpoints[id]) :
        cm.endpoints[id].connections[key] \in [state : ConnectionStates, enabled : {TRUE}]

(* Every connection of the client has a socket of its own, opened in the    *)
(* session of its endpoint, which has a connection as long as it exists;    *)
(* and the counters have their types.                                       *)
TypeOK ==
    /\ Ids(client) \subseteq {ServerId} /\ Ids(server) \subseteq {ClientId}
    /\ bound \in [ClientKeys(client) -> DOMAIN sockets] /\ IsInjective(bound)
    /\ \A id \in Ids(client) :
        /\ HasConnections(client.endpoints[id]) /\ ConnectionStatesOK(client, id)
        /\ client.endpoints[id].tx_counter \in 0 .. MaxUp
        /\ {sockets[address] : address \in Range(bound)} = {client.endpoints[id].session_id}
    /\ \A id \in Ids(server) :
        /\ HasConnections(server.endpoints[id]) /\ ConnectionStatesOK(server, id)
        /\ server.endpoints[id].tx_counter \in 0 .. MaxDown
        /\ server.endpoints[id].session_id \in server.session_history
    /\ sockets \in Seq(Sessions) /\ Len(sockets) <= MaxSockets
    /\ restarts \in 0 .. MaxRestarts /\ made \in 0 .. MaxMade

(* handle_established_message reads Hellos and packets of a connection      *)
(* without comparing sessions.  It may: whatever delayed Hellos, timeouts   *)
(* and restarts came before, every connection of the server's endpoint      *)
(* leads to a socket the client opened in that endpoint's session.          *)
ConnectionsOfOneSession ==
    \A address \in Addresses :
        Established(address) => sockets[address] = server.endpoints[ClientId].session_id

(* The packet numbered for a node's endpoint is discarded as late on its    *)
(* first arrival only if a later packet of the same numbering came before:  *)
(* the sorter was never moved on by another numbering.                      *)
LateIsOvertaken(input, received, sorter) ==
    \A p \in received \ input :
        p.seq < sorter.next_seq => \E q \in input : q.from = p.from /\ q.seq > p.seq

(* From the client to the server, across the client's restarts and lost     *)
(* connections and the server's, whenever the Hello of the new session      *)
(* comes.                                                                   *)
UplinkLateIsOvertaken == [][LateIsOvertaken(serverInput, serverInput', serverSorter)]_vars

(* The client's sorter is given no packet that the server numbered for an   *)
(* earlier session of the client, however late it comes.                    *)
DownlinkOfSession ==
    \A p \in clientInput : p.from.session = client.endpoints[ServerId].session_id

(* What an endpoint's sorter has released, and so the TUN device gets, are  *)
(* packets the peer sent in the session of that endpoint, each number once  *)
(* and in order.                                                            *)
InOrderOfSession(released, type, session) ==
    /\ \A i, j \in 1 .. Len(released) : i < j => released[i] < released[j]
    /\ \A i \in 1 .. Len(released) :
        \E m \in Arrived(type) : m.from.session = session /\ m.seq = released[i]

(* Also when the client restarts or starts over, and numbers from 0, while  *)
(* packets of the earlier session are held by the sorter or still come.     *)
UplinkInOrder ==
    InOrderOfSession(serverSorter.sorted, "Uplink", server.endpoints[ClientId].session_id)

(* Also when the server forgets the client's endpoint and numbers from 0    *)
(* again: the client's sorter may then lose packets, but repeats none.      *)
DownlinkInOrder ==
    InOrderOfSession(clientSorter.sorted, "Downlink", client.endpoints[ServerId].session_id)

(* Each node is its event loop, alone with a network that behaves as this   *)
(* one: every step of the server, whatever the client and the network do,   *)
(* is one iteration of ServerLoop in which no call fails, or its            *)
(* start, and every step of the client one of ClientLoop.  Also the clean-  *)
(* up that ends an iteration, which is not modelled here, finds nothing to  *)
(* remove.                                                                  *)
AtServer == INSTANCE ServerLoop WITH
    conman <- server, panic <- "none", used <- server.session_history, faulted <- FALSE,
    Clients <- {ClientId}, SessionsOf <- [id \in {ClientId} |-> Sessions],
    RoutesOf <- [session \in Sessions |-> Routes],
    Destinations <- {AnyAddress}, MaxPackets <- MaxDown

ServerIsLoop == AtServer!Init /\ [][AtServer!Next \/ AtServer!Init']_(AtServer!vars)

AtClient == INSTANCE ClientLoop WITH
    conman <- client, panic <- "none", sendFailed <- FALSE,
    Server <- ServerId, ServerRoutes <- Routes, Destinations <- {AnyAddress}, MaxPackets <- MaxUp

ClientIsLoop == AtClient!Init /\ [][AtClient!Next \/ AtClient!Init']_(AtClient!vars)

(* The server knows the session of the client, over a connection that the   *)
(* client knows to be answered.                                             *)
Joined(session) ==
    \E key \in ClientKeys(client) :
        /\ client.endpoints[ServerId].session_id = session
        /\ client.endpoints[ServerId].connections[key].state = "Connected"
        /\ Established(bound[key])
        /\ server.endpoints[ClientId].session_id = session

(* A client that keeps its session joins the server again and again,        *)
(* although delayed Hellos of its earlier sessions may take the endpoint    *)
(* back or have the present session refused as used: such an endpoint is    *)
(* forgotten in the end.                                                    *)
SessionJoins ==
    \A session \in Sessions :
        <>[](\E id \in Ids(client) : client.endpoints[id].session_id = session)
        => []<>Joined(session)
=============================================================================
