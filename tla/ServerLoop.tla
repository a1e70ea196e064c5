----------------------------- MODULE ServerLoop -----------------------------
(***************************************************************************)
(* The server's event loop (crates/server/src/main.rs) around its           *)
(* connection manager.  One iteration awaits one event, handles it to the   *)
(* end and removes the Disconnected connections; without endpoints it only  *)
(* waits for a Hello on the unconnected socket.                             *)
(*                                                                          *)
(* The environment: clients send Hellos, each with one of the sessions the  *)
(* client ever drew, from any address, and the network delays, repeats and  *)
(* reorders them; a connection times out at any time; any write and, where  *)
(* a socket is set up, the set-up may fail.  So may any call whose result   *)
(* the loop or a handler unwraps, which ends the process in a panic.  The   *)
(* packet sorters and the payloads are left to ReceivePath.                 *)
(***************************************************************************)
EXTENDS ConnectionManager

CONSTANTS
    Clients,        \* endpoint ids
    Addresses,      \* socket addresses Hellos come from
    SessionsOf,     \* the sessions each client draws
    RoutesOf,       \* the static routes the client announces in each session
    Destinations,   \* destination addresses of packets read from the TUN device
    MaxPackets      \* bound on tx_counter

ASSUME SessionsAssumption ==
    \A c, d \in Clients : c # d => SessionsOf[c] \cap SessionsOf[d] = {}
ASSUME RoutesAssumption ==
    \A c \in Clients : \A session \in SessionsOf[c] :
        RoutesOf[session] \in Seq(Range(RoutesOf[session])) \ {<<>>}
ASSUME MaxPacketsAssumption == MaxPackets \in Nat

VARIABLES
    conman,    \* the connection manager
    panic,     \* what ended the process, if anything did
    used,      \* sessions that were ever some endpoint's (history)
    faulted    \* handle_hello failed to set up a socket (history)

vars == <<conman, panic, used, faulted>>

(* The one name of every interface on the server. *)
Interface == "DYN-interface"
AllKeys == {<<Interface, a>> : a \in Addresses}
Sessions == UNION {SessionsOf[c] : c \in Clients}

Init ==
    /\ conman = NewManager
    /\ panic = "none"
    /\ used = {}
    /\ faulted = FALSE

(* With endpoints the loop races all its events; the race polls them in     *)
(* random order, so one that is ready may be taken before an await of       *)
(* another panics.                                                          *)
Busy == panic = "none" /\ HasEndpoints(conman)
Idle == panic = "none" /\ ~HasEndpoints(conman)

(* The end of an iteration that leaves the manager at cm. *)
EndWith(cm) ==
    /\ conman' = cm
    /\ used' = used \cup {cm.endpoints[id].session_id : id \in Ids(cm)}
    /\ UNCHANGED panic

EndIteration(cm) == EndWith(RemoveDisconnected(cm)) /\ UNCHANGED faulted

Panic(cause) == panic' = cause /\ UNCHANGED <<conman, used, faulted>>

(* handle_hello sets up a socket unless it knows the connection; the set-up *)
(* may fail.                                                                *)
MayAdd(id, session, key, added) ==
    added \/ key \notin Keys(Greeted(conman, id, session).endpoints[id])

(* Events::NewConnection: a Hello on the unconnected socket. *)
ReceiveHello(id, session, key) ==
    /\ Busy \/ Idle
    /\ \E added \in BOOLEAN, failed \in SUBSET AllKeys :
        /\ MayAdd(id, session, key, added)
        /\ LET handled == HandleHello(conman, id, session, RoutesOf[session], key, added, failed)
           IN EndWith(IF Busy THEN RemoveDisconnected(handled) ELSE handled)
        /\ faulted' = (faulted \/ (~added /\ ~Refused(conman, id, session)))

(* Events::NewEstablishedMessage with a Hello, read from a connection of    *)
(* endpoint.  The address may have passed to the client id meanwhile, whose *)
(* connection is then new and whose socket must be set up.                  *)
ReceiveEstablishedHello(endpoint, key, id) ==
    /\ Busy
    /\ key \in Keys(conman.endpoints[endpoint])
    /\ \E failed \in SUBSET AllKeys :
        EndIteration(HandleEstablishedHello(conman, id, key, failed))

(* That result is unwrapped; and after the acknowledgement the debug        *)
(* message's estimate unwraps the time between two copies of one Hello.     *)
EstablishedHelloPanics(endpoint, key, id) ==
    /\ Busy
    /\ key \in Keys(conman.endpoints[endpoint])
    /\ id \in Ids(conman)
    /\ \/ key \notin Keys(conman.endpoints[id]) /\ Panic("socket")
       \/ Panic("clock")

(* Events::ConnectionTimeout *)
ConnectionTimeout(id, key) ==
    /\ Busy
    /\ key \in Keys(conman.endpoints[id])
    /\ EndIteration(RemoveConnection(conman, id, key))

(* Events::TunnelPacket.  The endpoint of every route is unwrapped. *)
SendPacket(address) ==
    LET routed == Lookup(conman.routes, address)
    IN /\ Busy
       /\ \A id \in routed \cap Ids(conman) : conman.endpoints[id].tx_counter < MaxPackets
       /\ IF routed \subseteq Ids(conman)
          THEN \E refused \in [routed -> SUBSET AllKeys] :
                    EndIteration(HandlePacketFromTun(conman, address, refused))
          ELSE Panic("route")

(* Events::DuplicationMessage *)
ReceiveDuplicationCommand(enabled) ==
    /\ Busy
    /\ EndIteration(DuplicationCommand(conman, Interface, enabled))

OtherEventNoSweep == Busy /\ EndWith(conman) /\ UNCHANGED faulted

(* Events::FlushInterfaceLog, every second, and the events that leave the   *)
(* manager as it is: packets received and sorted, sorter deadlines, read    *)
(* errors.                                                                  *)
OtherEvent == Busy /\ EndIteration(conman)

(* No endpoint has a connection: select_all panics. *)
AwaitPanics ==
    /\ Busy /\ ~CanAwait(conman)
    /\ Panic("select_all")

(* A sorted packet is refused by the TUN device, which a payload that is no *)
(* IP packet is enough for; a log line or a flush fails; so does a read of  *)
(* the unconnected socket or of the duplication socket.                     *)
EventPanics ==
    \/ Busy /\ CanAwait(conman) /\ Panic("tun")
    \/ Busy /\ Panic("log")
    \/ (Busy \/ Idle) /\ Panic("recv")

Next ==
    \/ \E id \in Clients, key \in AllKeys :
        \E session \in SessionsOf[id] : ReceiveHello(id, session, key)
    \/ \E endpoint \in Ids(conman), id \in Clients, key \in AllKeys :
        \/ ReceiveEstablishedHello(endpoint, key, id)
        \/ EstablishedHelloPanics(endpoint, key, id)
    \/ \E id \in Ids(conman), key \in AllKeys : ConnectionTimeout(id, key)
    \/ \E address \in Destinations : SendPacket(address)
    \/ \E enabled \in BOOLEAN : ReceiveDuplicationCommand(enabled)
    \/ OtherEvent
    \/ AwaitPanics
    \/ EventPanics

Spec == Init /\ [][Next]_vars

(* The flush timer ticks every second and the race serves it. *)
FairSpec == Spec /\ WF_vars(OtherEvent)

-----------------------------------------------------------------------------
TypeOK ==
    /\ Ids(conman) \subseteq Clients
    /\ \A id \in Ids(conman) :
        /\ conman.endpoints[id].session_id \in SessionsOf[id]
        /\ conman.endpoints[id].tx_counter \in 0 .. MaxPackets
        /\ Keys(conman.endpoints[id]) \subseteq AllKeys
        /\ conman.endpoints[id].connections \in
                [Keys(conman.endpoints[id]) -> [state : ConnectionStates, enabled : BOOLEAN]]
    /\ conman.session_history \subseteq Sessions
    /\ panic \in {"none"} \cup StatePanics \cup CallPanics /\ faulted \in BOOLEAN /\ used \subseteq Sessions

Announced(id, sessions) ==
    {[route |-> r, endpoint_id |-> id] : r \in UNION {Range(RoutesOf[s]) : s \in sessions}}

(* Overwriting an endpoint for a new session adds the routes the client     *)
(* announces in it and keeps those it announced before, also when it was    *)
(* configured anew.  So the routing table lists, each once, all routes of   *)
(* the present sessions, and otherwise only routes of earlier sessions of   *)
(* endpoints that still exist: an endpoint that leaves, by a timeout or by  *)
(* the clean-up, takes all of its routes along, and handle_packet_from_tun  *)
(* may unwrap the endpoint of every route.                                  *)
RoutesMatchEndpoints ==
    /\ UNION {Announced(id, {conman.endpoints[id].session_id}) : id \in Ids(conman)}
        \subseteq Range(conman.routes)
    /\ Range(conman.routes) \subseteq
        UNION {Announced(id, used \cap SessionsOf[id]) : id \in Ids(conman)}
    /\ IsInjective(conman.routes)

(* "Ensure default route (0.0.0.0/0) is the last in the list", for which    *)
(* insert_route swaps two mappings: no other mapping ever follows a default *)
(* route, however many clients announce one and whatever routes leave.      *)
DefaultRoutesLast ==
    \A i, j \in DOMAIN conman.routes :
        i < j /\ IsDefault(conman.routes[i].route) => IsDefault(conman.routes[j].route)

(* An endpoint that is overwritten for a new session never goes back to a   *)
(* session it or another endpoint had before: delayed Hellos of an old      *)
(* session are refused.                                                     *)
NoSessionRollback ==
    [][\A id \in Ids(conman) \cap Ids(conman)' :
        conman'.endpoints[id].session_id # conman.endpoints[id].session_id
        => conman'.endpoints[id].session_id \notin used]_vars

(* A Disconnected connection is never used as Connected again: a new Hello  *)
(* from its address neither revives it nor, before it was removed, replaces *)
(* it; only overwriting the whole endpoint does.                            *)
DisconnectedIsFinal ==
    [][\A id \in Ids(conman) \cap Ids(conman)' :
        conman'.endpoints[id].session_id = conman.endpoints[id].session_id
        => \A key \in DisconnectedKeys(conman.endpoints[id]) \cap Keys(conman'.endpoints[id]) :
              key \in DisconnectedKeys(conman'.endpoints[id])]_vars

(* Peers, timeouts and failing writes never bring the manager into a state  *)
(* that ends the process: no packet meets a route without its endpoint, and *)
(* the loop awaits endpoints none of which has a connection only after      *)
(* handle_hello failed to set up a socket.                                  *)
StatePanicNeedsFault ==
    /\ panic # "route"
    /\ panic = "select_all" => faulted

(* "Clean up connections which was determined to be disconnected on the     *)
(* last iteration": also those of an iteration that did not clean up, in a  *)
(* process that goes on.                                                    *)
DisconnectedIsRemoved ==
    \A id \in Clients, key \in AllKeys :
        (id \in Ids(conman) /\ key \in DisconnectedKeys(conman.endpoints[id]))
        ~> \/ ~(id \in Ids(conman) /\ key \in DisconnectedKeys(conman.endpoints[id]))
           \/ panic # "none"
=============================================================================
