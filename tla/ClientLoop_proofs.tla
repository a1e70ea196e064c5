-------------------------- MODULE ClientLoop_proofs --------------------------
(***************************************************************************)
(* Proofs about the client's event loop, for every set of configured        *)
(* connections, every routes of the server and every failure.               *)
(***************************************************************************)
EXTENDS ClientLoop, ConnectionManager_proofs

-----------------------------------------------------------------------------
(* The inductive invariant, for a manager in the middle of an iteration as  *)
(* well; fault says that an unsent Hello may have left an empty endpoint.   *)

EndpointsTyped(cm) ==
    \A id \in Ids(cm) :
        /\ id = Server
        /\ cm.endpoints[id].session_id \in Sessions
        /\ Keys(cm.endpoints[id]) \subseteq Configured
        /\ cm.endpoints[id].tx_counter <= MaxPackets

IsConnected(cm, id, key) ==
    /\ id \in Ids(cm) /\ key \in Keys(cm.endpoints[id])
    /\ cm.endpoints[id].connections[key].state = "Connected"

OnlyServerRoutes(cm) ==
    \A m \in Range(cm.routes) : Server \in Ids(cm) /\ \E r \in Range(ServerRoutes) : m = Mapping(r, Server)

RoutesLearnt(cm) ==
    (\E id, key : IsConnected(cm, id, key))
    => \A r \in Range(ServerRoutes) : Mapping(r, Server) \in Range(cm.routes)

Inv(cm, fault) ==
    /\ ManagerOK(cm)
    /\ EndpointsTyped(cm)
    /\ OnlyServerRoutes(cm)
    /\ RoutesLearnt(cm)
    /\ fault \/ NoneEmpty(cm)

NoneDisconnected(cm) == \A id \in Ids(cm) : DisconnectedKeys(cm.endpoints[id]) = {}

Panics == {"none"} \cup StatePanics \cup CallPanics

IInv ==
    /\ Inv(conman, sendFailed)
    /\ NoneDisconnected(conman)
    /\ panic \in Panics /\ sendFailed \in BOOLEAN
    /\ StatePanicNeedsUnsentHello

(* Only a HelloAck connects. *)
NoNewConnected(cm, after) ==
    \A id, key : IsConnected(after, id, key) => IsConnected(cm, id, key)

-----------------------------------------------------------------------------
(* The parts of an iteration.                                               *)

LEMMA RefreshedInv ==
    ASSUME NEW cm, NEW fault, Inv(cm, fault), NEW after,
           Refreshed(cm, after, Configured), after.routes = cm.routes,
           NoNewConnected(cm, after),
           \A id \in Ids(cm) : after.endpoints[id].tx_counter <= MaxPackets
    PROVE  Inv(after, fault)
<1>1. ManagerOK(after) /\ EndpointsTyped(after)
  BY DEF Inv, Refreshed, Continues, EndpointsTyped
<1>2. OnlyServerRoutes(after)
  BY DEF Inv, Refreshed, OnlyServerRoutes
<1>3. RoutesLearnt(after)
  BY DEF Inv, NoNewConnected, RoutesLearnt
<1>4. fault \/ NoneEmpty(after)
  BY DEF Inv, Refreshed, Continues, NoneEmpty, HasConnections
<1> QED BY <1>1, <1>2, <1>3, <1>4 DEF Inv

LEMMA ShrunkInv ==
    ASSUME NEW cm, NEW fault, Inv(cm, fault), NEW after,
           Shrunk(cm, after), after = cm \/ NoneEmpty(after)
    PROVE  Inv(after, fault)
<1>1. ManagerOK(after) /\ EndpointsTyped(after)
  BY DEF Inv, Shrunk, EndpointsTyped
<1>2. OnlyServerRoutes(after)
  <2> SUFFICES ASSUME NEW m \in Range(after.routes)
               PROVE  Server \in Ids(after) /\ \E r \in Range(ServerRoutes) : m = Mapping(r, Server)
    BY DEF OnlyServerRoutes
  <2>1. m \in Range(cm.routes) /\ m.endpoint_id \notin Ids(cm) \ Ids(after)
    BY DEF Shrunk
  <2>2. Server \in Ids(cm) /\ \E r \in Range(ServerRoutes) : m = Mapping(r, Server)
    BY <2>1 DEF Inv, OnlyServerRoutes
  <2>3. m.endpoint_id = Server
    BY <2>2 DEF Mapping
  <2> QED BY <2>1, <2>2, <2>3
<1>3. RoutesLearnt(after)
  <2> SUFFICES ASSUME NEW id, NEW key, IsConnected(after, id, key), NEW r \in Range(ServerRoutes)
               PROVE  Mapping(r, Server) \in Range(after.routes)
    BY DEF RoutesLearnt
  <2>1. IsConnected(cm, id, key)
    BY DEF IsConnected, Shrunk
  <2>2. id = Server
    BY <1>1 DEF EndpointsTyped, IsConnected
  <2>3. Mapping(r, Server) \in Range(cm.routes)
    BY <2>1 DEF Inv, RoutesLearnt
  <2>4. Mapping(r, Server).endpoint_id = Server
    BY DEF Mapping
  <2> QED BY <2>2, <2>3, <2>4 DEF Shrunk, IsConnected
<1>4. fault \/ NoneEmpty(after)
  BY DEF Inv
<1> QED BY <1>1, <1>2, <1>3, <1>4 DEF Inv

(* Whatever a handler returns, the clean-up makes it the manager of the     *)
(* next iteration.                                                          *)
LEMMA SweepInv ==
    ASSUME NEW cm, NEW fault, Inv(cm, fault)
    PROVE  Inv(RemoveDisconnected(cm), fault) /\ NoneDisconnected(RemoveDisconnected(cm))
BY RemoveDisconnectedOK, ShrunkInv DEF Inv, NoneDisconnected

(* An iteration that ends well. *)
LEMMA IterationEnds ==
    ASSUME IInv, NEW cm, Inv(cm, sendFailed'), EndIteration(cm),
           sendFailed' \in BOOLEAN, sendFailed => sendFailed'
    PROVE  IInv'
<1>1. conman' = RemoveDisconnected(cm) /\ panic' = panic
  BY DEF EndIteration
<1>2. Inv(conman', sendFailed') /\ NoneDisconnected(conman')
  BY <1>1, SweepInv
<1>3. StatePanicNeedsUnsentHello'
  BY <1>1 DEF IInv, StatePanicNeedsUnsentHello
<1> QED BY <1>1, <1>2, <1>3 DEF IInv

LEMMA LaterInv ==
    ASSUME NEW cm, NEW fault, NEW later, Inv(cm, fault), fault => later
    PROVE  Inv(cm, later)
BY DEF Inv

(* Without an endpoint every configured connection is tried: an endpoint    *)
(* that is left without any had a Hello that could not be sent.             *)
LEMMA CreatedInv ==
    ASSUME NEW cm, ManagerOK(cm), Ids(cm) = {}, Range(cm.routes) = {},
           NEW session \in Sessions, NEW outcome \in Outcomes,
           NEW fault, (\E key \in Configured : outcome[key] = "send_error") => fault
    PROVE  LET after == CreateConnections(cm, Server, Configured, session, outcome)
           IN Inv(after, fault) /\ NoneDisconnected(after)
<1> DEFINE after == CreateConnections(cm, Server, Configured, session, outcome)
           reached == {k \in Configured : outcome[k] # "socket_error"}
           opened == {k \in Configured : outcome[k] = "ok"}
           f == after.endpoints[Server]
<1>1. Created(cm, after, Server, session, reached, opened)
  BY CreateConnectionsOK
<1> HIDE DEF after
<1>2. Ids(after) \subseteq {Server}
  BY <1>1 DEF Created
<1>3. EndpointsTyped(after)
  BY <1>1, <1>2, MaxPacketsAssumption DEF EndpointsTyped, Created
<1>4. OnlyServerRoutes(after)
  BY <1>1 DEF OnlyServerRoutes, Created
<1>5. ASSUME NEW id \in Ids(after), NEW k \in Keys(after.endpoints[id])
      PROVE  after.endpoints[id].connections[k].state = "Startup"
  BY <1>1, <1>2 DEF NewConnection, Created
<1>6. RoutesLearnt(after) /\ NoneDisconnected(after)
  BY <1>5 DEF RoutesLearnt, IsConnected, NoneDisconnected, DisconnectedKeys
<1>7. fault \/ NoneEmpty(after)
  <2> SUFFICES ASSUME NEW id \in Ids(after), ~HasConnections(after.endpoints[id]) PROVE fault
    BY DEF NoneEmpty
  <2>1. id = Server /\ opened = {} /\ after # cm
    BY <1>1, <1>2 DEF HasConnections, Created
  <2>2. PICK k \in Configured : outcome[k] # "socket_error"
    BY <1>1, <2>1 DEF Created
  <2>3. outcome[k] = "send_error"
    BY <2>1, <2>2 DEF Outcomes
  <2> QED BY <2>3
<1> QED BY <1>1, <1>3, <1>4, <1>6, <1>7 DEF after, Inv, Created

LEMMA InitIInv == Init => IInv
<1> SUFFICES ASSUME Init PROVE IInv
  OBVIOUS
<1>1. PICK session \in Sessions :
        conman = CreateConnections(NewManager, Server, Configured, session, [key \in Configured |-> "ok"])
  BY DEF Init
<1>2. [key \in Configured |-> "ok"] \in Outcomes
  BY DEF Outcomes
<1>3. Inv(conman, sendFailed) /\ NoneDisconnected(conman)
  BY <1>1, <1>2, CreatedInv, NewManagerOK
<1> QED BY <1>3 DEF Init, IInv, Panics, StatePanicNeedsUnsentHello

-----------------------------------------------------------------------------
(* The actions.                                                             *)

LEMMA ReceiveHelloAckOK ==
    ASSUME IInv, NEW key \in Configured, ReceiveHelloAck(key)
    PROVE  IInv'
<1> DEFINE cm == HandleHelloAck(conman, Server, ServerRoutes, key)
<1>1. /\ Refreshed(conman, cm, {})
      /\ Range(cm.routes) = Range(conman.routes) \cup {Mapping(r, Server) : r \in Range(ServerRoutes)}
      /\ \A i \in Ids(conman) : cm.endpoints[i].tx_counter = conman.endpoints[i].tx_counter
  <2>1. ServerRoutes \in Seq(Range(ServerRoutes))
    BY ServerRoutesAssumption
  <2>2. Server \in Ids(conman) /\ ManagerOK(conman)
    BY DEF ReceiveHelloAck, ServerKeys, IInv, Inv
  <2> QED BY <2>1, <2>2, HandleHelloAckOK
<1>2. Server \in Ids(conman) /\ EndIteration(cm)
  BY DEF ReceiveHelloAck, ServerKeys
<1> HIDE DEF cm
<1>3. ManagerOK(cm) /\ EndpointsTyped(cm)
  BY <1>1 DEF IInv, Inv, Refreshed, Continues, EndpointsTyped
<1>4. OnlyServerRoutes(cm) /\ RoutesLearnt(cm)
  BY <1>1, <1>2 DEF IInv, Inv, Refreshed, OnlyServerRoutes, RoutesLearnt
<1>5. sendFailed \/ NoneEmpty(cm)
  BY <1>1 DEF IInv, Inv, Refreshed, Continues, NoneEmpty, HasConnections
<1>6. sendFailed' = sendFailed
  BY DEF ReceiveHelloAck
<1>7. Inv(cm, sendFailed')
  BY <1>3, <1>4, <1>5, <1>6 DEF Inv
<1> QED BY <1>2, <1>6, <1>7, IterationEnds DEF IInv

LEMMA ConnectionTimeoutOK ==
    ASSUME IInv, NEW key \in Configured, ConnectionTimeout(key)
    PROVE  IInv'
<1> DEFINE cm == RemoveConnection(conman, Server, key)
<1>1. Shrunk(conman, cm) /\ NoneEmpty(cm)
  BY RemoveConnectionOK DEF IInv, Inv
<1>2. /\ EndIteration(cm)
      /\ sendFailed' = sendFailed
  BY DEF ConnectionTimeout
<1> HIDE DEF cm
<1>3. Inv(cm, sendFailed')
  BY <1>1, <1>2, ShrunkInv DEF IInv
<1> QED BY <1>2, <1>3, IterationEnds DEF IInv

LEMMA SendPacketOK ==
    ASSUME IInv, NEW address, SendPacket(address)
    PROVE  IInv'
<1> DEFINE routed == Lookup(conman.routes, address)
<1>1. routed \subseteq Ids(conman)
  BY DEF IInv, Inv, OnlyServerRoutes, Mapping, Lookup
<1>2. PICK refused \in [routed -> SUBSET Configured] :
        EndIteration(HandlePacketFromTun(conman, address, refused)) /\ UNCHANGED sendFailed
  BY <1>1 DEF SendPacket
<1> DEFINE cm == HandlePacketFromTun(conman, address, refused)
<1>3. /\ Refreshed(conman, cm, {}) /\ cm.routes = conman.routes
      /\ \A i \in Ids(conman) :
            /\ cm.endpoints[i].tx_counter =
                IF i \in routed THEN conman.endpoints[i].tx_counter + 1
                ELSE conman.endpoints[i].tx_counter
            /\ WritesFail(conman.endpoints[i], cm.endpoints[i], refused[i])
  BY HandlePacketFromTunOK DEF IInv, Inv
<1> HIDE DEF cm
<1>4. Refreshed(conman, cm, Configured)
  BY <1>3 DEF Refreshed, Continues
<1>5. ASSUME NEW i \in Ids(conman) PROVE cm.endpoints[i].tx_counter <= MaxPackets
  <2>1. /\ conman.endpoints[i].tx_counter \in Nat /\ conman.endpoints[i].tx_counter <= MaxPackets
        /\ i \in routed => conman.endpoints[i].tx_counter < MaxPackets
    BY DEF IInv, Inv, ManagerOK, EndpointOK, EndpointsTyped, SendPacket
  <2> HIDE DEF routed
  <2> QED BY <1>3, <2>1, MaxPacketsAssumption
<1>6. NoNewConnected(conman, cm)
  <2> SUFFICES ASSUME NEW id, NEW k, IsConnected(cm, id, k) PROVE IsConnected(conman, id, k)
    BY DEF NoNewConnected
  <2>1. id \in Ids(conman) /\ k \in Keys(conman.endpoints[id]) \ DisconnectedKeys(cm.endpoints[id])
    BY <1>3 DEF IsConnected, Refreshed, Continues, DisconnectedKeys
  <2> QED BY <1>3, <2>1 DEF IsConnected, WritesFail
<1>7. sendFailed' = sendFailed
  BY <1>2
<1>8. Inv(cm, sendFailed')
  BY <1>3, <1>4, <1>5, <1>6, <1>7, RefreshedInv DEF IInv
<1> QED BY <1>2, <1>7, <1>8, IterationEnds DEF IInv, cm

LEMMA DuplicationOK ==
    ASSUME IInv, NEW interface_name, NEW enabled \in BOOLEAN,
           ReceiveDuplicationCommand(interface_name, enabled)
    PROVE  IInv'
<1> DEFINE cm == DuplicationCommand(conman, interface_name, enabled)
<1>1. /\ Refreshed(conman, cm, {}) /\ cm.routes = conman.routes
      /\ \A i \in Ids(conman) :
            /\ cm.endpoints[i].tx_counter = conman.endpoints[i].tx_counter
            /\ \A k \in Keys(conman.endpoints[i]) :
                cm.endpoints[i].connections[k].state = conman.endpoints[i].connections[k].state
  BY DuplicationCommandOK DEF IInv, Inv
<1>2. /\ EndIteration(cm)
      /\ sendFailed' = sendFailed
  BY DEF ReceiveDuplicationCommand
<1> HIDE DEF cm
<1>3. Refreshed(conman, cm, Configured)
  BY <1>1 DEF Refreshed, Continues
<1>4. NoNewConnected(conman, cm)
  BY <1>1 DEF NoNewConnected, IsConnected, Refreshed, Continues
<1>5. \A i \in Ids(conman) : cm.endpoints[i].tx_counter <= MaxPackets
  BY <1>1 DEF IInv, Inv, EndpointsTyped
<1>6. Inv(cm, sendFailed')
  BY <1>1, <1>2, <1>3, <1>4, <1>5, RefreshedInv DEF IInv
<1> QED BY <1>2, <1>6, IterationEnds DEF IInv

LEMMA SendKeepaliveOK ==
    ASSUME IInv, NEW unreachable, NEW outcome \in Outcomes, SendKeepalive(unreachable, outcome)
    PROVE  IInv'
<1> DEFINE mid == GreetAll(conman, unreachable)
           cm == EnsureEndpointConnections(mid, Server, Configured, outcome)
<1>1. /\ Refreshed(conman, mid, {}) /\ mid.routes = conman.routes
      /\ \A i \in Ids(conman) :
            /\ mid.endpoints[i].tx_counter = conman.endpoints[i].tx_counter
            /\ WritesFail(conman.endpoints[i], mid.endpoints[i], unreachable)
  BY GreetAllOK DEF IInv, Inv
<1>2. EndIteration(cm)
  BY DEF SendKeepalive
<1> HIDE DEF mid
<1>3. Refreshed(conman, mid, Configured)
  BY <1>1 DEF Refreshed, Continues
<1>4. NoNewConnected(conman, mid)
  <2> SUFFICES ASSUME NEW id, NEW k, IsConnected(mid, id, k) PROVE IsConnected(conman, id, k)
    BY DEF NoNewConnected
  <2>1. id \in Ids(conman) /\ k \in Keys(conman.endpoints[id]) \ DisconnectedKeys(mid.endpoints[id])
    BY <1>1 DEF IsConnected, Refreshed, Continues, DisconnectedKeys
  <2> QED BY <1>1, <2>1 DEF IsConnected, WritesFail
<1>5. Inv(mid, sendFailed)
  <2>1. \A i \in Ids(conman) : mid.endpoints[i].tx_counter <= MaxPackets
    BY <1>1 DEF IInv, Inv, EndpointsTyped
  <2> QED BY <1>1, <1>3, <1>4, <2>1, RefreshedInv DEF IInv
<1>6. /\ Refreshed(mid, cm, Configured) /\ cm.routes = mid.routes
      /\ NoNewConnected(mid, cm)
      /\ \A i \in Ids(mid) : cm.endpoints[i].tx_counter <= MaxPackets
  <2>1. ManagerOK(mid) /\ \A i \in Ids(mid) : i = Server /\ mid.endpoints[i].tx_counter <= MaxPackets
    BY <1>5 DEF Inv, EndpointsTyped
  <2>2. CASE Server \notin Ids(mid)
    <3>1. cm = mid
      BY <2>2 DEF EnsureEndpointConnections
    <3> QED BY <2>1, <3>1, UnchangedOK DEF NoNewConnected
  <2>3. CASE Server \in Ids(mid)
    <3> DEFINE keys == Configured \ Keys(mid.endpoints[Server])
               session == mid.endpoints[Server].session_id
               reached == {k \in keys : outcome[k] # "socket_error"}
               opened == {k \in keys : outcome[k] = "ok"}
    <3>1. cm = CreateConnections(mid, Server, keys, session, outcome)
      BY <2>3 DEF EnsureEndpointConnections
    <3>2. Created(mid, cm, Server, session, reached, opened)
      <4> HIDE DEF cm, keys, session
      <4> QED BY <2>1, <3>1, CreateConnectionsOK
    <3>3. opened \subseteq Configured /\ Ids(cm) = Ids(mid)
      BY <2>3, <3>2 DEF Created
    <3> HIDE DEF cm, opened, reached
    <3>4. Refreshed(mid, cm, Configured) /\ cm.routes = mid.routes
      BY <2>1, <2>3, <3>2, <3>3 DEF Created, Refreshed, Continues
    <3>5. NoNewConnected(mid, cm)
      BY <2>1, <2>3, <3>2, <3>3 DEF Created, NoNewConnected, IsConnected, NewConnection
    <3>6. \A i \in Ids(mid) : cm.endpoints[i].tx_counter <= MaxPackets
      BY <2>1, <2>3, <3>2 DEF Created
    <3> QED BY <3>4, <3>5, <3>6
  <2> QED BY <2>2, <2>3
<1> HIDE DEF cm
<1>7. Inv(cm, sendFailed)
  BY <1>5, <1>6, RefreshedInv
<1>8. sendFailed' \in BOOLEAN /\ (sendFailed => sendFailed')
  BY DEF SendKeepalive, IInv
<1>9. Inv(cm, sendFailed')
  BY <1>7, <1>8, LaterInv
<1> QED BY <1>2, <1>8, <1>9, IterationEnds

LEMMA ReconnectOK ==
    ASSUME IInv, NEW session \in Sessions, NEW outcome \in Outcomes, Reconnect(session, outcome)
    PROVE  IInv'
<1>1. /\ conman' = CreateConnections(conman, Server, Configured, session, outcome)
      /\ panic' = panic /\ panic = "none"
      /\ sendFailed' \in BOOLEAN
      /\ (\E key \in Configured : outcome[key] = "send_error") => sendFailed'
  BY DEF Reconnect, Idle
<1>2. Ids(conman) = {} /\ Range(conman.routes) = {} /\ ManagerOK(conman)
  BY DEF Reconnect, Idle, HasEndpoints, IInv, Inv, OnlyServerRoutes
<1>3. Inv(conman', sendFailed') /\ NoneDisconnected(conman')
  BY <1>1, <1>2, CreatedInv
<1>4. StatePanicNeedsUnsentHello'
  BY <1>1 DEF StatePanicNeedsUnsentHello
<1> QED BY <1>1, <1>3, <1>4 DEF IInv, Panics

(* A panic leaves the manager as it is. *)
LEMMA PanicEnds ==
    ASSUME IInv, NEW cause \in Panics \ {"route"}, Panic(cause),
           cause = "select_all" => sendFailed
    PROVE  IInv'
<1>1. conman' = conman /\ sendFailed' = sendFailed /\ panic' = cause
  BY DEF Panic
<1>2. Inv(conman', sendFailed') /\ NoneDisconnected(conman')
  BY <1>1 DEF IInv
<1>3. StatePanicNeedsUnsentHello'
  BY <1>1 DEF StatePanicNeedsUnsentHello
<1>4. sendFailed' \in BOOLEAN
  BY <1>1, Zenon DEF IInv
<1> QED BY <1>1, <1>2, <1>3, <1>4 DEF IInv

LEMMA NextIInv == IInv /\ [Next]_vars => IInv'
<1> SUFFICES ASSUME IInv, [Next]_vars PROVE IInv'
  OBVIOUS
<1>1. ASSUME NEW key \in Configured, ReceiveHelloAck(key) PROVE IInv'
  BY <1>1, ReceiveHelloAckOK
<1>2. ASSUME NEW key \in Configured, ConnectionTimeout(key) PROVE IInv'
  BY <1>2, ConnectionTimeoutOK
<1>3. ASSUME NEW address \in Destinations, SendPacket(address) PROVE IInv'
  BY <1>3, SendPacketOK
<1>4. ASSUME NEW unreachable \in SUBSET Configured, NEW outcome \in Outcomes,
             SendKeepalive(unreachable, outcome)
      PROVE  IInv'
  BY <1>4, SendKeepaliveOK
<1>5. ASSUME NEW interface_name \in Interfaces, NEW enabled \in BOOLEAN,
             ReceiveDuplicationCommand(interface_name, enabled)
      PROVE  IInv'
  BY <1>5, DuplicationOK
<1>6. ASSUME NEW session \in Sessions, NEW outcome \in Outcomes, Reconnect(session, outcome)
      PROVE  IInv'
  BY <1>6, ReconnectOK
<1>7. ASSUME HelloAckPanics PROVE IInv'
  <2>1. Panic("clock")
    BY <1>7 DEF HelloAckPanics
  <2> QED BY <2>1, PanicEnds DEF Panics, CallPanics
<1>8. ASSUME OtherEvent PROVE IInv'
  <2>1. EndIteration(conman) /\ sendFailed' = sendFailed
    BY <1>8 DEF OtherEvent
  <2>2. Inv(conman, sendFailed') /\ sendFailed' \in BOOLEAN
    BY <2>1, Zenon DEF IInv
  <2> QED BY <2>1, <2>2, IterationEnds
<1>9. ASSUME AwaitPanics PROVE IInv'
  <2>1. sendFailed
    BY <1>9 DEF AwaitPanics, Busy, CanAwait, HasEndpoints, IInv, Inv, NoneEmpty
  <2>2. Panic("select_all")
    BY <1>9 DEF AwaitPanics
  <2> QED BY <2>1, <2>2, PanicEnds DEF Panics, StatePanics
<1>10. ASSUME MakeSocketPanics PROVE IInv'
  <2>1. Panic("socket")
    BY <1>10 DEF MakeSocketPanics
  <2> QED BY <2>1, PanicEnds DEF Panics, CallPanics
<1>11. ASSUME EventPanics PROVE IInv'
  <2>1. PICK cause \in {"tun", "log", "recv"} : Panic(cause)
    BY <1>11 DEF EventPanics
  <2> QED BY <2>1, PanicEnds DEF Panics, CallPanics
<1>12. ASSUME UNCHANGED vars PROVE IInv'
  BY <1>12 DEF vars, IInv, StatePanicNeedsUnsentHello
<1> QED BY <1>1, <1>2, <1>3, <1>4, <1>5, <1>6, <1>7, <1>8, <1>9, <1>10, <1>11, <1>12 DEF Next

LEMMA Invariance == Spec => []IInv
<1> QED BY InitIInv, NextIInv, PTL DEF Spec

-----------------------------------------------------------------------------
(* The properties.                                                          *)

(* The manager has its type: the only endpoint is the server, and its       *)
(* connections are configured ones.                                         *)
THEOREM ClientTypeOK == Spec => []TypeOK
<1>1. IInv => TypeOK
  <2> SUFFICES ASSUME IInv PROVE TypeOK
    OBVIOUS
  <2>1. ASSUME NEW id \in Ids(conman)
        PROVE  /\ id = Server
               /\ conman.endpoints[id].session_id \in Sessions
               /\ conman.endpoints[id].tx_counter \in 0 .. MaxPackets
               /\ Keys(conman.endpoints[id]) \subseteq Configured
               /\ conman.endpoints[id].connections \in
                    [Keys(conman.endpoints[id]) -> [state : ConnectionStates, enabled : BOOLEAN]]
    <3>1. EndpointOK(conman.endpoints[id])
      BY DEF IInv, Inv, ManagerOK
    <3>2. conman.endpoints[id].tx_counter \in Nat /\ conman.endpoints[id].tx_counter <= MaxPackets
      BY <3>1 DEF EndpointOK, IInv, Inv, EndpointsTyped
    <3> QED BY <3>1, <3>2, MaxPacketsAssumption DEF EndpointOK, IInv, Inv, EndpointsTyped
  <2>2. panic \in {"none"} \cup StatePanics \cup CallPanics /\ sendFailed \in BOOLEAN
    BY Zenon DEF IInv, Panics
  <2> QED BY <2>1, <2>2, Zenon DEF TypeOK
<1> QED BY Invariance, <1>1, PTL

(* handle_hello_ack connects and learns in one step, and the clean-up takes *)
(* the routes with the endpoint: a Connected connection has every route.    *)
THEOREM RoutesAlwaysFollow == Spec => []RoutesFollowHandshake
<1>1. IInv => RoutesFollowHandshake
  <2> SUFFICES ASSUME IInv PROVE RoutesFollowHandshake
    OBVIOUS
  <2>1. ASSUME NEW key \in ServerKeys, conman.endpoints[Server].connections[key].state = "Connected"
        PROVE  {m.route : m \in Range(conman.routes)} = Range(ServerRoutes)
    <3>1. IsConnected(conman, Server, key)
      BY <2>1 DEF IsConnected, ServerKeys
    <3>2. \A r \in Range(ServerRoutes) : Mapping(r, Server) \in Range(conman.routes)
      BY <3>1 DEF IInv, Inv, RoutesLearnt
    <3>3. \A m \in Range(conman.routes) : \E r \in Range(ServerRoutes) : m = Mapping(r, Server)
      BY DEF IInv, Inv, OnlyServerRoutes
    <3>4. \A r : Mapping(r, Server).route = r
      BY DEF Mapping
    <3> QED BY <3>2, <3>3, <3>4
  <2>2. {m.endpoint_id : m \in Range(conman.routes)} \subseteq Ids(conman)
    BY DEF IInv, Inv, OnlyServerRoutes, Mapping
  <2> QED BY <2>1, <2>2 DEF RoutesFollowHandshake
<1> QED BY Invariance, <1>1, PTL

(* No iteration ends with a Disconnected connection, whichever handler      *)
(* found it: the loop never awaits one.                                     *)
THEOREM NeverAwaitsDisconnected == Spec => []NoDisconnectedAwaited
<1>1. IInv => NoDisconnectedAwaited
  BY DEF IInv, NoneDisconnected, DisconnectedKeys, NoDisconnectedAwaited, ServerKeys
<1> QED BY Invariance, <1>1, PTL

(* Whatever is lost, timed out or refused, the manager never brings the     *)
(* client into a state that panics by itself, but for an endpoint without   *)
(* connections that a Hello left which could not be sent.                   *)
THEOREM StatePanicOnlyAfterUnsentHello == Spec => []StatePanicNeedsUnsentHello
<1>1. IInv => StatePanicNeedsUnsentHello
  BY DEF IInv
<1> QED BY Invariance, <1>1, PTL
=============================================================================
