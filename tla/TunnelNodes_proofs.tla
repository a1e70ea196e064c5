-------------------------- MODULE TunnelNodes_proofs --------------------------
(***************************************************************************)
(* The two nodes of the tunnel, each on its own: their types, and that      *)
(* every step of the server is one of ServerLoop and every step of the      *)
(* client one of ClientLoop.                                                *)
(***************************************************************************)
EXTENDS Tunnel_proofs

-----------------------------------------------------------------------------
(* A node whose writes all succeed has no Disconnected connection, and      *)
(* without duplication commands all connections are enabled.                *)

Live(e) ==
    /\ DisconnectedKeys(e) = {}
    /\ \A k \in Keys(e) : e.connections[k].enabled = TRUE

(* The states of all connections are replaced. *)
LEMMA StatesLive ==
    ASSUME NEW e, EndpointOK(e), Live(e),
           NEW states, \A k \in Keys(e) : states[k] \in {"Startup", "Connected"},
           NEW f, f = [e EXCEPT !.connections =
                        [k \in Keys(e) |-> [e.connections[k] EXCEPT !.state = states[k]]]]
    PROVE  SameWithKeys(e, f, Keys(e)) /\ Live(f) /\ f.tx_counter = e.tx_counter
<1> DEFINE conn(k) == [e.connections[k] EXCEPT !.state = states[k]]
           conns == [k \in Keys(e) |-> conn(k)]
<1>1. ASSUME NEW k \in Keys(e)
      PROVE  /\ conn(k) \in [state : ConnectionStates, enabled : BOOLEAN]
             /\ conn(k).state # "Disconnected" /\ conn(k).enabled = TRUE
  <2>1. /\ e.connections[k] \in [state : ConnectionStates, enabled : BOOLEAN]
        /\ e.connections[k].enabled = TRUE
    BY DEF EndpointOK, Live
  <2> QED BY <2>1 DEF ConnectionStates
<1>2. f = [e EXCEPT !.connections = conns]
  OBVIOUS
<1> HIDE DEF conn
<1>3. f = [session_id |-> e.session_id, connections |-> conns, tx_counter |-> e.tx_counter]
  <2> HIDE DEF conns
  <2> QED BY <1>2, SetConnections
<1>4. f.connections = conns /\ Keys(f) = Keys(e)
  BY <1>3 DEF Keys
<1>5. EndpointOK(f)
  <2>1. conns \in [Keys(f) -> [state : ConnectionStates, enabled : BOOLEAN]]
    BY <1>1, <1>4
  <2> HIDE DEF conns
  <2>2. f.session_id = e.session_id /\ f.connections = conns /\ f.tx_counter = e.tx_counter
    BY <1>3
  <2>3. e.tx_counter \in Nat
    BY DEF EndpointOK
  <2> QED BY <1>3, <2>1, <2>2, <2>3 DEF EndpointOK
<1>6. \A k \in Keys(f) : f.connections[k] = conn(k)
  BY <1>4
<1>7. Live(f)
  BY <1>1, <1>4, <1>6 DEF Live, DisconnectedKeys
<1> QED BY <1>3, <1>4, <1>5, <1>7 DEF SameWithKeys

(* A HelloAck that is written makes every connection Connected. *)
LEMMA AcknowledgeLive ==
    ASSUME NEW e, EndpointOK(e), Live(e), NEW f, f = Acknowledge(e, {})
    PROVE  SameWithKeys(e, f, Keys(e)) /\ Live(f) /\ f.tx_counter = e.tx_counter
<1> DEFINE states == [k \in Keys(e) |-> "Connected"]
           conns == [k \in Keys(e) |-> [e.connections[k] EXCEPT !.state = states[k]]]
<1>1. ASSUME NEW k \in Keys(e)
      PROVE  [e.connections[k] EXCEPT !.state =
                IF @ = "Disconnected" \/ k \in {} THEN "Disconnected" ELSE "Connected"]
             = [e.connections[k] EXCEPT !.state = states[k]]
  <2>1. e.connections[k].state # "Disconnected"
    BY DEF Live, DisconnectedKeys
  <2> QED BY <2>1
<1>2. f = [e EXCEPT !.connections = conns]
  BY <1>1, Zenon DEF Acknowledge
<1>3. \A k \in Keys(e) : states[k] \in {"Startup", "Connected"}
  OBVIOUS
<1> HIDE DEF states
<1> QED BY <1>2, <1>3, StatesLive

(* A HelloAck that is read makes at most one of them Connected. *)
Answered(e, key) ==
    [e EXCEPT !.connections =
        [k \in Keys(e) |->
            [e.connections[k] EXCEPT !.state =
                IF k = key /\ @ = "Startup" THEN "Connected" ELSE @]]]

LEMMA ConnectedLive ==
    ASSUME NEW e, EndpointOK(e), Live(e), NEW key, NEW f, f = Answered(e, key)
    PROVE  SameWithKeys(e, f, Keys(e)) /\ Live(f) /\ f.tx_counter = e.tx_counter
<1> DEFINE State(k) == IF k = key /\ e.connections[k].state = "Startup" THEN "Connected"
                       ELSE e.connections[k].state
           states == [k \in Keys(e) |-> State(k)]
           conn(k) == [e.connections[k] EXCEPT !.state = State(k)]
           conns == [k \in Keys(e) |-> [e.connections[k] EXCEPT !.state = states[k]]]
<1>1. f = [e EXCEPT !.connections = [k \in Keys(e) |-> conn(k)]]
  <2>1. \A k \in Keys(e) : [e.connections[k] EXCEPT !.state =
            IF k = key /\ @ = "Startup" THEN "Connected" ELSE @] = conn(k)
    OBVIOUS
  <2> QED BY <2>1, Zenon DEF Answered
<1>2. ASSUME NEW k \in Keys(e) PROVE State(k) \in {"Startup", "Connected"}
  <2>1. e.connections[k] \in [state : ConnectionStates, enabled : BOOLEAN]
    BY DEF EndpointOK
  <2>2. e.connections[k].state # "Disconnected"
    BY DEF Live, DisconnectedKeys
  <2> QED BY <2>1, <2>2 DEF ConnectionStates
<1> HIDE DEF State
<1>3. \A k \in Keys(e) : conn(k) = [e.connections[k] EXCEPT !.state = states[k]]
  OBVIOUS
<1>4. f = [e EXCEPT !.connections = conns]
  BY <1>1, <1>3, Zenon
<1>5. \A k \in Keys(e) : states[k] \in {"Startup", "Connected"}
  BY <1>2
<1> HIDE DEF states
<1> QED BY <1>4, <1>5, StatesLive

(* New connections are enabled and in Startup. *)
LEMMA WithConnectionsLive ==
    ASSUME NEW e, EndpointOK(e), Live(e), NEW keys, NEW f, f = WithConnections(e, keys)
    PROVE  /\ SameWithKeys(e, f, Keys(e) \cup keys) /\ Live(f) /\ f.tx_counter = e.tx_counter
<1>1. /\ SameWithKeys(e, f, Keys(e) \cup keys) /\ f.tx_counter = e.tx_counter
      /\ \A k \in Keys(e) : f.connections[k] = e.connections[k]
      /\ \A k \in keys \ Keys(e) : f.connections[k] = NewConnection
  BY WithConnectionsOK
<1>2. NewConnection.state # "Disconnected" /\ NewConnection.enabled = TRUE
  BY DEF NewConnection
<1>3. ASSUME NEW k \in Keys(f)
      PROVE  f.connections[k].state # "Disconnected" /\ f.connections[k].enabled = TRUE
  BY <1>1, <1>2 DEF SameWithKeys, Live, DisconnectedKeys
<1> QED BY <1>1, <1>3 DEF Live, DisconnectedKeys

LEMMA NewEndpointLive ==
    ASSUME NEW session
    PROVE  Live(NewEndpoint(session))
BY NewEndpointOK DEF Live, DisconnectedKeys

(* The manager of such a node: every endpoint has connections, all live,    *)
(* no counter is above max, and every route has its endpoint.               *)
Serving(cm, max) ==
    /\ ManagerOK(cm) /\ NoneEmpty(cm)
    /\ \A id \in Ids(cm) : Live(cm.endpoints[id]) /\ cm.endpoints[id].tx_counter <= max
    /\ \A m \in Range(cm.routes) : m.endpoint_id \in Ids(cm)

LEMMA NewManagerServing ==
    ASSUME NEW max
    PROVE  Serving(NewManager, max)
BY NewManagerOK DEF Serving, NoneEmpty

(* One endpoint is put into the manager.                                    *)
LEMMA WithEndpointServing ==
    ASSUME NEW max, NEW cm, Serving(cm, max), NEW id,
           NEW e, EndpointOK(e), Live(e), HasConnections(e), e.tx_counter <= max,
           NEW after, after = WithEndpoint(cm, id, e)
    PROVE  Serving(after, max)
<1>1. /\ ManagerOK(after) /\ Ids(after) = Ids(cm) \cup {id} /\ after.endpoints[id] = e
      /\ \A i \in Ids(cm) \ {id} : after.endpoints[i] = cm.endpoints[i]
      /\ after.routes = cm.routes
  BY WithEndpointOK DEF Serving
<1> QED BY <1>1 DEF Serving, NoneEmpty

(* An endpoint of the manager announces routes.                             *)
LEMMA WithRoutesServing ==
    ASSUME NEW max, NEW cm, Serving(cm, max), NEW id \in Ids(cm),
           NEW static_routes, static_routes \in Seq(Range(static_routes)),
           NEW routes, routes = InsertRoutes(cm.routes, static_routes, id),
           NEW after, after = [cm EXCEPT !.routes = routes]
    PROVE  Serving(after, max)
<1>1. /\ TableOK(routes)
      /\ Range(routes) = Range(cm.routes) \cup {Mapping(r, id) : r \in Range(static_routes)}
  BY InsertRoutesOK DEF Serving, ManagerOK
<1>2. /\ ManagerOK(after) /\ after.endpoints = cm.endpoints /\ Ids(after) = Ids(cm)
      /\ after.routes = routes
  <2>1. ManagerOK(cm)
    BY DEF Serving
  <2>2. TableOK(routes)
    BY <1>1
  <2> QED BY <2>1, <2>2, WithRoutesOK
<1>3. \A m \in Range(routes) : m.endpoint_id \in Ids(cm)
  BY <1>1 DEF Mapping, Serving
<1> QED BY <1>2, <1>3 DEF Serving, NoneEmpty

(* A Hello that is not refused, and whose connection can be set up.         *)
LEMMA HandleHelloServing ==
    ASSUME NEW max \in Nat, NEW cm, Serving(cm, max), NEW id, NEW session, NEW key,
           NEW static_routes, static_routes \in Seq(Range(static_routes)),
           ~Refused(cm, id, session),
           NEW after, after = HandleHello(cm, id, session, static_routes, key, TRUE, {})
    PROVE  Serving(after, max)
<1> DEFINE greeted == Greeted(cm, id, session)
           start == Start(cm, id, session)
           f == WithConnections(start, {key})
           g == Acknowledge(f, {})
           mid == WithEndpoint(greeted, id, g)
<1>1. GreetedAs(cm, greeted, id, session)
  BY GreetedOK DEF Serving
<1>2. after = [mid EXCEPT !.routes = InsertRoutes(mid.routes, static_routes, id)]
  <2>1. greeted.endpoints[id] = start
    BY <1>1 DEF GreetedAs
  <2> QED BY <2>1, Zenon DEF HandleHello
<1> HIDE DEF greeted, mid
<1>3. EndpointOK(start) /\ Live(start) /\ start.tx_counter <= max
  <2>1. EndpointOK(start)
    BY <1>1 DEF GreetedAs
  <2>2. CASE id \in Ids(cm) /\ cm.endpoints[id].session_id = session
    BY <2>1, <2>2 DEF Start, Serving
  <2>3. CASE ~(id \in Ids(cm) /\ cm.endpoints[id].session_id = session)
    <3>1. start = NewEndpoint(session)
      BY <2>3 DEF Start
    <3> QED BY <2>1, <3>1, NewEndpointOK, NewEndpointLive
  <2> QED BY <2>2, <2>3
<1> HIDE DEF start
<1>4. SameWithKeys(start, f, Keys(start) \cup {key}) /\ Live(f) /\ f.tx_counter = start.tx_counter
  BY <1>3, WithConnectionsLive
<1> HIDE DEF f
<1>5. SameWithKeys(f, g, Keys(f)) /\ Live(g) /\ g.tx_counter = f.tx_counter
  BY <1>4, AcknowledgeLive DEF SameWithKeys
<1> HIDE DEF g
<1>6. EndpointOK(g) /\ Live(g) /\ HasConnections(g) /\ g.tx_counter <= max
  BY <1>3, <1>4, <1>5 DEF SameWithKeys, HasConnections
<1>7. /\ ManagerOK(mid) /\ Ids(mid) = Ids(cm) \cup {id} /\ mid.endpoints[id] = g
      /\ \A i \in Ids(cm) \ {id} : mid.endpoints[i] = cm.endpoints[i]
      /\ mid.routes = cm.routes
  <2>1. /\ ManagerOK(mid) /\ Ids(mid) = Ids(greeted) \cup {id} /\ mid.endpoints[id] = g
        /\ \A i \in Ids(greeted) \ {id} : mid.endpoints[i] = greeted.endpoints[i]
        /\ mid.routes = greeted.routes
    BY <1>1, <1>6, WithEndpointOK DEF GreetedAs, mid
  <2> QED BY <1>1, <2>1 DEF GreetedAs
<1>8. Serving(mid, max)
  BY <1>6, <1>7 DEF Serving, NoneEmpty
<1> QED BY <1>2, <1>7, <1>8, WithRoutesServing

(* A Hello on an established connection.                                    *)
LEMMA HandleEstablishedHelloServing ==
    ASSUME NEW max, NEW cm, Serving(cm, max), NEW id, NEW key,
           NEW after, after = HandleEstablishedHello(cm, id, key, {})
    PROVE  Serving(after, max)
<1>1. CASE id \notin Ids(cm)
  BY <1>1 DEF HandleEstablishedHello
<1>2. CASE id \in Ids(cm)
  <2> DEFINE e == cm.endpoints[id]
             f == WithConnections(e, {key})
             g == Acknowledge(f, {})
  <2>1. after = WithEndpoint(cm, id, g)
    BY <1>2 DEF HandleEstablishedHello
  <2>2. EndpointOK(e) /\ Live(e) /\ e.tx_counter <= max
    BY <1>2 DEF Serving, ManagerOK
  <2> HIDE DEF e
  <2>3. SameWithKeys(e, f, Keys(e) \cup {key}) /\ Live(f) /\ f.tx_counter = e.tx_counter
    BY <2>2, WithConnectionsLive
  <2> HIDE DEF f
  <2>4. SameWithKeys(f, g, Keys(f)) /\ Live(g) /\ g.tx_counter = f.tx_counter
    BY <2>3, AcknowledgeLive DEF SameWithKeys
  <2> HIDE DEF g
  <2>5. EndpointOK(g) /\ Live(g) /\ HasConnections(g) /\ g.tx_counter <= max
    BY <2>2, <2>3, <2>4 DEF SameWithKeys, HasConnections
  <2> QED BY <2>1, <2>5, WithEndpointServing
<1> QED BY <1>1, <1>2

(* A HelloAck.                                                              *)
LEMMA HandleHelloAckServing ==
    ASSUME NEW max, NEW cm, Serving(cm, max), NEW id \in Ids(cm), NEW key,
           NEW static_routes, static_routes \in Seq(Range(static_routes)),
           NEW after, after = HandleHelloAck(cm, id, static_routes, key)
    PROVE  Serving(after, max)
<1> DEFINE e == cm.endpoints[id]
           f == Answered(e, key)
           mid == WithEndpoint(cm, id, f)
<1>1. after = [mid EXCEPT !.routes = InsertRoutes(mid.routes, static_routes, id)]
  BY Zenon DEF HandleHelloAck, Answered
<1>2. EndpointOK(e) /\ Live(e) /\ HasConnections(e) /\ e.tx_counter <= max
  BY DEF Serving, ManagerOK, NoneEmpty
<1> HIDE DEF e
<1>3. SameWithKeys(e, f, Keys(e)) /\ Live(f) /\ f.tx_counter = e.tx_counter
  BY <1>2, ConnectedLive
<1> HIDE DEF f
<1>4. EndpointOK(f) /\ Live(f) /\ HasConnections(f) /\ f.tx_counter <= max
  BY <1>2, <1>3 DEF SameWithKeys, HasConnections
<1>5. id \in Ids(mid)
  <2>1. ManagerOK(cm)
    BY DEF Serving
  <2>2. Ids(mid) = Ids(cm) \cup {id}
    BY <1>4, <2>1, WithEndpointOK
  <2> QED BY <2>2
<1> HIDE DEF mid
<1>6. Serving(mid, max)
  BY <1>4, WithEndpointServing DEF mid
<1> QED BY <1>1, <1>5, <1>6, WithRoutesServing

(* A packet from the TUN device, which no connection refuses.               *)
LEMMA HandlePacketFromTunServing ==
    ASSUME NEW max \in Nat, NEW cm, Serving(cm, max), NEW id, Ids(cm) \subseteq {id},
           NEW address, cm.endpoints[id].tx_counter < max,
           NEW after, after = HandlePacketFromTun(cm, address, [i \in {id} |-> {}])
    PROVE  Serving(after, max) /\ Refreshed(cm, after, {}) /\ after.routes = cm.routes
<1> DEFINE refused == [i \in {id} |-> {}]
           sent == HandlePacketFromTun(cm, address, refused)
<1>1. after = sent /\ ManagerOK(cm)
  BY DEF Serving
<1>2. \A i \in Ids(cm) : refused[i] = {} /\ i = id
  OBVIOUS
<1> HIDE DEF refused
<1>3. /\ Refreshed(cm, sent, {}) /\ sent.routes = cm.routes
      /\ \A i \in Ids(cm) :
            /\ sent.endpoints[i].tx_counter =
                IF i \in Lookup(cm.routes, address) THEN cm.endpoints[i].tx_counter + 1
                ELSE cm.endpoints[i].tx_counter
            /\ WritesFail(cm.endpoints[i], sent.endpoints[i], refused[i])
  BY <1>1, HandlePacketFromTunOK
<1> HIDE DEF sent
<1>4. ASSUME NEW i \in Ids(cm)
      PROVE  /\ Live(sent.endpoints[i]) /\ sent.endpoints[i].tx_counter <= max
             /\ HasConnections(sent.endpoints[i])
  <2>1. /\ Live(cm.endpoints[i]) /\ HasConnections(cm.endpoints[i])
        /\ cm.endpoints[i].tx_counter \in Nat /\ cm.endpoints[i].tx_counter < max
    BY <1>2 DEF Serving, NoneEmpty, ManagerOK, EndpointOK
  <2>2. Keys(sent.endpoints[i]) = Keys(cm.endpoints[i])
    BY <1>3 DEF Refreshed, Continues
  <2>3. Live(sent.endpoints[i])
    BY <1>2, <1>3, <2>1, <2>2 DEF Live, WritesFail
  <2>4. sent.endpoints[i].tx_counter <= max
    BY <1>3, <2>1
  <2> QED BY <2>1, <2>2, <2>3, <2>4 DEF HasConnections
<1>5. ManagerOK(sent) /\ Ids(sent) = Ids(cm)
  BY <1>3 DEF Refreshed
<1> QED BY <1>1, <1>3, <1>4, <1>5 DEF Serving, NoneEmpty

(* A keepalive that can be sent on every connection.                        *)
LEMMA GreetAllServing ==
    ASSUME NEW max, NEW cm, Serving(cm, max), NEW after, after = GreetAll(cm, {})
    PROVE  /\ Serving(after, max) /\ Refreshed(cm, after, {}) /\ after.routes = cm.routes
           /\ \A i \in Ids(cm) : Keys(after.endpoints[i]) = Keys(cm.endpoints[i])
<1>1. ManagerOK(cm)
  BY DEF Serving
<1>2. /\ Refreshed(cm, after, {}) /\ after.routes = cm.routes
      /\ \A i \in Ids(cm) :
            /\ after.endpoints[i].tx_counter = cm.endpoints[i].tx_counter
            /\ WritesFail(cm.endpoints[i], after.endpoints[i], {})
  BY <1>1, GreetAllOK
<1>3. ASSUME NEW i \in Ids(cm)
      PROVE  /\ Keys(after.endpoints[i]) = Keys(cm.endpoints[i])
             /\ Live(after.endpoints[i]) /\ after.endpoints[i].tx_counter <= max
             /\ HasConnections(after.endpoints[i])
  <2>1. Live(cm.endpoints[i]) /\ HasConnections(cm.endpoints[i])
        /\ cm.endpoints[i].tx_counter <= max
    BY DEF Serving, NoneEmpty
  <2>2. Keys(after.endpoints[i]) = Keys(cm.endpoints[i])
    BY <1>2 DEF Refreshed, Continues
  <2>3. Live(after.endpoints[i])
    BY <1>2, <2>1, <2>2 DEF Live, WritesFail
  <2> QED BY <1>2, <2>1, <2>2, <2>3 DEF HasConnections
<1>4. ManagerOK(after) /\ Ids(after) = Ids(cm)
  BY <1>2 DEF Refreshed
<1> QED BY <1>2, <1>3, <1>4 DEF Serving, NoneEmpty

(* A connection leaves.                                                     *)
LEMMA RemoveConnectionServing ==
    ASSUME NEW max, NEW cm, Serving(cm, max), NEW id, NEW key,
           NEW after, after = RemoveConnection(cm, id, key)
    PROVE  Serving(after, max) /\ Shrunk(cm, after)
<1>1. Shrunk(cm, after) /\ NoneEmpty(after)
  BY RemoveConnectionOK DEF Serving
<1>2. ASSUME NEW i \in Ids(after)
      PROVE  Live(after.endpoints[i]) /\ after.endpoints[i].tx_counter <= max
  <2>1. /\ i \in Ids(cm) /\ after.endpoints[i].tx_counter = cm.endpoints[i].tx_counter
        /\ Keys(after.endpoints[i]) \subseteq Keys(cm.endpoints[i])
        /\ \A k \in Keys(after.endpoints[i]) :
                after.endpoints[i].connections[k] = cm.endpoints[i].connections[k]
    BY <1>1 DEF Shrunk
  <2>2. Live(cm.endpoints[i]) /\ cm.endpoints[i].tx_counter <= max
    BY <2>1 DEF Serving
  <2> QED BY <2>1, <2>2 DEF Live, DisconnectedKeys
<1>3. \A m \in Range(after.routes) : m.endpoint_id \in Ids(after)
  BY <1>1 DEF Shrunk, Serving
<1> QED BY <1>1, <1>2, <1>3 DEF Serving, Shrunk

(* Connections are opened, at least one if the endpoint is new.             *)
LEMMA CreatedServing ==
    ASSUME NEW max \in Nat, NEW cm, Serving(cm, max), NEW id, NEW after, NEW session,
           NEW reached, NEW opened, Created(cm, after, id, session, reached, opened),
           id \in Ids(cm) \/ opened # {}
    PROVE  Serving(after, max)
<1> DEFINE e == cm.endpoints[id]
           f == after.endpoints[id]
<1>0. NewConnection.state # "Disconnected" /\ NewConnection.enabled = TRUE
  BY DEF NewConnection
<1>1. /\ ManagerOK(after) /\ Ids(after) = Ids(cm) \cup {id} /\ after.routes = cm.routes
      /\ \A i \in Ids(cm) \ {id} : after.endpoints[i] = cm.endpoints[i]
  BY DEF Created
<1>2. HasConnections(f) /\ Live(f) /\ f.tx_counter <= max
  <2>1. CASE id \in Ids(cm)
    <3>1. HasConnections(e) /\ Live(e) /\ e.tx_counter <= max
      BY <2>1 DEF Serving, NoneEmpty
    <3>2. /\ Keys(e) \subseteq Keys(f) /\ f.tx_counter = e.tx_counter
          /\ \A k \in Keys(e) : f.connections[k] = e.connections[k]
          /\ \A k \in Keys(f) \ Keys(e) : f.connections[k] = NewConnection
      BY <2>1 DEF Created, Continues
    <3> QED BY <1>0, <3>1, <3>2 DEF HasConnections, Live, DisconnectedKeys
  <2>2. CASE id \notin Ids(cm)
    <3>1. /\ f.tx_counter = 0 /\ Keys(f) = opened /\ opened # {}
          /\ \A k \in Keys(f) : f.connections[k] = NewConnection
      BY <1>1, <2>2 DEF Created
    <3> QED BY <1>0, <3>1 DEF HasConnections, Live, DisconnectedKeys
  <2> QED BY <2>1, <2>2
<1> HIDE DEF e, f
<1> QED BY <1>1, <1>2 DEF Serving, NoneEmpty, f

-----------------------------------------------------------------------------
(* The types of the client.                                                 *)

(* Each of the client's connections has a socket of its own.                *)
SocketsOK(local, opened_in) ==
    /\ opened_in \in Seq(Sessions) /\ Len(opened_in) \in 1 .. MaxSockets
    /\ local = [key \in DOMAIN local |-> local[key]]
    /\ IsInjective(local)

ClientTypes(cm, local, opened_in) ==
    /\ Serving(cm, MaxUp)
    /\ ClientKeys(cm) \subseteq Configured
    /\ SocketsOK(local, opened_in)

LEMMA OpenAndGreetSockets ==
    ASSUME NEW cm, NEW kept, sockets \in Seq(Sessions), Len(sockets) \in 1 .. MaxSockets,
           cm.endpoints[ServerId].session_id \in Sessions,
           IsFiniteSet(ClientKeys(cm) \ DOMAIN kept), IsInjective(kept),
           \A key \in DOMAIN kept : kept[key] \in DOMAIN sockets,
           OpenAndGreet(cm, kept)
    PROVE  SocketsOK(bound', sockets')
<1> DEFINE session == cm.endpoints[ServerId].session_id
           new == ClientKeys(cm) \ DOMAIN kept
           n == Cardinality(new)
           opened == [i \in 1 .. n |-> session]
<1>1. n \in Nat /\ Len(sockets) \in Nat /\ MaxSockets \in Nat
  BY FS_CardinalityType, NumbersTyped
<1>2. PICK order \in Bijection(new, 1 .. n) :
        bound' = [key \in ClientKeys(cm) |->
                    IF key \in DOMAIN kept THEN kept[key] ELSE Len(sockets) + order[key]]
  BY DEF OpenAndGreet
<1>3. \A key \in new : order[key] \in 1 .. n
  BY DEF Bijection, Injection
<1>4. \A j, k \in new : order[j] = order[k] => j = k
  BY DEF Bijection, Injection, IsInjective
<1>5. sockets' = sockets \o opened /\ Len(sockets) + n <= MaxSockets
  BY DEF OpenAndGreet
<1> HIDE DEF n
<1>6. opened \in Seq(Sessions) /\ Len(opened) = n
  <2>1. opened \in [1 .. n -> Sessions]
    OBVIOUS
  <2> QED BY <1>1, <2>1
<1> HIDE DEF opened
<1>7. sockets' \in Seq(Sessions) /\ Len(sockets') = Len(sockets) + n
  BY <1>5, <1>6
<1>8. Len(sockets') \in 1 .. MaxSockets
  BY <1>1, <1>5, <1>7
<1>9. DOMAIN bound' = ClientKeys(cm) /\ bound' = [key \in DOMAIN bound' |-> bound'[key]]
  BY <1>2
<1>10. /\ \A key \in ClientKeys(cm) \cap DOMAIN kept :
            bound'[key] = kept[key] /\ bound'[key] \in 1 .. Len(sockets)
       /\ \A key \in new :
            /\ bound'[key] = Len(sockets) + order[key]
            /\ bound'[key] \in Len(sockets) + 1 .. Len(sockets) + n
  <2>1. DOMAIN sockets = 1 .. Len(sockets)
    OBVIOUS
  <2>2. \A key \in ClientKeys(cm) \cap DOMAIN kept :
            bound'[key] = kept[key] /\ bound'[key] \in 1 .. Len(sockets)
    BY <1>2, <2>1
  <2>3. \A key \in new : bound'[key] = Len(sockets) + order[key]
    BY <1>2
  <2>4. \A key \in new : Len(sockets) + order[key] \in Len(sockets) + 1 .. Len(sockets) + n
    BY <1>1, <1>3
  <2> QED BY <2>2, <2>3, <2>4
<1>11. IsInjective(bound')
  <2> SUFFICES ASSUME NEW j \in ClientKeys(cm), NEW k \in ClientKeys(cm), bound'[j] = bound'[k]
               PROVE  j = k
    BY <1>9 DEF IsInjective
  <2>1. CASE j \in DOMAIN kept /\ k \in DOMAIN kept
    BY <1>10, <2>1 DEF IsInjective
  <2>2. CASE j \in new /\ k \in new
    BY <1>1, <1>3, <1>4, <1>10, <2>2
  <2>3. CASE (j \in new /\ k \in DOMAIN kept) \/ (j \in DOMAIN kept /\ k \in new)
    BY <1>1, <1>10, <2>3
  <2>4. (j \in DOMAIN kept \/ j \in new) /\ (k \in DOMAIN kept \/ k \in new)
    OBVIOUS
  <2> HIDE DEF new
  <2> QED BY <2>1, <2>2, <2>3, <2>4, Zenon
<1> QED BY <1>7, <1>8, <1>9, <1>11 DEF SocketsOK

(* A handler that opens no socket.                                          *)
LEMMA ClientBecomesTypes ==
    ASSUME ClientTypes(client, bound, sockets), NEW cm, ClientBecomes(cm),
           Serving(cm, MaxUp), ClientKeys(cm) \subseteq Configured,
           SocketsOK(bound', sockets')
    PROVE  ClientTypes(client', bound', sockets')
BY DEF ClientTypes, ClientBecomes

(* Configured connections of a new endpoint are opened.                     *)
LEMMA CreateServing ==
    ASSUME NEW cm, Serving(cm, MaxUp), Ids(cm) = {},
           NEW opened \in SUBSET Configured, opened # {}, NEW session,
           NEW after, after = CreateConnections(cm, ServerId, Configured, session, Opening(opened))
    PROVE  /\ Serving(after, MaxUp) /\ ClientKeys(after) = opened
           /\ Ids(after) = {ServerId} /\ after.endpoints[ServerId].session_id = session
<1> DEFINE reached == {k \in Configured : Opening(opened)[k] # "socket_error"}
           ok == {k \in Configured : Opening(opened)[k] = "ok"}
<1>1. Created(cm, after, ServerId, session, reached, ok)
  BY CreateConnectionsOK DEF Serving
<1>2. ok = opened
  BY DEF Opening
<1> HIDE DEF ok, reached
<1>3. Serving(after, MaxUp)
  BY <1>1, <1>2, CreatedServing, NumbersTyped
<1>4. /\ Ids(after) = {ServerId} /\ Keys(after.endpoints[ServerId]) = opened
      /\ after.endpoints[ServerId].session_id = session
  BY <1>1, <1>2 DEF Created
<1> QED BY <1>3, <1>4 DEF ClientKeys

LEMMA CreateTypes ==
    ASSUME ClientTypes(client, bound, sockets),
           NEW cm, Serving(cm, MaxUp), Ids(cm) = {},
           NEW opened \in SUBSET Configured, opened # {}, NEW session \in Sessions,
           NEW after, after = CreateConnections(cm, ServerId, Configured, session, Opening(opened)),
           ClientBecomes(after), OpenAndGreet(after, <<>>)
    PROVE  ClientTypes(client', bound', sockets')
<1>1. /\ Serving(after, MaxUp) /\ ClientKeys(after) = opened
      /\ Ids(after) = {ServerId} /\ after.endpoints[ServerId].session_id = session
  BY CreateServing
<1>2. DOMAIN <<>> = {} /\ IsInjective(<<>>)
  BY DEF IsInjective
<1>3. IsFiniteSet(ClientKeys(after) \ DOMAIN <<>>)
  <2>1. ClientKeys(after) \ DOMAIN <<>> \in SUBSET Configured
    BY <1>1
  <2> QED BY <2>1, ConfiguredAssumption, FS_Subset
<1>4. SocketsOK(bound', sockets')
  BY <1>1, <1>2, <1>3, OpenAndGreetSockets DEF ClientTypes, SocketsOK
<1> QED BY <1>1, <1>4, ClientBecomesTypes

LEMMA SendKeepaliveTypes ==
    ASSUME IInv, ClientTypes(client, bound, sockets),
           NEW opened \in SUBSET Configured, SendKeepalive(opened)
    PROVE  ClientTypes(client', bound', sockets')
<1> DEFINE greeted == GreetAll(client, {})
           e == greeted.endpoints[ServerId]
           missing == Configured \ Keys(e)
           cm == EnsureEndpointConnections(greeted, ServerId, Configured, Opening(opened))
           reached == {k \in missing : Opening(opened)[k] # "socket_error"}
           ok == {k \in missing : Opening(opened)[k] = "ok"}
<1>1. Ids(client) = {ServerId} /\ Serving(client, MaxUp)
  BY DEF IInv, ClientOK, SendKeepalive, HasEndpoints, ClientTypes
<1>2. ClientBecomes(cm) /\ OpenAndGreet(cm, bound)
  BY DEF SendKeepalive
<1>3. /\ Serving(greeted, MaxUp) /\ Refreshed(client, greeted, {})
      /\ \A i \in Ids(client) : Keys(greeted.endpoints[i]) = Keys(client.endpoints[i])
  BY <1>1, GreetAllServing
<1> HIDE DEF greeted
<1>4. /\ ManagerOK(greeted) /\ Ids(greeted) = {ServerId}
      /\ e.session_id = client.endpoints[ServerId].session_id
      /\ Keys(e) = DOMAIN bound /\ DOMAIN bound \in SUBSET Configured
  BY <1>1, <1>3 DEF Refreshed, Continues, IInv, ClientOK, ClientKeys, ClientTypes
<1>5. cm = CreateConnections(greeted, ServerId, missing, e.session_id, Opening(opened))
  BY <1>4 DEF EnsureEndpointConnections
<1> HIDE DEF missing, cm
<1>6. Created(greeted, cm, ServerId, e.session_id, reached, ok)
  BY <1>4, <1>5, CreateConnectionsOK
<1>7. ok \in SUBSET Configured
  BY DEF missing
<1> HIDE DEF ok, reached
<1>8. Serving(cm, MaxUp)
  BY <1>3, <1>4, <1>6, CreatedServing, NumbersTyped
<1>9. /\ Ids(cm) = {ServerId} /\ cm.endpoints[ServerId].session_id = e.session_id
      /\ ClientKeys(cm) \in SUBSET Configured
      /\ ClientKeys(cm) \ DOMAIN bound \in SUBSET Configured
  BY <1>4, <1>6, <1>7 DEF Created, Continues, ClientKeys
<1>10. cm.endpoints[ServerId].session_id \in Sessions
  <2>1. PICK key : key \in DOMAIN bound
    <3>1. HasConnections(client.endpoints[ServerId])
      BY <1>1 DEF Serving, NoneEmpty
    <3> QED BY <1>1, <1>3, <1>4, <3>1 DEF HasConnections
  <2>2. bound[key] \in DOMAIN sockets /\ sockets[bound[key]] = client.endpoints[ServerId].session_id
    BY <2>1 DEF IInv, ClientOK
  <2>3. sockets \in Seq(Sessions)
    BY DEF ClientTypes, SocketsOK
  <2> QED BY <1>4, <1>9, <2>2, <2>3
<1>11. IsFiniteSet(ClientKeys(cm) \ DOMAIN bound)
  BY <1>9, ConfiguredAssumption, FS_Subset
<1>12. SocketsOK(bound', sockets')
  <2>1. \A key \in DOMAIN bound : bound[key] \in DOMAIN sockets
    BY DEF IInv, ClientOK
  <2>2. IsInjective(bound) /\ sockets \in Seq(Sessions) /\ Len(sockets) \in 1 .. MaxSockets
    BY DEF ClientTypes, SocketsOK
  <2> QED BY <1>2, <1>10, <1>11, <2>1, <2>2, OpenAndGreetSockets
<1> QED BY <1>2, <1>8, <1>9, <1>12, ClientBecomesTypes

LEMMA ReconnectTypes ==
    ASSUME IInv, ClientTypes(client, bound, sockets),
           NEW opened \in SUBSET Configured, Reconnect(opened)
    PROVE  ClientTypes(client', bound', sockets')
<1> DEFINE cm == CreateConnections(client, ServerId, Configured, NextSession, Opening(opened))
<1>1. /\ Serving(client, MaxUp) /\ Ids(client) = {} /\ NextSession \in Sessions /\ opened # {}
      /\ ClientBecomes(cm) /\ OpenAndGreet(cm, <<>>)
  BY DEF ClientTypes, Reconnect, HasEndpoints
<1> HIDE DEF cm
<1> QED BY <1>1, CreateTypes DEF cm

LEMMA RestartClientTypes ==
    ASSUME IInv, ClientTypes(client, bound, sockets), RestartClient
    PROVE  ClientTypes(client', bound', sockets')
<1> DEFINE cm == CreateConnections(NewManager, ServerId, Configured, NextSession,
                                   Opening(Configured))
<1>1. /\ Serving(NewManager, MaxUp) /\ Ids(NewManager) = {} /\ NextSession \in Sessions
      /\ Configured # {} /\ ClientBecomes(cm) /\ OpenAndGreet(cm, <<>>)
  BY NewManagerServing, NewManagerOK, ConfiguredAssumption DEF RestartClient
<1> HIDE DEF cm
<1> QED BY <1>1, CreateTypes DEF cm

LEMMA RoutesTyped == Routes \in Seq(Range(Routes))
BY DEF Routes, Range

LEMMA ClientReceivesHelloAckTypes ==
    ASSUME IInv, ClientTypes(client, bound, sockets), NEW m, ClientReceivesHelloAck(m)
    PROVE  ClientTypes(client', bound', sockets')
<1>1. PICK key \in DOMAIN bound : ClientBecomes(HandleHelloAck(client, ServerId, Routes, key))
  BY DEF ClientReceivesHelloAck
<1> DEFINE cm == HandleHelloAck(client, ServerId, Routes, key)
<1>2. ManagerOK(client) /\ ServerId \in Ids(client)
  BY DEF IInv, ClientOK, ClientKeys
<1>3. Refreshed(client, cm, {})
  BY <1>2, RoutesTyped, HandleHelloAckOK
<1>4. Serving(cm, MaxUp)
  BY <1>2, RoutesTyped, HandleHelloAckServing DEF ClientTypes
<1> HIDE DEF cm
<1>5. ClientKeys(cm) \subseteq Configured
  BY <1>3 DEF Refreshed, Continues, ClientKeys, ClientTypes
<1>6. SocketsOK(bound', sockets')
  BY DEF ClientReceivesHelloAck, ClientTypes
<1>7. ClientBecomes(cm)
  BY <1>1 DEF cm
<1> QED BY <1>4, <1>5, <1>6, <1>7, ClientBecomesTypes

LEMMA ClientTimeoutTypes ==
    ASSUME IInv, ClientTypes(client, bound, sockets), NEW key, ClientTimeout(key)
    PROVE  ClientTypes(client', bound', sockets')
<1> DEFINE cm == RemoveConnection(client, ServerId, key)
<1>1. Serving(cm, MaxUp) /\ Shrunk(client, cm)
  BY RemoveConnectionServing DEF ClientTypes
<1>2. ClientBecomes(cm) /\ sockets' = sockets
  BY DEF ClientTimeout
<1> HIDE DEF cm
<1>3. ClientKeys(cm) \subseteq ClientKeys(client)
  BY <1>1 DEF Shrunk, ClientKeys
<1>4. SocketsOK(bound', sockets')
  <2>1. bound' = [k \in DOMAIN bound \ {key} |-> bound[k]]
    BY DEF ClientTimeout, Restrict
  <2>2. DOMAIN bound' \subseteq DOMAIN bound /\ \A k \in DOMAIN bound' : bound'[k] = bound[k]
    BY <2>1
  <2>3. bound' = [k \in DOMAIN bound' |-> bound'[k]]
    BY <2>1
  <2>4. IsInjective(bound')
    BY <2>2 DEF IsInjective, ClientTypes, SocketsOK
  <2> QED BY <1>2, <2>3, <2>4 DEF SocketsOK, ClientTypes
<1> QED BY <1>1, <1>2, <1>3, <1>4, ClientBecomesTypes DEF ClientTypes

(* A packet is routed to the server only if the client has it.              *)
LEMMA RoutedIsServed ==
    ASSUME NEW max, NEW cm, Serving(cm, max), NEW id, Ids(cm) \subseteq {id}, NEW address
    PROVE  Lookup(cm.routes, address) \subseteq Ids(cm)
BY DEF Lookup, Serving

LEMMA ClientSendsTypes ==
    ASSUME IInv, ClientTypes(client, bound, sockets), ClientSends
    PROVE  ClientTypes(client', bound', sockets')
<1> DEFINE cm == HandlePacketFromTun(client, AnyAddress, [id \in {ServerId} |-> {}])
<1>1. /\ Serving(client, MaxUp) /\ Ids(client) \subseteq {ServerId} /\ MaxUp \in Nat
      /\ client.endpoints[ServerId].tx_counter < MaxUp
  BY NumbersTyped DEF ClientTypes, IInv, ClientOK, ClientSends
<1>2. Serving(cm, MaxUp) /\ Refreshed(client, cm, {})
  BY <1>1, HandlePacketFromTunServing
<1>3. ClientBecomes(cm) /\ bound' = bound /\ sockets' = sockets
  BY DEF ClientSends
<1> HIDE DEF cm
<1>4. ClientKeys(cm) = ClientKeys(client)
  BY <1>2 DEF Refreshed, Continues, ClientKeys
<1> QED BY <1>2, <1>3, <1>4, ClientBecomesTypes DEF ClientTypes

LEMMA ClientStepTypes ==
    ASSUME IInv, ClientTypes(client, bound, sockets), ClientStep
    PROVE  ClientTypes(client', bound', sockets')
<1>1. ASSUME NEW m, ClientReceivesPacket(m)
      PROVE  ClientTypes(client', bound', sockets')
  BY <1>1 DEF ClientReceivesPacket, ClientTypes
<1>2. CASE ClientDeadline
  BY <1>2 DEF ClientDeadline, ClientTypes
<1> QED
  BY <1>1, <1>2, SendKeepaliveTypes, ReconnectTypes, RestartClientTypes,
     ClientReceivesHelloAckTypes, ClientTimeoutTypes, ClientSendsTypes DEF ClientStep

-----------------------------------------------------------------------------
(* The types of the server.                                                 *)

ServerTypes(cm) ==
    /\ Serving(cm, MaxDown)
    /\ cm.session_history \subseteq Sessions
    /\ \A id \in Ids(cm) : cm.endpoints[id].session_id \in cm.session_history
    /\ \A key \in ServerKeys(cm) : key = KeyOf(key[2])

LEMMA KeyOfAddress == \A address : KeyOf(address)[2] = address
BY DEF KeyOf

LEMMA MadeTypes ==
    ASSUME made \in 0 .. MaxMade, NEW cm, ServerBecomes(cm)
    PROVE  made' \in 0 .. MaxMade
<1>1. MaxMade \in Nat
  BY BoundsAssumption
<1>2. {MaxMade, made + 1} \in SUBSET Nat /\ {MaxMade, made + 1} # {}
  BY <1>1
<1>3. Min({MaxMade, made + 1}) \in Nat /\ Min({MaxMade, made + 1}) <= MaxMade
  BY <1>2, FirstPosition
<1>4. made' = Min({MaxMade, made + 1}) \/ made' = made
  BY DEF ServerBecomes
<1> QED BY <1>1, <1>3, <1>4

LEMMA ServerReceivesHelloTypes ==
    ASSUME IInv, ServerTypes(server), SocketsOK(bound, sockets),
           NEW m \in Arrived("Hello"), ServerReceivesHello(m)
    PROVE  ServerTypes(server')
<1> DEFINE key == KeyOf(m.address)
           cm == HandleHello(server, ClientId, m.session, Routes, key, TRUE, {})
<1>1. ManagerOK(server) /\ Ids(server) \subseteq {ClientId} /\ MaxDown \in Nat
      /\ Serving(server, MaxDown)
  BY BoundsAssumption DEF IInv, ServerOK, ServerTypes
<1>2. m.session \in Sessions
  <2>1. m.address \in DOMAIN sockets /\ sockets[m.address] = m.session
    BY DEF Arrived, IInv, NetworkOK, DatagramOK
  <2> QED BY <2>1 DEF SocketsOK
<1>3. server' = cm
  BY DEF ServerReceivesHello, ServerBecomes
<1>4. CASE Refused(server, ClientId, m.session)
  BY <1>3, <1>4 DEF HandleHello
<1>5. CASE ~Refused(server, ClientId, m.session)
  <2> DEFINE e == server.endpoints[ClientId]
             f == cm.endpoints[ClientId]
  <2>1. Met(server, cm, ClientId, m.session, Routes, key, TRUE)
    BY <1>1, <1>5, RoutesTyped, HandleHelloOK
  <2>2. Serving(cm, MaxDown)
    BY <1>1, <1>5, RoutesTyped, HandleHelloServing
  <2> HIDE DEF cm
  <2>3. Ids(cm) = {ClientId} /\ f.session_id = m.session
    BY <1>1, <2>1 DEF Met
  <2>4. CASE ClientId \in Ids(server) /\ e.session_id = m.session
    <3>1. /\ cm.session_history = server.session_history
          /\ Keys(f) \subseteq Keys(e) \cup {key}
      BY <2>1, <2>4 DEF Met, Continues
    <3>2. m.session \in server.session_history /\ server.session_history \subseteq Sessions
      BY <2>4 DEF ServerTypes
    <3>3. \A k \in Keys(e) : k = KeyOf(k[2])
      BY <2>4 DEF ServerTypes, ServerKeys
    <3>4. \A k \in Keys(f) : k = KeyOf(k[2])
      BY <3>1, <3>3, KeyOfAddress
    <3> QED BY <1>3, <2>2, <2>3, <3>1, <3>2, <3>4 DEF ServerTypes, ServerKeys
  <2>5. CASE ~(ClientId \in Ids(server) /\ e.session_id = m.session)
    <3>1. cm.session_history = server.session_history \cup {m.session} /\ Keys(f) \subseteq {key}
      BY <2>1, <2>5 DEF Met
    <3>2. server.session_history \subseteq Sessions
      BY DEF ServerTypes
    <3>3. \A k \in Keys(f) : k = KeyOf(k[2])
      BY <3>1, KeyOfAddress
    <3> QED BY <1>2, <1>3, <2>2, <2>3, <3>1, <3>2, <3>3 DEF ServerTypes, ServerKeys
  <2> QED BY <2>4, <2>5
<1> QED BY <1>4, <1>5

LEMMA ServerReceivesEstablishedHelloTypes ==
    ASSUME IInv, ServerTypes(server), NEW m, ServerReceivesEstablishedHello(m)
    PROVE  ServerTypes(server')
<1> DEFINE cm == HandleEstablishedHello(server, ClientId, KeyOf(m.address), {})
<1>1. Refreshed(server, cm, {KeyOf(m.address)})
  BY HandleEstablishedHelloOK DEF IInv, ServerOK
<1>2. Serving(cm, MaxDown)
  BY HandleEstablishedHelloServing DEF ServerTypes
<1>3. server' = cm
  BY DEF ServerReceivesEstablishedHello, ServerBecomes
<1> HIDE DEF cm
<1>4. \A key \in ServerKeys(cm) : key \in ServerKeys(server) \cup {KeyOf(m.address)}
  BY <1>1 DEF Refreshed, Continues, ServerKeys
<1>5. \A key \in ServerKeys(cm) : key = KeyOf(key[2])
  BY <1>4, KeyOfAddress DEF ServerTypes
<1> QED BY <1>1, <1>2, <1>3, <1>5 DEF ServerTypes, Refreshed, Continues

LEMMA ServerTimeoutTypes ==
    ASSUME IInv, ServerTypes(server), NEW address, ServerTimeout(address)
    PROVE  ServerTypes(server')
<1> DEFINE cm == RemoveConnection(server, ClientId, KeyOf(address))
<1>1. Serving(cm, MaxDown) /\ Shrunk(server, cm)
  BY RemoveConnectionServing DEF ServerTypes
<1>2. server' = cm
  BY DEF ServerTimeout, ServerBecomes
<1> HIDE DEF cm
<1>3. ServerKeys(cm) \subseteq ServerKeys(server)
  BY <1>1 DEF Shrunk, ServerKeys
<1> QED BY <1>1, <1>2, <1>3 DEF ServerTypes, Shrunk

LEMMA ServerSendsTypes ==
    ASSUME IInv, ServerTypes(server), ServerSends
    PROVE  ServerTypes(server')
<1> DEFINE cm == HandlePacketFromTun(server, AnyAddress, [id \in {ClientId} |-> {}])
<1>1. /\ Serving(server, MaxDown) /\ Ids(server) \subseteq {ClientId} /\ MaxDown \in Nat
      /\ server.endpoints[ClientId].tx_counter < MaxDown
  BY BoundsAssumption DEF ServerTypes, IInv, ServerOK, ServerSends
<1>2. Serving(cm, MaxDown) /\ Refreshed(server, cm, {})
  BY <1>1, HandlePacketFromTunServing
<1>3. server' = cm
  BY DEF ServerSends, ServerBecomes
<1> HIDE DEF cm
<1>4. ServerKeys(cm) = ServerKeys(server)
  BY <1>2 DEF Refreshed, Continues, ServerKeys
<1> QED BY <1>2, <1>3, <1>4 DEF ServerTypes, Refreshed, Continues

LEMMA RestartServerTypes ==
    ASSUME RestartServer
    PROVE  ServerTypes(server')
<1>1. server' = NewManager
  BY DEF RestartServer, ServerBecomes
<1>2. /\ Serving(NewManager, MaxDown) /\ Ids(NewManager) = {}
      /\ NewManager.session_history = {}
  BY NewManagerServing, NewManagerOK DEF NewManager
<1> QED BY <1>1, <1>2 DEF ServerTypes, ServerKeys

LEMMA ServerStepTypes ==
    ASSUME IInv, ServerTypes(server), SocketsOK(bound, sockets), ServerStep
    PROVE  ServerTypes(server')
<1>1. ASSUME NEW m, ServerReceivesPacket(m) PROVE ServerTypes(server')
  BY <1>1 DEF ServerReceivesPacket
<1>2. CASE ServerDeadline
  BY <1>2 DEF ServerDeadline
<1> QED
  BY <1>1, <1>2, ServerReceivesHelloTypes, ServerReceivesEstablishedHelloTypes,
     ServerTimeoutTypes, ServerSendsTypes, RestartServerTypes DEF ServerStep

-----------------------------------------------------------------------------
(* The types hold.                                                          *)

TypeInv ==
    /\ IInv
    /\ ClientTypes(client, bound, sockets)
    /\ ServerTypes(server)
    /\ restarts \in 0 .. MaxRestarts /\ made \in 0 .. MaxMade

LEMMA CountersTyped ==
    ASSUME TypeInv, ServerStep
    PROVE  restarts' \in 0 .. MaxRestarts /\ made' \in 0 .. MaxMade
<1>1. restarts' \in 0 .. MaxRestarts
  <2>1. CASE RestartServer
    <3>1. MaxRestarts \in Nat /\ restarts' = restarts + 1 /\ restarts < MaxRestarts
      BY <2>1, BoundsAssumption DEF RestartServer
    <3> QED BY <3>1 DEF TypeInv
  <2>2. CASE ~RestartServer
    BY <2>2 DEF ServerStep, ServerReceivesHello, ServerReceivesEstablishedHello, ServerTimeout,
                ServerSends, ServerReceivesPacket, ServerDeadline, TypeInv
  <2> QED BY <2>1, <2>2
<1>2. made' \in 0 .. MaxMade
  <2>1. made' = made \/ \E cm : ServerBecomes(cm)
    BY DEF ServerStep, ServerReceivesHello, ServerReceivesEstablishedHello, ServerTimeout,
           ServerSends, ServerReceivesPacket, ServerDeadline, RestartServer
  <2> QED BY <2>1, MadeTypes DEF TypeInv
<1> QED BY <1>1, <1>2

LEMMA InitTypes == Init => TypeInv
<1> SUFFICES ASSUME Init PROVE TypeInv
  OBVIOUS
<1> DEFINE n == Cardinality(Configured)
           cm == CreateConnections(NewManager, ServerId, Configured, 1, Opening(Configured))
<1>0. n \in Nat /\ n <= MaxSockets /\ MaxSockets \in Nat
  BY ConfiguredAssumption, BoundsAssumption, FS_CardinalityType
<1>1. n # 0
  BY ConfiguredAssumption, FS_EmptySet
<1>2. 1 \in Sessions
  BY BoundsAssumption DEF Sessions
<1>3. client = cm
  BY DEF Init
<1>4. Serving(cm, MaxUp) /\ ClientKeys(cm) = Configured
  BY NewManagerServing, NewManagerOK, ConfiguredAssumption, CreateServing
<1> HIDE DEF cm
<1>5. SocketsOK(bound, sockets)
  <2>1. PICK order \in Bijection(Configured, 1 .. n) : bound = order
    BY DEF Init
  <2>2. bound \in [Configured -> 1 .. n] /\ IsInjective(bound)
    BY <2>1 DEF Bijection, Injection, IsInjective
  <2>3. bound = [key \in DOMAIN bound |-> bound[key]]
    BY <2>2
  <2>4. sockets = [i \in 1 .. n |-> 1]
    BY DEF Init
  <2> HIDE DEF n
  <2>5. sockets \in [1 .. n -> Sessions]
    BY <1>2, <2>4
  <2>6. sockets \in Seq(Sessions) /\ Len(sockets) = n
    BY <1>0, <2>5
  <2> QED BY <1>0, <1>1, <2>2, <2>3, <2>6 DEF SocketsOK
<1>6. ClientTypes(client, bound, sockets)
  BY <1>3, <1>4, <1>5 DEF ClientTypes
<1>7. ServerTypes(server)
  <2>1. /\ Serving(NewManager, MaxDown) /\ Ids(NewManager) = {}
        /\ NewManager.session_history = {}
    BY NewManagerServing, NewManagerOK DEF NewManager
  <2> QED BY <2>1 DEF Init, ServerTypes, ServerKeys
<1>8. restarts \in 0 .. MaxRestarts /\ made \in 0 .. MaxMade
  BY BoundsAssumption DEF Init
<1> QED BY <1>6, <1>7, <1>8, InitOK DEF TypeInv

LEMMA TypeStep ==
    ASSUME TypeInv, [LossyNext]_vars
    PROVE  TypeInv'
<1>1. IInv'
  BY StepOK DEF TypeInv
<1>2. CASE ClientStep
  <2>1. ClientTypes(client', bound', sockets')
    BY <1>2, ClientStepTypes DEF TypeInv
  <2>2. UNCHANGED serverVars
    BY <1>2, ClientStepsOK DEF TypeInv
  <2> QED BY <1>1, <2>1, <2>2 DEF TypeInv, serverVars
<1>3. CASE ServerStep
  <2>1. ServerTypes(server')
    BY <1>3, ServerStepTypes DEF TypeInv, ClientTypes
  <2>2. UNCHANGED clientVars
    BY <1>3, ServerStepsOK DEF TypeInv
  <2> QED BY <1>1, <1>3, <2>1, <2>2, CountersTyped DEF TypeInv, clientVars
<1>4. ASSUME NEW m, Lose(m) PROVE TypeInv'
  BY <1>1, <1>4 DEF Lose, TypeInv, clientVars, serverVars
<1>5. CASE UNCHANGED vars
  BY <1>1, <1>5 DEF TypeInv, vars, clientVars, serverVars
<1> QED BY <1>2, <1>3, <1>4, <1>5 DEF LossyNext, Next

LEMMA TypeInvariance == LossySpec => []TypeInv
<1>1. TypeInv /\ [LossyNext]_vars => TypeInv'
  BY TypeStep
<1> QED BY InitTypes, <1>1, PTL DEF LossySpec

LEMMA ServingTypes ==
    ASSUME NEW max \in Nat, NEW cm, Serving(cm, max), NEW id \in Ids(cm)
    PROVE  /\ HasConnections(cm.endpoints[id]) /\ ConnectionStatesOK(cm, id)
           /\ cm.endpoints[id].tx_counter \in 0 .. max
<1> DEFINE e == cm.endpoints[id]
<1>1. EndpointOK(e) /\ Live(e) /\ HasConnections(e) /\ e.tx_counter <= max
  BY DEF Serving, NoneEmpty, ManagerOK
<1> HIDE DEF e
<1>2. e.tx_counter \in 0 .. max
  BY <1>1 DEF EndpointOK
<1>3. ASSUME NEW k \in Keys(e)
      PROVE  e.connections[k] \in [state : ConnectionStates, enabled : {TRUE}]
  <2>1. /\ e.connections[k] \in [state : ConnectionStates, enabled : BOOLEAN]
        /\ e.connections[k].enabled = TRUE
    BY <1>1 DEF EndpointOK, Live
  <2> QED BY <2>1
<1> QED BY <1>1, <1>2, <1>3 DEF ConnectionStatesOK, e

(* The types of the tunnel, which are more than types: no endpoint of the   *)
(* client or of the server is ever left without a connection, all of the    *)
(* client's connections have sockets of their own, opened in the session of *)
(* its endpoint, and the session of the server's endpoint is in the         *)
(* session_history, which handle_hello looks it up in.                      *)
THEOREM TunnelTypeOK == Spec => []TypeOK
<1>1. TypeInv => TypeOK
  <2> SUFFICES ASSUME TypeInv PROVE TypeOK
    OBVIOUS
  <2>1. Ids(client) \subseteq {ServerId} /\ Ids(server) \subseteq {ClientId}
    BY DEF TypeInv, IInv, ClientOK, ServerOK
  <2>2. bound \in [ClientKeys(client) -> DOMAIN sockets] /\ IsInjective(bound)
    BY DEF TypeInv, ClientTypes, SocketsOK, IInv, ClientOK
  <2>3. ASSUME NEW id \in Ids(client)
        PROVE  /\ HasConnections(client.endpoints[id]) /\ ConnectionStatesOK(client, id)
               /\ client.endpoints[id].tx_counter \in 0 .. MaxUp
    BY ServingTypes, NumbersTyped DEF TypeInv, ClientTypes
  <2>4. ASSUME NEW id \in Ids(client)
        PROVE  {sockets[address] : address \in Range(bound)} = {client.endpoints[id].session_id}
    <3>1. id = ServerId /\ Keys(client.endpoints[ServerId]) # {}
      BY <2>1, <2>3 DEF HasConnections
    <3>2. DOMAIN bound # {}
      BY <3>1 DEF TypeInv, IInv, ClientOK, ClientKeys
    <3>3. \A key \in DOMAIN bound : sockets[bound[key]] = client.endpoints[ServerId].session_id
      BY DEF TypeInv, IInv, ClientOK
    <3> QED BY <3>1, <3>2, <3>3 DEF Range
  <2>5. ASSUME NEW id \in Ids(server)
        PROVE  /\ HasConnections(server.endpoints[id]) /\ ConnectionStatesOK(server, id)
               /\ server.endpoints[id].tx_counter \in 0 .. MaxDown
               /\ server.endpoints[id].session_id \in server.session_history
    <3>1. MaxDown \in Nat
      BY BoundsAssumption
    <3> QED BY <3>1, ServingTypes DEF TypeInv, ServerTypes
  <2>6. sockets \in Seq(Sessions) /\ Len(sockets) <= MaxSockets
    BY NumbersTyped DEF TypeInv, ClientTypes, SocketsOK
  <2> QED BY <2>1, <2>2, <2>3, <2>4, <2>5, <2>6 DEF TypeOK, TypeInv
<1> QED BY TypeInvariance, SpecIsLossy, <1>1, PTL

-----------------------------------------------------------------------------
(* The server is its loop.  The operators of the connection manager are the *)
(* same in ServerLoop as here.                                              *)

LEMMA ServerOperators ==
    /\ AtServer!NewManager = NewManager
    /\ \A cm : AtServer!Ids(cm) = Ids(cm)
    /\ \A e : AtServer!Keys(e) = Keys(e)
    /\ \A e : AtServer!DisconnectedKeys(e) = DisconnectedKeys(e)
    /\ \A routes, address : AtServer!Lookup(routes, address) = Lookup(routes, address)
<1>1. AtServer!NewManager = NewManager
  BY Zenon DEF NewManager, AtServer!NewManager
<1>2. \A cm : AtServer!Ids(cm) = Ids(cm)
  BY Zenon DEF Ids, AtServer!Ids
<1>3. \A e : AtServer!Keys(e) = Keys(e)
  BY Zenon DEF Keys, AtServer!Keys
<1>4. \A e : AtServer!DisconnectedKeys(e) = DisconnectedKeys(e)
  BY Zenon DEF Keys, AtServer!Keys, DisconnectedKeys, AtServer!DisconnectedKeys
<1>5. \A routes, address : AtServer!Lookup(routes, address) = Lookup(routes, address)
  BY Zenon DEF Lookup, AtServer!Lookup, Range, AtServer!Range, ReachableFrom,
               AtServer!ReachableFrom, NetworkAddress, AtServer!NetworkAddress
<1> QED BY <1>1, <1>2, <1>3, <1>4, <1>5

LEMMA ServerLoopHello ==
    ASSUME NEW cm, NEW id, NEW session, NEW static_routes, NEW key, NEW added, NEW failed
    PROVE  AtServer!HandleHello(cm, id, session, static_routes, key, added, failed)
           = HandleHello(cm, id, session, static_routes, key, added, failed)
BY Zenon
   DEF HandleHello, AtServer!HandleHello, Refused, AtServer!Refused, Greeted, AtServer!Greeted,
       WithEndpoint, AtServer!WithEndpoint, WithConnections, AtServer!WithConnections,
       Acknowledge, AtServer!Acknowledge, InsertRoutes, AtServer!InsertRoutes,
       InsertRoute, AtServer!InsertRoute, DefaultPositions, AtServer!DefaultPositions,
       IsDefault, AtServer!IsDefault, Min, AtServer!Min, Range, AtServer!Range,
       NewEndpoint, AtServer!NewEndpoint, NewConnection, AtServer!NewConnection,
       Keys, AtServer!Keys, Ids, AtServer!Ids

LEMMA ServerLoopEstablishedHello ==
    ASSUME NEW cm, NEW id, NEW key, NEW failed
    PROVE  AtServer!HandleEstablishedHello(cm, id, key, failed)
           = HandleEstablishedHello(cm, id, key, failed)
BY Zenon
   DEF HandleEstablishedHello, AtServer!HandleEstablishedHello, WithEndpoint,
       AtServer!WithEndpoint, WithConnections, AtServer!WithConnections,
       Acknowledge, AtServer!Acknowledge, NewConnection, AtServer!NewConnection,
       Keys, AtServer!Keys, Ids, AtServer!Ids

LEMMA ServerLoopRemoveConnection ==
    ASSUME NEW cm, NEW id, NEW key
    PROVE  AtServer!RemoveConnection(cm, id, key) = RemoveConnection(cm, id, key)
BY Zenon
   DEF RemoveConnection, AtServer!RemoveConnection, PurgeEmpty, AtServer!PurgeEmpty,
       RemoveRoutes, AtServer!RemoveRoutes, WithoutConnections, AtServer!WithoutConnections,
       HasConnections, AtServer!HasConnections, WithEndpoint, AtServer!WithEndpoint,
       Restrict, AtServer!Restrict, Keys, AtServer!Keys, Ids, AtServer!Ids

LEMMA ServerLoopPacketFromTun ==
    ASSUME NEW cm, NEW address, NEW refused
    PROVE  AtServer!HandlePacketFromTun(cm, address, refused)
           = HandlePacketFromTun(cm, address, refused)
BY Zenon
   DEF HandlePacketFromTun, AtServer!HandlePacketFromTun, Disconnect, AtServer!Disconnect,
       Lookup, AtServer!Lookup, Range, AtServer!Range, ReachableFrom,
       AtServer!ReachableFrom, NetworkAddress, AtServer!NetworkAddress,
       Keys, AtServer!Keys, Ids, AtServer!Ids

(* The loop ends its iteration: there is nothing to clean up, and the       *)
(* sessions that were ever an endpoint's are those in the history.          *)
LEMMA ServerEnds ==
    ASSUME NEW cm, server' = cm, ServerTypes(cm),
           server.session_history \subseteq cm.session_history,
           cm.session_history \subseteq
                server.session_history \cup {cm.endpoints[id].session_id : id \in Ids(cm)}
    PROVE  AtServer!EndIteration(cm) /\ AtServer!EndWith(cm)
<1>1. \A id \in Ids(cm) : DisconnectedKeys(cm.endpoints[id]) = {}
  BY DEF ServerTypes, Serving, Live
<1>2. AtServer!RemoveDisconnected(cm) = cm
  BY <1>1, ServerOperators, Zenon DEF AtServer!RemoveDisconnected
<1>3. {cm.endpoints[id].session_id : id \in Ids(cm)} \subseteq cm.session_history
  BY DEF ServerTypes
<1>4. cm.session_history
        = server.session_history \cup {cm.endpoints[id].session_id : id \in AtServer!Ids(cm)}
  BY <1>3, ServerOperators
<1>5. AtServer!EndWith(cm)
  BY <1>4 DEF AtServer!EndWith
<1> QED BY <1>2, <1>5 DEF AtServer!EndIteration

(* A server with an endpoint runs its loop, one without waits for a Hello.  *)
LEMMA ServerBusy ==
    /\ Ids(server) # {} => AtServer!Busy
    /\ Ids(server) = {} => AtServer!Idle
<1>1. AtServer!HasEndpoints(server) <=> Ids(server) # {}
  BY ServerOperators DEF AtServer!HasEndpoints
<1> QED BY <1>1 DEF AtServer!Busy, AtServer!Idle

LEMMA AddressKeys ==
    ASSUME NEW address \in Addresses
    PROVE  KeyOf(address) \in AtServer!AllKeys
BY DEF KeyOf, AtServer!AllKeys, Interface, AtServer!Interface

LEMMA ServerReceivesHelloIsLoop ==
    ASSUME TypeInv, NEW m \in Arrived("Hello"), ServerReceivesHello(m)
    PROVE  AtServer!Next
<1> DEFINE key == KeyOf(m.address)
           cm == HandleHello(server, ClientId, m.session, Routes, key, TRUE, {})
           handled == AtServer!HandleHello(server, ClientId, m.session, Routes, key, TRUE, {})
           ended == IF AtServer!Busy THEN AtServer!RemoveDisconnected(handled) ELSE handled
<1>1. ManagerOK(server) /\ Ids(server) \subseteq {ClientId} /\ Serving(server, MaxDown)
  BY DEF TypeInv, IInv, ServerOK, ServerTypes
<1>2. m.session \in Sessions /\ key \in AtServer!AllKeys
  <2>1. m.address \in DOMAIN sockets /\ sockets[m.address] = m.session
    BY DEF Arrived, TypeInv, IInv, NetworkOK, DatagramOK
  <2>2. sockets \in Seq(Sessions) /\ Len(sockets) \in 1 .. MaxSockets /\ MaxSockets \in Nat
    BY NumbersTyped DEF TypeInv, ClientTypes, SocketsOK
  <2>3. m.session \in Sessions /\ m.address \in Addresses
    BY <2>1, <2>2 DEF Addresses
  <2> QED BY <2>3, AddressKeys
<1>3. server' = cm
  BY DEF ServerReceivesHello, ServerBecomes
<1>4. ServerTypes(cm)
  BY <1>3, ServerReceivesHelloTypes DEF TypeInv, ClientTypes
<1>5. /\ server.session_history \subseteq cm.session_history
      /\ cm.session_history \subseteq
            server.session_history \cup {cm.endpoints[id].session_id : id \in Ids(cm)}
  <2>1. CASE Refused(server, ClientId, m.session)
    BY <2>1 DEF HandleHello
  <2>2. CASE ~Refused(server, ClientId, m.session)
    <3>1. Met(server, cm, ClientId, m.session, Routes, key, TRUE)
      BY <1>1, <2>2, RoutesTyped, HandleHelloOK
    <3> HIDE DEF cm
    <3>2. /\ ClientId \in Ids(cm) /\ cm.endpoints[ClientId].session_id = m.session
          /\ cm.session_history \in {server.session_history, server.session_history \cup {m.session}}
      BY <3>1 DEF Met
    <3>3. m.session \in {cm.endpoints[id].session_id : id \in Ids(cm)}
      BY <3>2
    <3> QED BY <3>2, <3>3
  <2> QED BY <2>1, <2>2
<1>6. handled = cm
  BY ServerLoopHello, Zenon
<1> HIDE DEF cm, handled, key
<1>7. AtServer!EndWith(ended)
  <2>1. AtServer!EndIteration(cm) /\ AtServer!EndWith(cm)
    BY <1>3, <1>4, <1>5, ServerEnds
  <2> QED BY <1>6, <2>1 DEF AtServer!EndIteration
<1>8. AtServer!Busy \/ AtServer!Idle
  BY <1>1, ServerBusy
<1>9. [session \in Sessions |-> Routes][m.session] = Routes
  BY <1>2
<1>10. AtServer!ReceiveHello(ClientId, m.session, key)
  <2>1. AtServer!MayAdd(ClientId, m.session, key, TRUE)
    BY DEF AtServer!MayAdd
  <2> DEFINE routes == [session \in Sessions |-> Routes][m.session]
             Handled(failed) ==
                AtServer!HandleHello(server, ClientId, m.session, routes, key, TRUE, failed)
             End(cleaned) ==
                AtServer!EndWith(IF AtServer!Busy THEN AtServer!RemoveDisconnected(cleaned)
                                 ELSE cleaned)
  <2>2. End(Handled({}))
    BY <1>7, <1>9, Zenon DEF handled
  <2>3. FALSE <=> (FALSE \/ (~TRUE /\ ~AtServer!Refused(server, ClientId, m.session)))
    OBVIOUS
  <2> HIDE DEF End, Handled
  <2>4. \E failed \in SUBSET AtServer!AllKeys : End(Handled(failed))
    BY <2>2
  <2> QED BY <1>8, <2>1, <2>3, <2>4, Zenon DEF AtServer!ReceiveHello, End, Handled
<1> QED BY <1>2, <1>10 DEF AtServer!Next

LEMMA ServerReceivesEstablishedHelloIsLoop ==
    ASSUME TypeInv, NEW m, ServerReceivesEstablishedHello(m)
    PROVE  AtServer!Next
<1> DEFINE key == KeyOf(m.address)
           cm == HandleEstablishedHello(server, ClientId, key, {})
           handled == AtServer!HandleEstablishedHello(server, ClientId, key, {})
<1>1. /\ ClientId \in Ids(server) /\ key \in Keys(server.endpoints[ClientId])
      /\ ManagerOK(server) /\ Serving(server, MaxDown)
  BY DEF ServerReceivesEstablishedHello, Established, ServerKeys, TypeInv, ServerTypes, Serving
<1>2. server' = cm
  BY DEF ServerReceivesEstablishedHello, ServerBecomes
<1>3. ServerTypes(cm)
  BY <1>2, ServerReceivesEstablishedHelloTypes DEF TypeInv
<1>4. Refreshed(server, cm, {key})
  BY <1>1, HandleEstablishedHelloOK
<1>5. handled = cm
  BY ServerLoopEstablishedHello, Zenon
<1>6. key \in AtServer!AllKeys
  <2>1. m.address \in DOMAIN sockets
    BY <1>1, KeyOfAddress DEF TypeInv, IInv, ServerOK, ServerKeys
  <2>2. sockets \in Seq(Sessions) /\ Len(sockets) \in 1 .. MaxSockets /\ MaxSockets \in Nat
    BY NumbersTyped DEF TypeInv, ClientTypes, SocketsOK
  <2>3. m.address \in Addresses
    BY <2>1, <2>2 DEF Addresses
  <2> QED BY <2>3, AddressKeys
<1> HIDE DEF cm, handled, key
<1>7. AtServer!EndIteration(handled)
  BY <1>2, <1>3, <1>4, <1>5, ServerEnds DEF Refreshed
<1>8. AtServer!Busy /\ key \in AtServer!Keys(server.endpoints[ClientId])
      /\ ClientId \in AtServer!Ids(server)
  BY <1>1, ServerBusy, ServerOperators
<1>9. AtServer!ReceiveEstablishedHello(ClientId, key, ClientId)
  BY <1>7, <1>8, Zenon DEF AtServer!ReceiveEstablishedHello, handled
<1> QED BY <1>6, <1>8, <1>9 DEF AtServer!Next

LEMMA ServerTimeoutIsLoop ==
    ASSUME TypeInv, NEW address \in Addresses, ServerTimeout(address)
    PROVE  AtServer!Next
<1> DEFINE key == KeyOf(address)
           cm == RemoveConnection(server, ClientId, key)
           handled == AtServer!RemoveConnection(server, ClientId, key)
<1>1. /\ ClientId \in Ids(server) /\ key \in Keys(server.endpoints[ClientId])
      /\ Serving(server, MaxDown)
  BY DEF ServerTimeout, Established, ServerKeys, TypeInv, ServerTypes
<1>2. server' = cm
  BY DEF ServerTimeout, ServerBecomes
<1>3. ServerTypes(cm)
  BY <1>2, ServerTimeoutTypes DEF TypeInv
<1>4. Shrunk(server, cm)
  BY <1>1, RemoveConnectionServing
<1>5. handled = cm
  BY ServerLoopRemoveConnection, Zenon
<1>6. key \in AtServer!AllKeys
  BY AddressKeys
<1> HIDE DEF cm, handled, key
<1>7. AtServer!EndIteration(handled)
  BY <1>2, <1>3, <1>4, <1>5, ServerEnds DEF Shrunk
<1>8. AtServer!Busy /\ key \in AtServer!Keys(server.endpoints[ClientId])
      /\ ClientId \in AtServer!Ids(server)
  BY <1>1, ServerBusy, ServerOperators
<1>9. AtServer!ConnectionTimeout(ClientId, key)
  BY <1>7, <1>8, Zenon DEF AtServer!ConnectionTimeout, handled
<1> QED BY <1>6, <1>8, <1>9 DEF AtServer!Next

LEMMA ServerSendsIsLoop ==
    ASSUME TypeInv, ServerSends
    PROVE  AtServer!Next
<1> DEFINE refused == [id \in {ClientId} |-> {}]
           routed == Lookup(server.routes, AnyAddress)
           cm == HandlePacketFromTun(server, AnyAddress, refused)
           handled == AtServer!HandlePacketFromTun(server, AnyAddress, refused)
<1>1. /\ Serving(server, MaxDown) /\ Ids(server) \subseteq {ClientId} /\ routed # {}
      /\ MaxDown \in Nat /\ server.endpoints[ClientId].tx_counter < MaxDown
  BY BoundsAssumption DEF TypeInv, ServerTypes, IInv, ServerOK, ServerSends
<1>2. routed = {ClientId} /\ Ids(server) = {ClientId}
  <2>1. routed \subseteq Ids(server)
    BY <1>1, RoutedIsServed
  <2> QED BY <1>1, <2>1
<1>3. server' = cm
  BY DEF ServerSends, ServerBecomes
<1>4. ServerTypes(cm)
  BY <1>3, ServerSendsTypes DEF TypeInv
<1>5. Refreshed(server, cm, {})
  BY <1>1, HandlePacketFromTunServing
<1>6. handled = cm
  BY ServerLoopPacketFromTun, Zenon
<1>7. refused \in [{ClientId} -> SUBSET AtServer!AllKeys]
  OBVIOUS
<1> HIDE DEF cm, handled, refused
<1>8. AtServer!EndIteration(handled)
  BY <1>3, <1>4, <1>5, <1>6, ServerEnds DEF Refreshed
<1>9. /\ AtServer!Busy /\ AtServer!Ids(server) = {ClientId}
      /\ AtServer!Lookup(server.routes, AnyAddress) = {ClientId}
  BY <1>1, <1>2, ServerBusy, ServerOperators
<1>10. AtServer!SendPacket(AnyAddress)
  <2>1. \E r \in [{ClientId} -> SUBSET AtServer!AllKeys] :
            AtServer!EndIteration(AtServer!HandlePacketFromTun(server, AnyAddress, r))
    BY <1>7, <1>8, Zenon DEF handled
  <2>2. \A id \in {ClientId} \cap {ClientId} : server.endpoints[id].tx_counter < MaxDown
    BY <1>1
  <2> QED BY <1>9, <2>1, <2>2 DEF AtServer!SendPacket
<1> QED BY <1>10 DEF AtServer!Next

LEMMA RestartServerIsLoop ==
    ASSUME RestartServer
    PROVE  AtServer!Init'
<1>1. server' = NewManager
  BY DEF RestartServer, ServerBecomes
<1>2. NewManager.session_history = {}
  BY DEF NewManager
<1>3. AtServer!NewManager = NewManager
  BY ServerOperators
<1> QED BY <1>1, <1>2, <1>3 DEF AtServer!Init

(* Every step of the tunnel is one of the server's loop, or leaves it.      *)
LEMMA ServerLoopStep ==
    ASSUME TypeInv, [LossyNext]_vars
    PROVE  [AtServer!Next \/ AtServer!Init']_(AtServer!vars)
<1>1. ASSUME server' = server PROVE UNCHANGED AtServer!vars
  BY <1>1 DEF AtServer!vars
<1>2. CASE ServerStep
  <2>1. ASSUME NEW m, ServerReceivesPacket(m) PROVE server' = server
    BY <2>1 DEF ServerReceivesPacket
  <2>2. ASSUME ServerDeadline PROVE server' = server
    BY <2>2 DEF ServerDeadline
  <2> QED
    BY <1>1, <1>2, <2>1, <2>2, ServerReceivesHelloIsLoop, ServerReceivesEstablishedHelloIsLoop,
       ServerTimeoutIsLoop, ServerSendsIsLoop, RestartServerIsLoop DEF ServerStep
<1>3. CASE ClientStep
  BY <1>1, <1>3, ClientStepsOK DEF TypeInv, serverVars
<1>4. ASSUME NEW m, Lose(m) PROVE server' = server
  BY <1>4 DEF Lose, serverVars
<1>5. CASE UNCHANGED vars
  BY <1>1, <1>5 DEF vars, serverVars
<1> QED BY <1>1, <1>2, <1>3, <1>4, <1>5 DEF LossyNext, Next

(* The server in the tunnel, whatever the client and the network do, does   *)
(* iterations of its event loop, one for each event; its clean-up finds no  *)
(* connection to remove, and it never panics.                               *)
THEOREM ServerImplementsLoop == Spec => ServerIsLoop
<1>1. Init => AtServer!Init
  <2> SUFFICES ASSUME Init PROVE AtServer!Init
    OBVIOUS
  <2>1. server = AtServer!NewManager /\ server.session_history = {}
    BY ServerOperators DEF Init, NewManager
  <2> QED BY <2>1 DEF AtServer!Init
<1>2. TypeInv /\ [Next]_vars => [AtServer!Next \/ AtServer!Init']_(AtServer!vars)
  BY ServerLoopStep DEF LossyNext
<1> QED BY TypeInvariance, SpecIsLossy, <1>1, <1>2, PTL DEF Spec, ServerIsLoop

-----------------------------------------------------------------------------
(* The client is its loop.                                                  *)

LEMMA ClientOperators ==
    /\ AtClient!NewManager = NewManager
    /\ \A cm : AtClient!Ids(cm) = Ids(cm)
    /\ \A e : AtClient!Keys(e) = Keys(e)
    /\ \A e : AtClient!DisconnectedKeys(e) = DisconnectedKeys(e)
    /\ \A routes, address : AtClient!Lookup(routes, address) = Lookup(routes, address)
<1>1. AtClient!NewManager = NewManager
  BY Zenon DEF NewManager, AtClient!NewManager
<1>2. \A cm : AtClient!Ids(cm) = Ids(cm)
  BY Zenon DEF Ids, AtClient!Ids
<1>3. \A e : AtClient!Keys(e) = Keys(e)
  BY Zenon DEF Keys, AtClient!Keys
<1>4. \A e : AtClient!DisconnectedKeys(e) = DisconnectedKeys(e)
  BY Zenon DEF Keys, AtClient!Keys, DisconnectedKeys, AtClient!DisconnectedKeys
<1>5. \A routes, address : AtClient!Lookup(routes, address) = Lookup(routes, address)
  BY Zenon DEF Lookup, AtClient!Lookup, Range, AtClient!Range, ReachableFrom,
               AtClient!ReachableFrom, NetworkAddress, AtClient!NetworkAddress
<1> QED BY <1>1, <1>2, <1>3, <1>4, <1>5

LEMMA ClientLoopCreateConnections ==
    ASSUME NEW cm, NEW id, NEW keys, NEW session, NEW outcome
    PROVE  AtClient!CreateConnections(cm, id, keys, session, outcome)
           = CreateConnections(cm, id, keys, session, outcome)
BY Zenon
   DEF CreateConnections, AtClient!CreateConnections, WithEndpoint, AtClient!WithEndpoint,
       WithConnections, AtClient!WithConnections, NewEndpoint, AtClient!NewEndpoint,
       NewConnection, AtClient!NewConnection, Keys, AtClient!Keys, Ids, AtClient!Ids

LEMMA ClientLoopGreetAll ==
    ASSUME NEW cm, NEW unreachable
    PROVE  AtClient!GreetAll(cm, unreachable) = GreetAll(cm, unreachable)
BY Zenon
   DEF GreetAll, AtClient!GreetAll, Disconnect, AtClient!Disconnect,
       Keys, AtClient!Keys, Ids, AtClient!Ids

LEMMA ClientLoopEnsure ==
    ASSUME NEW cm, NEW id, NEW configured, NEW outcome
    PROVE  AtClient!EnsureEndpointConnections(cm, id, configured, outcome)
           = EnsureEndpointConnections(cm, id, configured, outcome)
<1>1. CASE id \notin Ids(cm)
  BY <1>1, ClientOperators, Zenon
     DEF EnsureEndpointConnections, AtClient!EnsureEndpointConnections
<1>2. CASE id \in Ids(cm)
  <2> DEFINE missing == configured \ Keys(cm.endpoints[id])
             session == cm.endpoints[id].session_id
  <2>1. EnsureEndpointConnections(cm, id, configured, outcome)
        = CreateConnections(cm, id, missing, session, outcome)
    BY <1>2, Zenon DEF EnsureEndpointConnections
  <2>2. AtClient!EnsureEndpointConnections(cm, id, configured, outcome)
        = AtClient!CreateConnections(cm, id, missing, session, outcome)
    BY <1>2, ClientOperators, Zenon DEF AtClient!EnsureEndpointConnections
  <2> HIDE DEF missing, session
  <2> QED BY <2>1, <2>2, ClientLoopCreateConnections, Zenon
<1> QED BY <1>1, <1>2

LEMMA ClientLoopHelloAck ==
    ASSUME NEW cm, NEW id, NEW static_routes, NEW key
    PROVE  AtClient!HandleHelloAck(cm, id, static_routes, key)
           = HandleHelloAck(cm, id, static_routes, key)
BY Zenon
   DEF HandleHelloAck, AtClient!HandleHelloAck, WithEndpoint, AtClient!WithEndpoint,
       InsertRoutes, AtClient!InsertRoutes, InsertRoute, AtClient!InsertRoute,
       DefaultPositions, AtClient!DefaultPositions, IsDefault, AtClient!IsDefault,
       Min, AtClient!Min, Range, AtClient!Range, Keys, AtClient!Keys, Ids, AtClient!Ids

LEMMA ClientLoopRemoveConnection ==
    ASSUME NEW cm, NEW id, NEW key
    PROVE  AtClient!RemoveConnection(cm, id, key) = RemoveConnection(cm, id, key)
BY Zenon
   DEF RemoveConnection, AtClient!RemoveConnection, PurgeEmpty, AtClient!PurgeEmpty,
       RemoveRoutes, AtClient!RemoveRoutes, WithoutConnections, AtClient!WithoutConnections,
       HasConnections, AtClient!HasConnections, WithEndpoint, AtClient!WithEndpoint,
       Restrict, AtClient!Restrict, Keys, AtClient!Keys, Ids, AtClient!Ids

LEMMA ClientLoopPacketFromTun ==
    ASSUME NEW cm, NEW address, NEW refused
    PROVE  AtClient!HandlePacketFromTun(cm, address, refused)
           = HandlePacketFromTun(cm, address, refused)
BY Zenon
   DEF HandlePacketFromTun, AtClient!HandlePacketFromTun, Disconnect, AtClient!Disconnect,
       Lookup, AtClient!Lookup, Range, AtClient!Range, ReachableFrom,
       AtClient!ReachableFrom, NetworkAddress, AtClient!NetworkAddress,
       Keys, AtClient!Keys, Ids, AtClient!Ids

(* The loop ends its iteration: there is nothing to clean up.               *)
LEMMA ClientEnds ==
    ASSUME NEW cm, client' = cm, Serving(cm, MaxUp)
    PROVE  AtClient!EndIteration(cm)
<1>1. \A id \in Ids(cm) : DisconnectedKeys(cm.endpoints[id]) = {}
  BY DEF Serving, Live
<1>2. AtClient!RemoveDisconnected(cm) = cm
  BY <1>1, ClientOperators, Zenon DEF AtClient!RemoveDisconnected
<1> QED BY <1>2 DEF AtClient!EndIteration

(* A client with an endpoint runs its loop, one without goes to its         *)
(* reconnect branch.                                                        *)
LEMMA ClientBusy ==
    /\ Ids(client) # {} => AtClient!Busy
    /\ Ids(client) = {} => AtClient!Idle
<1>1. AtClient!HasEndpoints(client) <=> Ids(client) # {}
  BY ClientOperators DEF AtClient!HasEndpoints
<1> QED BY <1>1 DEF AtClient!Busy, AtClient!Idle

LEMMA OpeningIsOutcome ==
    ASSUME NEW opened \in SUBSET Configured
    PROVE  /\ Opening(opened) \in AtClient!Outcomes
           /\ \A key \in Configured : Opening(opened)[key] # "send_error"
BY DEF Opening, AtClient!Outcomes

LEMMA OpeningAll == Opening(Configured) = [key \in Configured |-> "ok"]
BY DEF Opening

LEMMA ClientLoopKeys == AtClient!ServerKeys = ClientKeys(client)
BY ClientOperators DEF AtClient!ServerKeys, ClientKeys

LEMMA SendKeepaliveIsLoop ==
    ASSUME TypeInv, NEW opened \in SUBSET Configured, SendKeepalive(opened)
    PROVE  AtClient!Next
<1> DEFINE outcome == Opening(opened)
           cm == EnsureEndpointConnections(GreetAll(client, {}), ServerId, Configured, outcome)
           greeted == AtClient!GreetAll(client, {})
           handled == AtClient!EnsureEndpointConnections(greeted, ServerId, Configured, outcome)
<1>1. client' = cm
  BY DEF SendKeepalive, ClientBecomes
<1>2. Serving(cm, MaxUp)
  BY <1>1, SendKeepaliveTypes DEF TypeInv, ClientTypes
<1>3. handled = cm
  BY ClientLoopGreetAll, ClientLoopEnsure, Zenon
<1>4. outcome \in AtClient!Outcomes /\ \A key \in Configured : outcome[key] # "send_error"
  BY OpeningIsOutcome
<1> HIDE DEF outcome, cm, handled
<1>5. AtClient!EndIteration(handled)
  BY <1>1, <1>2, <1>3, ClientEnds
<1>6. AtClient!Busy
  BY ClientBusy DEF TypeInv, ClientTypes, SendKeepalive, HasEndpoints
<1>7. FALSE <=> (FALSE \/ \E key \in Configured \ AtClient!ServerKeys : outcome[key] = "send_error")
  BY <1>4
<1>8. AtClient!SendKeepalive({}, outcome)
  BY <1>5, <1>6, <1>7, Zenon DEF AtClient!SendKeepalive, handled
<1> QED BY <1>4, <1>8 DEF AtClient!Next

LEMMA ReconnectIsLoop ==
    ASSUME TypeInv, NEW opened \in SUBSET Configured, Reconnect(opened)
    PROVE  AtClient!Next
<1> DEFINE outcome == Opening(opened)
           handled == AtClient!CreateConnections(client, ServerId, Configured, NextSession, outcome)
<1>1. client' = handled
  BY ClientLoopCreateConnections DEF Reconnect, ClientBecomes
<1>2. outcome \in AtClient!Outcomes /\ \A key \in Configured : outcome[key] # "send_error"
  BY OpeningIsOutcome
<1> HIDE DEF outcome
<1>3. AtClient!Idle /\ NextSession \in Sessions
  BY ClientBusy DEF TypeInv, ClientTypes, Reconnect, HasEndpoints
<1>4. FALSE <=> (FALSE \/ \E key \in Configured : outcome[key] = "send_error")
  BY <1>2
<1>5. AtClient!Reconnect(NextSession, outcome)
  BY <1>1, <1>3, <1>4, Zenon DEF AtClient!Reconnect
<1> QED BY <1>2, <1>3, <1>5 DEF AtClient!Next

(* A new process starts as the first one did.                               *)
LEMMA StartIsLoop ==
    ASSUME NEW session \in Sessions,
           NEW cm, cm = CreateConnections(NewManager, ServerId, Configured, session,
                                          Opening(Configured))
    PROVE  \E s \in Sessions :
                cm = AtClient!CreateConnections(AtClient!NewManager, ServerId, Configured, s,
                                                [key \in Configured |-> "ok"])
<1>1. cm = AtClient!CreateConnections(NewManager, ServerId, Configured, session,
                                      Opening(Configured))
  BY ClientLoopCreateConnections
<1> QED BY <1>1, ClientOperators, OpeningAll, Zenon

LEMMA RestartClientIsLoop ==
    ASSUME RestartClient
    PROVE  AtClient!Init'
<1>1. /\ NextSession \in Sessions
      /\ client' = CreateConnections(NewManager, ServerId, Configured, NextSession,
                                     Opening(Configured))
  BY DEF RestartClient, ClientBecomes
<1>2. \E s \in Sessions :
            client' = AtClient!CreateConnections(AtClient!NewManager, ServerId, Configured, s,
                                                 [key \in Configured |-> "ok"])
  BY <1>1, StartIsLoop, Zenon
<1> QED BY <1>2, Zenon DEF AtClient!Init

LEMMA ClientReceivesHelloAckIsLoop ==
    ASSUME TypeInv, NEW m, ClientReceivesHelloAck(m)
    PROVE  AtClient!Next
<1>1. PICK key \in DOMAIN bound : ClientBecomes(HandleHelloAck(client, ServerId, Routes, key))
  BY DEF ClientReceivesHelloAck
<1> DEFINE cm == HandleHelloAck(client, ServerId, Routes, key)
           handled == AtClient!HandleHelloAck(client, ServerId, Routes, key)
<1>2. /\ key \in ClientKeys(client) /\ key \in Configured /\ Ids(client) # {}
      /\ Serving(client, MaxUp)
  BY DEF TypeInv, IInv, ClientOK, ClientTypes, ClientKeys
<1>3. client' = cm
  BY <1>1 DEF ClientBecomes
<1>4. Serving(cm, MaxUp)
  BY <1>3, ClientReceivesHelloAckTypes DEF TypeInv, ClientTypes
<1>5. handled = cm
  BY ClientLoopHelloAck, Zenon
<1> HIDE DEF cm, handled
<1>6. AtClient!EndIteration(handled)
  BY <1>3, <1>4, <1>5, ClientEnds
<1>7. AtClient!Busy /\ key \in AtClient!ServerKeys
  BY <1>2, ClientBusy, ClientLoopKeys
<1>8. AtClient!ReceiveHelloAck(key)
  BY <1>6, <1>7, Zenon DEF AtClient!ReceiveHelloAck, handled
<1> QED BY <1>2, <1>8 DEF AtClient!Next

LEMMA ClientTimeoutIsLoop ==
    ASSUME TypeInv, NEW key \in ClientKeys(client), ClientTimeout(key)
    PROVE  AtClient!Next
<1> DEFINE cm == RemoveConnection(client, ServerId, key)
           handled == AtClient!RemoveConnection(client, ServerId, key)
<1>1. key \in Configured /\ Ids(client) # {} /\ Serving(client, MaxUp)
  BY DEF TypeInv, ClientTypes, ClientKeys
<1>2. client' = cm
  BY DEF ClientTimeout, ClientBecomes
<1>3. Serving(cm, MaxUp)
  BY <1>2, ClientTimeoutTypes DEF TypeInv, ClientTypes
<1>4. handled = cm
  BY ClientLoopRemoveConnection, Zenon
<1> HIDE DEF cm, handled
<1>5. AtClient!EndIteration(handled)
  BY <1>2, <1>3, <1>4, ClientEnds
<1>6. AtClient!Busy /\ key \in AtClient!ServerKeys
  BY <1>1, ClientBusy, ClientLoopKeys
<1>7. AtClient!ConnectionTimeout(key)
  BY <1>5, <1>6, Zenon DEF AtClient!ConnectionTimeout, handled
<1> QED BY <1>1, <1>7 DEF AtClient!Next

LEMMA ClientSendsIsLoop ==
    ASSUME TypeInv, ClientSends
    PROVE  AtClient!Next
<1> DEFINE refused == [id \in {ServerId} |-> {}]
           routed == Lookup(client.routes, AnyAddress)
           cm == HandlePacketFromTun(client, AnyAddress, refused)
           handled == AtClient!HandlePacketFromTun(client, AnyAddress, refused)
<1>1. /\ Serving(client, MaxUp) /\ Ids(client) \subseteq {ServerId} /\ routed # {}
      /\ client.endpoints[ServerId].tx_counter < MaxUp
  BY DEF TypeInv, ClientTypes, IInv, ClientOK, ClientSends
<1>2. routed = {ServerId} /\ Ids(client) = {ServerId}
  <2>1. routed \subseteq Ids(client)
    BY <1>1, RoutedIsServed
  <2> QED BY <1>1, <2>1
<1>3. client' = cm
  BY DEF ClientSends, ClientBecomes
<1>4. Serving(cm, MaxUp)
  BY <1>3, ClientSendsTypes DEF TypeInv, ClientTypes
<1>5. handled = cm
  BY ClientLoopPacketFromTun, Zenon
<1>6. refused \in [{ServerId} -> SUBSET Configured]
  OBVIOUS
<1> HIDE DEF cm, handled, refused
<1>7. AtClient!EndIteration(handled)
  BY <1>3, <1>4, <1>5, ClientEnds
<1>8. /\ AtClient!Busy /\ AtClient!Ids(client) = {ServerId}
      /\ AtClient!Lookup(client.routes, AnyAddress) = {ServerId}
  BY <1>1, <1>2, ClientBusy, ClientOperators
<1>9. AtClient!SendPacket(AnyAddress)
  <2>1. \E r \in [{ServerId} -> SUBSET Configured] :
            AtClient!EndIteration(AtClient!HandlePacketFromTun(client, AnyAddress, r))
    BY <1>6, <1>7, Zenon DEF handled
  <2>2. \A id \in {ServerId} \cap {ServerId} : client.endpoints[id].tx_counter < MaxUp
    BY <1>1
  <2> QED BY <1>8, <2>1, <2>2 DEF AtClient!SendPacket
<1> QED BY <1>9 DEF AtClient!Next

(* Every step of the tunnel is one of the client's loop, or leaves it.      *)
LEMMA ClientLoopStep ==
    ASSUME TypeInv, [LossyNext]_vars
    PROVE  [AtClient!Next \/ AtClient!Init']_(AtClient!vars)
<1>1. ASSUME client' = client PROVE UNCHANGED AtClient!vars
  BY <1>1 DEF AtClient!vars
<1>2. CASE ClientStep
  <2>1. ASSUME NEW m, ClientReceivesPacket(m) PROVE client' = client
    BY <2>1 DEF ClientReceivesPacket
  <2>2. ASSUME ClientDeadline PROVE client' = client
    BY <2>2 DEF ClientDeadline
  <2> QED
    BY <1>1, <1>2, <2>1, <2>2, SendKeepaliveIsLoop, ReconnectIsLoop, RestartClientIsLoop,
       ClientReceivesHelloAckIsLoop, ClientTimeoutIsLoop, ClientSendsIsLoop DEF ClientStep
<1>3. CASE ServerStep
  BY <1>1, <1>3, ServerStepsOK DEF TypeInv, clientVars
<1>4. ASSUME NEW m, Lose(m) PROVE client' = client
  BY <1>4 DEF Lose, clientVars
<1>5. CASE UNCHANGED vars
  BY <1>1, <1>5 DEF vars, clientVars
<1> QED BY <1>1, <1>2, <1>3, <1>4, <1>5 DEF LossyNext, Next

(* The client in the tunnel does iterations of its event loop, or starts    *)
(* anew; it opens what it lost, and never panics.                           *)
THEOREM ClientImplementsLoop == Spec => ClientIsLoop
<1>1. Init => AtClient!Init
  <2> SUFFICES ASSUME Init PROVE AtClient!Init
    OBVIOUS
  <2>1. 1 \in Sessions
    BY BoundsAssumption DEF Sessions
  <2>2. client = CreateConnections(NewManager, ServerId, Configured, 1, Opening(Configured))
    BY DEF Init
  <2>3. \E s \in Sessions :
            client = AtClient!CreateConnections(AtClient!NewManager, ServerId, Configured, s,
                                                [key \in Configured |-> "ok"])
    BY <2>1, <2>2, StartIsLoop, Zenon
  <2> QED BY <2>3, Zenon DEF AtClient!Init
<1>2. TypeInv /\ [Next]_vars => [AtClient!Next \/ AtClient!Init']_(AtClient!vars)
  BY ClientLoopStep DEF LossyNext
<1> QED BY TypeInvariance, SpecIsLossy, <1>1, <1>2, PTL DEF Spec, ClientIsLoop
==============================================================================
