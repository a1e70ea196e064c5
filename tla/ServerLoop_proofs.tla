-------------------------- MODULE ServerLoop_proofs --------------------------
(***************************************************************************)
(* Proofs about the server's event loop, for every set of clients,          *)
(* sessions, addresses and routes.                                          *)
(***************************************************************************)
EXTENDS ServerLoop, ConnectionManager_proofs

-----------------------------------------------------------------------------
(* The inductive invariant, for a manager in the middle of an iteration as  *)
(* well: used are the sessions that may have left routes behind.            *)

EndpointsTyped(cm) ==
    \A id \in Ids(cm) :
        /\ id \in Clients
        /\ cm.endpoints[id].session_id \in SessionsOf[id]
        /\ Keys(cm.endpoints[id]) \subseteq AllKeys
        /\ cm.endpoints[id].tx_counter <= MaxPackets

HistoryOK(cm, past) ==
    /\ past \subseteq cm.session_history
    /\ cm.session_history \subseteq Sessions
    /\ \A id \in Ids(cm) : cm.endpoints[id].session_id \in past

AllAnnounced(cm) ==
    \A id \in Ids(cm) : \A r \in Range(RoutesOf[cm.endpoints[id].session_id]) :
        Mapping(r, id) \in Range(cm.routes)

OnlyAnnounced(cm, past) ==
    \A m \in Range(cm.routes) : \E id \in Ids(cm) : \E session \in past \cap SessionsOf[id] :
        \E r \in Range(RoutesOf[session]) : m = Mapping(r, id)

Inv(cm, past, fault) ==
    /\ ManagerOK(cm)
    /\ EndpointsTyped(cm)
    /\ HistoryOK(cm, past)
    /\ AllAnnounced(cm)
    /\ OnlyAnnounced(cm, past)
    /\ fault \/ NoneEmpty(cm)

Panics == {"none"} \cup StatePanics \cup CallPanics

IInv ==
    /\ Inv(conman, used, faulted)
    /\ panic \in Panics /\ faulted \in BOOLEAN
    /\ StatePanicNeedsFault

(* What a step never does to the sessions and the connections. *)
NoRollbackStep ==
    \A id \in Ids(conman) \cap Ids(conman)' :
        conman'.endpoints[id].session_id # conman.endpoints[id].session_id
        => conman'.endpoints[id].session_id \notin used

FinalStep ==
    \A id \in Ids(conman) \cap Ids(conman)' :
        conman'.endpoints[id].session_id = conman.endpoints[id].session_id
        => \A key \in DisconnectedKeys(conman.endpoints[id]) \cap Keys(conman'.endpoints[id]) :
              key \in DisconnectedKeys(conman'.endpoints[id])

StepOK == NoRollbackStep /\ FinalStep

LEMMA InitIInv == Init => IInv
<1> SUFFICES ASSUME Init PROVE IInv
  OBVIOUS
<1>1. /\ ManagerOK(conman) /\ Ids(conman) = {} /\ Range(conman.routes) = {}
      /\ conman.session_history = {}
  BY NewManagerOK DEF Init, NewManager
<1> QED
  BY <1>1 DEF Init, IInv, Inv, EndpointsTyped, HistoryOK, AllAnnounced, OnlyAnnounced, NoneEmpty,
              Panics, StatePanicNeedsFault

-----------------------------------------------------------------------------
(* The parts of an iteration.                                               *)

LEMMA RefreshedInv ==
    ASSUME NEW cm, NEW past, NEW fault, Inv(cm, past, fault), NEW after,
           Refreshed(cm, after, AllKeys), after.routes = cm.routes,
           \A id \in Ids(cm) : after.endpoints[id].tx_counter <= MaxPackets
    PROVE  Inv(after, past, fault)
<1>1. ManagerOK(after) /\ EndpointsTyped(after)
  BY DEF Inv, Refreshed, Continues, EndpointsTyped
<1>2. HistoryOK(after, past)
  BY DEF Inv, Refreshed, Continues, HistoryOK
<1>3. AllAnnounced(after) /\ OnlyAnnounced(after, past)
  BY DEF Inv, Refreshed, Continues, AllAnnounced, OnlyAnnounced
<1>4. fault \/ NoneEmpty(after)
  BY DEF Inv, Refreshed, Continues, NoneEmpty, HasConnections
<1> QED BY <1>1, <1>2, <1>3, <1>4 DEF Inv

LEMMA ShrunkInv ==
    ASSUME NEW cm, NEW past, NEW fault, Inv(cm, past, fault), NEW after,
           Shrunk(cm, after), after = cm \/ NoneEmpty(after)
    PROVE  Inv(after, past, fault)
<1>1. ManagerOK(after) /\ EndpointsTyped(after)
  BY DEF Inv, Shrunk, EndpointsTyped
<1>2. HistoryOK(after, past)
  BY DEF Inv, Shrunk, HistoryOK
<1>3. AllAnnounced(after)
  BY DEF Inv, Shrunk, AllAnnounced, Mapping
<1>4. OnlyAnnounced(after, past)
  <2> SUFFICES ASSUME NEW m \in Range(after.routes)
               PROVE  \E id \in Ids(after) : \E session \in past \cap SessionsOf[id] :
                        \E r \in Range(RoutesOf[session]) : m = Mapping(r, id)
    BY DEF OnlyAnnounced
  <2>1. m \in Range(cm.routes) /\ m.endpoint_id \notin Ids(cm) \ Ids(after)
    BY DEF Shrunk
  <2>2. PICK id \in Ids(cm) : \E session \in past \cap SessionsOf[id] :
                \E r \in Range(RoutesOf[session]) : m = Mapping(r, id)
    BY <2>1 DEF Inv, OnlyAnnounced
  <2>3. m.endpoint_id = id
    BY <2>2 DEF Mapping
  <2> QED BY <2>1, <2>2, <2>3
<1>5. fault \/ NoneEmpty(after)
  BY DEF Inv
<1> QED BY <1>1, <1>2, <1>3, <1>4, <1>5 DEF Inv

(* At the end of an iteration only the sessions of the endpoints that       *)
(* remain join the used ones.                                               *)
LEMMA PastInv ==
    ASSUME NEW cm, NEW past, NEW fault, Inv(cm, past, fault), NEW U, U \subseteq past,
           \A id \in Ids(cm) : past \cap SessionsOf[id] \subseteq U \cup {cm.endpoints[id].session_id}
    PROVE  Inv(cm, U \cup {cm.endpoints[id].session_id : id \in Ids(cm)}, fault)
<1> DEFINE V == U \cup {cm.endpoints[id].session_id : id \in Ids(cm)}
<1>1. HistoryOK(cm, V)
  BY DEF Inv, HistoryOK
<1>2. OnlyAnnounced(cm, V)
  <2>1. \A id \in Ids(cm) : past \cap SessionsOf[id] \subseteq V \cap SessionsOf[id]
    OBVIOUS
  <2> HIDE DEF V
  <2> QED BY <2>1 DEF Inv, OnlyAnnounced
<1> QED BY <1>1, <1>2 DEF Inv

(* Whatever a handler returns, the clean-up keeps it well formed. *)
LEMMA SweepInv ==
    ASSUME NEW cm, NEW past, NEW fault, Inv(cm, past, fault)
    PROVE  /\ Inv(RemoveDisconnected(cm), past, fault)
           /\ Shrunk(cm, RemoveDisconnected(cm))
BY RemoveDisconnectedOK, ShrunkInv DEF Inv

(* An iteration in which no endpoint comes and no session changes. *)
LEMMA RefreshedEnds ==
    ASSUME IInv, NEW cm, Refreshed(conman, cm, AllKeys), cm.routes = conman.routes,
           \A id \in Ids(conman) : cm.endpoints[id].tx_counter <= MaxPackets,
           EndIteration(cm)
    PROVE  IInv' /\ StepOK
<1> DEFINE after == RemoveDisconnected(cm)
<1>1. Inv(cm, used, faulted)
  BY RefreshedInv DEF IInv
<1>2. Inv(after, used, faulted) /\ Shrunk(cm, after)
  BY <1>1, SweepInv
<1>3. /\ conman' = after
      /\ used' = used \cup {after.endpoints[id].session_id : id \in Ids(after)}
      /\ panic' = panic /\ faulted' = faulted
  BY DEF EndIteration, EndWith
<1> HIDE DEF after
<1>4. Inv(conman', used', faulted')
  BY <1>2, <1>3, PastInv
<1>5. \A id \in Ids(after) :
        /\ id \in Ids(conman) /\ after.endpoints[id].session_id = conman.endpoints[id].session_id
        /\ DisconnectedKeys(conman.endpoints[id]) \cap Keys(after.endpoints[id])
                \subseteq DisconnectedKeys(after.endpoints[id])
  BY <1>2 DEF Shrunk, Refreshed, Continues, DisconnectedKeys
<1>6. StepOK
  BY <1>3, <1>5 DEF StepOK, NoRollbackStep, FinalStep
<1> QED BY <1>3, <1>4, <1>6 DEF IInv, StatePanicNeedsFault

(* An iteration in which connections leave, and endpoints with them. *)
LEMMA ShrunkEnds ==
    ASSUME IInv, NEW cm, Shrunk(conman, cm), cm = conman \/ NoneEmpty(cm), EndIteration(cm)
    PROVE  IInv' /\ StepOK
<1> DEFINE after == RemoveDisconnected(cm)
<1>1. Inv(cm, used, faulted)
  BY ShrunkInv DEF IInv
<1>2. Inv(after, used, faulted) /\ Shrunk(cm, after)
  BY <1>1, SweepInv
<1>3. /\ conman' = after
      /\ used' = used \cup {after.endpoints[id].session_id : id \in Ids(after)}
      /\ panic' = panic /\ faulted' = faulted
  BY DEF EndIteration, EndWith
<1> HIDE DEF after
<1>4. Inv(conman', used', faulted')
  BY <1>2, <1>3, PastInv
<1>5. \A id \in Ids(after) :
        /\ id \in Ids(conman) /\ after.endpoints[id].session_id = conman.endpoints[id].session_id
        /\ DisconnectedKeys(conman.endpoints[id]) \cap Keys(after.endpoints[id])
                \subseteq DisconnectedKeys(after.endpoints[id])
  BY <1>2 DEF Shrunk, DisconnectedKeys
<1>6. StepOK
  BY <1>3, <1>5 DEF StepOK, NoRollbackStep, FinalStep
<1> QED BY <1>3, <1>4, <1>6 DEF IInv, StatePanicNeedsFault

(* A panic changes nothing else that is looked at. *)
LEMMA PanicEnds ==
    ASSUME IInv, NEW cause \in Panics, Panic(cause),
           cause # "route", cause = "select_all" => faulted
    PROVE  IInv' /\ StepOK
<1>1. conman' = conman /\ used' = used /\ faulted' = faulted /\ panic' = cause
  BY DEF Panic
<1> QED BY <1>1 DEF IInv, StatePanicNeedsFault, StepOK, NoRollbackStep, FinalStep

(* A Hello that is not refused: its session is new to an endpoint that is   *)
(* overwritten, and the routes it announces join the table.                 *)
LEMMA HelloInv ==
    ASSUME NEW cm, NEW past, NEW fault, Inv(cm, past, fault),
           NEW id \in Clients, NEW session \in SessionsOf[id], NEW key \in AllKeys, NEW added,
           NEW after, Met(cm, after, id, session, RoutesOf[session], key, added),
           NEW later, (fault \/ ~added) => later
    PROVE  Inv(after, past \cup {session}, later)
<1> DEFINE e == cm.endpoints[id]
           f == after.endpoints[id]
           known == id \in Ids(cm) /\ e.session_id = session
<1>2. /\ ManagerOK(after)
      /\ Ids(after) = Ids(cm) \cup {id}
      /\ \A i \in Ids(cm) \ {id} : after.endpoints[i] = cm.endpoints[i]
      /\ Range(after.routes) = Range(cm.routes) \cup {Mapping(r, id) : r \in Range(RoutesOf[session])}
      /\ f.session_id = session
      /\ known => /\ after.session_history = cm.session_history
                  /\ Continues(e, f, {key}) /\ f.tx_counter = e.tx_counter
      /\ ~known => /\ after.session_history = cm.session_history \cup {session}
                   /\ Keys(f) \subseteq {key} /\ f.tx_counter = 0
      /\ added => HasConnections(f)
      /\ known /\ HasConnections(e) => HasConnections(f)
  BY DEF Met
<1>3. EndpointsTyped(after)
  BY <1>2, MaxPacketsAssumption DEF Inv, EndpointsTyped, Continues
<1>4. HistoryOK(after, past \cup {session})
  <2>1. session \in Sessions
    BY DEF Sessions
  <2>2. session \in after.session_history
    BY <1>2 DEF Inv, HistoryOK
  <2> QED BY <1>2, <2>1, <2>2 DEF Inv, HistoryOK
<1>5. AllAnnounced(after)
  BY <1>2 DEF Inv, AllAnnounced
<1>6. OnlyAnnounced(after, past \cup {session})
  <2> SUFFICES ASSUME NEW m \in Range(after.routes)
               PROVE  \E i \in Ids(after) : \E s \in (past \cup {session}) \cap SessionsOf[i] :
                        \E r \in Range(RoutesOf[s]) : m = Mapping(r, i)
    BY DEF OnlyAnnounced
  <2>1. CASE m \in Range(cm.routes)
    BY <1>2, <2>1 DEF Inv, OnlyAnnounced
  <2>2. CASE m \in {Mapping(r, id) : r \in Range(RoutesOf[session])}
    BY <1>2, <2>2
  <2> QED BY <1>2, <2>1, <2>2
<1>7. later \/ NoneEmpty(after)
  BY <1>2 DEF Inv, NoneEmpty
<1> QED BY <1>2, <1>3, <1>4, <1>5, <1>6, <1>7 DEF Inv

-----------------------------------------------------------------------------
(* The actions.                                                             *)

LEMMA ReceiveHelloOK ==
    ASSUME IInv, NEW id \in Clients, NEW key \in AllKeys, NEW session \in SessionsOf[id],
           ReceiveHello(id, session, key)
    PROVE  IInv' /\ StepOK
<1>1. PICK added \in BOOLEAN, failed \in SUBSET AllKeys :
        /\ LET handled == HandleHello(conman, id, session, RoutesOf[session], key, added, failed)
           IN EndWith(IF Busy THEN RemoveDisconnected(handled) ELSE handled)
        /\ faulted' = (faulted \/ (~added /\ ~Refused(conman, id, session)))
  BY DEF ReceiveHello
<1> DEFINE handled == HandleHello(conman, id, session, RoutesOf[session], key, added, failed)
           after == IF Busy THEN RemoveDisconnected(handled) ELSE handled
<1>2. /\ conman' = after
      /\ used' = used \cup {after.endpoints[i].session_id : i \in Ids(after)}
      /\ panic' = panic
  BY <1>1 DEF EndWith
<1>3. ASSUME NEW past, NEW fault, Inv(handled, past, fault)
      PROVE  Inv(after, past, fault) /\ Shrunk(handled, after)
  <2> HIDE DEF handled
  <2> QED BY <1>3, SweepInv, UnchangedOK DEF Inv
<1>4. CASE Refused(conman, id, session)
  <2>1. handled = conman /\ faulted' = faulted
    <3>1. handled = conman
      BY <1>4 DEF HandleHello
    <3>2. faulted' = faulted
      <4> HIDE DEF handled
      <4> QED BY <1>1, <1>4, Zenon DEF IInv
    <3> QED BY <3>1, <3>2
  <2> HIDE DEF handled
  <2>2. Inv(after, used, faulted) /\ Shrunk(conman, after)
    BY <1>3, <2>1 DEF IInv
  <2> HIDE DEF after
  <2>3. Inv(conman', used', faulted')
    BY <1>2, <2>1, <2>2, PastInv
  <2>4. StepOK
    BY <1>2, <2>2 DEF StepOK, NoRollbackStep, FinalStep, Shrunk, DisconnectedKeys
  <2> QED BY <1>2, <2>1, <2>3, <2>4 DEF IInv, StatePanicNeedsFault
<1>5. CASE ~Refused(conman, id, session)
  <2> DEFINE past == used \cup {session}
             fault == faulted'
  <2>0. Met(conman, handled, id, session, RoutesOf[session], key, added)
    <3>1. RoutesOf[session] \in Seq(Range(RoutesOf[session]))
      BY RoutesAssumption
    <3> QED BY <1>5, <3>1, HandleHelloOK DEF IInv, Inv
  <2> HIDE DEF handled
  <2>1. Inv(handled, past, fault)
    <3>1. Inv(conman, used, faulted)
      BY DEF IInv
    <3>2. (faulted \/ ~added) => fault
      BY <1>1, <1>5
    <3> HIDE DEF fault
    <3> QED BY <2>0, <3>1, <3>2, HelloInv
  <2>2. /\ Ids(handled) = Ids(conman) \cup {id}
        /\ handled.endpoints[id].session_id = session
        /\ \A i \in Ids(conman) \ {id} : handled.endpoints[i] = conman.endpoints[i]
        /\ id \in Ids(conman) /\ conman.endpoints[id].session_id = session
            => Continues(conman.endpoints[id], handled.endpoints[id], {key})
    BY <2>0 DEF Met
  <2>3. Inv(after, past, fault) /\ Shrunk(handled, after)
    BY <1>3, <2>1
  <2> HIDE DEF after
  <2>4. ASSUME NEW i \in Ids(after)
        PROVE  /\ i \in Ids(handled)
               /\ after.endpoints[i].session_id = handled.endpoints[i].session_id
               /\ DisconnectedKeys(handled.endpoints[i]) \cap Keys(after.endpoints[i])
                    \subseteq DisconnectedKeys(after.endpoints[i])
    BY <2>3 DEF Shrunk, DisconnectedKeys
  <2>5. ASSUME NEW i \in Ids(after)
        PROVE  past \cap SessionsOf[i] \subseteq used \cup {after.endpoints[i].session_id}
    <3>1. i \in Clients
      BY <2>3 DEF Inv, EndpointsTyped
    <3>2. session \in SessionsOf[i] => i = id
      BY <3>1, SessionsAssumption
    <3> QED BY <2>2, <2>4, <3>2
  <2>6. Inv(conman', used', faulted')
    <3>1. faulted' = fault
      OBVIOUS
    <3>2. used \subseteq past
      OBVIOUS
    <3> HIDE DEF fault, past
    <3>3. Inv(after, used \cup {after.endpoints[i].session_id : i \in Ids(after)}, fault)
      BY <2>3, <2>5, <3>2, PastInv
    <3> QED BY <1>2, <3>1, <3>3
  <2>7. NoRollbackStep
    <3> SUFFICES ASSUME NEW i \in Ids(conman) \cap Ids(after),
                        after.endpoints[i].session_id # conman.endpoints[i].session_id
                 PROVE  after.endpoints[i].session_id \notin used
      BY <1>2 DEF NoRollbackStep
    <3>1. i = id /\ after.endpoints[i].session_id = session
      BY <2>1, <2>2, <2>4
    <3>2. session \notin conman.session_history
      BY <1>5, <3>1 DEF Refused
    <3> QED BY <3>1, <3>2 DEF IInv, Inv, HistoryOK
  <2>8. FinalStep
    <3> SUFFICES ASSUME NEW i \in Ids(conman) \cap Ids(after),
                        after.endpoints[i].session_id = conman.endpoints[i].session_id,
                        NEW k \in DisconnectedKeys(conman.endpoints[i]) \cap Keys(after.endpoints[i])
                 PROVE  k \in DisconnectedKeys(after.endpoints[i])
      BY <1>2 DEF FinalStep
    <3>1. DisconnectedKeys(conman.endpoints[i]) \subseteq DisconnectedKeys(handled.endpoints[i])
      BY <2>1, <2>2, <2>4 DEF Continues
    <3> QED BY <2>4, <3>1
  <2>9. StatePanicNeedsFault' /\ panic' \in Panics
    BY <1>1, <1>2 DEF IInv, StatePanicNeedsFault
  <2> QED BY <1>1, <1>2, <2>6, <2>7, <2>8, <2>9 DEF IInv, StepOK
<1> QED BY <1>4, <1>5

LEMMA SendPacketOK ==
    ASSUME IInv, NEW address, SendPacket(address)
    PROVE  IInv' /\ StepOK
<1> DEFINE routed == Lookup(conman.routes, address)
<1>1. routed \subseteq Ids(conman)
  <2> SUFFICES ASSUME NEW m \in Range(conman.routes) PROVE m.endpoint_id \in Ids(conman)
    BY DEF Lookup
  <2>1. PICK id \in Ids(conman) : \E session \in used \cap SessionsOf[id] :
                \E r \in Range(RoutesOf[session]) : m = Mapping(r, id)
    BY DEF IInv, Inv, OnlyAnnounced
  <2> QED BY <2>1 DEF Mapping
<1>2. PICK refused \in [routed -> SUBSET AllKeys] :
        EndIteration(HandlePacketFromTun(conman, address, refused))
  BY <1>1 DEF SendPacket
<1> DEFINE cm == HandlePacketFromTun(conman, address, refused)
<1>3. /\ Refreshed(conman, cm, {}) /\ cm.routes = conman.routes
      /\ \A i \in Ids(conman) : cm.endpoints[i].tx_counter =
            IF i \in routed THEN conman.endpoints[i].tx_counter + 1
            ELSE conman.endpoints[i].tx_counter
  BY HandlePacketFromTunOK DEF IInv, Inv
<1> HIDE DEF cm
<1>4. Refreshed(conman, cm, AllKeys)
  BY <1>3 DEF Refreshed, Continues
<1>5. ASSUME NEW i \in Ids(conman) PROVE cm.endpoints[i].tx_counter <= MaxPackets
  <2>1. /\ conman.endpoints[i].tx_counter \in Nat /\ conman.endpoints[i].tx_counter <= MaxPackets
        /\ i \in routed => conman.endpoints[i].tx_counter < MaxPackets
    BY DEF IInv, Inv, ManagerOK, EndpointOK, EndpointsTyped, SendPacket
  <2> HIDE DEF routed
  <2> QED BY <1>3, <2>1, MaxPacketsAssumption
<1> QED BY <1>2, <1>3, <1>4, <1>5, RefreshedEnds DEF cm

LEMMA EstablishedHelloOK ==
    ASSUME IInv, NEW endpoint, NEW id \in Clients, NEW key \in AllKeys,
           ReceiveEstablishedHello(endpoint, key, id)
    PROVE  IInv' /\ StepOK
<1>1. PICK failed \in SUBSET AllKeys : EndIteration(HandleEstablishedHello(conman, id, key, failed))
  BY DEF ReceiveEstablishedHello
<1> DEFINE cm == HandleEstablishedHello(conman, id, key, failed)
<1>2. /\ Refreshed(conman, cm, {key}) /\ cm.routes = conman.routes
      /\ \A i \in Ids(conman) : cm.endpoints[i].tx_counter = conman.endpoints[i].tx_counter
  BY HandleEstablishedHelloOK DEF IInv, Inv
<1> HIDE DEF cm
<1>3. Refreshed(conman, cm, AllKeys)
  BY <1>2 DEF Refreshed, Continues
<1>4. \A i \in Ids(conman) : cm.endpoints[i].tx_counter <= MaxPackets
  BY <1>2 DEF IInv, Inv, EndpointsTyped
<1> QED BY <1>1, <1>2, <1>3, <1>4, RefreshedEnds DEF cm

LEMMA DuplicationOK ==
    ASSUME IInv, NEW enabled \in BOOLEAN, ReceiveDuplicationCommand(enabled)
    PROVE  IInv' /\ StepOK
<1> DEFINE cm == DuplicationCommand(conman, Interface, enabled)
<1>1. /\ Refreshed(conman, cm, {}) /\ cm.routes = conman.routes
      /\ \A i \in Ids(conman) : cm.endpoints[i].tx_counter = conman.endpoints[i].tx_counter
  BY DuplicationCommandOK DEF IInv, Inv
<1>2. EndIteration(cm)
  BY DEF ReceiveDuplicationCommand
<1> HIDE DEF cm
<1>3. Refreshed(conman, cm, AllKeys)
  BY <1>1 DEF Refreshed, Continues
<1>4. \A i \in Ids(conman) : cm.endpoints[i].tx_counter <= MaxPackets
  BY <1>1 DEF IInv, Inv, EndpointsTyped
<1> QED BY <1>1, <1>2, <1>3, <1>4, RefreshedEnds

LEMMA NextOK == IInv /\ [Next]_vars => IInv' /\ (StepOK \/ UNCHANGED vars)
<1> SUFFICES ASSUME IInv, [Next]_vars PROVE IInv' /\ (StepOK \/ UNCHANGED vars)
  OBVIOUS
<1>1. ASSUME NEW id \in Clients, NEW key \in AllKeys, NEW session \in SessionsOf[id],
             ReceiveHello(id, session, key)
      PROVE  IInv' /\ StepOK
  BY <1>1, ReceiveHelloOK
<1>2. ASSUME NEW endpoint \in Ids(conman), NEW id \in Clients, NEW key \in AllKeys,
             ReceiveEstablishedHello(endpoint, key, id)
      PROVE  IInv' /\ StepOK
  BY <1>2, EstablishedHelloOK
<1>3. ASSUME NEW endpoint \in Ids(conman), NEW id \in Clients, NEW key \in AllKeys,
             EstablishedHelloPanics(endpoint, key, id)
      PROVE  IInv' /\ StepOK
  <2>1. Panic("socket") \/ Panic("clock")
    BY <1>3 DEF EstablishedHelloPanics
  <2> QED BY <2>1, PanicEnds DEF Panics, CallPanics
<1>4. ASSUME NEW id \in Ids(conman), NEW key \in AllKeys, ConnectionTimeout(id, key)
      PROVE  IInv' /\ StepOK
  <2>1. Shrunk(conman, RemoveConnection(conman, id, key)) /\ NoneEmpty(RemoveConnection(conman, id, key))
    BY RemoveConnectionOK DEF IInv, Inv
  <2> QED BY <1>4, <2>1, ShrunkEnds DEF ConnectionTimeout
<1>5. ASSUME NEW address \in Destinations, SendPacket(address)
      PROVE  IInv' /\ StepOK
  BY <1>5, SendPacketOK
<1>6. ASSUME NEW enabled \in BOOLEAN, ReceiveDuplicationCommand(enabled)
      PROVE  IInv' /\ StepOK
  BY <1>6, DuplicationOK
<1>7. ASSUME OtherEvent PROVE IInv' /\ StepOK
  <2>1. Shrunk(conman, conman)
    BY UnchangedOK DEF IInv, Inv
  <2> QED BY <1>7, <2>1, ShrunkEnds DEF OtherEvent
<1>8. ASSUME AwaitPanics PROVE IInv' /\ StepOK
  <2>1. faulted
    BY <1>8 DEF AwaitPanics, Busy, CanAwait, HasEndpoints, IInv, Inv, NoneEmpty
  <2>2. Panic("select_all")
    BY <1>8 DEF AwaitPanics
  <2> QED BY <2>1, <2>2, PanicEnds DEF Panics, StatePanics
<1>9. ASSUME EventPanics PROVE IInv' /\ StepOK
  <2>1. PICK cause \in {"tun", "log", "recv"} : Panic(cause)
    BY <1>9 DEF EventPanics
  <2> QED BY <2>1, PanicEnds DEF Panics, CallPanics
<1>10. ASSUME UNCHANGED vars PROVE IInv'
  BY <1>10 DEF vars, IInv, StatePanicNeedsFault
<1> QED BY <1>1, <1>2, <1>3, <1>4, <1>5, <1>6, <1>7, <1>8, <1>9, <1>10 DEF Next

LEMMA Invariance == Spec => []IInv
<1>1. IInv /\ [Next]_vars => IInv'
  BY NextOK
<1> QED BY InitIInv, <1>1, PTL DEF Spec

-----------------------------------------------------------------------------
(* The properties.                                                          *)

(* The manager has its type: the handlers keep sessions with their clients, *)
(* and connections to the one interface of the server.                      *)
THEOREM ServerTypeOK == Spec => []TypeOK
<1>1. IInv => TypeOK
  <2> SUFFICES ASSUME IInv PROVE TypeOK
    OBVIOUS
  <2>1. ASSUME NEW id \in Ids(conman)
        PROVE  /\ id \in Clients
               /\ conman.endpoints[id].session_id \in SessionsOf[id]
               /\ conman.endpoints[id].tx_counter \in 0 .. MaxPackets
               /\ Keys(conman.endpoints[id]) \subseteq AllKeys
               /\ conman.endpoints[id].connections \in
                    [Keys(conman.endpoints[id]) -> [state : ConnectionStates, enabled : BOOLEAN]]
    <3>1. EndpointOK(conman.endpoints[id])
      BY DEF IInv, Inv, ManagerOK
    <3>2. conman.endpoints[id].tx_counter \in Nat /\ conman.endpoints[id].tx_counter <= MaxPackets
      BY <3>1 DEF EndpointOK, IInv, Inv, EndpointsTyped
    <3> QED BY <3>1, <3>2, MaxPacketsAssumption DEF EndpointOK, IInv, Inv, EndpointsTyped
  <2>2. conman.session_history \subseteq Sessions /\ used \subseteq Sessions
    BY DEF IInv, Inv, HistoryOK
  <2>3. panic \in {"none"} \cup StatePanics \cup CallPanics /\ faulted \in BOOLEAN
    BY Zenon DEF IInv, Panics
  <2> QED BY <2>1, <2>2, <2>3, Zenon DEF TypeOK
<1> QED BY Invariance, <1>1, PTL

(* The routing table lists, each once, all routes of the present sessions   *)
(* and otherwise only routes of endpoints that exist, however handle_hello, *)
(* remove_connection and remove_disconnected are interleaved.               *)
THEOREM RoutesAlwaysMatch == Spec => []RoutesMatchEndpoints
<1>1. IInv => RoutesMatchEndpoints
  <2> SUFFICES ASSUME IInv PROVE RoutesMatchEndpoints
    OBVIOUS
  <2>1. UNION {Announced(id, {conman.endpoints[id].session_id}) : id \in Ids(conman)}
            \subseteq Range(conman.routes)
    BY DEF IInv, Inv, AllAnnounced, Announced, Mapping
  <2>2. Range(conman.routes) \subseteq
            UNION {Announced(id, used \cap SessionsOf[id]) : id \in Ids(conman)}
    <3> SUFFICES ASSUME NEW m \in Range(conman.routes)
                 PROVE  \E id \in Ids(conman) : m \in Announced(id, used \cap SessionsOf[id])
      OBVIOUS
    <3>1. PICK id \in Ids(conman) : \E session \in used \cap SessionsOf[id] :
                \E r \in Range(RoutesOf[session]) : m = Mapping(r, id)
      BY DEF IInv, Inv, OnlyAnnounced
    <3>2. m \in Announced(id, used \cap SessionsOf[id])
      BY <3>1 DEF Announced, Mapping
    <3> QED BY <3>2
  <2>3. IsInjective(conman.routes)
    BY DEF IInv, Inv, ManagerOK, TableOK
  <2> QED BY <2>1, <2>2, <2>3 DEF RoutesMatchEndpoints
<1> QED BY Invariance, <1>1, PTL

(* insert_route keeps every default route behind all other routes, although *)
(* it moves only one, also after remove_route_to_endpoint.                  *)
THEOREM DefaultRoutesStayLast == Spec => []DefaultRoutesLast
<1>1. IInv => DefaultRoutesLast
  BY DEF IInv, Inv, ManagerOK, TableOK, DefaultsLast, DefaultRoutesLast
<1> QED BY Invariance, <1>1, PTL

(* The manager keeps itself out of the states that end the process: the     *)
(* endpoint of every route exists when handle_packet_from_tun unwraps it,   *)
(* and select_all gets a future unless handle_hello failed to set up a      *)
(* socket.                                                                  *)
THEOREM StatePanicOnlyAfterFault == Spec => []StatePanicNeedsFault
<1>1. IInv => StatePanicNeedsFault
  BY DEF IInv
<1> QED BY Invariance, <1>1, PTL

(* handle_hello never overwrites an endpoint for a session used before.     *)
THEOREM SessionsMoveOn == Spec => NoSessionRollback
<1> DEFINE Step == \A id \in Ids(conman) \cap Ids(conman)' :
                conman'.endpoints[id].session_id # conman.endpoints[id].session_id
                => conman'.endpoints[id].session_id \notin used
<1>1. IInv /\ [Next]_vars => [Step]_vars
  BY NextOK DEF StepOK, NoRollbackStep
<1> QED BY Invariance, <1>1, PTL DEF Spec, NoSessionRollback

(* No handler revives a Disconnected connection of an endpoint that stays   *)
(* in its session, nor replaces it before it was removed.                   *)
THEOREM DisconnectedStaysFinal == Spec => DisconnectedIsFinal
<1> DEFINE Step == \A id \in Ids(conman) \cap Ids(conman)' :
                conman'.endpoints[id].session_id = conman.endpoints[id].session_id
                => \A key \in DisconnectedKeys(conman.endpoints[id]) \cap Keys(conman'.endpoints[id]) :
                      key \in DisconnectedKeys(conman'.endpoints[id])
<1>1. IInv /\ [Next]_vars => [Step]_vars
  BY NextOK DEF StepOK, FinalStep
<1> QED BY Invariance, <1>1, PTL DEF Spec, DisconnectedIsFinal
=============================================================================
