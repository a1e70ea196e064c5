---------------------------- MODULE Tunnel_proofs ----------------------------
(***************************************************************************)
(* The client and the server over the network: the connections of the       *)
(* server lead to sockets of its session, and no sorter is given, or moved  *)
(* on by, a packet of another numbering.                                    *)
(***************************************************************************)
EXTENDS Tunnel, ConnectionManager_proofs

-----------------------------------------------------------------------------
(* The sorter of the server's endpoint.                                     *)

(* What the client numbers its packets with. *)
Numbers == 0 .. MaxUp

LEMMA NumbersTyped == MaxUp \in Nat /\ MaxSockets \in Nat /\ Numbers \in SUBSET Nat
BY BoundsAssumption DEF Numbers

(* The sorter holds only numbers of N, and has moved on only behind them. *)
SorterFrom(s, N) ==
    /\ s = [packet_queue |-> s.packet_queue, next_seq |-> s.next_seq,
            deadline_timer |-> s.deadline_timer, sorted |-> s.sorted]
    /\ Sorter!Held(s) \subseteq N
    /\ s.next_seq \in Nat
    /\ s.next_seq = 0 \/ s.next_seq - 1 \in N

LEMMA NewSorter == SorterFrom(Sorter!New, {})
BY DEF SorterFrom, Sorter!New, Sorter!Held

(* A first key is held. *)
LEMMA FirstKeyHeld ==
    ASSUME NEW s, Sorter!Held(s) \in SUBSET Numbers, Sorter!Held(s) # {}
    PROVE  Sorter!FirstKey(s.packet_queue) \in Sorter!Held(s)
<1>1. Sorter!Held(s) \in SUBSET Nat
  BY NumbersTyped
<1>2. Min(Sorter!Held(s)) \in Sorter!Held(s)
  BY <1>1, FirstPosition
<1> QED BY <1>2 DEF Min, Sorter!Min, Sorter!FirstKey, Sorter!Held

(* The number below the first gap above a held number is held. *)
LEMMA BelowGapHeld ==
    ASSUME NEW Q \in SUBSET Numbers, NEW n \in Q
    PROVE  Sorter!FirstGap(Q, n) \in Nat /\ Sorter!FirstGap(Q, n) - 1 \in Q
<1> DEFINE T == {m \in Nat : m >= n /\ m \notin Q}
           C == {n} \cup {k + 1 : k \in Q}
           Gap(g) == g >= n /\ g \notin Q /\ n .. (g - 1) \subseteq Q
<1>0. MaxUp \in Nat /\ Q \subseteq 0 .. MaxUp /\ n \in 0 .. MaxUp
  BY NumbersTyped DEF Numbers
<1>1. MaxUp + 1 \in T
  BY <1>0
<1>2. PICK g \in T : \A k \in T : g <= k
  BY <1>1, FirstPosition
<1>3. n .. (g - 1) \subseteq Q
  BY <1>0, <1>2
<1>4. g - 1 \in Q
  BY <1>0, <1>2, <1>3
<1>5. g \in C /\ Gap(g)
  <2>1. g = (g - 1) + 1
    BY <1>2
  <2> QED BY <1>2, <1>3, <1>4, <2>1
<1>6. Sorter!FirstGap(Q, n) \in C /\ Gap(Sorter!FirstGap(Q, n))
  <2>1. Sorter!FirstGap(Q, n) = CHOOSE x \in C : Gap(x)
    BY DEF Sorter!FirstGap
  <2> HIDE DEF C, Gap
  <2> QED BY <1>5, <2>1
<1> QED BY <1>0, <1>6

(* enqueue_sorted_packets moves on behind what was held, also when the      *)
(* sorter has just been moved to its first key.                             *)
LEMMA EnqueueSortedFrom ==
    ASSUME NEW N \in SUBSET Numbers, NEW s,
           s = [packet_queue |-> s.packet_queue, next_seq |-> s.next_seq,
                deadline_timer |-> s.deadline_timer, sorted |-> s.sorted],
           Sorter!Held(s) \subseteq N,
           \/ SorterFrom(s, N)
           \/ Sorter!Held(s) # {} /\ s.next_seq = Sorter!FirstKey(s.packet_queue)
    PROVE  SorterFrom(Sorter!EnqueueSorted(s), N)
<1>1. CASE Sorter!Held(s) = {} \/ Sorter!FirstKey(s.packet_queue) # s.next_seq
  BY <1>1 DEF Sorter!EnqueueSorted
<1>2. CASE ~(Sorter!Held(s) = {} \/ Sorter!FirstKey(s.packet_queue) # s.next_seq)
  <2> DEFINE gap == Sorter!FirstGap(Sorter!Held(s), s.next_seq)
             left == Sorter!Held(s) \ (s.next_seq .. (gap - 1))
             t == Sorter!EnqueueSorted(s)
  <2>1. s.next_seq \in Sorter!Held(s) /\ Sorter!Held(s) \in SUBSET Numbers
    BY <1>2, FirstKeyHeld
  <2>2. gap \in Nat /\ gap - 1 \in N
    BY <2>1, BelowGapHeld
  <2>3. /\ t = [packet_queue |-> t.packet_queue, next_seq |-> t.next_seq,
                deadline_timer |-> t.deadline_timer, sorted |-> t.sorted]
        /\ t.next_seq = gap
        /\ DOMAIN t.packet_queue = left
    BY <1>2 DEF Sorter!EnqueueSorted, Sorter!Restrict
  <2> HIDE DEF gap, t
  <2> QED BY <2>2, <2>3 DEF SorterFrom, Sorter!Held, t
<1> QED BY <1>1, <1>2

(* advance_queue moves to the first key, which is held, and on.             *)
LEMMA AdvanceQueueFrom ==
    ASSUME NEW N \in SUBSET Numbers, NEW s, SorterFrom(s, N)
    PROVE  SorterFrom(Sorter!AdvanceQueue(s), N)
<1>1. CASE Sorter!Held(s) = {}
  BY <1>1 DEF Sorter!AdvanceQueue, SorterFrom, Sorter!Held
<1>2. CASE Sorter!Held(s) # {}
  <2> DEFINE first == [s EXCEPT !.next_seq = Sorter!FirstKey(s.packet_queue)]
             t == Sorter!EnqueueSorted(first)
             timer == IF Sorter!Held(t) = {} THEN Sorter!Never
                      ELSE Deadline - t.packet_queue[Sorter!FirstKey(t.packet_queue)]
  <2>1. /\ first = [packet_queue |-> first.packet_queue, next_seq |-> first.next_seq,
                    deadline_timer |-> first.deadline_timer, sorted |-> first.sorted]
        /\ first.packet_queue = s.packet_queue
        /\ first.next_seq = Sorter!FirstKey(s.packet_queue)
        /\ Sorter!Held(first) = Sorter!Held(s)
    BY DEF SorterFrom, Sorter!Held
  <2>2. Sorter!AdvanceQueue(s) = [t EXCEPT !.deadline_timer = timer]
    BY <1>2 DEF Sorter!AdvanceQueue
  <2> HIDE DEF first, timer
  <2>3. SorterFrom(t, N)
    BY <1>2, <2>1, EnqueueSortedFrom DEF SorterFrom
  <2> HIDE DEF t
  <2> QED BY <2>2, <2>3 DEF SorterFrom, Sorter!Held
<1> QED BY <1>1, <1>2

(* insert_packet *)
LEMMA InsertPacketFrom ==
    ASSUME NEW N \in SUBSET Numbers, NEW s, SorterFrom(s, N), NEW seq \in Numbers
    PROVE  SorterFrom(Sorter!InsertPacket(s, seq), N \cup {seq})
<1> DEFINE M == N \cup {seq}
           queued == Sorter!Queue(s, seq)
           advanced == IF Sorter!IsJump(s, seq) THEN Sorter!AdvanceQueue(queued) ELSE queued
           t == Sorter!EnqueueSorted(advanced)
<1>1. M \in SUBSET Numbers /\ SorterFrom(s, M)
  BY DEF SorterFrom
<1>2. CASE seq < s.next_seq
  BY <1>1, <1>2 DEF Sorter!InsertPacket
<1>3. CASE ~(seq < s.next_seq)
  <2>1. SorterFrom(queued, M)
    BY DEF SorterFrom, Sorter!Queue, Sorter!Held
  <2>2. Sorter!InsertPacket(s, seq) = Sorter!ArmTimer(t)
    BY <1>3 DEF Sorter!InsertPacket
  <2> HIDE DEF M, queued
  <2>3. SorterFrom(advanced, M)
    BY <1>1, <2>1, AdvanceQueueFrom
  <2> HIDE DEF advanced
  <2>4. SorterFrom(t, M)
    BY <1>1, <2>3, EnqueueSortedFrom DEF SorterFrom
  <2> HIDE DEF t
  <2>5. SorterFrom(Sorter!ArmTimer(t), M)
    BY <2>4 DEF SorterFrom, Sorter!ArmTimer, Sorter!Held
  <2> QED BY <2>2, <2>5 DEF M
<1> QED BY <1>2, <1>3

(* The deadline timer is consumed, and the queue advanced.                  *)
LEMMA DeadlineFrom ==
    ASSUME NEW N \in SUBSET Numbers, NEW s, SorterFrom(s, N)
    PROVE  SorterFrom(Sorter!AdvanceQueue([s EXCEPT !.deadline_timer = Sorter!Never]), N)
<1> DEFINE t == [s EXCEPT !.deadline_timer = Sorter!Never]
<1>1. SorterFrom(t, N)
  BY DEF SorterFrom, Sorter!Held
<1> HIDE DEF t
<1> QED BY <1>1, AdvanceQueueFrom DEF t

-----------------------------------------------------------------------------
(* The invariant.  opened_in is the session every socket was opened in.     *)

(* Every connection of the client has a socket of the endpoint's session.   *)
ClientOK(cm, local, opened_in) ==
    /\ ManagerOK(cm) /\ Ids(cm) \subseteq {ServerId}
    /\ \A id \in Ids(cm) : cm.endpoints[id].session_id \in Nat
    /\ DOMAIN local = ClientKeys(cm)
    /\ \A key \in DOMAIN local :
        /\ local[key] \in DOMAIN opened_in
        /\ opened_in[local[key]] = cm.endpoints[ServerId].session_id

(* Every connection of the server leads to such a socket.                   *)
ServerOK(cm, opened_in) ==
    /\ ManagerOK(cm) /\ Ids(cm) \subseteq {ClientId}
    /\ \A key \in ServerKeys(cm) :
        /\ key[2] \in DOMAIN opened_in
        /\ opened_in[key[2]] = cm.endpoints[ClientId].session_id

(* A datagram on a path is of the session of its socket.                    *)
DatagramOK(m, opened_in) ==
    /\ m.type \in {"Hello", "Uplink", "Downlink"} => m.address \in DOMAIN opened_in
    /\ m.type = "Hello" => m.session = opened_in[m.address]
    /\ m.type = "Uplink" =>
        m.from = [session |-> opened_in[m.address], made |-> 0] /\ m.seq \in Numbers
    /\ m.type = "Downlink" => m.from.session = opened_in[m.address]

NetworkOK(datagrams, opened_in) == \A m \in datagrams : DatagramOK(m, opened_in)

(* The sorters were given packets of the endpoint's session only, and the   *)
(* server's has moved on only behind those.                                 *)
ClientInputOK(cm, input) ==
    \A q \in input : q.from.session = cm.endpoints[ServerId].session_id

ServerInputOK(cm, input, sorter) ==
    /\ \A q \in input :
        /\ q = [from |-> [session |-> cm.endpoints[ClientId].session_id, made |-> 0],
                seq |-> q.seq]
        /\ q.seq \in Numbers
    /\ SorterFrom(sorter, {q.seq : q \in input})

IInv ==
    /\ sockets \in Seq(Nat)
    /\ ClientOK(client, bound, sockets)
    /\ ServerOK(server, sockets)
    /\ NetworkOK(network, sockets)
    /\ ClientInputOK(client, clientInput)
    /\ ServerInputOK(server, serverInput, serverSorter)

(* Sockets are added, and none changes its session.                         *)
Grows(before, after) ==
    /\ after \in Seq(Nat)
    /\ \A address \in DOMAIN before :
        address \in DOMAIN after /\ after[address] = before[address]

LEMMA GrowsOK ==
    ASSUME NEW before \in Seq(Nat), NEW after, Grows(before, after)
    PROVE  /\ \A cm : ServerOK(cm, before) => ServerOK(cm, after)
           /\ \A datagrams : NetworkOK(datagrams, before) => NetworkOK(datagrams, after)
BY DEF Grows, ServerOK, NetworkOK, DatagramOK

-----------------------------------------------------------------------------
(* The client.                                                              *)

(* A new sorter comes with a new session.                                   *)
LEMMA ClientBecomesOK ==
    ASSUME NEW cm, ClientBecomes(cm), ClientInputOK(client, clientInput)
    PROVE  ClientInputOK(client', clientInput')
BY DEF ClientBecomes, KeepSorter, SameEndpoint, ClientInputOK

(* The sockets that are opened are of the endpoint's session, and so are    *)
(* the Hellos on all of them.                                               *)
LEMMA OpenAndGreetOK ==
    ASSUME NEW cm, NEW kept, sockets \in Seq(Nat), NetworkOK(network, sockets),
           ManagerOK(cm), Ids(cm) = {ServerId}, cm.endpoints[ServerId].session_id \in Nat,
           DOMAIN kept \subseteq ClientKeys(cm),
           \A key \in DOMAIN kept :
                /\ kept[key] \in DOMAIN sockets
                /\ sockets[kept[key]] = cm.endpoints[ServerId].session_id,
           IsFiniteSet(ClientKeys(cm) \ DOMAIN kept),
           OpenAndGreet(cm, kept)
    PROVE  /\ ClientOK(cm, bound', sockets') /\ Grows(sockets, sockets')
           /\ NetworkOK(network', sockets')
<1> DEFINE session == cm.endpoints[ServerId].session_id
           new == ClientKeys(cm) \ DOMAIN kept
           n == Cardinality(new)
           opened == [i \in 1 .. n |-> session]
<1>1. n \in Nat
  BY FS_CardinalityType
<1>2. PICK order \in Bijection(new, 1 .. n) :
        bound' = [key \in ClientKeys(cm) |->
                    IF key \in DOMAIN kept THEN kept[key] ELSE Len(sockets) + order[key]]
  BY DEF OpenAndGreet
<1>3. \A key \in new : order[key] \in 1 .. n
  BY DEF Bijection, Injection
<1>4. /\ sockets' = sockets \o opened
      /\ network' = network \cup {Hello(address, session) : address \in Range(bound')}
  BY DEF OpenAndGreet
<1> HIDE DEF n
<1>5. opened \in Seq(Nat) /\ Len(opened) = n
  <2>1. opened \in [1 .. n -> Nat]
    OBVIOUS
  <2> QED BY <1>1, <2>1
<1>6. \A i \in 1 .. n : opened[i] = session
  OBVIOUS
<1> HIDE DEF opened
<1>7. /\ sockets' \in Seq(Nat) /\ Len(sockets') = Len(sockets) + n
      /\ \A i \in 1 .. Len(sockets) : sockets'[i] = sockets[i]
      /\ \A i \in 1 .. n : sockets'[Len(sockets) + i] = session
  <2>1. sockets' \in Seq(Nat) /\ Len(sockets') = Len(sockets) + n
    <3>1. sockets \o opened \in Seq(Nat) /\ Len(sockets \o opened) = Len(sockets) + Len(opened)
      BY <1>5, ConcatProperties
    <3> QED BY <1>4, <1>5, <3>1, Zenon
  <2>2. \A i \in 1 .. Len(sockets) : sockets'[i] = sockets[i]
    BY <1>4, <1>5
  <2>3. ASSUME NEW i \in 1 .. n PROVE sockets'[Len(sockets) + i] = opened[i]
    BY <1>1, <1>4, <1>5, <2>3
  <2> QED BY <1>6, <2>1, <2>2, <2>3
<1>8. /\ DOMAIN sockets = 1 .. Len(sockets) /\ Len(sockets) \in Nat
      /\ DOMAIN sockets' = 1 .. Len(sockets')
  BY <1>7
<1>9. Grows(sockets, sockets')
  BY <1>1, <1>7, <1>8 DEF Grows
<1>10. \A key \in ClientKeys(cm) :
        bound'[key] \in DOMAIN sockets' /\ sockets'[bound'[key]] = session
  <2> SUFFICES ASSUME NEW key \in ClientKeys(cm)
               PROVE  bound'[key] \in DOMAIN sockets' /\ sockets'[bound'[key]] = session
    OBVIOUS
  <2>1. CASE key \in DOMAIN kept
    <3>1. bound'[key] = kept[key]
      BY <1>2, <2>1
    <3> QED BY <1>9, <2>1, <3>1 DEF Grows
  <2>2. CASE key \notin DOMAIN kept
    <3>1. bound'[key] = Len(sockets) + order[key] /\ order[key] \in 1 .. n
      BY <1>2, <1>3, <2>2
    <3>2. Len(sockets) + order[key] \in 1 .. Len(sockets) + n
      BY <1>1, <1>8, <3>1
    <3>3. sockets'[Len(sockets) + order[key]] = session
      BY <1>7, <3>1
    <3> QED BY <1>7, <1>8, <3>1, <3>2, <3>3
  <2> QED BY <2>1, <2>2
<1>11. DOMAIN bound' = ClientKeys(cm)
  BY <1>2
<1>12. ClientOK(cm, bound', sockets')
  BY <1>10, <1>11 DEF ClientOK
<1>13. NetworkOK(network', sockets')
  <2>1. NetworkOK(network, sockets')
    BY <1>9, GrowsOK
  <2>2. ASSUME NEW address \in Range(bound') PROVE DatagramOK(Hello(address, session), sockets')
    <3>1. address \in DOMAIN sockets' /\ sockets'[address] = session
      BY <1>10, <1>11 DEF Range
    <3> QED BY <3>1 DEF DatagramOK, Hello
  <2> QED BY <1>4, <2>1, <2>2 DEF NetworkOK
<1> QED BY <1>9, <1>12, <1>13

(* What a step of the client establishes.                                   *)
ClientStepOK ==
    /\ Grows(sockets, sockets')
    /\ ClientOK(client', bound', sockets')
    /\ NetworkOK(network', sockets')
    /\ ClientInputOK(client', clientInput')

LEMMA SocketsStay ==
    ASSUME sockets \in Seq(Nat), sockets' = sockets
    PROVE  Grows(sockets, sockets')
BY DEF Grows

(* Handlers that open no socket keep the session and the connections.       *)
LEMMA RefreshedClientOK ==
    ASSUME ClientOK(client, bound, sockets), NEW cm, Refreshed(client, cm, {})
    PROVE  /\ ClientOK(cm, bound, sockets)
           /\ \A id \in Ids(client) : cm.endpoints[id].session_id = client.endpoints[id].session_id
BY DEF ClientOK, Refreshed, Continues, ClientKeys

(* Configured connections of a new endpoint are opened.                     *)
LEMMA CreateOK ==
    ASSUME IInv, NEW cm, ManagerOK(cm), Ids(cm) = {},
           NEW opened \in SUBSET Configured, opened # {}, NEW session \in Nat,
           NEW after, after = CreateConnections(cm, ServerId, Configured, session, Opening(opened)),
           ClientBecomes(after), OpenAndGreet(after, <<>>)
    PROVE  ClientStepOK
<1> DEFINE reached == {k \in Configured : Opening(opened)[k] # "socket_error"}
           ok == {k \in Configured : Opening(opened)[k] = "ok"}
<1>1. Created(cm, after, ServerId, session, reached, ok)
  BY CreateConnectionsOK
<1>2. ok = opened
  BY DEF Opening
<1> HIDE DEF ok, reached
<1>3. /\ ManagerOK(after) /\ Ids(after) = {ServerId}
      /\ after.endpoints[ServerId].session_id = session
      /\ ClientKeys(after) = opened
  BY <1>1, <1>2 DEF Created, ClientKeys
<1>4. IsFiniteSet(ClientKeys(after) \ DOMAIN <<>>)
  <2>1. ClientKeys(after) \ DOMAIN <<>> \in SUBSET Configured
    BY <1>3
  <2> QED BY <2>1, ConfiguredAssumption, FS_Subset
<1>5. DOMAIN <<>> = {}
  OBVIOUS
<1>6. /\ ClientOK(after, bound', sockets') /\ Grows(sockets, sockets')
      /\ NetworkOK(network', sockets')
  BY <1>3, <1>4, <1>5, OpenAndGreetOK DEF IInv
<1>7. client' = after /\ ClientInputOK(client', clientInput')
  BY ClientBecomesOK DEF ClientBecomes, IInv
<1> QED BY <1>6, <1>7 DEF ClientStepOK

(* Events::SendKeepalive                                                    *)
LEMMA SendKeepaliveOK ==
    ASSUME IInv, NEW opened \in SUBSET Configured, SendKeepalive(opened)
    PROVE  ClientStepOK
<1> DEFINE greeted == GreetAll(client, {})
           e == greeted.endpoints[ServerId]
           missing == Configured \ Keys(e)
           cm == EnsureEndpointConnections(greeted, ServerId, Configured, Opening(opened))
           reached == {k \in missing : Opening(opened)[k] # "socket_error"}
           ok == {k \in missing : Opening(opened)[k] = "ok"}
<1>1. ManagerOK(client) /\ Ids(client) = {ServerId}
  BY DEF IInv, ClientOK, SendKeepalive, HasEndpoints
<1>2. Refreshed(client, greeted, {})
  BY <1>1, GreetAllOK
<1>3. ClientBecomes(cm) /\ OpenAndGreet(cm, bound)
  BY DEF SendKeepalive
<1> HIDE DEF greeted
<1>4. /\ ManagerOK(greeted) /\ Ids(greeted) = {ServerId}
      /\ e.session_id = client.endpoints[ServerId].session_id
      /\ Keys(e) = DOMAIN bound
  BY <1>1, <1>2 DEF Refreshed, Continues, IInv, ClientOK, ClientKeys
<1>5. cm = CreateConnections(greeted, ServerId, missing, e.session_id, Opening(opened))
  BY <1>4 DEF EnsureEndpointConnections
<1> HIDE DEF missing, cm
<1>6. Created(greeted, cm, ServerId, e.session_id, reached, ok)
  BY <1>4, <1>5, CreateConnectionsOK
<1>7. ok \in SUBSET Configured
  BY DEF missing
<1> HIDE DEF ok, reached
<1>8. /\ ManagerOK(cm) /\ Ids(cm) = {ServerId}
      /\ cm.endpoints[ServerId].session_id = e.session_id
      /\ DOMAIN bound \subseteq ClientKeys(cm)
      /\ ClientKeys(cm) \ DOMAIN bound \in SUBSET ok
  BY <1>4, <1>6 DEF Created, Continues, ClientKeys
<1>9. IsFiniteSet(ClientKeys(cm) \ DOMAIN bound)
  <2>1. IsFiniteSet(ok)
    BY <1>7, ConfiguredAssumption, FS_Subset
  <2> QED BY <1>8, <2>1, FS_Subset
<1>10. /\ ClientOK(cm, bound', sockets') /\ Grows(sockets, sockets')
       /\ NetworkOK(network', sockets')
  <2>1. /\ cm.endpoints[ServerId].session_id \in Nat
        /\ \A key \in DOMAIN bound :
            /\ bound[key] \in DOMAIN sockets
            /\ sockets[bound[key]] = cm.endpoints[ServerId].session_id
    BY <1>1, <1>4, <1>8 DEF IInv, ClientOK
  <2> QED BY <1>3, <1>8, <1>9, <2>1, OpenAndGreetOK DEF IInv
<1>11. client' = cm /\ ClientInputOK(client', clientInput')
  BY <1>3, ClientBecomesOK DEF ClientBecomes, IInv
<1> QED BY <1>10, <1>11 DEF ClientStepOK

(* The reconnect branch, and a new process.                                 *)
LEMMA ReconnectOK ==
    ASSUME IInv, NEW opened \in SUBSET Configured, Reconnect(opened)
    PROVE  ClientStepOK
<1> DEFINE cm == CreateConnections(client, ServerId, Configured, NextSession, Opening(opened))
<1>1. ManagerOK(client) /\ Ids(client) = {} /\ NextSession \in Nat /\ opened # {}
  BY DEF IInv, ClientOK, Reconnect, HasEndpoints, Sessions
<1>2. ClientBecomes(cm) /\ OpenAndGreet(cm, <<>>)
  BY DEF Reconnect
<1> HIDE DEF cm
<1> QED BY <1>1, <1>2, CreateOK DEF cm

LEMMA RestartClientOK ==
    ASSUME IInv, RestartClient
    PROVE  ClientStepOK
<1> DEFINE cm == CreateConnections(NewManager, ServerId, Configured, NextSession,
                                   Opening(Configured))
<1>1. /\ ManagerOK(NewManager) /\ Ids(NewManager) = {} /\ NextSession \in Nat
      /\ Configured # {}
  BY NewManagerOK, ConfiguredAssumption DEF RestartClient, Sessions
<1>2. ClientBecomes(cm) /\ OpenAndGreet(cm, <<>>)
  BY DEF RestartClient
<1> HIDE DEF cm
<1> QED BY <1>1, <1>2, CreateOK DEF cm

LEMMA ClientReceivesHelloAckOK ==
    ASSUME IInv, NEW m, ClientReceivesHelloAck(m)
    PROVE  ClientStepOK
<1>1. PICK key \in DOMAIN bound : ClientBecomes(HandleHelloAck(client, ServerId, Routes, key))
  BY DEF ClientReceivesHelloAck
<1> DEFINE cm == HandleHelloAck(client, ServerId, Routes, key)
<1>2. ManagerOK(client) /\ ServerId \in Ids(client)
  BY DEF IInv, ClientOK, ClientKeys
<1>3. Routes \in Seq(Range(Routes))
  BY DEF Routes, Range
<1>4. Refreshed(client, cm, {})
  BY <1>2, <1>3, HandleHelloAckOK
<1> HIDE DEF cm
<1>5. ClientOK(cm, bound, sockets)
  BY <1>4, RefreshedClientOK DEF IInv
<1>6. /\ client' = cm /\ ClientInputOK(client', clientInput')
      /\ bound' = bound /\ sockets' = sockets /\ network' = network
  BY <1>1, ClientBecomesOK DEF ClientBecomes, IInv, ClientReceivesHelloAck, cm
<1> QED BY <1>5, <1>6, SocketsStay DEF ClientStepOK, IInv

(* The connection that timed out leaves, and nothing else.                  *)
LEMMA ClientTimeoutOK ==
    ASSUME IInv, NEW key \in ClientKeys(client), ClientTimeout(key)
    PROVE  ClientStepOK
<1> DEFINE e == client.endpoints[ServerId]
           f == WithoutConnections(e, {key})
           mid == WithEndpoint(client, ServerId, f)
           cm == RemoveConnection(client, ServerId, key)
<1>1. /\ ManagerOK(client) /\ Ids(client) = {ServerId} /\ EndpointOK(e)
      /\ Keys(e) = DOMAIN bound
  BY DEF IInv, ClientOK, ClientKeys, ManagerOK
<1>2. SameWithKeys(e, f, Keys(e) \ {key})
  BY <1>1, WithoutConnectionsOK
<1>3. cm = PurgeEmpty(mid)
  BY <1>1 DEF RemoveConnection
<1> HIDE DEF f, cm
<1>4. ManagerOK(mid) /\ Ids(mid) = Ids(client) \cup {ServerId} /\ mid.endpoints[ServerId] = f
  BY <1>1, <1>2, WithEndpointOK DEF SameWithKeys
<1> HIDE DEF mid
<1>5. /\ ManagerOK(cm)
      /\ Ids(cm) = {id \in Ids(mid) : HasConnections(mid.endpoints[id])}
      /\ \A id \in Ids(cm) : cm.endpoints[id] = mid.endpoints[id]
  BY <1>3, <1>4, PurgeEmptyOK DEF Shrunk
<1>6. /\ Ids(cm) \subseteq {ServerId} /\ ClientKeys(cm) = DOMAIN bound \ {key}
      /\ \A id \in Ids(cm) : cm.endpoints[id].session_id = e.session_id
  <2>1. Keys(f) = DOMAIN bound \ {key} /\ f.session_id = e.session_id
    BY <1>1, <1>2 DEF SameWithKeys
  <2> QED BY <1>1, <1>4, <1>5, <2>1 DEF ClientKeys, HasConnections
<1>7. /\ client' = cm /\ ClientInputOK(client', clientInput')
      /\ bound' = [k \in DOMAIN bound \ {key} |-> bound[k]]
      /\ sockets' = sockets /\ network' = network
  BY ClientBecomesOK DEF ClientBecomes, IInv, ClientTimeout, cm, Restrict
<1>8. ClientOK(cm, bound', sockets)
  <2>1. \A k \in DOMAIN bound' : ServerId \in Ids(cm)
    BY <1>6, <1>7 DEF ClientKeys
  <2> QED BY <1>1, <1>5, <1>6, <1>7, <2>1 DEF ClientOK, IInv
<1> QED BY <1>7, <1>8, SocketsStay DEF ClientStepOK, IInv

LEMMA ClientSendsOK ==
    ASSUME IInv, ClientSends
    PROVE  ClientStepOK
<1> DEFINE cm == HandlePacketFromTun(client, AnyAddress, [id \in {ServerId} |-> {}])
           e == client.endpoints[ServerId]
           from == [session |-> e.session_id, made |-> 0]
<1>1. ManagerOK(client)
  BY DEF IInv, ClientOK
<1>2. Refreshed(client, cm, {})
  BY <1>1, HandlePacketFromTunOK
<1>3. /\ ClientBecomes(cm) /\ e.tx_counter < MaxUp
      /\ network' = network \cup {Packet("Uplink", address, from, e.tx_counter) :
                                    address \in Range(bound)}
      /\ bound' = bound /\ sockets' = sockets
  BY DEF ClientSends
<1> HIDE DEF cm
<1>4. ClientOK(cm, bound, sockets)
  BY <1>2, RefreshedClientOK DEF IInv
<1>5. client' = cm /\ ClientInputOK(client', clientInput')
  BY <1>3, ClientBecomesOK DEF ClientBecomes, IInv
<1>6. ASSUME NEW address \in Range(bound)
      PROVE  DatagramOK(Packet("Uplink", address, from, e.tx_counter), sockets)
  <2>1. /\ address \in DOMAIN sockets /\ sockets[address] = e.session_id
        /\ ServerId \in Ids(client)
    BY DEF Range, IInv, ClientOK, ClientKeys
  <2>2. e.tx_counter \in Numbers
    <3>1. e.tx_counter \in Nat
      BY <1>1, <2>1 DEF ManagerOK, EndpointOK
    <3> QED BY <1>3, <3>1, NumbersTyped DEF Numbers
  <2> QED BY <2>1, <2>2 DEF DatagramOK, Packet
<1>7. NetworkOK(network', sockets)
  BY <1>3, <1>6 DEF NetworkOK, IInv
<1> QED BY <1>3, <1>4, <1>5, <1>7, SocketsStay DEF ClientStepOK, IInv

(* A packet on one of the client's paths is of the endpoint's session.      *)
LEMMA ClientReceivesPacketOK ==
    ASSUME IInv, NEW m \in Arrived("Downlink"), ClientReceivesPacket(m)
    PROVE  ClientStepOK
<1>1. m.type = "Downlink" /\ DatagramOK(m, sockets)
  BY DEF Arrived, IInv, NetworkOK
<1>2. /\ m.address \in Range(bound) /\ clientInput' = clientInput \cup {Input(m)}
      /\ client' = client /\ bound' = bound /\ sockets' = sockets /\ network' = network
  BY DEF ClientReceivesPacket
<1>3. sockets[m.address] = client.endpoints[ServerId].session_id
  BY <1>2 DEF IInv, ClientOK, Range
<1>4. Input(m).from.session = client.endpoints[ServerId].session_id
  BY <1>1, <1>3 DEF DatagramOK, Input
<1>5. ClientInputOK(client', clientInput')
  BY <1>2, <1>4 DEF ClientInputOK, IInv
<1> QED BY <1>2, <1>5, SocketsStay DEF ClientStepOK, IInv

LEMMA ClientDeadlineOK ==
    ASSUME IInv, ClientDeadline
    PROVE  ClientStepOK
BY SocketsStay DEF ClientDeadline, ClientStepOK, IInv

LEMMA ClientStepsOK ==
    ASSUME IInv, ClientStep
    PROVE  ClientStepOK /\ UNCHANGED serverVars
<1>1. UNCHANGED serverVars
  BY DEF ClientStep, SendKeepalive, Reconnect, RestartClient, ClientReceivesHelloAck,
         ClientTimeout, ClientSends, ClientReceivesPacket, ClientDeadline
<1>2. ClientStepOK
  BY SendKeepaliveOK, ReconnectOK, RestartClientOK, ClientReceivesHelloAckOK, ClientTimeoutOK,
     ClientSendsOK, ClientReceivesPacketOK, ClientDeadlineOK DEF ClientStep
<1> QED BY <1>1, <1>2

-----------------------------------------------------------------------------
(* The server.                                                              *)

(* What a step of the server establishes.                                   *)
ServerStepOK ==
    /\ ServerOK(server', sockets)
    /\ NetworkOK(network', sockets)
    /\ ServerInputOK(server', serverInput', serverSorter')
    /\ LateIsOvertaken(serverInput, serverInput', serverSorter)

(* A new session, and an endpoint that was gone, come with a new sorter.    *)
LEMMA ServerBecomesOK ==
    ASSUME NEW cm, ServerBecomes(cm), ServerInputOK(server, serverInput, serverSorter)
    PROVE  /\ server' = cm
           /\ ServerInputOK(server', serverInput', serverSorter')
           /\ LateIsOvertaken(serverInput, serverInput', serverSorter)
<1>1. CASE SameEndpoint(server, cm, ClientId)
  BY <1>1 DEF ServerBecomes, KeepSorter, SameEndpoint, ServerInputOK, LateIsOvertaken
<1>2. CASE ~SameEndpoint(server, cm, ClientId)
  <2>1. server' = cm /\ serverInput' = {} /\ serverSorter' = Sorter!New
    BY <1>2 DEF ServerBecomes, KeepSorter
  <2>2. {q.seq : q \in {}} = {}
    OBVIOUS
  <2>3. ServerInputOK(server', serverInput', serverSorter')
    BY <2>1, <2>2, NewSorter DEF ServerInputOK
  <2> QED BY <2>1, <2>3 DEF LateIsOvertaken
<1> QED BY <1>1, <1>2

(* HelloAcks say nothing of sessions.                                       *)
LEMMA AcknowledgedOK ==
    ASSUME NetworkOK(network, sockets), NEW cm
    PROVE  NetworkOK(Acknowledged(cm), sockets)
<1>1. \A address : DatagramOK(HelloAck(address), sockets)
  BY DEF DatagramOK, HelloAck
<1> QED BY <1>1 DEF NetworkOK, Acknowledged

(* The connection that a Hello adds leads to a socket of the Hello's        *)
(* session, which is then the endpoint's.                                   *)
LEMMA ServerReceivesHelloOK ==
    ASSUME IInv, NEW m \in Arrived("Hello"), ServerReceivesHello(m)
    PROVE  ServerStepOK
<1> DEFINE key == KeyOf(m.address)
           cm == HandleHello(server, ClientId, m.session, Routes, key, TRUE, {})
<1>1. ManagerOK(server) /\ Ids(server) \subseteq {ClientId}
  BY DEF IInv, ServerOK
<1>2. m.address \in DOMAIN sockets /\ sockets[m.address] = m.session
  BY DEF Arrived, IInv, NetworkOK, DatagramOK
<1>3. ServerBecomes(cm) /\ network' \in {network, Acknowledged(cm)}
  BY DEF ServerReceivesHello
<1>4. ServerOK(cm, sockets)
  <2>1. CASE Refused(server, ClientId, m.session)
    <3>1. cm = server
      BY <2>1 DEF HandleHello
    <3> QED BY <3>1 DEF IInv
  <2>2. CASE ~Refused(server, ClientId, m.session)
    <3> DEFINE e == server.endpoints[ClientId]
               f == cm.endpoints[ClientId]
    <3>1. Routes \in Seq(Range(Routes))
      BY DEF Routes, Range
    <3>2. Met(server, cm, ClientId, m.session, Routes, key, TRUE)
      BY <1>1, <2>2, <3>1, HandleHelloOK
    <3> HIDE DEF cm
    <3>3. ManagerOK(cm) /\ Ids(cm) = {ClientId} /\ f.session_id = m.session
      BY <1>1, <3>2 DEF Met
    <3>4. ASSUME NEW k \in Keys(f), k # key
          PROVE  k \in ServerKeys(server) /\ e.session_id = m.session
      BY <3>2, <3>4 DEF Met, Continues, ServerKeys
    <3>5. ASSUME NEW k \in Keys(f) PROVE k[2] \in DOMAIN sockets /\ sockets[k[2]] = m.session
      <4>1. CASE k = key
        BY <1>2, <4>1 DEF KeyOf
      <4>2. CASE k # key
        BY <3>4, <4>2 DEF IInv, ServerOK
      <4> QED BY <4>1, <4>2
    <3> QED BY <3>3, <3>5 DEF ServerOK, ServerKeys
  <2> QED BY <2>1, <2>2
<1> HIDE DEF cm
<1>5. NetworkOK(network', sockets)
  BY <1>3, AcknowledgedOK DEF IInv
<1> QED BY <1>3, <1>4, <1>5, ServerBecomesOK DEF ServerStepOK, IInv

(* Handlers that add no connection keep the session and the connections.    *)
LEMMA RefreshedServerOK ==
    ASSUME ServerOK(server, sockets), NEW cm, NEW new, Refreshed(server, cm, new),
           new \subseteq ServerKeys(server)
    PROVE  ServerOK(cm, sockets)
BY DEF ServerOK, Refreshed, Continues, ServerKeys

LEMMA ServerReceivesEstablishedHelloOK ==
    ASSUME IInv, NEW m, ServerReceivesEstablishedHello(m)
    PROVE  ServerStepOK
<1> DEFINE cm == HandleEstablishedHello(server, ClientId, KeyOf(m.address), {})
<1>1. Refreshed(server, cm, {KeyOf(m.address)})
  BY HandleEstablishedHelloOK DEF IInv, ServerOK
<1>2. /\ KeyOf(m.address) \in ServerKeys(server)
      /\ ServerBecomes(cm) /\ network' = Acknowledged(cm)
  BY DEF ServerReceivesEstablishedHello, Established
<1> HIDE DEF cm
<1>3. ServerOK(cm, sockets)
  BY <1>1, <1>2, RefreshedServerOK DEF IInv
<1>4. NetworkOK(network', sockets)
  BY <1>2, AcknowledgedOK DEF IInv
<1> QED BY <1>2, <1>3, <1>4, ServerBecomesOK DEF ServerStepOK, IInv

LEMMA ServerTimeoutOK ==
    ASSUME IInv, NEW address, ServerTimeout(address)
    PROVE  ServerStepOK
<1> DEFINE cm == RemoveConnection(server, ClientId, KeyOf(address))
<1>1. Shrunk(server, cm)
  BY RemoveConnectionOK DEF IInv, ServerOK
<1>2. ServerBecomes(cm) /\ network' = network
  BY DEF ServerTimeout
<1> HIDE DEF cm
<1>3. ServerOK(cm, sockets)
  BY <1>1 DEF Shrunk, ServerOK, ServerKeys, IInv
<1> QED BY <1>2, <1>3, ServerBecomesOK DEF ServerStepOK, IInv

LEMMA ServerSendsOK ==
    ASSUME IInv, ServerSends
    PROVE  ServerStepOK
<1> DEFINE cm == HandlePacketFromTun(server, AnyAddress, [id \in {ClientId} |-> {}])
           e == server.endpoints[ClientId]
           from == [session |-> e.session_id, made |-> made]
<1>1. Refreshed(server, cm, {})
  BY HandlePacketFromTunOK DEF IInv, ServerOK
<1>2. /\ ServerBecomes(cm)
      /\ network' = network \cup {Packet("Downlink", address, from, e.tx_counter) :
                                    address \in {a \in Addresses : Established(a)}}
  BY DEF ServerSends
<1> HIDE DEF cm
<1>3. ServerOK(cm, sockets)
  BY <1>1, RefreshedServerOK DEF IInv
<1>4. ASSUME NEW address \in Addresses, Established(address)
      PROVE  DatagramOK(Packet("Downlink", address, from, e.tx_counter), sockets)
  <2>1. KeyOf(address) \in ServerKeys(server) /\ KeyOf(address)[2] = address
    BY <1>4 DEF Established, KeyOf
  <2>2. address \in DOMAIN sockets /\ sockets[address] = e.session_id
    BY <2>1 DEF IInv, ServerOK
  <2> QED BY <2>2 DEF DatagramOK, Packet
<1>5. NetworkOK(network', sockets)
  BY <1>2, <1>4 DEF NetworkOK, IInv
<1> QED BY <1>2, <1>3, <1>5, ServerBecomesOK DEF ServerStepOK, IInv

(* The packet is of the endpoint's numbering, as are all the sorter was     *)
(* given; so what it is behind is a later packet of that numbering.         *)
LEMMA ServerReceivesPacketOK ==
    ASSUME IInv, NEW m \in Arrived("Uplink"), ServerReceivesPacket(m)
    PROVE  ServerStepOK
<1> DEFINE from == [session |-> server.endpoints[ClientId].session_id, made |-> 0]
           N == {q.seq : q \in serverInput}
           p == Input(m)
<1>1. KeyOf(m.address) \in ServerKeys(server) /\ KeyOf(m.address)[2] = m.address
  BY DEF ServerReceivesPacket, Established, KeyOf
<1>2. m.address \in DOMAIN sockets /\ sockets[m.address] = server.endpoints[ClientId].session_id
  BY <1>1 DEF IInv, ServerOK
<1>3. m.from = from /\ m.seq \in Numbers
  BY <1>2 DEF Arrived, IInv, NetworkOK, DatagramOK
<1>4. p = [from |-> from, seq |-> m.seq]
  BY <1>3 DEF Input
<1>5. /\ serverInput' = serverInput \cup {p}
      /\ serverSorter' = Sorter!InsertPacket(serverSorter, m.seq)
      /\ server' = server /\ network' = network
  BY DEF ServerReceivesPacket
<1>6. /\ \A q \in serverInput : q = [from |-> from, seq |-> q.seq] /\ q.seq \in Numbers
      /\ SorterFrom(serverSorter, N)
  BY DEF IInv, ServerInputOK
<1> HIDE DEF p, from
<1>7. ServerInputOK(server', serverInput', serverSorter')
  <2>1. N \in SUBSET Numbers
    BY <1>6
  <2>2. SorterFrom(serverSorter', N \cup {m.seq})
    BY <1>3, <1>5, <1>6, <2>1, InsertPacketFrom
  <2>3. p.seq = m.seq
    BY <1>4
  <2>4. {q.seq : q \in serverInput'} = N \cup {m.seq}
    BY <1>5, <2>3
  <2>5. \A q \in serverInput' : q = [from |-> from, seq |-> q.seq] /\ q.seq \in Numbers
    BY <1>3, <1>4, <1>5, <1>6, <2>3
  <2> QED BY <1>5, <2>2, <2>4, <2>5 DEF ServerInputOK, from
<1>8. LateIsOvertaken(serverInput, serverInput', serverSorter)
  <2> SUFFICES ASSUME p \notin serverInput, p.seq < serverSorter.next_seq
               PROVE  \E q \in serverInput : q.from = p.from /\ q.seq > p.seq
    BY <1>5 DEF LateIsOvertaken
  <2>1. p.seq = m.seq /\ p.from = from /\ m.seq \in Nat
    BY <1>3, <1>4, NumbersTyped
  <2>2. serverSorter.next_seq \in Nat /\ serverSorter.next_seq - 1 \in N
    BY <1>6, <2>1 DEF SorterFrom
  <2>3. PICK q \in serverInput : q.seq = serverSorter.next_seq - 1
    BY <2>2
  <2>4. q = [from |-> from, seq |-> q.seq] /\ q.from = from
    BY <1>6
  <2>5. q.seq # p.seq
    BY <1>4, <2>1, <2>4
  <2>6. q.seq \in Nat /\ q.seq > p.seq
    BY <2>1, <2>2, <2>3, <2>5
  <2> QED BY <2>1, <2>4, <2>6
<1> QED BY <1>5, <1>7, <1>8 DEF ServerStepOK, IInv

LEMMA ServerDeadlineOK ==
    ASSUME IInv, ServerDeadline
    PROVE  ServerStepOK
<1> DEFINE N == {q.seq : q \in serverInput}
<1>1. N \in SUBSET Numbers /\ SorterFrom(serverSorter, N)
  BY DEF IInv, ServerInputOK
<1>2. /\ serverSorter' = Sorter!AdvanceQueue([serverSorter EXCEPT !.deadline_timer = Sorter!Never])
      /\ serverInput' = serverInput /\ server' = server /\ network' = network
  BY DEF ServerDeadline
<1>3. SorterFrom(serverSorter', N)
  BY <1>1, <1>2, DeadlineFrom
<1>4. ServerInputOK(server', serverInput', serverSorter')
  BY <1>2, <1>3 DEF IInv, ServerInputOK
<1> QED BY <1>2, <1>4 DEF ServerStepOK, IInv, LateIsOvertaken

LEMMA RestartServerOK ==
    ASSUME IInv, RestartServer
    PROVE  ServerStepOK
<1>1. ServerBecomes(NewManager) /\ network' = network
  BY DEF RestartServer
<1>2. ServerOK(NewManager, sockets)
  BY NewManagerOK DEF ServerOK, ServerKeys
<1> QED BY <1>1, <1>2, ServerBecomesOK DEF ServerStepOK, IInv

LEMMA ServerStepsOK ==
    ASSUME IInv, ServerStep
    PROVE  ServerStepOK /\ UNCHANGED clientVars
<1>1. UNCHANGED clientVars
  BY DEF ServerStep, ServerReceivesHello, ServerReceivesEstablishedHello, ServerTimeout,
         ServerSends, ServerReceivesPacket, ServerDeadline, RestartServer
<1>2. ServerStepOK
  BY ServerReceivesHelloOK, ServerReceivesEstablishedHelloOK, ServerTimeoutOK, ServerSendsOK,
     ServerReceivesPacketOK, ServerDeadlineOK, RestartServerOK DEF ServerStep
<1> QED BY <1>1, <1>2

-----------------------------------------------------------------------------
(* The invariant holds, also when Hellos get lost.                          *)

LEMMA InitOK == Init => IInv
<1> SUFFICES ASSUME Init PROVE IInv
  OBVIOUS
<1> DEFINE n == Cardinality(Configured)
           opened == {k \in Configured : Opening(Configured)[k] = "ok"}
           reached == {k \in Configured : Opening(Configured)[k] # "socket_error"}
<1>1. n \in Nat
  BY ConfiguredAssumption, FS_CardinalityType
<1>2. Created(NewManager, client, ServerId, 1, reached, opened)
  BY NewManagerOK, CreateConnectionsOK DEF Init
<1>3. opened = Configured
  BY DEF Opening
<1> HIDE DEF opened, reached
<1>4. /\ ManagerOK(client) /\ Ids(client) = {ServerId}
      /\ client.endpoints[ServerId].session_id = 1
      /\ ClientKeys(client) = Configured
  BY <1>2, <1>3, NewManagerOK, ConfiguredAssumption DEF Created, ClientKeys
<1>5. /\ DOMAIN bound = Configured
      /\ \A key \in Configured : bound[key] \in 1 .. n
  BY DEF Init, Bijection, Injection
<1>6. /\ sockets \in Seq(Nat) /\ DOMAIN sockets = 1 .. n
      /\ \A a \in 1 .. n : sockets[a] = 1
  <2>1. sockets = [i \in 1 .. n |-> 1]
    BY DEF Init
  <2> HIDE DEF n
  <2>2. sockets \in [1 .. n -> Nat]
    BY <2>1
  <2> QED BY <1>1, <2>1, <2>2
<1> HIDE DEF n
<1>7. ClientOK(client, bound, sockets)
  BY <1>4, <1>5, <1>6 DEF ClientOK
<1>8. ServerOK(server, sockets)
  BY NewManagerOK DEF Init, ServerOK, ServerKeys
<1>9. NetworkOK(network, sockets)
  <2>1. ASSUME NEW address \in Range(bound) PROVE DatagramOK(Hello(address, 1), sockets)
    BY <1>5, <1>6 DEF Range, DatagramOK, Hello
  <2> QED BY <2>1 DEF Init, NetworkOK
<1>10. /\ ClientInputOK(client, clientInput)
       /\ ServerInputOK(server, serverInput, serverSorter)
  <2>1. {q.seq : q \in {}} = {}
    OBVIOUS
  <2> QED BY <2>1, NewSorter DEF Init, ClientInputOK, ServerInputOK
<1> QED BY <1>6, <1>7, <1>8, <1>9, <1>10 DEF IInv

(* Every step keeps the invariant, and gives the server's sorter no packet  *)
(* that is late without being overtaken.                                    *)
LEMMA StepOK ==
    ASSUME IInv, [LossyNext]_vars
    PROVE  IInv' /\ LateIsOvertaken(serverInput, serverInput', serverSorter)
<1>1. CASE ClientStep
  <2>1. ClientStepOK /\ UNCHANGED serverVars
    BY <1>1, ClientStepsOK
  <2>2. sockets' \in Seq(Nat) /\ ServerOK(server, sockets')
    BY <2>1, GrowsOK DEF ClientStepOK, IInv, Grows
  <2> QED BY <2>1, <2>2 DEF ClientStepOK, IInv, serverVars, LateIsOvertaken
<1>2. CASE ServerStep
  BY <1>2, ServerStepsOK DEF ServerStepOK, IInv, clientVars
<1>3. ASSUME NEW m \in Arrived("Hello"), Lose(m)
      PROVE  IInv' /\ LateIsOvertaken(serverInput, serverInput', serverSorter)
  BY <1>3 DEF Lose, IInv, NetworkOK, clientVars, serverVars, LateIsOvertaken
<1>4. CASE UNCHANGED vars
  BY <1>4 DEF vars, clientVars, serverVars, IInv, LateIsOvertaken
<1> QED BY <1>1, <1>2, <1>3, <1>4 DEF LossyNext, Next

LEMMA Invariance == LossySpec => []IInv
<1>1. IInv /\ [LossyNext]_vars => IInv'
  BY StepOK
<1> QED BY InitOK, <1>1, PTL DEF LossySpec

(* Datagrams that are never lost are only never received.                   *)
LEMMA SpecIsLossy == Spec => LossySpec
<1>1. [Next]_vars => [LossyNext]_vars
  BY DEF LossyNext
<1> QED BY <1>1, PTL DEF Spec, LossySpec

-----------------------------------------------------------------------------
(* The properties.                                                          *)

(* handle_established_message needs no sessions: whatever was delayed, lost *)
(* and restarted, each connection of the server's endpoint leads to a       *)
(* socket that the client opened in that endpoint's session.                *)
THEOREM ConnectionsAreOfOneSession == Spec => []ConnectionsOfOneSession
<1>1. IInv => ConnectionsOfOneSession
  <2> SUFFICES ASSUME IInv, NEW address \in Addresses, Established(address)
               PROVE  sockets[address] = server.endpoints[ClientId].session_id
    BY DEF ConnectionsOfOneSession
  <2>1. KeyOf(address) \in ServerKeys(server) /\ KeyOf(address)[2] = address
    BY DEF Established, KeyOf
  <2> QED BY <2>1 DEF IInv, ServerOK
<1> QED BY Invariance, SpecIsLossy, <1>1, PTL

(* insert_packet of the server's sorter discards a packet on its first      *)
(* arrival only when a later packet of the same session came before.        *)
THEOREM UplinkLossIsOvertaking == Spec => UplinkLateIsOvertaken
<1> DEFINE Step == LateIsOvertaken(serverInput, serverInput', serverSorter)
<1>1. IInv /\ [Next]_vars => [Step]_vars
  BY StepOK DEF LossyNext
<1> QED BY Invariance, SpecIsLossy, <1>1, PTL DEF Spec, UplinkLateIsOvertaken

(* The client's sorter is never given a packet of an earlier session.       *)
THEOREM DownlinkIsOfSession == Spec => []DownlinkOfSession
<1>1. IInv => DownlinkOfSession
  BY DEF IInv, ClientInputOK, DownlinkOfSession
<1> QED BY Invariance, SpecIsLossy, <1>1, PTL
==============================================================================
