-------------------------- MODULE TunnelOrder_proofs --------------------------
(***************************************************************************)
(* What the sorters of the tunnel release: packets of the endpoint's        *)
(* session, each once and in order.  Each sorter is that of a receive path  *)
(* nothing has been forwarded from, so what ReceivePath_proofs shows of its  *)
(* operators for one sequence of numbers holds of it, as long as a sorter   *)
(* is only ever given packets of one session.                               *)
(***************************************************************************)
EXTENDS Tunnel_proofs

(* ReceivePath_proofs for numbers of either node.  Only its lemmas about    *)
(* the operators of a sorter are used.                                      *)
Path == INSTANCE ReceivePath_proofs WITH
    MaxSeq <- MaxUp + MaxDown, sorter <- serverSorter, tun <- <<>>,
    arrived <- {q.seq : q \in serverInput}, panicked <- FALSE

LEMMA PathConstants ==
    /\ JumpLimit \in Nat /\ Capacity \in Nat \ {0} /\ Deadline \in Nat
    /\ MaxUp \in Nat /\ MaxDown \in Nat /\ MaxUp + MaxDown \in Nat
BY SorterAssumption, BoundsAssumption

-----------------------------------------------------------------------------
(* The operators of the two instances of PacketSorter are the same.         *)

LEMMA SameConstants == Path!Never = Sorter!Never /\ Path!New = Sorter!New
BY DEF Path!Never, Sorter!Never, Path!New, Sorter!New

LEMMA SameRestrict ==
    ASSUME NEW f, NEW S
    PROVE  Path!Restrict(f, S) = Sorter!Restrict(f, S)
BY DEF Path!Restrict, Sorter!Restrict

LEMMA SameMin ==
    ASSUME NEW S
    PROVE  Path!Min(S) = Sorter!Min(S) /\ Path!Max(S) = Sorter!Max(S)
BY DEF Path!Min, Sorter!Min, Path!Max, Sorter!Max

LEMMA SameKeys ==
    ASSUME NEW s
    PROVE  /\ Path!Held(s) = Sorter!Held(s)
           /\ Path!FirstKey(s.packet_queue) = Sorter!FirstKey(s.packet_queue)
           /\ Path!LastKey(s.packet_queue) = Sorter!LastKey(s.packet_queue)
BY SameMin DEF Path!Held, Sorter!Held, Path!FirstKey, Sorter!FirstKey, Path!LastKey, Sorter!LastKey

LEMMA SameGap ==
    ASSUME NEW Q, NEW n
    PROVE  Path!FirstGap(Q, n) = Sorter!FirstGap(Q, n)
BY DEF Path!FirstGap, Sorter!FirstGap

LEMMA SameRun ==
    ASSUME NEW a, NEW b
    PROVE  Path!Run(a, b) = Sorter!Run(a, b)
BY DEF Path!Run, Sorter!Run

LEMMA SameEnqueueSorted ==
    ASSUME NEW s
    PROVE  Path!EnqueueSorted(s) = Sorter!EnqueueSorted(s)
BY SameKeys, SameGap, SameRun, SameMin, SameRestrict, Zenon
   DEF Path!EnqueueSorted, Sorter!EnqueueSorted

LEMMA SameAdvanceQueue ==
    ASSUME NEW s
    PROVE  Path!AdvanceQueue(s) = Sorter!AdvanceQueue(s)
<1> DEFINE first == [s EXCEPT !.next_seq = Sorter!FirstKey(s.packet_queue)]
           t == Sorter!EnqueueSorted(first)
           Timer(held, key) == IF held = {} THEN Sorter!Never ELSE Deadline - t.packet_queue[key]
<1>1. /\ Path!Held(s) = Sorter!Held(s) /\ Path!Never = Sorter!Never
      /\ first = [s EXCEPT !.next_seq = Path!FirstKey(s.packet_queue)]
  BY SameKeys, SameConstants
<1> HIDE DEF first
<1>2. t = Path!EnqueueSorted(first)
  BY SameEnqueueSorted, Zenon
<1>3. Sorter!AdvanceQueue(s) =
        IF Sorter!Held(s) = {} THEN [s EXCEPT !.deadline_timer = Sorter!Never]
        ELSE [t EXCEPT !.deadline_timer = Timer(Sorter!Held(t), Sorter!FirstKey(t.packet_queue))]
  BY Zenon DEF Sorter!AdvanceQueue, first
<1>4. Path!AdvanceQueue(s) =
        IF Sorter!Held(s) = {} THEN [s EXCEPT !.deadline_timer = Sorter!Never]
        ELSE [t EXCEPT !.deadline_timer = Timer(Path!Held(t), Path!FirstKey(t.packet_queue))]
  BY <1>1, <1>2, Zenon DEF Path!AdvanceQueue
<1> HIDE DEF t, Timer
<1>5. /\ Path!Held(t) = Sorter!Held(t)
      /\ Path!FirstKey(t.packet_queue) = Sorter!FirstKey(t.packet_queue)
  BY SameKeys
<1> QED BY <1>3, <1>4, <1>5

LEMMA SameInsertPacket ==
    ASSUME NEW s, NEW seq
    PROVE  Path!InsertPacket(s, seq) = Sorter!InsertPacket(s, seq)
<1>1. Path!IsJump(s, seq) = Sorter!IsJump(s, seq)
  BY SameKeys DEF Path!IsJump, Sorter!IsJump
<1>2. Path!Queue(s, seq) = Sorter!Queue(s, seq)
  BY SameKeys DEF Path!Queue, Sorter!Queue
<1>3. \A e : Path!ArmTimer(e) = Sorter!ArmTimer(e)
  BY SameConstants, Zenon DEF Path!ArmTimer, Sorter!ArmTimer
<1> QED BY <1>1, <1>2, <1>3, SameEnqueueSorted, SameAdvanceQueue
        DEF Path!InsertPacket, Sorter!InsertPacket

-----------------------------------------------------------------------------
(* A sorter and the packets it was given, all of which were sent.           *)

SortsSent(sorter, input, type, datagrams) ==
    /\ \A q \in input : \E m \in datagrams : m.type = type /\ Input(m) = q
    /\ {q.seq : q \in input} \in SUBSET Path!Packets
    /\ Path!Settled(sorter, <<>>, {q.seq : q \in input})

(* Endpoint::new *)
LEMMA NewSorts ==
    ASSUME NEW type, NEW datagrams
    PROVE  SortsSent(Sorter!New, {}, type, datagrams)
<1>1. Path!Settled(Path!New, <<>>, {})
  BY PathConstants, Path!NewSettled
<1>2. {q.seq : q \in {}} = {}
  OBVIOUS
<1> QED BY <1>1, <1>2, SameConstants DEF SortsSent

(* insert_packet *)
LEMMA InsertSorts ==
    ASSUME NEW sorter, NEW input, NEW type, NEW datagrams,
           SortsSent(sorter, input, type, datagrams),
           NEW m \in datagrams, m.type = type, m.seq \in Path!Packets
    PROVE  SortsSent(Sorter!InsertPacket(sorter, m.seq), input \cup {Input(m)}, type, datagrams)
<1> DEFINE A == {q.seq : q \in input}
<1>1. A \in SUBSET Path!Packets /\ Path!Settled(sorter, <<>>, A)
  BY DEF SortsSent
<1>2. Input(m).seq = m.seq
  BY DEF Input
<1>3. {q.seq : q \in input \cup {Input(m)}} = A \cup {m.seq}
  BY <1>2
<1> HIDE DEF A
<1>4. <<>> \in Seq(Path!Packets)
  OBVIOUS
<1>5. Path!Settled(Path!InsertPacket(sorter, m.seq), <<>>, A \cup {m.seq})
  BY <1>1, <1>4, PathConstants, Path!InsertPacketSettled
<1>6. Path!Settled(Sorter!InsertPacket(sorter, m.seq), <<>>, A \cup {m.seq})
  BY <1>5, SameInsertPacket
<1>7. A \cup {m.seq} \in SUBSET Path!Packets
  BY <1>1
<1>8. \A q \in input \cup {Input(m)} : \E d \in datagrams : d.type = type /\ Input(d) = q
  BY DEF SortsSent
<1> QED BY <1>3, <1>6, <1>7, <1>8 DEF SortsSent

(* await_deadline *)
LEMMA DeadlineSorts ==
    ASSUME NEW sorter, NEW input, NEW type, NEW datagrams,
           SortsSent(sorter, input, type, datagrams)
    PROVE  SortsSent(Sorter!AdvanceQueue([sorter EXCEPT !.deadline_timer = Sorter!Never]),
                     input, type, datagrams)
<1> DEFINE A == {q.seq : q \in input}
<1>1. A \in SUBSET Path!Packets /\ Path!Settled(sorter, <<>>, A)
  BY DEF SortsSent
<1>2. <<>> \in Seq(Path!Packets)
  OBVIOUS
<1> HIDE DEF A
<1>3. Path!Settled(Path!AdvanceQueue([sorter EXCEPT !.deadline_timer = Path!Never]), <<>>, A)
  BY <1>1, <1>2, PathConstants, Path!DeadlineSettled
<1>4. Path!Settled(Sorter!AdvanceQueue([sorter EXCEPT !.deadline_timer = Sorter!Never]), <<>>, A)
  BY <1>3, SameConstants, SameAdvanceQueue
<1> QED BY <1>4 DEF SortsSent, A

(* Nothing of the type it reads is lost. *)
LEMMA MoreSent ==
    ASSUME NEW sorter, NEW input, NEW type, NEW before, NEW after,
           SortsSent(sorter, input, type, before),
           {m \in before : m.type = type} \subseteq after
    PROVE  SortsSent(sorter, input, type, after)
BY DEF SortsSent

(* What it has released is in order, and was sent in the session of all it  *)
(* was given.                                                               *)
LEMMA SortedInOrder ==
    ASSUME NEW sorter, NEW input, NEW type, SortsSent(sorter, input, type, network),
           NEW session, \A q \in input : q.from.session = session
    PROVE  InOrderOfSession(sorter.sorted, type, session)
<1> DEFINE A == {q.seq : q \in input}
           released == sorter.sorted
<1>1. /\ released \in Seq(A) /\ Path!Increasing(<<>> \o released)
  BY DEF SortsSent, Path!Settled, Path!Sound, Path!InOrderAfter
<1>2. <<>> \o released = released
  BY <1>1
<1>3. \A i, j \in 1 .. Len(released) : i < j => released[i] < released[j]
  BY <1>1, <1>2 DEF Path!Increasing
<1>4. ASSUME NEW i \in 1 .. Len(released)
      PROVE  \E m \in Arrived(type) : m.from.session = session /\ m.seq = released[i]
  <2>1. released[i] \in A
    BY <1>1
  <2>2. PICK q \in input : q.seq = released[i]
    BY <2>1
  <2>3. PICK m \in network : m.type = type /\ Input(m) = q
    BY DEF SortsSent
  <2>4. q.from = m.from /\ q.seq = m.seq
    BY <2>3 DEF Input
  <2> QED BY <2>2, <2>3, <2>4 DEF Arrived
<1> QED BY <1>3, <1>4 DEF InOrderOfSession

-----------------------------------------------------------------------------
(* The invariant: besides that of Tunnel_proofs, which says of which        *)
(* session the packets are, both sorters sort packets that were sent.       *)

DownlinkNumbers(datagrams) ==
    \A m \in datagrams : m.type = "Downlink" => m.seq \in 0 .. MaxDown

OInv ==
    /\ IInv
    /\ DownlinkNumbers(network)
    /\ SortsSent(clientSorter, clientInput, "Downlink", network)
    /\ SortsSent(serverSorter, serverInput, "Uplink", network)

(* All numbers under way are those of a receive path.                       *)
LEMMA SentNumbers ==
    ASSUME OInv, NEW m \in network, m.type \in {"Uplink", "Downlink"}
    PROVE  m.seq \in Path!Packets
<1>1. /\ m.type = "Uplink" => m.seq \in 0 .. MaxUp
      /\ m.type = "Downlink" => m.seq \in 0 .. MaxDown
  BY DEF OInv, IInv, NetworkOK, DatagramOK, DownlinkNumbers, Numbers
<1> QED BY <1>1, PathConstants DEF Path!Packets

(* Datagrams of the given types are added to the network.                   *)
Sends(types) == network \subseteq network' /\ \A m \in network' \ network : m.type \in types

LEMMA GreetingSends ==
    ASSUME NEW cm, NEW kept, OpenAndGreet(cm, kept)
    PROVE  Sends({"Hello", "Uplink"})
<1>1. \A address, session : Hello(address, session).type = "Hello"
  BY DEF Hello
<1> QED BY <1>1 DEF OpenAndGreet, Sends

(* A sorter is kept with what it was given, or both are new.                *)
LEMMA ClientBecomesSorts ==
    ASSUME OInv, NEW cm, ClientBecomes(cm)
    PROVE  SortsSent(clientSorter', clientInput', "Downlink", network)
<1>1. \/ clientSorter' = clientSorter /\ clientInput' = clientInput
      \/ clientSorter' = Sorter!New /\ clientInput' = {}
  BY DEF ClientBecomes, KeepSorter
<1> QED BY <1>1, NewSorts DEF OInv

LEMMA ServerBecomesSorts ==
    ASSUME OInv, NEW cm, ServerBecomes(cm)
    PROVE  SortsSent(serverSorter', serverInput', "Uplink", network)
<1>1. \/ serverSorter' = serverSorter /\ serverInput' = serverInput
      \/ serverSorter' = Sorter!New /\ serverInput' = {}
  BY DEF ServerBecomes, KeepSorter
<1> QED BY <1>1, NewSorts DEF OInv

-----------------------------------------------------------------------------
(* The steps.                                                               *)

LEMMA ClientStepSorts ==
    ASSUME OInv, ClientStep
    PROVE  /\ SortsSent(clientSorter', clientInput', "Downlink", network)
           /\ Sends({"Hello", "Uplink"})
<1> DEFINE Goal == /\ SortsSent(clientSorter', clientInput', "Downlink", network)
                   /\ Sends({"Hello", "Uplink"})
<1>0. ASSUME UNCHANGED network PROVE Sends({"Hello", "Uplink"})
  BY <1>0 DEF Sends
<1>1. ASSUME NEW opened, SendKeepalive(opened) \/ Reconnect(opened) PROVE Goal
  <2>1. PICK cm, kept : ClientBecomes(cm) /\ OpenAndGreet(cm, kept)
    BY <1>1, Zenon DEF SendKeepalive, Reconnect
  <2> QED BY <2>1, GreetingSends, ClientBecomesSorts
<1>2. ASSUME RestartClient PROVE Goal
  <2>1. PICK cm, kept : ClientBecomes(cm) /\ OpenAndGreet(cm, kept)
    BY <1>2, Zenon DEF RestartClient
  <2> QED BY <2>1, GreetingSends, ClientBecomesSorts
<1>3. ASSUME NEW m, ClientReceivesHelloAck(m) PROVE Goal
  <2>1. PICK cm : ClientBecomes(cm)
    BY <1>3 DEF ClientReceivesHelloAck
  <2> QED BY <1>0, <1>3, <2>1, ClientBecomesSorts DEF ClientReceivesHelloAck
<1>4. ASSUME NEW key, ClientTimeout(key) PROVE Goal
  <2>1. PICK cm : ClientBecomes(cm)
    BY <1>4 DEF ClientTimeout
  <2> QED BY <1>0, <1>4, <2>1, ClientBecomesSorts DEF ClientTimeout
<1>5. ASSUME ClientSends PROVE Goal
  <2>1. PICK cm : ClientBecomes(cm)
    BY <1>5 DEF ClientSends
  <2>2. \A address, from, seq : Packet("Uplink", address, from, seq).type = "Uplink"
    BY DEF Packet
  <2>3. Sends({"Hello", "Uplink"})
    BY <1>5, <2>2 DEF ClientSends, Sends
  <2> QED BY <2>1, <2>3, ClientBecomesSorts
<1>6. ASSUME NEW m \in Arrived("Downlink"), ClientReceivesPacket(m) PROVE Goal
  <2>1. m \in network /\ m.type = "Downlink" /\ m.seq \in Path!Packets
    BY SentNumbers DEF Arrived
  <2>2. SortsSent(Sorter!InsertPacket(clientSorter, m.seq), clientInput \cup {Input(m)},
                  "Downlink", network)
    BY <2>1, InsertSorts DEF OInv
  <2> QED BY <1>0, <1>6, <2>2 DEF ClientReceivesPacket
<1>7. ASSUME ClientDeadline PROVE Goal
  BY <1>0, <1>7, DeadlineSorts DEF ClientDeadline, OInv
<1> QED BY <1>1, <1>2, <1>3, <1>4, <1>5, <1>6, <1>7 DEF ClientStep

(* The server numbers its packets up to its bound. *)
LEMMA ServerSendsNumbers ==
    ASSUME OInv, ServerSends
    PROVE  Sends({"HelloAck", "Downlink"}) /\ DownlinkNumbers(network')
<1> DEFINE e == server.endpoints[ClientId]
           from == [session |-> e.session_id, made |-> made]
<1>1. /\ e.tx_counter < MaxDown
      /\ network' = network \cup {Packet("Downlink", address, from, e.tx_counter) :
                                    address \in {a \in Addresses : Established(a)}}
  BY DEF ServerSends
<1>2. \A address : /\ Packet("Downlink", address, from, e.tx_counter).type = "Downlink"
                   /\ Packet("Downlink", address, from, e.tx_counter).seq = e.tx_counter
  BY DEF Packet
<1>3. ASSUME NEW a, Established(a) PROVE e.tx_counter \in Nat
  <2>1. ClientId \in Ids(server)
    BY <1>3 DEF Established, ServerKeys
  <2> QED BY <2>1 DEF OInv, IInv, ServerOK, ManagerOK, EndpointOK
<1>4. ASSUME NEW a, Established(a) PROVE e.tx_counter \in 0 .. MaxDown
  BY <1>1, <1>3, <1>4, PathConstants
<1> HIDE DEF e, from
<1>5. Sends({"HelloAck", "Downlink"})
  BY <1>1, <1>2 DEF Sends
<1>6. DownlinkNumbers(network')
  BY <1>1, <1>2, <1>4 DEF DownlinkNumbers, OInv
<1> QED BY <1>5, <1>6

LEMMA ServerStepSorts ==
    ASSUME OInv, ServerStep
    PROVE  /\ SortsSent(serverSorter', serverInput', "Uplink", network)
           /\ Sends({"HelloAck", "Downlink"})
           /\ DownlinkNumbers(network')
<1> DEFINE Goal == /\ SortsSent(serverSorter', serverInput', "Uplink", network)
                   /\ Sends({"HelloAck", "Downlink"})
                   /\ DownlinkNumbers(network')
<1>0. ASSUME NEW cm, network' \in {network, Acknowledged(cm)}
      PROVE  Sends({"HelloAck", "Downlink"}) /\ DownlinkNumbers(network')
  <2>1. \A address : HelloAck(address).type = "HelloAck"
    BY DEF HelloAck
  <2>2. Sends({"HelloAck"})
    BY <1>0, <2>1 DEF Sends, Acknowledged
  <2> QED BY <2>2 DEF Sends, DownlinkNumbers, OInv
<1>1. ASSUME NEW m, ServerReceivesHello(m) \/ ServerReceivesEstablishedHello(m) PROVE Goal
  <2>1. PICK cm : ServerBecomes(cm) /\ network' \in {network, Acknowledged(cm)}
    BY <1>1 DEF ServerReceivesHello, ServerReceivesEstablishedHello
  <2> QED BY <1>0, <2>1, ServerBecomesSorts
<1>2. ASSUME NEW address, ServerTimeout(address) PROVE Goal
  <2>1. PICK cm : ServerBecomes(cm) /\ network' \in {network, Acknowledged(cm)}
    BY <1>2 DEF ServerTimeout
  <2> QED BY <1>0, <2>1, ServerBecomesSorts
<1>3. ASSUME ServerSends PROVE Goal
  <2>1. PICK cm : ServerBecomes(cm)
    BY <1>3 DEF ServerSends
  <2> QED BY <1>3, <2>1, ServerSendsNumbers, ServerBecomesSorts
<1>4. ASSUME NEW m \in Arrived("Uplink"), ServerReceivesPacket(m) PROVE Goal
  <2>1. m \in network /\ m.type = "Uplink" /\ m.seq \in Path!Packets
    BY SentNumbers DEF Arrived
  <2>2. SortsSent(Sorter!InsertPacket(serverSorter, m.seq), serverInput \cup {Input(m)},
                  "Uplink", network)
    BY <2>1, InsertSorts DEF OInv
  <2> QED BY <1>0, <1>4, <2>2 DEF ServerReceivesPacket
<1>5. ASSUME ServerDeadline PROVE Goal
  BY <1>0, <1>5, DeadlineSorts DEF ServerDeadline, OInv
<1>6. ASSUME RestartServer PROVE Goal
  <2>1. PICK cm : ServerBecomes(cm) /\ network' \in {network, Acknowledged(cm)}
    BY <1>6 DEF RestartServer
  <2> QED BY <1>0, <2>1, ServerBecomesSorts
<1> QED BY <1>1, <1>2, <1>3, <1>4, <1>5, <1>6 DEF ServerStep

LEMMA OrderInit == Init => OInv
<1> SUFFICES ASSUME Init PROVE OInv
  OBVIOUS
<1>1. IInv
  BY InitOK
<1>2. /\ clientSorter = Sorter!New /\ serverSorter = Sorter!New
      /\ clientInput = {} /\ serverInput = {}
      /\ network = {Hello(address, 1) : address \in Range(bound)}
  BY DEF Init
<1>3. DownlinkNumbers(network)
  BY <1>2 DEF DownlinkNumbers, Hello
<1> QED BY <1>1, <1>2, <1>3, NewSorts DEF OInv

LEMMA OrderStep ==
    ASSUME OInv, [LossyNext]_vars
    PROVE  OInv'
<1>1. IInv'
  BY StepOK DEF OInv
<1>2. CASE ClientStep
  <2>1. /\ SortsSent(clientSorter', clientInput', "Downlink", network)
        /\ Sends({"Hello", "Uplink"})
        /\ serverSorter' = serverSorter /\ serverInput' = serverInput
    BY <1>2, ClientStepSorts, ClientStepsOK DEF OInv, serverVars
  <2>2. DownlinkNumbers(network')
    BY <2>1 DEF OInv, DownlinkNumbers, Sends
  <2>3. \A type : {m \in network : m.type = type} \subseteq network'
    BY <2>1 DEF Sends
  <2> QED BY <1>1, <2>1, <2>2, <2>3, MoreSent DEF OInv
<1>3. CASE ServerStep
  <2>1. /\ SortsSent(serverSorter', serverInput', "Uplink", network)
        /\ Sends({"HelloAck", "Downlink"}) /\ DownlinkNumbers(network')
        /\ clientSorter' = clientSorter /\ clientInput' = clientInput
    BY <1>3, ServerStepSorts, ServerStepsOK DEF OInv, clientVars
  <2>2. \A type : {m \in network : m.type = type} \subseteq network'
    BY <2>1 DEF Sends
  <2> QED BY <1>1, <2>1, <2>2, MoreSent DEF OInv
<1>4. ASSUME NEW m \in Arrived("Hello"), Lose(m) PROVE OInv'
  <2>1. /\ network' = network \ {m} /\ m.type = "Hello"
        /\ clientSorter' = clientSorter /\ clientInput' = clientInput
        /\ serverSorter' = serverSorter /\ serverInput' = serverInput
    BY <1>4 DEF Lose, Arrived, clientVars, serverVars
  <2>2. /\ {d \in network : d.type = "Uplink"} \subseteq network'
        /\ {d \in network : d.type = "Downlink"} \subseteq network'
    BY <2>1
  <2>3. DownlinkNumbers(network')
    BY <2>1 DEF OInv, DownlinkNumbers
  <2> QED BY <1>1, <2>1, <2>2, <2>3, MoreSent DEF OInv
<1>5. CASE UNCHANGED vars
  BY <1>1, <1>5 DEF vars, clientVars, serverVars, OInv
<1> QED BY <1>2, <1>3, <1>4, <1>5 DEF LossyNext, Next

LEMMA OrderInvariance == LossySpec => []OInv
<1>1. OInv /\ [LossyNext]_vars => OInv'
  BY OrderStep
<1> QED BY OrderInit, <1>1, PTL DEF LossySpec

-----------------------------------------------------------------------------
(* The properties.                                                          *)

(* Whatever restarts, time-outs and delayed Hellos came before, the         *)
(* server's TUN device gets from an endpoint only what the client sent in   *)
(* the session of that endpoint, each number once and in order.             *)
THEOREM UplinkReleasedInOrder == Spec => []UplinkInOrder
<1>1. OInv => UplinkInOrder
  <2> SUFFICES ASSUME OInv PROVE UplinkInOrder
    OBVIOUS
  <2>1. \A q \in serverInput : q.from.session = server.endpoints[ClientId].session_id
    BY DEF OInv, IInv, ServerInputOK
  <2> QED BY <2>1, SortedInOrder DEF OInv, UplinkInOrder
<1> QED BY OrderInvariance, SpecIsLossy, <1>1, PTL

(* The same of the client's, also when the server forgets the endpoint and  *)
(* numbers from 0 again.                                                    *)
THEOREM DownlinkReleasedInOrder == Spec => []DownlinkInOrder
<1>1. OInv => DownlinkInOrder
  <2> SUFFICES ASSUME OInv PROVE DownlinkInOrder
    OBVIOUS
  <2>1. \A q \in clientInput : q.from.session = client.endpoints[ServerId].session_id
    BY DEF OInv, IInv, ClientInputOK
  <2> QED BY <2>1, SortedInOrder DEF OInv, DownlinkInOrder
<1> QED BY OrderInvariance, SpecIsLossy, <1>1, PTL
==============================================================================
