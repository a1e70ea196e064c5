# Verification of multi-connect

multi-connect is a VPN that sends every packet over several network interfaces
at once.  A client and a server each run one single-threaded event loop; a
packet read from the TUN device is numbered and written to every connection of
the endpoint it is routed to, and the receiver sorts what arrives, drops the
copies and writes the packets to its own TUN device.  This directory holds TLA+
modules of that code, TLC configurations that check them, and proofs that TLAPS
checks.

    tlc -config ReceivePath.cfg MCReceivePath      # and so on, see "Runs"
    tlapm ReceivePath_proofs.tla                   # and so on, see "Proofs"

## Inventory

All paths are below `src/crates`.  Both programs are single-threaded: an
iteration of a loop awaits one event among several futures (`race`), handles it
to the end, and removes Disconnected connections.  Components interact by
calls only; nodes interact by UDP datagrams, which are lost, repeated and
reordered.

| component | source | state | operations | what makes it correct |
|---|---|---|---|---|
| packet sorter | `common/src/packet_sorter.rs` | queue by sequence number, `next_seq`, deadline timer, bounded channel of released packets | `insert_packet`, `advance_queue`, `enqueue_sorted_packets`, awaiting the timer and the channel | releases in order and once; holds nothing it could release; what it holds has a timer and leaves; skips and drops only with a cause |
| router | `common/src/router.rs` | list of (route, endpoint) | `insert_route`, `lookup`, `remove_route_to_endpoint` | no mapping twice, default routes last |
| endpoint, connection | `common/src/endpoint.rs`, `connection.rs` | session, connections with state, time-out and enabled flag, counters, sorter, path latencies | `add_connection`, `acknowledge`, enabling and disabling, awaiting | Disconnected is final |
| connection manager | `common/src/connection_manager.rs` | endpoints, session history, routes | handlers of Hello, HelloAck, packets, TUN packets, time-outs; clean-up; keepalive; reopening | routes exactly of the endpoints there are; old sessions stay out; something to await whenever there are endpoints |
| server loop | `server/src/main.rs` | none of its own | eight events; waits for a Hello without endpoints | no route without its endpoint and nothing empty awaited while its sockets can be set up; every Disconnected connection leaves |
| client loop | `client/src/main.rs` | keepalive timer | seven events; reconnects without endpoints | lost connections are reopened; no route without its endpoint and nothing empty awaited while its Hellos can be sent |
| path latency | `common/src/path_latency.rs` | time stamps of up to 100 sequence numbers | insertion with eviction, estimate | bounded; the newest numbers are recorded with every arrival; the estimate panics only after the clock was set back |
| messages, settings, loggers, sockets | other files of `common/src` | none that others read | encoding, parsing, files, system calls | left out: data formats and input/output |

Hard behaviours: packets in any order with copies and gaps, timers that run
while the queue changes, a channel that fills up, Hellos of an earlier session
that arrive late, connections that fail in the middle of a handler, clean-up at
the end of some iterations only, endpoints that lose their last connection,
waiting on an empty list of futures, which panics, unwrapped calls that fail,
which end the process, and two nodes that restart,
or forget each other, while packets of an earlier numbering are under way.  `PROJECT.json` lists them
as hazards, each at its line.

## Modules

**PacketSorter** holds the sorter as operators on a record with the fields of
the struct: `InsertPacket`, `EnqueueSorted`, `AdvanceQueue`, `ArmTimer`, `Tick`.
A packet is its sequence number.  `packet_queue` maps a held number to the
packet's age; time is counted in units, and an age is kept up to `Deadline`, as
only `>= deadline` is asked of it.  `deadline_timer` is the time left, 0 when it
has expired and nobody awaited it, and `Never` for `Timer::never()` or a timer
that was awaited.  `get_next_packet` runs until it returns `None`, so one
operator moves `next_seq` to the first gap at once.

**ReceivePath** is the receiving side of one endpoint: `ReceivePacket` inserts
any sequence number at any time (loss, repetition and reordering need no
network), `HandleDeadline` consumes the expired timer and advances,
`ForwardSorted` gives the oldest released packet to the TUN device,
`ForwardPanics` is the end of the process when the device refuses that packet
(the write is unwrapped, `server/src/main.rs:197` and `client/src/main.rs:214`,
and a payload that is no IP packet is enough), `PassTime` lets a unit pass, also
while an expired timer waits for the loop.
**OrderedDelivery** is the promise it implements: deliver only what arrived, in
increasing order; its variable `delivered` is `tun`.

**Router** and **ConnectionManager** hold the routing table and the manager as
operators, one per handler.  An address is the set of its 1 bits, so `&` is
intersection.  A connection is keyed by interface name and peer address and has
`state` and `enabled`.  Results of system calls are parameters.  Their
correctness is checked where they run:

- **ServerLoop**: one action per event.  Clients send Hellos from any address
  with any session they ever drew, so delayed Hellos of an old session and
  restarts are in it.  Every write may fail, and setting up a socket may fail.
  `faulted` and `used` are history.
  The routes a client announces belong to its session: a client that was
  configured anew announces others.
- **ClientLoop**: one endpoint, the server.  `SendKeepalive` greets, reopens
  and then cleans up, in the order of the code; `Reconnect` is the branch
  without endpoints; start-up is in `Init`.  `MakeSocketPanics` is the two panics
  of `make_socket` (`common/src/lib.rs:57` and `:65`); `sendFailed` is history.

In both loops `panic` is what ended the process, if anything did.  The manager's
own state decides two causes (`StatePanics`): a packet whose route has no
endpoint (`"route"`) and waiting for endpoints none of which has a connection
(`"select_all"`).  The others (`CallPanics`) are calls whose result is unwrapped,
and may fail whenever they are made: setting up a socket (`"socket"`), reading one
(`"recv"`), writing a sorted packet to the TUN device (`"tun"`), writing or
flushing a log (`"log"`), and the time between two copies of one Hello or
HelloAck after the clock was set back (`"clock"`).  So a peer can end either
process with a payload that is no IP packet.  The properties about panics are
about `StatePanics` only, and the liveness properties except a process that
ended.  Unwraps that cannot fail are left out: serialisation, the address of a
socket just connected, the endpoint looked up in the line before.

`Busy` is the branch with endpoints, whether or not they have connections: the
futures are polled in random order, and the client's keepalive before all
others, so a ready event may be handled before `select_all` is reached
(`AwaitPanics`).

Sequence: greeting creates a session at the client, a Hello creates the
endpoint at the server, the HelloAck carries the server's routes back, and from
then on packets go to the sorters of ReceivePath.

**Tunnel** composes them: a client and the server, each with its manager
(`client`, `server`, operators of ConnectionManager) and the sorter of the
endpoint it has for the other (`Sorter == INSTANCE PacketSorter`), over a
network.  `network` is the set of datagrams ever sent; any of them may be
received at any time, again and again or never, which is delay, reordering,
repetition and loss.  Either process may end and start again at any time, and
any connection may time out.

- The n-th socket the client opens has address n (`bound` maps connections to
  addresses, `sockets` addresses to the session they were opened in).  That the
  operating system does not hand out an ephemeral port twice while datagrams to
  or from it are under way is an assumption.
- Sessions are 1, 2, ...; the code draws 64 random bits.
- `KeepSorter` is the only place where sorters come and go: `Endpoint::new`
  makes one, so an endpoint that is overwritten, or forgotten and greeted
  again, starts over with an empty sorter and `tx_counter` 0.
- A packet carries its number and, as history, the numbering it belongs to
  (`from`): the session, and for the server's packets how many endpoints it had
  made for the client.  `clientInput` and `serverInput` are the packets given to
  the sorters.
- What the other modules check is left out: writes and other calls that fail
  (ServerLoop, ClientLoop; a process that panics and is started again is a
  restart, which may come at any time), the way from the sorter to the TUN device (ReceivePath).  Binding,
  connecting and greeting a socket are one step.  With `Deadline` 0 a sorter's
  timer may fire whenever it runs.
- `AtServer == INSTANCE ServerLoop` and `AtClient == INSTANCE ClientLoop` look at
  one node alone: `ServerIsLoop` and `ClientIsLoop` say that it does iterations
  of its event loop, or starts anew, or stands still.  So Tunnel may do without
  the clean-up at the end of an iteration: as no write fails, it finds no
  Disconnected connection.
- The sorters' released packets are never taken from them, so `UplinkInOrder` and
  `DownlinkInOrder`, which are about these, say what the TUN device gets in the
  life of an endpoint, up to the capacity of the channel.

**PathLatency** is the map of time stamps: `Receive` inserts an arrival as the
code does (evict the least number of a full map, then record) and computes the
estimate, `ChangeClock` moves the system clock either way.  `arrivals` is
history: what an unbounded map would hold.

**MCReceivePath, MCServerLoop, MCClientLoop, MCTunnel** give constants their values and
state what comments and messages of the code say, where the code does something
else.  An operator whose name is that of another with a mistake appended
(`InsertPacketNoDrain`, `RemoveRoutesKeeps`) is that operator with a plausible
bug; no specification uses it, and with it in place of the correct one a
property fails.

## Runs

| run | module, cfg | shows |
|---|---|---|
| receive_path | MCReceivePath, ReceivePath.cfg | the sorter's invariants, `SkipHasCause`, `LossOnlyWhenFull`, and that ReceivePath implements OrderedDelivery |
| receive_path_live | ReceivePathLive.cfg | with room in the channel, every held packet reaches the TUN device |
| jump_clears | JumpClears.cfg | *violated*: a jump does not clear the queue |
| gap_waits | GapWaits.cfg | *violated*: a timer that already runs gives up a gap early |
| server_loop | MCServerLoop, ServerLoop.cfg | routes match endpoints, default routes last, no return to an old session, Disconnected final and removed, no packet for a route without endpoint, empty endpoints awaited only after a socket could not be set up |
| empty_endpoint | EmptyEndpoint.cfg | *violated*: endpoints without any connection to await |
| client_loop | MCClientLoop, ClientLoop.cfg | routes follow the handshake, no Disconnected connection is awaited, no packet for a route without endpoint, an empty endpoint awaited only after a Hello could not be sent, lost connections reopen |
| tunnel | MCTunnel, Tunnel.cfg | connections of the server's endpoint lead to sockets of its session; its sorter releases packets of that session only, each once and in order; a packet from the client is late only when a later one of its numbering came first |
| tunnel_order | MCTunnel, TunnelOrder.cfg | the client's sorter gets packets of its own session only, and releases each number once and in order |
| tunnel_live | MCTunnel, TunnelLive.cfg | a client that keeps its session joins the server again and again; each node of the tunnel is its event loop (ServerLoop, ClientLoop) |
| tunnel_downlink | MCTunnel, TunnelDownlink.cfg | *violated*: packets from the server are late although nothing of their numbering came before |
| path_latency | PathLatency, PathLatency.cfg | the map is bounded, the newest numbers are exact, the estimate panics only after the clock was set back |

Bounds.  *Receive path*: sequence numbers 0 to 6, a jump of more than 2 (100 in
the code), a channel of 2 (1000), a deadline of 2 units.  That allows two gaps
at once, a jump over a held packet, a jump with a gap below it, a full channel
in the middle of a run, and timers that expire before, at and after an arrival.
In the liveness run the channel has room for all numbers, as packets dropped by
a full channel never arrive.  *Server*: two clients, one with two sessions, two
addresses, two default routes that overlap with each client's network, one packet per endpoint
(`MaxPackets` bounds only `tx_counter`, which no guard of the code reads).
*Client*: three interfaces, so that one can be lost, one be failing and one
alive; two sessions; a default route and a network.  Deadlock is not checked in
the two loops and the receive path: a process that panicked has ended.  *Tunnel*:
two interfaces, which nothing tells apart (symmetry; the run states no liveness),
two sessions, one restart of the server, three sockets (one connection is lost and
reopened, or the client starts over), three packets to the server and a jump
limit of 1, so that a gap, a late packet and a packet of the other session can
meet in one sorter.  A restart of the client opens both interfaces again, for which
three sockets do not suffice; here the second session comes from starting over,
which leaves the server and the network as a restart does.  `RestartClient` happens in
the two passing runs with one interface, and the proofs cover it for any number.
*Tunnel, order*: one interface, three
sockets, restarts of either process, and three packets to the client with a jump
limit of 1: the packets of up to three endpoints of the server, all numbered from
0, come as gap, jump, late packet and repetition, and held packets are released
by the one before them or by the deadline.  The liveness run has one interface,
two sockets and one packet each way: every action of both loops happens.  The
violated run has two packets, the fewest that show it.
Deadlock is not checked, as the bounds end the behaviour.  *Path latency*: a map
of 3 (100 in the code), numbers 0 to 4, readings 0 to 2, five arrivals: the map
fills, evicts, takes a number below all it has, and records copies.

Fairness.  The receive path is fair to the passing of time, to an expired timer
and to a non-empty channel: `race` starts at a random future, so each ready one
is served eventually.  Nothing makes packets arrive.  The server is fair to
`OtherEvent`, whose flush timer ticks every second.  The client polls its
keepalive timer before everything else (`or`) and reconnects in a loop; that now
and then, if attempts never stop, a keepalive goes out everywhere and an
interface can be opened is an assumption about the environment, and without it
nothing can be promised.  In the tunnel the keepalive is fair for the same
reason; Hellos and HelloAcks are sent again every second, so that one that is
sent again and again on a path is received (strong fairness for each address);
a connection whose peer closed its socket is not refreshed, and the connection's
timer removes it; and a Hello of a closed socket does not stay in the network
forever.  Without the last a delayed Hello could take the endpoint back forever.

## Findings

1. **A jump does not clear the queue** (`packet_sorter.rs:79`): the message
   says it does, the code gives up only the first gap.
2. **A gap may be given up early** (`packet_sorter.rs:103`): the timer also runs
   with an empty queue, from the creation of the sorter and from each release,
   and is not restarted when a packet is held.
3. **An endpoint without connections** (`connection_manager.rs:57`): after a
   socket could not be set up the endpoint remains, and the server panics when
   it next waits.  The client has the same hazard at `:193`.
4. **A forgotten client loses packets** (`endpoint.rs:25`): a session is to be
   new "every time an Endpoint is created", yet the server creates the endpoint
   again under the client's session after its connections timed out or it
   restarted.  `tx_counter` starts again at 0 while the client's sorter keeps
   `next_seq`, so everything the server sends is discarded as late until its
   counter has caught up.

## Proofs

Each theorem is about `Spec` of its module and holds for every value of the constants that satisfies the module's
assumptions.

| module | theorem | property |
|---|---|---|
| ReceivePath_proofs | `TypeCorrect`, `ReleasedInOrder`, `NothingReadyIsHeld`, `HeldPacketsHaveTimer` | `TypeOK`, `InOrder`, `HeldIsBlocked`, `HeldHasTimer` |
| | `SkippingHasCause`, `LossNeedsFullChannel` | `SkipHasCause`, `LossOnlyWhenFull` |
| | `ImplementsOrderedDelivery` | `OrderedSpec`, the refinement of OrderedDelivery |
| PathLatency_proofs | `MapIsBounded`, `NewestRecordedExactly`, `EstimateIsSafe` | `TypeOK`, `NewestAreExact`, `PanicNeedsClockStep` |
| ServerLoop_proofs | `ServerTypeOK`, `RoutesAlwaysMatch`, `DefaultRoutesStayLast`, `StatePanicOnlyAfterFault` | `TypeOK`, `RoutesMatchEndpoints`, `DefaultRoutesLast`, `StatePanicNeedsFault` |
| | `SessionsMoveOn`, `DisconnectedStaysFinal` | `NoSessionRollback`, `DisconnectedIsFinal` |
| ClientLoop_proofs | `ClientTypeOK`, `RoutesAlwaysFollow`, `NeverAwaitsDisconnected`, `StatePanicOnlyAfterUnsentHello` | `TypeOK`, `RoutesFollowHandshake`, `NoDisconnectedAwaited`, `StatePanicNeedsUnsentHello` |
| Tunnel_proofs | `ConnectionsAreOfOneSession`, `UplinkLossIsOvertaking`, `DownlinkIsOfSession` | `ConnectionsOfOneSession`, `UplinkLateIsOvertaken`, `DownlinkOfSession` |
| TunnelOrder_proofs | `UplinkReleasedInOrder`, `DownlinkReleasedInOrder` | `UplinkInOrder`, `DownlinkInOrder` |
| TunnelNodes_proofs | `TunnelTypeOK` | `TypeOK` |
| | `ServerImplementsLoop`, `ClientImplementsLoop` | `ServerIsLoop`, `ClientIsLoop`, each node refines its event loop |

None of the invariants is inductive alone; each module defines `IInv`, the one
that is, and shows that `Init` establishes it and every action keeps it, one
lemma per action.

*Receive path* (jump limit, capacity, deadline and `MaxSeq` are naturals, the
capacity positive).  Order needs that no held number is below `next_seq`, the
refinement needs that released packets arrived, the timer needs the shape of the
queue.  `IInv` is types, and `Settled(sorter, tun, arrived)`: the sorter is
`Sound` (well typed; what it released follows what the TUN device has, in order
and below `next_seq`; released and held packets arrived; none held is below
`next_seq`), it holds exactly the arrived packets from `next_seq` on, `next_seq`
itself is not held, and a timer runs while it holds any.  The argument goes
operator by operator: `EnqueueSortedResult` says what a drain does (the run up
to the first gap goes; the channel gets all of it, or as much as it has room
for), `EnqueueSortedSound`, `QueueSound`, `SkipSound` and `TimerSound` say that
each step of a handler keeps the sorter sound, and `AdvanceQueueSettled`,
`InsertPacketSettled`, `TickSettled` and `ForwardSortedSettled` that each whole
handler leaves it settled.  The two action properties come from the same
invariant: a drain skips nothing (`EnqueueSortedSkipsNone`), an advance passes,
besides held numbers, only those below all that is held (`AdvanceQueueSkips`), a
packet that jumps is above all that is held and so had not arrived, and `Keeps`, which says that
nothing is lost unless the channel is full, holds of every step of a handler and
of two in a row.  That a set of naturals has a least element (from the
well-foundedness of `<`) gives the first key and the first gap.

*Path latency* (the map has room for at least one number).  `IInv` adds to the
properties that every number in the map has a time, and that while the clock was
never set back the first of its times is not above the last, nor the last above
the clock.  The number an insertion evicts is the least of a full map, so
`MAX_TIMESTAMPS - 1` greater ones arrived and it is none of the newest.

*Connection manager.*  ConnectionManager_proofs has no specification of its own:
it says what the operators of Router and ConnectionManager return for every
table and every manager, and the three modules below cite it.  `ManagerOK` is
the shape of a manager and `TableOK` of its routes: no mapping twice, default
routes behind all others.  `InsertRouteOK` is the heart of it: before the swap
at most the appended mapping is out of place, so one swap puts it right.
The handlers are described by what they keep: `Refreshed` (no endpoint came or
left, each continues its session with its connections, Disconnected stays
Disconnected), `Shrunk` (only connections and endpoints left, and exactly the
routes of these), `Met` (a Hello that was not refused) and `Created` (opened
connections).  What `InsertRoutes` and `RemoveRoutes` compute is shown position
by position: were one wrong, there would be a first one.

*Server* (`SessionsAssumption`: no two clients draw the same session;
`RoutesAssumption`: every session announces at least one route).  `IInv` says
that the manager is well formed, that every session that was ever an
endpoint's is in the history, that the table has every route of a present session
and otherwise only routes that an endpoint that exists announced in some
session, that an endpoint lacks connections only after a socket could not be set
up, and that `select_all` panicked only then and `"route"` never did.  A panic of
a call leaves all of that as it is.  Sessions only move on as the
history has every session that was in use.

*Client* (`ServerRoutesAssumption`: the server announces at least one route).
`IInv` is the same for one endpoint, with the handshake in place of the history:
a Connected connection has taught the routes.  That no Disconnected connection
is left is part of it, as the keepalive relies on the clean-up of the iteration
before.

*Tunnel.*  `IInv` says that each datagram in the network is of the session of
the socket it is sent from or to, that the client's connections are bound to
sockets of its session, that the server's connections lead to sockets of the
endpoint's session, and that each sorter was given only packets of that session;
the server's sorter holds only numbers it was given, and `next_seq` is 0 or just
above one of them (`SorterFrom`).  A socket keeps the session it was opened in,
so a delayed Hello can take the server's endpoint back to a session, but never
into a mixture of two.  Then a packet that is below `next_seq` when it first
arrives is below a later one of its own numbering.  All invariants of the tunnel
hold also of `LossySpec`, in which Hellos get lost.

*Tunnel, what is released* (`SorterAssumption`: the jump limit and the deadline
are naturals, the capacity positive).  TunnelOrder_proofs takes the receive path
apart from the tunnel: `Path == INSTANCE ReceivePath_proofs`, with sequence
numbers up to those of either node, gives what a sorter's operators do to a
`Settled` sorter, and `SameInsertPacket` and `SameAdvanceQueue` show that the
operators there are those of the tunnel's sorters.  `OInv` is `IInv`, that the
server's packets are numbered up to its bound, and `SortsSent` of both sorters:
settled, out of packets that were sent.  The sorter of a new endpoint is settled
with nothing arrived (`NewSettled`), and is only ever given packets of one
session by `IInv`; so all it releases are of that session, in order.

*Tunnel, the nodes.*  `TypeInv` is `IInv` and, for each node, `Serving`: the
manager is well formed, every endpoint has connections, all enabled and none
Disconnected, its counter is within its bound, and every route has its endpoint;
besides, the client's connections are configured ones, each with a socket of its
own (`SocketsOK`: a socket that is opened gets the next address), and the server
has every present session in its history.  That is inductive, and each conjunct
is needed: a route without its endpoint, or an endpoint without connections, is
where the code would panic, and a handler reads both.  For the refinement,
ServerLoop and ClientLoop are instantiated with the variables of one node and
with no faults.  The operators of ConnectionManager reached through `AtServer`
and `AtClient` are shown equal to those of Tunnel (`ServerLoopHello` and so on),
each handler then is the corresponding event of the loop (`SendKeepaliveIsLoop`,
one lemma per action), the clean-up finds nothing as the manager is `Serving`
(`ServerEnds`, `ClientEnds`), and a restart is the loop's `Init'`.  Receiving a
packet, a deadline and everything the other node does leave the manager as it is.

Only model-checked: liveness (`HeldIsDelivered`, `LostConnectionIsReopened`,
`DisconnectedIsRemoved`, `SessionJoins`), which is out of the prover's reach.
The properties of the runs marked *violated* are false and have nothing to prove.

## Not modelled

Payloads and encodings; IPv6 (refused by the code); the timers of connections
(a time-out may come at any time); hello counters, which only number Hellos; the
value of the path latency estimate, which is only logged; logging; start-up and
settings.  A write that would block counts as sent, as in the code.  Two
interfaces that share a name and an address are one connection in the model; the
code would list it twice.  Between binding a socket and greeting over it the
code does nothing else, so Tunnel makes one step of it.

## Plan

Done: PacketSorter, OrderedDelivery, ReceivePath; Router, ConnectionManager,
ServerLoop, ClientLoop; Tunnel; PathLatency; the proofs of all their safety
properties, and that the nodes of Tunnel are the two event loops.  What would
come next:

1. Several clients in Tunnel, to state for every pair of them what Tunnel states
   for one.  Clients meet only in the routing table, which ServerLoop covers.
2. Duplication commands in Tunnel, so that a packet goes out on some of the
   paths only: `UplinkLateIsOvertaken` should not depend on which.
3. Failing writes in Tunnel, which leave Disconnected connections for the
   clean-up; `ServerIsLoop` and `ClientIsLoop` would then have it to do.
