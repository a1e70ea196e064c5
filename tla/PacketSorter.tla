---------------------------- MODULE PacketSorter ----------------------------
(***************************************************************************)
(* The packet sorter of one endpoint (crates/common/src/packet_sorter.rs)   *)
(* as pure operators over a record: every operator takes the sorter before  *)
(* a handler runs and returns the sorter after it.  A packet is its         *)
(* sequence number; its bytes are carried along unread.                     *)
(*                                                                          *)
(* Time is counted in units; a queued packet's age (its elapsed timestamp)  *)
(* is kept up to Deadline, the only value the code compares it with.        *)
(***************************************************************************)
EXTENDS Integers, Sequences, FiniteSets, Functions, FiniteSetsExt

CONSTANTS
    JumpLimit,  \* the 100 of `diff > 100`
    Capacity,   \* the 1000 of `smol::channel::bounded(1000)`
    Deadline    \* the sorter's deadline, in units of time

ASSUME JumpLimitAssumption == JumpLimit \in Nat
ASSUME CapacityAssumption == Capacity \in Nat \ {0}
ASSUME DeadlineAssumption == Deadline \in Nat

(* The timer that never fires: Timer::never(), and a one-shot timer after   *)
(* it was awaited.                                                          *)
Never == -1

Held(s) == DOMAIN s.packet_queue

New ==
    [packet_queue |-> <<>>, next_seq |-> 0, deadline_timer |-> Deadline, sorted |-> <<>>]

(* first_entry() and last_entry() of the BTreeMap. *)
FirstKey(q) == Min(DOMAIN q)
LastKey(q) == Max(DOMAIN q)

(* The first sequence number from n on that is not in Q. *)
FirstGap(Q, n) ==
    CHOOSE g \in {n} \cup {k + 1 : k \in Q} : g >= n /\ g \notin Q /\ n .. (g - 1) \subseteq Q

(* The numbers a, a + 1, ..., b - 1. *)
Run(a, b) == [i \in 1 .. (b - a) |-> a + i - 1]

(* Mutants of the definitions below carry the name of the definition and of  *)
(* the mistake; nothing else uses them.                                     *)
EnqueueSortedUnbounded(s) ==
    IF Held(s) = {} \/ FirstKey(s.packet_queue) # s.next_seq
    THEN s
    ELSE LET gap == FirstGap(Held(s), s.next_seq)
         IN [packet_queue   |-> Restrict(s.packet_queue, Held(s) \ (s.next_seq .. (gap - 1))),
             next_seq       |-> gap,
             deadline_timer |-> Deadline,
             sorted         |-> s.sorted \o Run(s.next_seq, gap)]

(* get_next_packet until it returns None: the contiguous run that starts at *)
(* next_seq leaves the queue; each packet is sent to the sorted channel, or *)
(* dropped when the channel is full.                                        *)
EnqueueSorted(s) ==
    IF Held(s) = {} \/ FirstKey(s.packet_queue) # s.next_seq
    THEN s
    ELSE LET gap   == FirstGap(Held(s), s.next_seq)
             ready == Run(s.next_seq, gap)
             room  == Capacity - Len(s.sorted)
         IN [packet_queue   |-> Restrict(s.packet_queue, Held(s) \ (s.next_seq .. (gap - 1))),
             next_seq       |-> gap,
             deadline_timer |-> Deadline,
             sorted         |-> s.sorted \o SubSeq(ready, 1, Min({room, Len(ready)}))]

AdvanceQueueStopsTimer(s) ==
    IF Held(s) = {}
    THEN s
    ELSE [EnqueueSorted([s EXCEPT !.next_seq = FirstKey(s.packet_queue)])
            EXCEPT !.deadline_timer = Never]

(* advance_queue: the gap below the first held packet is given up. *)
AdvanceQueue(s) ==
    IF Held(s) = {}
    THEN [s EXCEPT !.deadline_timer = Never]
    ELSE LET t == EnqueueSorted([s EXCEPT !.next_seq = FirstKey(s.packet_queue)])
         IN [t EXCEPT !.deadline_timer =
                IF Held(t) = {} THEN Never
                ELSE Deadline - t.packet_queue[FirstKey(t.packet_queue)]]

(* entry(seq).or_insert(packet): the first copy of a packet stays. *)
Queue(s, seq) ==
    [s EXCEPT !.packet_queue =
        [k \in Held(s) \cup {seq} |-> IF k \in Held(s) THEN s.packet_queue[k] ELSE 0]]

IsJump(s, seq) ==
    Held(s) # {} /\ seq - LastKey(s.packet_queue) > JumpLimit

ArmTimerNot(s) == s

(* The timer is armed after an insertion unless it already will fire. *)
ArmTimer(s) ==
    IF s.deadline_timer = Never THEN [s EXCEPT !.deadline_timer = Deadline] ELSE s

InsertPacketLate(s, seq) == ArmTimer(EnqueueSorted(Queue(s, seq)))

InsertPacketNoDrain(s, seq) ==
    IF seq < s.next_seq THEN s
    ELSE ArmTimer(IF IsJump(s, seq) THEN AdvanceQueue(Queue(s, seq)) ELSE Queue(s, seq))

InsertPacketAdvancesTwice(s, seq) ==
    IF seq < s.next_seq THEN s
    ELSE ArmTimer(EnqueueSorted(
            IF IsJump(s, seq) THEN AdvanceQueue(AdvanceQueue(Queue(s, seq))) ELSE Queue(s, seq)))

InsertPacketClears(s, seq) ==
    IF seq < s.next_seq THEN s
    ELSE ArmTimer(EnqueueSorted(
            IF IsJump(s, seq)
            THEN AdvanceQueue(Queue([s EXCEPT !.packet_queue = <<>>], seq))
            ELSE Queue(s, seq)))

InsertPacket(s, seq) ==
    IF seq < s.next_seq
    THEN s
    ELSE ArmTimer(EnqueueSorted(
            IF IsJump(s, seq) THEN AdvanceQueue(Queue(s, seq)) ELSE Queue(s, seq)))

(* One unit of time: timers run down to 0, where they have expired, and     *)
(* queued packets age.                                                      *)
Tick(s) ==
    [s EXCEPT !.deadline_timer = IF @ > 0 THEN @ - 1 ELSE @,
              !.packet_queue = [k \in Held(s) |-> Min({Deadline, s.packet_queue[k] + 1})]]
=============================================================================
