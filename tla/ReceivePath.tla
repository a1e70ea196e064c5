----------------------------- MODULE ReceivePath -----------------------------
(***************************************************************************)
(* The receiving side of one endpoint: the network hands over packets, the  *)
(* event loop inserts them into the packet sorter, runs the sorter's        *)
(* deadline, and forwards what the sorter released to the TUN device.       *)
(*                                                                          *)
(* The sender numbers its packets and writes each to every connection, so   *)
(* any number may arrive at any time, in any order, any number of times or  *)
(* never.  MaxSeq bounds the numbers that are looked at.                    *)
(*                                                                          *)
(* A write to the TUN device is unwrapped: one that fails ends the process, *)
(* and with it the endpoint and its sorter.                                 *)
(***************************************************************************)
EXTENDS PacketSorter

CONSTANT MaxSeq
ASSUME MaxSeqAssumption == MaxSeq \in Nat

VARIABLES
    sorter,   \* the endpoint's packet_sorter
    tun,      \* sequence numbers written to the TUN device, oldest first
    arrived,  \* sequence numbers that were ever inserted (history)
    panicked  \* a write to the TUN device has failed

vars == <<sorter, tun, arrived, panicked>>

Packets == 0 .. MaxSeq

Init ==
    /\ sorter = New
    /\ tun = <<>>
    /\ arrived = {}
    /\ panicked = FALSE

(* Events::NewEstablishedMessage with a Messages::Packet. *)
ReceivePacket(seq) ==
    /\ ~panicked
    /\ sorter' = InsertPacket(sorter, seq)
    /\ arrived' = arrived \cup {seq}
    /\ UNCHANGED <<tun, panicked>>

(* Events::PacketSorter: await_deadline consumed the timer that expired. *)
HandleDeadline ==
    /\ ~panicked
    /\ sorter.deadline_timer = 0
    /\ sorter' = AdvanceQueue([sorter EXCEPT !.deadline_timer = Never])
    /\ UNCHANGED <<tun, arrived, panicked>>

ForwardSortedKeeps ==
    /\ ~panicked
    /\ sorter.sorted # <<>>
    /\ tun' = Append(tun, Head(sorter.sorted))
    /\ UNCHANGED <<sorter, arrived, panicked>>

(* Events::NewSortedPacket: the oldest released packet goes to the TUN. *)
ForwardSorted ==
    /\ ~panicked
    /\ sorter.sorted # <<>>
    /\ tun' = Append(tun, Head(sorter.sorted))
    /\ sorter' = [sorter EXCEPT !.sorted = Tail(@)]
    /\ UNCHANGED <<arrived, panicked>>

(* The same event when the TUN device refuses the packet. *)
ForwardPanics ==
    /\ ~panicked
    /\ sorter.sorted # <<>>
    /\ panicked' = TRUE
    /\ UNCHANGED <<sorter, tun, arrived>>

PassTime ==
    /\ ~panicked
    /\ sorter' = Tick(sorter)
    /\ UNCHANGED <<tun, arrived, panicked>>

Next ==
    \/ \E seq \in Packets : ReceivePacket(seq)
    \/ HandleDeadline
    \/ ForwardSorted
    \/ ForwardPanics
    \/ PassTime

Spec == Init /\ [][Next]_vars

(* Time passes, and the event loop's race polls an expired timer and a      *)
(* non-empty channel until it has served them; nothing makes packets come.  *)
Fairness == WF_vars(PassTime) /\ WF_vars(HandleDeadline) /\ WF_vars(ForwardSorted)

FairSpec == Spec /\ Fairness

-----------------------------------------------------------------------------
SorterOK(s) ==
    /\ s = [packet_queue |-> s.packet_queue, next_seq |-> s.next_seq,
            deadline_timer |-> s.deadline_timer, sorted |-> s.sorted]
    /\ Held(s) \subseteq Packets
    /\ s.packet_queue \in [Held(s) -> 0 .. Deadline]
    /\ s.next_seq \in 0 .. MaxSeq + 1
    /\ s.deadline_timer \in {Never} \cup 0 .. Deadline
    /\ s.sorted \in Seq(Packets)
    /\ Len(s.sorted) <= Capacity

TypeOK ==
    /\ SorterOK(sorter)
    /\ tun \in Seq(Packets)
    /\ arrived \subseteq Packets
    /\ panicked \in BOOLEAN

(* Everything released so far, whether the TUN device has it or not. *)
Released == tun \o sorter.sorted

Increasing(s) == \A i, j \in 1 .. Len(s) : i < j => s[i] < s[j]

(* Packets are released in order and at most once, and no packet still to   *)
(* come may be released behind one already released: advance_queue and the  *)
(* drain move next_seq over everything they release, and insert_packet      *)
(* refuses what is below it.                                                *)
InOrder ==
    /\ Increasing(Released)
    /\ \A i \in 1 .. Len(Released) : Released[i] < sorter.next_seq

(* Every insertion and every advance drains the run it completes: between   *)
(* two events the queue holds nothing that could be released, and exactly   *)
(* those arrived packets the sorter has not passed.                         *)
HeldIsBlocked ==
    /\ sorter.next_seq \notin Held(sorter)
    /\ Held(sorter) = {k \in arrived : k >= sorter.next_seq}

(* A held packet always has a timer that will free it: advance_queue        *)
(* switches the timer off only with an empty queue, and insert_packet arms  *)
(* a timer that is off.                                                     *)
HeldHasTimer == Held(sorter) # {} => sorter.deadline_timer # Never

(* Sequence numbers may only be skipped for one of two reasons: the         *)
(* deadline expired, or a packet far above all that are held arrived.  And  *)
(* either gives up the first gap only: what is missing above a held packet  *)
(* is still waited for.                                                     *)
SkipHasCause ==
    [][\A k \in sorter.next_seq .. sorter'.next_seq - 1 :
        k \notin arrived'
        => /\ Held(sorter) # {} /\ \A j \in Held(sorter) : k < j
           /\ \/ sorter.deadline_timer = 0 /\ arrived' = arrived
              \/ \E new \in arrived' \ arrived : \A j \in Held(sorter) : new - j > JumpLimit]_vars

(* A packet the sorter accepted is only lost because the channel was full:  *)
(* whatever leaves the queue unreleased leaves behind a full channel.       *)
LossOnlyWhenFull ==
    [][\A k \in Packets :
        k \in Held(sorter) \cup {a \in arrived' \ arrived : a >= sorter.next_seq}
        => \/ k \in Held(sorter)'
           \/ \E i \in 1 .. Len(Released') : Released'[i] = k
           \/ Len(sorter'.sorted) = Capacity]_vars

(* With room in the channel, a packet the sorter holds reaches the TUN      *)
(* device even if the packets missing before it never come, unless the      *)
(* device refuses one and the process ends.                                 *)
HeldIsDelivered ==
    \A k \in Packets :
        k \in Held(sorter) ~> ((\E i \in 1 .. Len(tun) : tun[i] = k) \/ panicked)

(* The sorter and the loop implement ordered delivery to the TUN device. *)
Ordered == INSTANCE OrderedDelivery WITH delivered <- tun
OrderedSpec == Ordered!ODSpec

=============================================================================
