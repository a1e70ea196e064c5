----------------------------- MODULE PathLatency -----------------------------
(***************************************************************************)
(* The path latency of an endpoint (crates/common/src/path_latency.rs):     *)
(* when the copies of each Hello, or HelloAck, arrived.  The sequence       *)
(* numbers arrive in any order and any number of times, as each is sent on  *)
(* every connection and datagrams are delayed and lost, and as the peer     *)
(* starts again from 0 when it makes a new endpoint.                        *)
(*                                                                          *)
(* The clock is the system's, which may be set back.                        *)
(***************************************************************************)
EXTENDS Integers, Sequences, FiniteSets, Functions, FiniteSetsExt

CONSTANTS
    MAX_TIMESTAMPS, \* 100 in the code
    MaxSeq,         \* greatest sequence number
    MaxClock,       \* greatest reading of the clock
    MaxArrivals,    \* bound on the arrivals
    DebugMessages   \* whether debug messages are logged

ASSUME MaxTimestampsAssumption == MAX_TIMESTAMPS \in Nat \ {0}
ASSUME BoundsAssumption == {MaxSeq, MaxClock, MaxArrivals} \subseteq Nat
ASSUME DebugMessagesAssumption == DebugMessages \in BOOLEAN

VARIABLES
    ack_timestamps, \* the times recorded of each sequence number, in order
    arrivals,       \* the times of all arrivals of each number (history)
    clock,          \* SystemTime::now()
    setBack,        \* the clock was set back (history)
    panicked        \* the process has ended in a panic

vars == <<ack_timestamps, arrivals, clock, setBack, panicked>>

Numbers == 0 .. MaxSeq

(* The time is added to those of the number, which may be its first. *)
Stamped(times, seq, now) ==
    [n \in DOMAIN times \cup {seq} |->
        IF n # seq THEN times[n]
        ELSE IF n \in DOMAIN times THEN Append(times[n], now) ELSE <<now>>]

IsFull(times) == Cardinality(DOMAIN times) >= MAX_TIMESTAMPS

EvictedLast(times) ==
    IF IsFull(times) THEN Restrict(times, DOMAIN times \ {Max(DOMAIN times)}) ELSE times

EvictedNone(times) == times

(* A full map loses its least number, before the arrival is looked up. *)
Evicted(times) ==
    IF IsFull(times) THEN Restrict(times, DOMAIN times \ {Min(DOMAIN times)}) ELSE times

Insert(times, seq, now) == Stamped(Evicted(times), seq, now)

EstimateFailsAscending(times) ==
    \E n \in DOMAIN times : times[n][1] <= times[n][Len(times[n])] /\ Len(times[n]) >= 2

(* estimate_path_delay_difference adds up the time from the first to the    *)
(* last arrival of every number that arrived twice or more, and unwraps     *)
(* each: a last arrival earlier than the first is an error.                 *)
EstimateFails(times) ==
    \E n \in DOMAIN times : Len(times[n]) >= 2 /\ times[n][Len(times[n])] < times[n][1]

Init ==
    /\ ack_timestamps = <<>>
    /\ arrivals = <<>>
    /\ clock \in 0 .. MaxClock
    /\ setBack = FALSE
    /\ panicked = FALSE

ArrivalCount == FoldFunction(LAMBDA times, n : Len(times) + n, 0, arrivals)

(* insert_new_timestamp, and the estimate that is logged at once; it is     *)
(* computed only where debug messages are logged.                           *)
Receive(seq) ==
    /\ ~panicked
    /\ ArrivalCount < MaxArrivals
    /\ ack_timestamps' = Insert(ack_timestamps, seq, clock)
    /\ arrivals' = Stamped(arrivals, seq, clock)
    /\ panicked' = (DebugMessages /\ EstimateFails(ack_timestamps'))
    /\ UNCHANGED <<clock, setBack>>

ChangeClock(time) ==
    /\ ~panicked
    /\ clock' = time
    /\ setBack' = (setBack \/ time < clock)
    /\ UNCHANGED <<ack_timestamps, arrivals, panicked>>

Next ==
    \/ \E seq \in Numbers : Receive(seq)
    \/ \E time \in 0 .. MaxClock : ChangeClock(time)

Spec == Init /\ [][Next]_vars

-----------------------------------------------------------------------------
(* The map records at most MAX_TIMESTAMPS numbers, all of which arrived.    *)
TypeOK ==
    /\ DOMAIN ack_timestamps \subseteq DOMAIN arrivals
    /\ DOMAIN arrivals \subseteq Numbers
    /\ Cardinality(DOMAIN ack_timestamps) <= MAX_TIMESTAMPS
    /\ \A n \in DOMAIN ack_timestamps : ack_timestamps[n] # <<>>
    /\ clock \in 0 .. MaxClock /\ setBack \in BOOLEAN /\ panicked \in BOOLEAN

Newer(n) == {k \in DOMAIN arrivals : k > n}

(* Of the numbers that ever arrived, the MAX_TIMESTAMPS - 1 greatest are    *)
(* recorded with every arrival: neither the eviction on each arrival, also  *)
(* of a number that is recorded already, nor late numbers that are below    *)
(* all others push one of them out or make it start again.                  *)
NewestAreExact ==
    \A n \in DOMAIN arrivals :
        Cardinality(Newer(n)) < MAX_TIMESTAMPS - 1
        => n \in DOMAIN ack_timestamps /\ ack_timestamps[n] = arrivals[n]

(* The unwrap in the estimate fails only after the clock was set back.      *)
PanicNeedsClockStep == panicked => setBack
=============================================================================
