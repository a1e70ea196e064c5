------------------------- MODULE PathLatency_proofs -------------------------
(***************************************************************************)
(* Proofs about the path latency, for every size of the map, every range of *)
(* sequence numbers and every way the clock is changed.                     *)
(***************************************************************************)
EXTENDS PathLatency, FiniteSetTheorems, WellFoundedInduction, TLAPS

-----------------------------------------------------------------------------
(* The map.                                                                 *)

(* Some sequence numbers: a finite set of naturals. *)
LEMMA NumbersFinite ==
    ASSUME NEW S \in SUBSET Numbers
    PROVE  IsFiniteSet(S) /\ Cardinality(S) \in Nat /\ S \in SUBSET Nat
<1>1. Numbers \in SUBSET Nat /\ IsFiniteSet(Numbers)
  BY BoundsAssumption, FS_Interval DEF Numbers
<1> QED BY <1>1, FS_Subset, FS_CardinalityType

(* pop_first removes the least number of a map that is not empty. *)
LEMMA LeastOf ==
    ASSUME NEW S \in SUBSET Nat, S # {}
    PROVE  Min(S) \in S /\ \A k \in S : Min(S) <= k
<1>1. PICK m \in S : \A k \in S : <<k, m>> \notin OpToRel(<, Nat)
  BY WFMin, NatLessThanWellFounded, Zenon
<1>2. ASSUME NEW k \in S PROVE m <= k
  <2>1. <<k, m>> \in Nat \X Nat
    OBVIOUS
  <2>2. ~(<<k, m>>[1] < <<k, m>>[2])
    BY <1>1, <2>1, Zenon DEF OpToRel
  <2> QED BY <2>2
<1> QED BY <1>2 DEF Min

(* The eviction keeps the recorded times of what it keeps, and loses at     *)
(* most a number that has MAX_TIMESTAMPS - 1 greater ones in the map.       *)
LEMMA EvictedResult ==
    ASSUME NEW times, DOMAIN times \in SUBSET Numbers,
           Cardinality(DOMAIN times) <= MAX_TIMESTAMPS
    PROVE  /\ DOMAIN Evicted(times) \in SUBSET DOMAIN times
           /\ Cardinality(DOMAIN Evicted(times)) < MAX_TIMESTAMPS
           /\ \A n \in DOMAIN Evicted(times) : Evicted(times)[n] = times[n]
           /\ \A n \in DOMAIN times \ DOMAIN Evicted(times) :
                Cardinality({k \in DOMAIN times : k > n}) >= MAX_TIMESTAMPS - 1
<1> DEFINE D == DOMAIN times
<1>0. IsFiniteSet(D) /\ Cardinality(D) \in Nat /\ D \in SUBSET Nat
  BY NumbersFinite
<1>1. CASE ~IsFull(times)
  <2>1. Evicted(times) = times
    BY <1>1 DEF Evicted
  <2> QED BY <1>0, <1>1, <2>1, MaxTimestampsAssumption DEF IsFull
<1>2. CASE IsFull(times)
  <2>1. D # {}
    BY <1>0, <1>2, FS_EmptySet, MaxTimestampsAssumption DEF IsFull
  <2>2. Min(D) \in D /\ \A k \in D : Min(D) <= k
    BY <1>0, <2>1, LeastOf
  <2>3. Evicted(times) = [n \in D \ {Min(D)} |-> times[n]]
    BY <1>2 DEF Evicted, Restrict
  <2>4. Cardinality(D \ {Min(D)}) = MAX_TIMESTAMPS - 1
    <3>1. Cardinality(D) = MAX_TIMESTAMPS
      BY <1>0, <1>2, MaxTimestampsAssumption DEF IsFull
    <3>2. Cardinality(D \ {Min(D)}) = Cardinality(D) - 1
      BY <1>0, <2>2, FS_RemoveElement
    <3> QED BY <3>1, <3>2
  <2>5. {k \in D : k > Min(D)} = D \ {Min(D)}
    BY <1>0, <2>2
  <2>6. DOMAIN times \ DOMAIN Evicted(times) = {Min(D)}
    BY <2>2, <2>3
  <2> QED BY <2>3, <2>4, <2>5, <2>6, MaxTimestampsAssumption
<1> QED BY <1>1, <1>2

(* An insertion adds one number, if any, and stays within the bound. *)
LEMMA InsertResult ==
    ASSUME NEW times, DOMAIN times \in SUBSET Numbers,
           Cardinality(DOMAIN times) <= MAX_TIMESTAMPS,
           NEW seq \in Numbers, NEW now
    PROVE  /\ DOMAIN Insert(times, seq, now) = DOMAIN Evicted(times) \cup {seq}
           /\ Cardinality(DOMAIN Insert(times, seq, now)) <= MAX_TIMESTAMPS
<1>1. DOMAIN Evicted(times) \in SUBSET Numbers /\ Cardinality(DOMAIN Evicted(times)) < MAX_TIMESTAMPS
  BY EvictedResult
<1>2. DOMAIN Insert(times, seq, now) = DOMAIN Evicted(times) \cup {seq}
  BY DEF Insert, Stamped
<1>3. IsFiniteSet(DOMAIN Evicted(times)) /\ Cardinality(DOMAIN Evicted(times)) \in Nat
  BY <1>1, NumbersFinite
<1> DEFINE E == DOMAIN Evicted(times)
<1>4. Cardinality(E \cup {seq}) = IF seq \in E THEN Cardinality(E) ELSE Cardinality(E) + 1
  BY <1>3, FS_AddElement
<1> QED BY <1>1, <1>2, <1>3, <1>4, MaxTimestampsAssumption

-----------------------------------------------------------------------------
(* The inductive invariant.                                                 *)

(* The times that are recorded are readings of the clock, each number has   *)
(* one, and as long as the clock was never set back none is below the first *)
(* and none is above the clock.                                             *)
Recorded(times) ==
    \A n \in DOMAIN times :
        /\ times[n] \in Seq(0 .. MaxClock) /\ times[n] # <<>>
        /\ ~setBack => /\ times[n][1] <= times[n][Len(times[n])]
                       /\ times[n][Len(times[n])] <= clock

IInv == TypeOK /\ NewestAreExact /\ Recorded(ack_timestamps) /\ PanicNeedsClockStep

LEMMA InitIInv == Init => IInv
<1> SUFFICES ASSUME Init PROVE IInv
  OBVIOUS
<1>1. DOMAIN ack_timestamps = {} /\ DOMAIN arrivals = {}
  BY DEF Init
<1>2. Cardinality({}) = 0
  BY FS_EmptySet
<1>3. TypeOK
  <2>1. DOMAIN ack_timestamps = {} /\ Cardinality(DOMAIN ack_timestamps) <= MAX_TIMESTAMPS
    BY <1>1, <1>2, MaxTimestampsAssumption
  <2>2. clock \in 0 .. MaxClock /\ setBack \in BOOLEAN /\ panicked \in BOOLEAN
    BY DEF Init
  <2> QED BY <1>1, <2>1, <2>2 DEF TypeOK
<1>4. NewestAreExact /\ Recorded(ack_timestamps)
  BY <1>1 DEF NewestAreExact, Recorded
<1> QED BY <1>3, <1>4 DEF Init, IInv, PanicNeedsClockStep

LEMMA ReceiveTypeOK ==
    ASSUME IInv, NEW seq \in Numbers, Receive(seq)
    PROVE  TypeOK'
<1> USE DEF IInv, TypeOK
<1>0. DOMAIN ack_timestamps \in SUBSET Numbers
  OBVIOUS
<1>1. DOMAIN arrivals' = DOMAIN arrivals \cup {seq}
  BY DEF Receive, Stamped
<1>2. /\ DOMAIN ack_timestamps' = DOMAIN Evicted(ack_timestamps) \cup {seq}
      /\ Cardinality(DOMAIN ack_timestamps') <= MAX_TIMESTAMPS
  BY <1>0, InsertResult DEF Receive
<1>3. DOMAIN Evicted(ack_timestamps) \in SUBSET DOMAIN ack_timestamps
  BY <1>0, EvictedResult
<1>4. panicked' \in BOOLEAN
  BY DebugMessagesAssumption DEF Receive, EstimateFails
<1>5. clock' = clock /\ setBack' = setBack
  BY DEF Receive
<1>6. ASSUME NEW n \in DOMAIN ack_timestamps' PROVE ack_timestamps'[n] # <<>>
  <2>1. CASE n = seq
    <3>1. ack_timestamps'[n] =
            IF n \in DOMAIN Evicted(ack_timestamps)
            THEN Append(Evicted(ack_timestamps)[n], clock) ELSE <<clock>>
      BY <2>1, <1>6 DEF Receive, Insert, Stamped
    <3>2. n \in DOMAIN Evicted(ack_timestamps) =>
            Evicted(ack_timestamps)[n] \in Seq(0 .. MaxClock)
      BY <1>0, <1>3, EvictedResult DEF Recorded
    <3> QED BY <3>1, <3>2
  <2>2. CASE n # seq
    <3>1. n \in DOMAIN Evicted(ack_timestamps)
      BY <1>2, <1>6, <2>2
    <3>2. ack_timestamps'[n] = Evicted(ack_timestamps)[n]
      BY <1>6, <2>2 DEF Receive, Insert, Stamped
    <3> QED BY <1>0, <1>3, <3>1, <3>2, EvictedResult
  <2> QED BY <2>1, <2>2
<1> QED BY <1>1, <1>2, <1>3, <1>4, <1>5, <1>6

(* Stamping leaves the other numbers alone and appends the time to its own. *)
LEMMA StampedTimes ==
    ASSUME NEW times, NEW seq, NEW n \in DOMAIN Stamped(times, seq, clock)
    PROVE  /\ n # seq => n \in DOMAIN times /\ Stamped(times, seq, clock)[n] = times[n]
           /\ n = seq /\ n \in DOMAIN times =>
                Stamped(times, seq, clock)[n] = Append(times[n], clock)
           /\ n = seq /\ n \notin DOMAIN times => Stamped(times, seq, clock)[n] = <<clock>>
  BY DEF Stamped

(* A recorded number keeps its first time and its order when it is stamped. *)
LEMMA ReceiveRecorded ==
    ASSUME IInv, NEW seq \in Numbers, Receive(seq)
    PROVE  Recorded(ack_timestamps)'
<1> DEFINE E == Evicted(ack_timestamps)
<1>0. DOMAIN ack_timestamps \in SUBSET Numbers /\ Cardinality(DOMAIN ack_timestamps) <= MAX_TIMESTAMPS
  BY DEF IInv, TypeOK
<1>1. \A n \in DOMAIN E : n \in DOMAIN ack_timestamps /\ E[n] = ack_timestamps[n]
  BY <1>0, EvictedResult
<1>2. ack_timestamps' = Stamped(E, seq, clock) /\ clock' = clock /\ setBack' = setBack
  BY DEF Receive, Insert
<1>3. clock \in 0 .. MaxClock /\ MaxClock \in Nat
  BY BoundsAssumption DEF IInv, TypeOK
<1> SUFFICES ASSUME NEW n \in DOMAIN ack_timestamps'
             PROVE  /\ ack_timestamps'[n] \in Seq(0 .. MaxClock) /\ ack_timestamps'[n] # <<>>
                    /\ ~setBack => /\ ack_timestamps'[n][1] <= ack_timestamps'[n][Len(ack_timestamps'[n])]
                                   /\ ack_timestamps'[n][Len(ack_timestamps'[n])] <= clock
  BY <1>2 DEF Recorded
<1>4. n \in DOMAIN Stamped(E, seq, clock)
  BY <1>2
<1>5. CASE n # seq
  <2>1. n \in DOMAIN E /\ ack_timestamps'[n] = E[n]
    BY <1>2, <1>4, <1>5, StampedTimes
  <2> QED BY <1>1, <2>1 DEF IInv, Recorded
<1>6. CASE n = seq /\ n \in DOMAIN E
  <2> DEFINE times == ack_timestamps[n]
  <2>1. ack_timestamps'[n] = Append(times, clock)
    BY <1>1, <1>2, <1>4, <1>6, StampedTimes
  <2>2. /\ times \in Seq(0 .. MaxClock) /\ times # <<>>
        /\ ~setBack => times[1] <= times[Len(times)] /\ times[Len(times)] <= clock
    BY <1>1, <1>6 DEF IInv, Recorded
  <2>3. Append(times, clock) \in Seq(0 .. MaxClock) /\ Append(times, clock) # <<>>
    BY <1>3, <2>2
  <2>4. /\ Append(times, clock)[1] = times[1]
        /\ Append(times, clock)[Len(Append(times, clock))] = clock
        /\ times[1] \in Int /\ times[Len(times)] \in Int
    BY <1>3, <2>2
  <2> HIDE DEF times
  <2> QED BY <1>3, <2>1, <2>2, <2>3, <2>4
<1>7. CASE n = seq /\ n \notin DOMAIN E
  <2>1. ack_timestamps'[n] = <<clock>>
    BY <1>2, <1>4, <1>7, StampedTimes
  <2> QED BY <1>3, <2>1
<1> QED BY <1>5, <1>6, <1>7

(* A number that is exact afterwards was exact before, unless it is new, and *)
(* is not the one that is evicted.                                          *)
LEMMA ReceiveNewestAreExact ==
    ASSUME IInv, NEW seq \in Numbers, Receive(seq)
    PROVE  NewestAreExact'
<1> DEFINE E == Evicted(ack_timestamps)
<1>0. /\ DOMAIN ack_timestamps \in SUBSET Numbers
      /\ Cardinality(DOMAIN ack_timestamps) <= MAX_TIMESTAMPS
      /\ DOMAIN ack_timestamps \subseteq DOMAIN arrivals
      /\ DOMAIN arrivals \in SUBSET Numbers
  BY DEF IInv, TypeOK
<1>1. ack_timestamps' = Stamped(E, seq, clock) /\ arrivals' = Stamped(arrivals, seq, clock)
  BY DEF Receive, Insert
<1>2. DOMAIN arrivals' = DOMAIN arrivals \cup {seq} /\ DOMAIN ack_timestamps' = DOMAIN E \cup {seq}
  BY <1>1 DEF Stamped
<1> SUFFICES ASSUME NEW n \in DOMAIN arrivals',
                    Cardinality(Newer(n)') < MAX_TIMESTAMPS - 1
             PROVE  n \in DOMAIN ack_timestamps' /\ ack_timestamps'[n] = arrivals'[n]
  BY DEF NewestAreExact
<1>3. Newer(n) \subseteq Newer(n)' /\ Newer(n)' \in SUBSET Numbers /\ Newer(n) \in SUBSET Numbers
  BY <1>0, <1>2 DEF Newer
<1>4. Cardinality(Newer(n)) < MAX_TIMESTAMPS - 1
  <2>1. Cardinality(Newer(n)) <= Cardinality(Newer(n)')
    BY <1>3, NumbersFinite, FS_Subset
  <2> QED BY <1>3, <2>1, NumbersFinite, MaxTimestampsAssumption
<1>5. ASSUME n \in DOMAIN arrivals
      PROVE  n \in DOMAIN E /\ E[n] = arrivals[n]
  <2>1. n \in DOMAIN ack_timestamps /\ ack_timestamps[n] = arrivals[n]
    BY <1>4, <1>5 DEF IInv, NewestAreExact
  <2>2. n \in DOMAIN E
    <3>1. SUFFICES ASSUME n \notin DOMAIN E PROVE FALSE
      OBVIOUS
    <3> DEFINE above == {k \in DOMAIN ack_timestamps : k > n}
    <3>2. Cardinality(above) >= MAX_TIMESTAMPS - 1
      BY <1>0, <2>1, <3>1, EvictedResult
    <3>3. above \subseteq Newer(n)
      BY <1>0 DEF Newer
    <3>4. Cardinality(above) <= Cardinality(Newer(n))
      BY <1>3, <3>3, NumbersFinite, FS_Subset
    <3>5. Cardinality(above) \in Nat /\ Cardinality(Newer(n)) \in Nat
      BY <1>3, <3>3, NumbersFinite
    <3> HIDE DEF above
    <3> QED BY <1>4, <3>2, <3>4, <3>5, MaxTimestampsAssumption
  <2> QED BY <1>0, <2>1, <2>2, EvictedResult
<1>6. CASE n # seq
  <2>1. n \in DOMAIN arrivals
    BY <1>2, <1>6
  <2> QED BY <1>1, <1>2, <1>5, <1>6, <2>1, StampedTimes
<1>7. CASE n = seq /\ n \in DOMAIN arrivals
  <2> QED BY <1>1, <1>2, <1>5, <1>7, StampedTimes
<1>8. CASE n = seq /\ n \notin DOMAIN arrivals
  <2>1. n \notin DOMAIN E
    BY <1>0, <1>8, EvictedResult
  <2> QED BY <1>1, <1>2, <1>8, <2>1, StampedTimes
<1> QED BY <1>2, <1>6, <1>7, <1>8

(* The estimate fails on a number whose last time is below its first.       *)
LEMMA ReceivePanicNeedsClockStep ==
    ASSUME IInv, NEW seq \in Numbers, Receive(seq)
    PROVE  PanicNeedsClockStep'
<1>1. Recorded(ack_timestamps)'
  BY ReceiveRecorded
<1> SUFFICES ASSUME panicked' PROVE setBack'
  BY DEF PanicNeedsClockStep
<1>2. PICK n \in DOMAIN ack_timestamps' :
        ack_timestamps'[n][Len(ack_timestamps'[n])] < ack_timestamps'[n][1]
  BY DEF Receive, EstimateFails
<1> DEFINE times == ack_timestamps'[n]
<1>3. /\ times \in Seq(0 .. MaxClock) /\ times # <<>>
      /\ ~setBack' => times[1] <= times[Len(times)]
  BY <1>1 DEF Recorded
<1>4. times[1] \in Int /\ times[Len(times)] \in Int
  BY <1>3, BoundsAssumption
<1>5. times[Len(times)] < times[1]
  BY <1>2
<1>6. setBack' \in BOOLEAN
  BY DEF IInv, TypeOK, Receive
<1> HIDE DEF times
<1> QED BY <1>3, <1>4, <1>5, <1>6

(* Setting the clock forward keeps it above all recorded times. *)
LEMMA ChangeClockIInv ==
    ASSUME IInv, NEW time \in 0 .. MaxClock, ChangeClock(time)
    PROVE  IInv'
<1>1. /\ ack_timestamps' = ack_timestamps /\ arrivals' = arrivals /\ panicked' = panicked
      /\ clock' = time /\ setBack' = (setBack \/ time < clock) /\ clock \in 0 .. MaxClock
  BY DEF ChangeClock, IInv, TypeOK
<1>2. TypeOK' /\ NewestAreExact' /\ PanicNeedsClockStep'
  BY <1>1 DEF IInv, TypeOK, NewestAreExact, Newer, PanicNeedsClockStep
<1>3. Recorded(ack_timestamps)'
  <2> SUFFICES ASSUME NEW n \in DOMAIN ack_timestamps, ~setBack'
               PROVE  ack_timestamps[n][Len(ack_timestamps[n])] <= time
    BY <1>1 DEF IInv, Recorded
  <2> DEFINE times == ack_timestamps[n]
  <2>1. times \in Seq(0 .. MaxClock) /\ times # <<>> /\ times[Len(times)] <= clock
    BY <1>1 DEF IInv, Recorded
  <2>2. times[Len(times)] \in Int /\ clock \in Int /\ time \in Int
    BY <1>1, <2>1, BoundsAssumption
  <2>3. clock <= time
    <3>1. ~(time < clock)
      BY <1>1, Zenon
    <3> QED BY <2>2, <3>1
  <2> HIDE DEF times
  <2>4. times[Len(times)] <= time
    BY <2>1, <2>2, <2>3
  <2> QED BY <2>4 DEF times
<1> QED BY <1>2, <1>3 DEF IInv

LEMMA NextIInv == IInv /\ [Next]_vars => IInv'
<1> SUFFICES ASSUME IInv, [Next]_vars PROVE IInv'
  OBVIOUS
<1>1. ASSUME NEW seq \in Numbers, Receive(seq) PROVE IInv'
  BY <1>1, ReceiveTypeOK, ReceiveRecorded, ReceiveNewestAreExact, ReceivePanicNeedsClockStep DEF IInv
<1>2. ASSUME NEW time \in 0 .. MaxClock, ChangeClock(time) PROVE IInv'
  BY <1>2, ChangeClockIInv
<1>3. CASE UNCHANGED vars
  BY <1>3 DEF vars, IInv, TypeOK, NewestAreExact, Newer, Recorded, PanicNeedsClockStep
<1> QED BY <1>1, <1>2, <1>3 DEF Next

LEMMA Invariance == Spec => []IInv
<1> QED BY InitIInv, NextIInv, PTL DEF Spec

-----------------------------------------------------------------------------
(* insert_new_timestamp keeps the map of path_latency.rs within             *)
(* MAX_TIMESTAMPS numbers, whatever arrives.                                *)
THEOREM MapIsBounded == Spec => []TypeOK
<1>1. IInv => TypeOK
  BY DEF IInv
<1> QED BY <1>1, Invariance, PTL

(* pop_first before the look-up never costs one of the greatest numbers an  *)
(* arrival: the MAX_TIMESTAMPS - 1 greatest are recorded exactly.           *)
THEOREM NewestRecordedExactly == Spec => []NewestAreExact
<1>1. IInv => NewestAreExact
  BY DEF IInv
<1> QED BY <1>1, Invariance, PTL

(* Without a clock that is set back the unwrap in                           *)
(* estimate_path_delay_difference never fails.                              *)
THEOREM EstimateIsSafe == Spec => []PanicNeedsClockStep
<1>1. IInv => PanicNeedsClockStep
  BY DEF IInv
<1> QED BY <1>1, Invariance, PTL
=============================================================================
