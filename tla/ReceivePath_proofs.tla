------------------------- MODULE ReceivePath_proofs -------------------------
(***************************************************************************)
(* Proofs about the packet sorter and the receive path, for every jump      *)
(* limit, channel capacity, deadline and range of sequence numbers.         *)
(***************************************************************************)
EXTENDS ReceivePath, WellFoundedInduction, SequenceTheorems, TLAPS

-----------------------------------------------------------------------------
(* Least elements and gaps.                                                 *)

(* A non-empty set of naturals has a least element. *)
LEMMA NatMin ==
    ASSUME NEW T \in SUBSET Nat, T # {}
    PROVE  \E m \in T : \A k \in T : m <= k
<1>1. PICK m \in T : \A k \in T : <<k, m>> \notin OpToRel(<, Nat)
  BY WFMin, NatLessThanWellFounded, Zenon
<1>2. ASSUME NEW k \in T PROVE m <= k
  <2>1. <<k, m>> \in Nat \X Nat
    OBVIOUS
  <2>2. ~(<<k, m>>[1] < <<k, m>>[2])
    BY <1>1, <2>1, Zenon DEF OpToRel
  <2> QED BY <2>2
<1> QED BY <1>2

(* first_entry() of a non-empty queue is its least key. *)
LEMMA FirstKeyIsLeast ==
    ASSUME NEW q, DOMAIN q \in SUBSET Nat, DOMAIN q # {}
    PROVE  /\ FirstKey(q) \in DOMAIN q
           /\ \A k \in DOMAIN q : FirstKey(q) <= k
<1>1. \E m \in DOMAIN q : \A k \in DOMAIN q : m <= k
  BY NatMin
<1> QED BY <1>1 DEF FirstKey, Min

(* The first gap above a held number: every number up to it is held. *)
LEMMA FirstGapIsGap ==
    ASSUME NEW Q \in SUBSET Packets, NEW n \in Q
    PROVE  /\ FirstGap(Q, n) \in n + 1 .. MaxSeq + 1
           /\ FirstGap(Q, n) \notin Q
           /\ n .. (FirstGap(Q, n) - 1) \subseteq Q
<1> DEFINE T == {m \in Nat : m >= n /\ m \notin Q}
           C == {n} \cup {k + 1 : k \in Q}
           Gap(g) == g >= n /\ g \notin Q /\ n .. (g - 1) \subseteq Q
<1>0. MaxSeq \in Nat /\ Q \subseteq 0 .. MaxSeq /\ n \in 0 .. MaxSeq
  BY MaxSeqAssumption DEF Packets
<1>1. MaxSeq + 1 \in T
  BY <1>0
<1>2. PICK g \in T : \A k \in T : g <= k
  BY <1>1, NatMin
<1>3. n .. (g - 1) \subseteq Q
  BY <1>0, <1>2
<1>4. g - 1 \in Q
  BY <1>0, <1>2, <1>3
<1>5. g \in C /\ Gap(g)
  <2>1. g = (g - 1) + 1
    BY <1>2
  <2> QED BY <1>2, <1>3, <1>4, <2>1
<1>6. FirstGap(Q, n) \in C /\ Gap(FirstGap(Q, n))
  <2>1. FirstGap(Q, n) = CHOOSE x \in C : Gap(x)
    BY DEF FirstGap
  <2> HIDE DEF C, Gap
  <2> QED BY <1>5, <2>1
<1> QED BY <1>0, <1>6

-----------------------------------------------------------------------------
(* Sequences of numbers.                                                    *)

(* A sequence over a set is one over a larger set: history only grows.      *)
LEMMA SeqWiden ==
    ASSUME NEW S, NEW T, S \subseteq T, NEW r \in Seq(S)
    PROVE  r \in Seq(T)
<1>1. r \in [1 .. Len(r) -> S] /\ Len(r) \in Nat
  OBVIOUS
<1>2. r \in [1 .. Len(r) -> T]
  BY <1>1
<1> QED BY <1>1, <1>2

(* The first n numbers of a run. *)
LEMMA RunPrefix ==
    ASSUME NEW a \in Nat, NEW b \in Nat, a <= b, NEW n \in 0 .. (b - a)
    PROVE  /\ SubSeq(Run(a, b), 1, n) \in Seq(a .. (b - 1))
           /\ Len(SubSeq(Run(a, b), 1, n)) = n
           /\ \A i \in 1 .. n : SubSeq(Run(a, b), 1, n)[i] = a + i - 1
<1>1. Run(a, b) \in Seq(a .. (b - 1)) /\ Len(Run(a, b)) = b - a
  <2>1. Run(a, b) \in [1 .. (b - a) -> a .. (b - 1)]
    BY DEF Run
  <2>2. b - a \in Nat
    OBVIOUS
  <2> QED BY <2>1, <2>2
<1>2. SubSeq(Run(a, b), 1, n) = [i \in 1 .. n |-> Run(a, b)[i]]
  BY <1>1
<1>3. \A i \in 1 .. n : Run(a, b)[i] = a + i - 1
  BY DEF Run
<1>4. [i \in 1 .. n |-> Run(a, b)[i]] \in [1 .. n -> a .. (b - 1)]
  BY <1>3
<1> QED BY <1>2, <1>3, <1>4

(* Where a number is in a run that starts at a, and in a sequence before    *)
(* which m others stand.                                                    *)
LEMMA PositionInRun ==
    ASSUME NEW a \in Nat, NEW b \in Nat, NEW k \in Nat, a <= k, k < b,
           NEW n, n = b - a
    PROVE  k - a + 1 \in 1 .. n
OBVIOUS

LEMMA PositionBehind ==
    ASSUME NEW m \in Nat, NEW n \in Nat, NEW i \in 1 .. n, NEW l, l = m + n
    PROVE  m + i \in 1 .. l
OBVIOUS

(* Three sequences may be appended from either end.                         *)
LEMMA Regroup ==
    ASSUME NEW x \in Seq(Packets), NEW y \in Seq(Packets), NEW z \in Seq(Packets)
    PROVE  (x \o y) \o z = x \o (y \o z)
BY ConcatAssociative

(* An increasing sequence below a, followed by one between a and b. *)
LEMMA IncreasingConcat ==
    ASSUME NEW t \in Seq(Nat), NEW r \in Seq(Nat), NEW a \in Nat, NEW b \in Nat, a <= b,
           Increasing(t), \A i \in 1 .. Len(t) : t[i] < a,
           Increasing(r), \A i \in 1 .. Len(r) : a <= r[i] /\ r[i] < b
    PROVE  /\ Increasing(t \o r)
           /\ \A i \in 1 .. Len(t \o r) : (t \o r)[i] < b
<1>1. /\ Len(t \o r) = Len(t) + Len(r)
      /\ \A i \in 1 .. Len(t) + Len(r) :
            (t \o r)[i] = IF i <= Len(t) THEN t[i] ELSE r[i - Len(t)]
  OBVIOUS
<1>2. \A i \in 1 .. Len(t) : t[i] \in Nat
  BY ElementOfSeq
<1>3. \A i \in 1 .. Len(r) : r[i] \in Nat
  BY ElementOfSeq
<1>4. Len(t) \in Nat /\ Len(r) \in Nat
  OBVIOUS
<1>5. ASSUME NEW i \in 1 .. Len(t \o r), NEW j \in 1 .. Len(t \o r), i < j
      PROVE  (t \o r)[i] < (t \o r)[j]
  <2>1. CASE j <= Len(t)
    BY <1>1, <1>4, <1>5, <2>1 DEF Increasing
  <2>2. CASE i <= Len(t) /\ j > Len(t)
    <3>1. (t \o r)[i] < a
      BY <1>1, <1>4, <2>2
    <3>2. (t \o r)[j] >= a
      BY <1>1, <1>4, <2>2
    <3>3. (t \o r)[i] \in Nat /\ (t \o r)[j] \in Nat
      BY <1>1, <1>2, <1>3, <1>4, <2>2
    <3> DEFINE x == (t \o r)[i]
               y == (t \o r)[j]
    <3>4. x \in Nat /\ y \in Nat /\ x < a /\ y >= a
      BY <3>1, <3>2, <3>3
    <3> HIDE DEF x, y
    <3>5. x < y
      BY <3>4
    <3> QED BY <3>5 DEF x, y
  <2>3. CASE i > Len(t)
    <3>1. i - Len(t) \in 1 .. Len(r) /\ j - Len(t) \in 1 .. Len(r) /\ i - Len(t) < j - Len(t)
      BY <1>1, <1>4, <1>5, <2>3
    <3>2. r[i - Len(t)] < r[j - Len(t)]
      BY <3>1 DEF Increasing
    <3> QED BY <1>1, <1>4, <1>5, <2>3, <3>2
  <2> QED BY <1>4, <2>1, <2>2, <2>3
<1>6. ASSUME NEW i \in 1 .. Len(t \o r) PROVE (t \o r)[i] < b
  <2>1. CASE i <= Len(t)
    BY <1>1, <1>2, <1>4, <2>1
  <2>2. CASE i > Len(t)
    BY <1>1, <1>3, <1>4, <2>2
  <2> QED BY <1>4, <2>1, <2>2
<1> QED BY <1>5, <1>6 DEF Increasing

-----------------------------------------------------------------------------
(* The sorter's operators.  Sound(s, t, A): s is a sorter that released its *)
(* channel's packets after those of t, out of the arrived packets A, and    *)
(* holds none that it has passed.                                           *)
InOrderAfter(t, s) ==
    /\ Increasing(t \o s.sorted)
    /\ \A i \in 1 .. Len(t \o s.sorted) : (t \o s.sorted)[i] < s.next_seq

Sound(s, t, A) ==
    /\ SorterOK(s)
    /\ InOrderAfter(t, s)
    /\ s.sorted \in Seq(A)
    /\ Held(s) \subseteq A
    /\ \A k \in Held(s) : k >= s.next_seq

(* What is left of the held packets of s once all below n are gone. *)
HeldFrom(s, n) == {k \in Held(s) : k >= n}

(* The lesser of two naturals, as in the room left in the channel.          *)
LEMMA MinOfTwo ==
    ASSUME NEW a \in Nat, NEW b \in Nat
    PROVE  Min({a, b}) \in {a, b} /\ Min({a, b}) <= a /\ Min({a, b}) <= b
<1>1. \E m \in {a, b} : \A k \in {a, b} : m <= k
  BY NatMin
<1> QED BY <1>1 DEF Min

(* The constants of the sorter are naturals.                                 *)
LEMMA ConstantsTyped ==
    MaxSeq \in Nat /\ JumpLimit \in Nat /\ Capacity \in Nat /\ Deadline \in Nat
BY MaxSeqAssumption, JumpLimitAssumption, CapacityAssumption, DeadlineAssumption

(* What enqueue_sorted_packets does when the first held packet is next: the *)
(* run up to the first gap leaves the queue, and a prefix of it that fits   *)
(* the channel is sent.                                                     *)
LEMMA EnqueueSortedResult ==
    ASSUME NEW s, SorterOK(s), \A k \in Held(s) : k >= s.next_seq, s.next_seq \in Held(s)
    PROVE  \E gap \in s.next_seq + 1 .. MaxSeq + 1, sent \in Seq(Nat) :
              /\ sent \in Seq(s.next_seq .. (gap - 1))
              /\ gap \notin Held(s)
              /\ s.next_seq .. (gap - 1) \subseteq Held(s)
              /\ Len(sent) <= Capacity - Len(s.sorted)
              /\ Len(sent) \in {gap - s.next_seq, Capacity - Len(s.sorted)}
              /\ \A i \in 1 .. Len(sent) : sent[i] = s.next_seq + i - 1
              /\ EnqueueSorted(s) =
                    [packet_queue   |-> [k \in HeldFrom(s, gap) |-> s.packet_queue[k]],
                     next_seq       |-> gap,
                     deadline_timer |-> Deadline,
                     sorted         |-> s.sorted \o sent]
<1> DEFINE gap   == FirstGap(Held(s), s.next_seq)
           ready == Run(s.next_seq, gap)
           room  == Capacity - Len(s.sorted)
           n     == Min({room, Len(ready)})
           sent  == SubSeq(ready, 1, n)
<1>1. /\ Packets \in SUBSET Nat /\ Held(s) \in SUBSET Packets /\ Held(s) \in SUBSET Nat
      /\ s.next_seq \in Nat /\ MaxSeq \in Nat
      /\ Held(s) = DOMAIN s.packet_queue
      /\ room \in Nat
  BY ConstantsTyped DEF SorterOK, Packets, Held
<1>2. FirstKey(s.packet_queue) = s.next_seq
  <2>1. FirstKey(s.packet_queue) \in Held(s) /\ FirstKey(s.packet_queue) <= s.next_seq
    BY <1>1, FirstKeyIsLeast
  <2> QED BY <1>1, <2>1
<1>3. EnqueueSorted(s) =
        [packet_queue   |-> Restrict(s.packet_queue, Held(s) \ (s.next_seq .. (gap - 1))),
         next_seq       |-> gap,
         deadline_timer |-> Deadline,
         sorted         |-> s.sorted \o sent]
  BY <1>2 DEF EnqueueSorted
<1>4. /\ gap \in s.next_seq + 1 .. MaxSeq + 1
      /\ gap \notin Held(s)
      /\ s.next_seq .. (gap - 1) \subseteq Held(s)
  BY <1>1, FirstGapIsGap
<1> HIDE DEF gap
<1>5. gap \in Nat /\ gap > s.next_seq
  BY <1>1, <1>4
<1>6. Len(ready) = gap - s.next_seq
  BY <1>1, <1>5 DEF Run
<1> HIDE DEF room, ready
<1>6a. n \in {gap - s.next_seq, room}
  BY <1>1, <1>5, <1>6, MinOfTwo
<1>7. n \in 0 .. (gap - s.next_seq) /\ n <= room
  BY <1>1, <1>5, <1>6, MinOfTwo
<1> HIDE DEF n
<1>8. /\ sent \in Seq(s.next_seq .. (gap - 1))
      /\ Len(sent) = n
      /\ \A i \in 1 .. n : sent[i] = s.next_seq + i - 1
  BY <1>1, <1>5, <1>7, RunPrefix DEF ready
<1>9. Held(s) \ (s.next_seq .. (gap - 1)) = HeldFrom(s, gap)
  BY <1>1, <1>5 DEF HeldFrom
<1>10. Restrict(s.packet_queue, HeldFrom(s, gap)) = [k \in HeldFrom(s, gap) |-> s.packet_queue[k]]
  BY DEF Restrict
<1>11. sent \in Seq(Nat)
  BY <1>1, <1>8
<1> HIDE DEF sent
<1> QED BY <1>3, <1>4, <1>6a, <1>7, <1>8, <1>9, <1>10, <1>11 DEF room

(* enqueue_sorted_packets releases a run in order, within the capacity, and *)
(* leaves exactly the held packets above it, none of which is next.         *)
LEMMA EnqueueSortedSound ==
    ASSUME NEW A \in SUBSET Packets, NEW t \in Seq(Packets), NEW s, Sound(s, t, A)
    PROVE  /\ Sound(EnqueueSorted(s), t, A)
           /\ EnqueueSorted(s).next_seq >= s.next_seq
           /\ EnqueueSorted(s).next_seq \notin Held(EnqueueSorted(s))
           /\ Held(EnqueueSorted(s)) = HeldFrom(s, EnqueueSorted(s).next_seq)
           /\ EnqueueSorted(s).deadline_timer \in {s.deadline_timer, Deadline}
<1>1. /\ Packets \in SUBSET Nat /\ Held(s) \in SUBSET Packets /\ Held(s) \in SUBSET Nat
      /\ s.next_seq \in Nat
      /\ MaxSeq \in Nat /\ Capacity \in Nat /\ Deadline \in Nat
  BY ConstantsTyped DEF Sound, SorterOK, Packets
<1>2. CASE s.next_seq \notin Held(s)
  <2>1. Held(s) = {} \/ FirstKey(s.packet_queue) # s.next_seq
    BY <1>1, <1>2, FirstKeyIsLeast DEF Held
  <2>2. EnqueueSorted(s) = s
    BY <2>1 DEF EnqueueSorted
  <2>3. Held(s) = HeldFrom(s, s.next_seq)
    BY DEF Sound, HeldFrom
  <2> QED BY <1>1, <1>2, <2>2, <2>3
<1>3. CASE s.next_seq \in Held(s)
  <2>1. PICK gap \in s.next_seq + 1 .. MaxSeq + 1, sent \in Seq(Nat) :
              /\ sent \in Seq(s.next_seq .. (gap - 1))
              /\ gap \notin Held(s)
              /\ s.next_seq .. (gap - 1) \subseteq Held(s)
              /\ Len(sent) <= Capacity - Len(s.sorted)
              /\ Len(sent) \in {gap - s.next_seq, Capacity - Len(s.sorted)}
              /\ \A i \in 1 .. Len(sent) : sent[i] = s.next_seq + i - 1
              /\ EnqueueSorted(s) =
                    [packet_queue   |-> [k \in HeldFrom(s, gap) |-> s.packet_queue[k]],
                     next_seq       |-> gap,
                     deadline_timer |-> Deadline,
                     sorted         |-> s.sorted \o sent]
    BY <1>3, EnqueueSortedResult DEF Sound
  <2>2. PICK e : e = EnqueueSorted(s)
    OBVIOUS
  <2>3. /\ e.packet_queue = [k \in HeldFrom(s, gap) |-> s.packet_queue[k]]
        /\ e.next_seq = gap
        /\ e.deadline_timer = Deadline
        /\ e.sorted = s.sorted \o sent
        /\ e = [packet_queue |-> e.packet_queue, next_seq |-> e.next_seq,
                deadline_timer |-> e.deadline_timer, sorted |-> e.sorted]
        /\ Held(e) = HeldFrom(s, gap)
    BY <2>1, <2>2 DEF Held
  <2>4. gap \in Nat /\ gap > s.next_seq /\ gap <= MaxSeq + 1
    BY <1>1, <2>1
  <2>5. s.next_seq .. (gap - 1) \subseteq A
    BY <2>1 DEF Sound
  <2>6. sent \in Seq(A) /\ sent \in Seq(Packets) /\ sent \in Seq(Nat) /\ Len(sent) \in Nat
    <3>1. sent \in Seq(A)
      BY <2>1, <2>5, SeqWiden
    <3>2. sent \in Seq(Packets)
      BY <3>1, SeqWiden
    <3> QED BY <3>1, <3>2
  <2>7. s.sorted \in Seq(A) /\ s.sorted \in Seq(Packets) /\ Len(s.sorted) \in Nat
    BY DEF Sound, SorterOK
  <2>8. SorterOK(e)
    <3>1. e.packet_queue \in [Held(e) -> 0 .. Deadline]
      BY <2>3 DEF Sound, SorterOK, HeldFrom
    <3>2. e.sorted \in Seq(Packets) /\ Len(e.sorted) <= Capacity
      <4>1. Len(e.sorted) = Len(s.sorted) + Len(sent)
        BY <2>3, <2>6, <2>7
      <4>2. e.sorted \in Seq(Packets)
        BY <2>3, <2>6, <2>7
      <4> QED BY <1>1, <2>1, <2>6, <2>7, <4>1, <4>2
    <3>3. Held(e) \subseteq Packets /\ e.next_seq \in 0 .. MaxSeq + 1
      BY <1>1, <2>3, <2>4 DEF HeldFrom
    <3>4. e.deadline_timer \in {Never} \cup 0 .. Deadline
      BY <1>1, <2>3
    <3> QED BY <2>3, <3>1, <3>2, <3>3, <3>4 DEF SorterOK
  <2>9. InOrderAfter(t, e)
    <3>0. \A i \in 1 .. Len(sent) : sent[i] = s.next_seq + i - 1 /\ sent[i] <= gap - 1
      <4>1. \A i \in 1 .. Len(sent) : sent[i] \in s.next_seq .. (gap - 1)
        BY <2>1, ElementOfSeq
      <4> QED BY <1>1, <2>1, <2>4, <4>1
    <3>1. PICK r \in Seq(Nat) : r = t \o s.sorted
      <4>1. t \o s.sorted \in Seq(Packets)
        BY <2>7
      <4>2. t \o s.sorted \in Seq(Nat)
        BY <1>1, <4>1, SeqWiden
      <4> QED BY <4>2
    <3>2. Increasing(sent)
      BY <1>1, <2>6, <3>0 DEF Increasing
    <3>3. \A i \in 1 .. Len(sent) : s.next_seq <= sent[i] /\ sent[i] < gap
      BY <1>1, <2>4, <2>6, <3>0
    <3>4. Increasing(r) /\ \A i \in 1 .. Len(r) : r[i] < s.next_seq
      BY <3>1 DEF Sound, InOrderAfter
    <3>5. Increasing(r \o sent) /\ \A i \in 1 .. Len(r \o sent) : (r \o sent)[i] < gap
      <4>1. s.next_seq \in Nat /\ gap \in Nat /\ s.next_seq <= gap
        BY <1>1, <2>4
      <4> QED BY <2>6, <3>2, <3>3, <3>4, <4>1, IncreasingConcat
    <3>6. r \o sent = t \o e.sorted
      <4>1. (t \o s.sorted) \o sent = t \o (s.sorted \o sent)
        <5>1. t \in Seq(Packets) /\ s.sorted \in Seq(Packets) /\ sent \in Seq(Packets)
          BY <2>6, <2>7
        <5> QED BY <5>1, Regroup, Zenon
      <4> QED BY <2>3, <3>1, <4>1
    <3> QED BY <2>3, <3>5, <3>6 DEF InOrderAfter
  <2>10. Sound(e, t, A)
    <3>1. e.sorted \in Seq(A)
      BY <2>3, <2>6, <2>7
    <3>2. Held(e) \subseteq A /\ \A k \in Held(e) : k >= e.next_seq
      BY <2>3 DEF Sound, HeldFrom
    <3> QED BY <2>8, <2>9, <3>1, <3>2 DEF Sound
  <2>11. e.next_seq >= s.next_seq /\ e.next_seq \notin Held(e)
    BY <1>1, <2>1, <2>3, <2>4 DEF HeldFrom
  <2> QED BY <2>2, <2>3, <2>10, <2>11
<1> QED BY <1>2, <1>3

(* A sorter changed in its timer or, with nothing held below it, in         *)
(* next_seq stays sound.                                                    *)
LEMMA TimerSound ==
    ASSUME NEW A, NEW t, NEW s, Sound(s, t, A), NEW d \in {Never} \cup 0 .. Deadline
    PROVE  /\ Sound([s EXCEPT !.deadline_timer = d], t, A)
           /\ [s EXCEPT !.deadline_timer = d].next_seq = s.next_seq
           /\ [s EXCEPT !.deadline_timer = d].deadline_timer = d
           /\ Held([s EXCEPT !.deadline_timer = d]) = Held(s)
BY DEF Sound, SorterOK, InOrderAfter, Held

LEMMA TimerStops ==
    ASSUME NEW A, NEW t, NEW s, Sound(s, t, A)
    PROVE  /\ Sound([s EXCEPT !.deadline_timer = Never], t, A)
           /\ [s EXCEPT !.deadline_timer = Never].next_seq = s.next_seq
           /\ Held([s EXCEPT !.deadline_timer = Never]) = Held(s)
BY DEF Sound, SorterOK, InOrderAfter, Held

(* advance_queue moves next_seq to the first held packet, or short of it.   *)
LEMMA SkipSound ==
    ASSUME NEW A, NEW t \in Seq(Packets), NEW s, Sound(s, t, A),
           NEW n \in s.next_seq .. MaxSeq + 1, \A k \in Held(s) : k >= n
    PROVE  /\ Sound([s EXCEPT !.next_seq = n], t, A)
           /\ [s EXCEPT !.next_seq = n].next_seq = n
           /\ Held([s EXCEPT !.next_seq = n]) = Held(s)
<1>1. s.next_seq \in 0 .. MaxSeq + 1 /\ MaxSeq \in Nat
  BY ConstantsTyped DEF Sound, SorterOK
<1>2. SorterOK([s EXCEPT !.next_seq = n])
  BY <1>1 DEF Sound, SorterOK, Held
<1>3. InOrderAfter(t, [s EXCEPT !.next_seq = n])
  <2>1. t \o s.sorted \in Seq(Packets)
    BY DEF Sound, SorterOK
  <2>2. \A i \in 1 .. Len(t \o s.sorted) : (t \o s.sorted)[i] \in 0 .. MaxSeq
    BY <2>1, ElementOfSeq DEF Packets
  <2>3. [s EXCEPT !.next_seq = n].sorted = s.sorted /\ [s EXCEPT !.next_seq = n].next_seq = n
    BY DEF Sound, SorterOK
  <2>4. \A i \in 1 .. Len(t \o s.sorted) : (t \o s.sorted)[i] < n
    BY <1>1, <2>2 DEF Sound, InOrderAfter
  <2> QED BY <2>3, <2>4 DEF Sound, InOrderAfter
<1> QED BY <1>2, <1>3 DEF Sound, SorterOK, Held

(* advance_queue passes a gap: the timer is off only if nothing is held.    *)
LEMMA AdvanceQueueSound ==
    ASSUME NEW A \in SUBSET Packets, NEW t \in Seq(Packets), NEW s, Sound(s, t, A)
    PROVE  /\ Sound(AdvanceQueue(s), t, A)
           /\ AdvanceQueue(s).next_seq >= s.next_seq
           /\ AdvanceQueue(s).next_seq \notin Held(AdvanceQueue(s))
           /\ Held(AdvanceQueue(s)) = HeldFrom(s, AdvanceQueue(s).next_seq)
           /\ Held(AdvanceQueue(s)) # {} => AdvanceQueue(s).deadline_timer # Never
<1>1. /\ Held(s) \in SUBSET Nat /\ Held(s) \subseteq 0 .. MaxSeq
      /\ s.next_seq \in Nat /\ MaxSeq \in Nat /\ Deadline \in Nat
      /\ Held(s) = DOMAIN s.packet_queue
  BY ConstantsTyped DEF Sound, SorterOK, Packets, Held
<1>2. CASE Held(s) = {}
  <2>1. AdvanceQueue(s) = [s EXCEPT !.deadline_timer = Never]
    BY <1>2 DEF AdvanceQueue
  <2>2. /\ Sound(AdvanceQueue(s), t, A)
        /\ AdvanceQueue(s).next_seq = s.next_seq
        /\ Held(AdvanceQueue(s)) = {}
    <3>1. Never \in {Never} \cup 0 .. Deadline
      OBVIOUS
    <3>2. Sound(s, t, A)
      OBVIOUS
    <3>3. /\ Sound([s EXCEPT !.deadline_timer = Never], t, A)
          /\ [s EXCEPT !.deadline_timer = Never].next_seq = s.next_seq
          /\ Held([s EXCEPT !.deadline_timer = Never]) = Held(s)
      BY <3>2, TimerStops
    <3> QED BY <1>2, <2>1, <3>3
  <2>3. HeldFrom(s, s.next_seq) = {}
    BY <1>2 DEF HeldFrom
  <2> QED BY <1>1, <2>2, <2>3
<1>3. CASE Held(s) # {}
  <2>1. PICK n : n = FirstKey(s.packet_queue)
    OBVIOUS
  <2>2. n \in Held(s) /\ \A k \in Held(s) : n <= k
    BY <1>1, <1>3, <2>1, FirstKeyIsLeast
  <2>3. n \in s.next_seq .. MaxSeq + 1 /\ \A k \in Held(s) : k >= n
    BY <1>1, <2>2 DEF Sound
  <2>4. PICK u : u = [s EXCEPT !.next_seq = n]
    OBVIOUS
  <2>5. Sound(u, t, A) /\ u.next_seq = n /\ Held(u) = Held(s)
    BY <2>3, <2>4, SkipSound
  <2>6. PICK e : e = EnqueueSorted(u)
    OBVIOUS
  <2>7. /\ Sound(e, t, A)
        /\ e.next_seq >= n
        /\ e.next_seq \notin Held(e)
        /\ Held(e) = HeldFrom(u, e.next_seq)
    BY <2>5, <2>6, EnqueueSortedSound
  <2>8. Held(e) = HeldFrom(s, e.next_seq)
    BY <2>5, <2>7 DEF HeldFrom
  <2>9. PICK d : d = IF Held(e) = {} THEN Never
                     ELSE Deadline - e.packet_queue[FirstKey(e.packet_queue)]
    OBVIOUS
  <2>10. AdvanceQueue(s) = [e EXCEPT !.deadline_timer = d]
    BY <1>3, <2>1, <2>4, <2>6, <2>9 DEF AdvanceQueue
  <2>11. d \in {Never} \cup 0 .. Deadline /\ (Held(e) # {} => d # Never)
    <3>1. CASE Held(e) = {}
      BY <2>9, <3>1
    <3>2. CASE Held(e) # {}
      <4>1. DOMAIN e.packet_queue = Held(e) /\ Held(e) \in SUBSET Nat
        BY <1>1, <2>8 DEF Held, HeldFrom
      <4>2. FirstKey(e.packet_queue) \in Held(e)
        BY <3>2, <4>1, FirstKeyIsLeast
      <4>3. e.packet_queue[FirstKey(e.packet_queue)] \in 0 .. Deadline
        BY <2>7, <4>2 DEF Sound, SorterOK
      <4> QED BY <1>1, <2>9, <3>2, <4>3 DEF Never
    <3> QED BY <3>1, <3>2
  <2>12. /\ Sound(AdvanceQueue(s), t, A)
         /\ AdvanceQueue(s).next_seq = e.next_seq
         /\ AdvanceQueue(s).deadline_timer = d
         /\ Held(AdvanceQueue(s)) = Held(e)
    BY <2>7, <2>10, <2>11, TimerSound
  <2>13. e.next_seq >= s.next_seq
    <3>1. e.next_seq \in Nat
      BY <1>1, <2>7 DEF Sound, SorterOK
    <3> QED BY <1>1, <2>3, <2>7, <3>1
  <2> QED BY <2>7, <2>8, <2>11, <2>12, <2>13
<1> QED BY <1>2, <1>3

(* The sorter r is s with the packet seq in its queue. *)
Joins(r, s, seq, t, B) ==
    Sound(r, t, B) /\ r.next_seq = s.next_seq /\ Held(r) = Held(s) \cup {seq}

(* entry(seq).or_insert: a packet at or above next_seq joins the queue. *)
LEMMA QueueSound ==
    ASSUME NEW A \in SUBSET Packets, NEW t \in Seq(Packets), NEW s, Sound(s, t, A),
           NEW seq \in Packets, s.next_seq <= seq,
           NEW B, B = A \cup {seq}, NEW r, r = Queue(s, seq)
    PROVE  Joins(r, s, seq, t, B)
<1> DEFINE q == [k \in Held(s) \cup {seq} |-> IF k \in Held(s) THEN s.packet_queue[k] ELSE 0]
<1>1. q \in [Held(s) \cup {seq} -> 0 .. Deadline]
  BY ConstantsTyped DEF Sound, SorterOK
<1>2. r = [s EXCEPT !.packet_queue = q]
  BY DEF Queue
<1>3. DOMAIN q = Held(s) \cup {seq}
  OBVIOUS
<1> HIDE DEF q
<1>4. r = [packet_queue |-> q, next_seq |-> s.next_seq,
           deadline_timer |-> s.deadline_timer, sorted |-> s.sorted]
  BY <1>2 DEF Sound, SorterOK
<1>5. Held(r) = Held(s) \cup {seq}
  BY <1>3, <1>4 DEF Held
<1>6. s.sorted \in Seq(B)
  BY SeqWiden DEF Sound
<1>7. SorterOK(r)
  BY <1>1, <1>4, <1>5 DEF Sound, SorterOK
<1>8. InOrderAfter(t, r)
  BY <1>4 DEF Sound, InOrderAfter
<1> QED BY <1>4, <1>5, <1>6, <1>7, <1>8 DEF Joins, Sound

(* Between two events a sorter holds exactly the arrived packets it has not *)
(* passed, none of them is next, and a timer runs while it holds any.       *)
Settled(s, t, A) ==
    /\ Sound(s, t, A)
    /\ s.next_seq \notin Held(s)
    /\ Held(s) = {k \in A : k >= s.next_seq}
    /\ Held(s) # {} => s.deadline_timer # Never

(* Passing more of the arrived packets leaves those above.                  *)
LEMMA HeldFromAbove ==
    ASSUME NEW A \in SUBSET Nat, NEW n \in Nat, NEW m \in Nat, m >= n,
           NEW s, Held(s) = {k \in A : k >= n}
    PROVE  HeldFrom(s, m) = {k \in A : k >= m}
<1>1. \A k \in A : k \in Nat /\ (k >= m => k >= n)
  OBVIOUS
<1>2. \A k : k \in Held(s) <=> k \in A /\ k >= n
  OBVIOUS
<1> QED BY <1>1, <1>2 DEF HeldFrom

(* await_deadline or a large jump advances the queue: the sorter settles.   *)
LEMMA AdvanceQueueSettled ==
    ASSUME NEW A \in SUBSET Packets, NEW t \in Seq(Packets), NEW s, Sound(s, t, A),
           Held(s) = {k \in A : k >= s.next_seq}
    PROVE  Settled(AdvanceQueue(s), t, A) /\ AdvanceQueue(s).next_seq >= s.next_seq
<1>1. PICK a : a = AdvanceQueue(s)
  OBVIOUS
<1>2. /\ Sound(a, t, A)
      /\ a.next_seq >= s.next_seq
      /\ a.next_seq \notin Held(a)
      /\ Held(a) = HeldFrom(s, a.next_seq)
      /\ Held(a) # {} => a.deadline_timer # Never
  BY <1>1, AdvanceQueueSound
<1>3. a.next_seq \in Nat /\ s.next_seq \in Nat /\ A \in SUBSET Nat
  BY <1>2, ConstantsTyped DEF Sound, SorterOK, Packets
<1>4. Held(a) = {k \in A : k >= a.next_seq}
  BY <1>2, <1>3, HeldFromAbove
<1> QED BY <1>1, <1>2, <1>4 DEF Settled

(* insert_packet settles the sorter again, whether the packet is late, a    *)
(* duplicate, next, beyond a gap or a large jump away.                      *)
LEMMA InsertPacketSettled ==
    ASSUME NEW A \in SUBSET Packets, NEW t \in Seq(Packets), NEW s, Settled(s, t, A),
           NEW seq \in Packets
    PROVE  Settled(InsertPacket(s, seq), t, A \cup {seq})
<1>1. /\ A \cup {seq} \in SUBSET Packets /\ A \cup {seq} \in SUBSET Nat
      /\ seq \in Nat /\ s.next_seq \in Nat /\ Deadline \in Nat
  BY ConstantsTyped DEF Settled, Sound, SorterOK, Packets
<1>2. CASE seq < s.next_seq
  <2>1. InsertPacket(s, seq) = s
    BY <1>2 DEF InsertPacket
  <2>2. {k \in A \cup {seq} : k >= s.next_seq} = {k \in A : k >= s.next_seq}
    BY <1>1, <1>2
  <2>3. s.sorted \in Seq(A \cup {seq})
    BY SeqWiden DEF Settled, Sound
  <2> QED BY <2>1, <2>2, <2>3 DEF Settled, Sound
<1>3. CASE ~(seq < s.next_seq)
  <2>0. PICK B : B = A \cup {seq}
    OBVIOUS
  <2>1. PICK q : q = Queue(s, seq)
    OBVIOUS
  <2>2. /\ Sound(q, t, B)
        /\ q.next_seq = s.next_seq
        /\ Held(q) = Held(s) \cup {seq}
    <3>1. Sound(s, t, A) /\ s.next_seq <= seq
      BY <1>1, <1>3 DEF Settled
    <3>2. Joins(q, s, seq, t, B)
      BY <2>0, <2>1, <3>1, QueueSound
    <3> QED BY <3>2 DEF Joins
  <2>3. Held(q) = {k \in B : k >= q.next_seq}
    BY <1>1, <1>3, <2>0, <2>2 DEF Settled
  <2>4. PICK a : a = IF IsJump(s, seq) THEN AdvanceQueue(q) ELSE q
    OBVIOUS
  <2>5. Sound(a, t, B) /\ Held(a) = {k \in B : k >= a.next_seq}
    <3>1. CASE IsJump(s, seq)
      <4>1. B \in SUBSET Packets
        BY <1>1, <2>0
      <4>2. Settled(AdvanceQueue(q), t, B)
        BY <2>2, <2>3, <4>1, AdvanceQueueSettled
      <4> QED BY <2>4, <3>1, <4>2 DEF Settled
    <3>2. CASE ~IsJump(s, seq)
      BY <2>2, <2>3, <2>4, <3>2
    <3> QED BY <3>1, <3>2
  <2>6. PICK e : e = EnqueueSorted(a)
    OBVIOUS
  <2>7. /\ Sound(e, t, B)
        /\ e.next_seq >= a.next_seq
        /\ e.next_seq \notin Held(e)
        /\ Held(e) = HeldFrom(a, e.next_seq)
    BY <1>1, <2>0, <2>5, <2>6, EnqueueSortedSound
  <2>8. Held(e) = {k \in B : k >= e.next_seq}
    <3>1. a.next_seq \in Nat /\ e.next_seq \in Nat
      BY <2>5, <2>7, ConstantsTyped DEF Sound, SorterOK
    <3> QED BY <1>1, <2>0, <2>5, <2>7, <3>1, HeldFromAbove
  <2>9. InsertPacket(s, seq) = ArmTimer(e)
    BY <1>3, <2>1, <2>4, <2>6 DEF InsertPacket
  <2>10. CASE e.deadline_timer = Never
    <3>1. InsertPacket(s, seq) = [e EXCEPT !.deadline_timer = Deadline]
      BY <2>9, <2>10 DEF ArmTimer
    <3>2. Deadline \in {Never} \cup 0 .. Deadline /\ Deadline # Never
      BY <1>1 DEF Never
    <3>3. /\ Sound([e EXCEPT !.deadline_timer = Deadline], t, B)
          /\ [e EXCEPT !.deadline_timer = Deadline].next_seq = e.next_seq
          /\ [e EXCEPT !.deadline_timer = Deadline].deadline_timer = Deadline
          /\ Held([e EXCEPT !.deadline_timer = Deadline]) = Held(e)
      BY <2>7, <3>2, TimerSound
    <3> QED BY <2>0, <2>7, <2>8, <3>1, <3>2, <3>3 DEF Settled
  <2>11. CASE e.deadline_timer # Never
    <3>1. InsertPacket(s, seq) = e
      BY <2>9, <2>11 DEF ArmTimer
    <3> QED BY <2>0, <2>7, <2>8, <2>11, <3>1 DEF Settled
  <2> QED BY <2>10, <2>11
<1> QED BY <1>2, <1>3

(* PacketSorter::new: an empty sorter is settled. *)
LEMMA NewSettled == Settled(New, <<>>, {})
<1>1. PICK s : s = New
  OBVIOUS
<1>2. /\ s = [packet_queue |-> s.packet_queue, next_seq |-> s.next_seq,
              deadline_timer |-> s.deadline_timer, sorted |-> s.sorted]
      /\ s.packet_queue = <<>> /\ s.next_seq = 0 /\ s.deadline_timer = Deadline
      /\ s.sorted = <<>>
  BY <1>1 DEF New
<1>3. Held(s) = {} /\ s.packet_queue \in [{} -> 0 .. Deadline]
  <2>1. <<>> \in [{} -> 0 .. Deadline]
    OBVIOUS
  <2> QED BY <1>2, <2>1 DEF Held
<1>4. SorterOK(s)
  BY <1>2, <1>3, ConstantsTyped DEF SorterOK
<1>5. InOrderAfter(<<>>, s)
  BY <1>2 DEF InOrderAfter, Increasing
<1>6. Settled(s, <<>>, {})
  BY <1>2, <1>3, <1>4, <1>5, ConstantsTyped DEF Settled, Sound, Never
<1> QED BY <1>1, <1>6

(* await_deadline consumes the timer, and the queue advances.               *)
LEMMA DeadlineSettled ==
    ASSUME NEW A \in SUBSET Packets, NEW t \in Seq(Packets), NEW s, Settled(s, t, A)
    PROVE  Settled(AdvanceQueue([s EXCEPT !.deadline_timer = Never]), t, A)
<1>1. PICK r : r = [s EXCEPT !.deadline_timer = Never]
  OBVIOUS
<1>2. Sound(r, t, A) /\ r.next_seq = s.next_seq /\ Held(r) = Held(s)
  <2>1. Never \in {Never} \cup 0 .. Deadline /\ Sound(s, t, A)
    BY DEF Settled
  <2> QED BY <1>1, <2>1, TimerSound
<1>3. Held(r) = {k \in A : k >= r.next_seq}
  BY <1>2 DEF Settled
<1> QED BY <1>1, <1>2, <1>3, AdvanceQueueSettled

(* Time passes: the timer and the ages stay in range. *)
LEMMA TickSettled ==
    ASSUME NEW A, NEW t, NEW s, Settled(s, t, A)
    PROVE  Settled(Tick(s), t, A)
<1> DEFINE d == IF s.deadline_timer > 0 THEN s.deadline_timer - 1 ELSE s.deadline_timer
           q == [k \in Held(s) |-> Min({Deadline, s.packet_queue[k] + 1})]
<1>1. Deadline \in Nat
  BY ConstantsTyped
<1>2. Tick(s) = [packet_queue |-> q, next_seq |-> s.next_seq,
                 deadline_timer |-> d, sorted |-> s.sorted]
  <2>1. s = [packet_queue |-> s.packet_queue, next_seq |-> s.next_seq,
             deadline_timer |-> s.deadline_timer, sorted |-> s.sorted]
    BY DEF Settled, Sound, SorterOK
  <2>2. Tick(s) = [s EXCEPT !.deadline_timer = d, !.packet_queue = q]
    BY DEF Tick
  <2> HIDE DEF d, q
  <2> QED BY <2>1, <2>2
<1>3. d \in {Never} \cup 0 .. Deadline /\ (s.deadline_timer # Never => d # Never)
  BY <1>1 DEF Settled, Sound, SorterOK, Never
<1>4. q \in [Held(s) -> 0 .. Deadline]
  <2>1. \A k \in Held(s) : s.packet_queue[k] + 1 \in Nat
    BY <1>1 DEF Settled, Sound, SorterOK
  <2>2. \A k \in Held(s) : Min({Deadline, s.packet_queue[k] + 1}) \in 0 .. Deadline
    BY <1>1, <2>1, MinOfTwo
  <2> QED BY <2>2
<1>5. DOMAIN q = Held(s)
  OBVIOUS
<1> HIDE DEF d, q
<1>6. PICK u : u = Tick(s)
  OBVIOUS
<1>7. /\ u.packet_queue = q /\ u.next_seq = s.next_seq
      /\ u.deadline_timer = d /\ u.sorted = s.sorted
      /\ u = [packet_queue |-> u.packet_queue, next_seq |-> u.next_seq,
              deadline_timer |-> u.deadline_timer, sorted |-> u.sorted]
      /\ Held(u) = Held(s)
  BY <1>2, <1>5, <1>6 DEF Held
<1>8. SorterOK(u)
  BY <1>3, <1>4, <1>7 DEF Settled, Sound, SorterOK
<1>9. InOrderAfter(t, u)
  BY <1>7 DEF Settled, Sound, InOrderAfter
<1> QED BY <1>3, <1>6, <1>7, <1>8, <1>9 DEF Settled, Sound

-----------------------------------------------------------------------------
(* The receive path.                                                        *)

(* The inductive invariant: after every event the sorter is settled, behind *)
(* what the TUN device has and out of what arrived.                         *)
IInv ==
    /\ arrived \in SUBSET Packets
    /\ tun \in Seq(Packets)
    /\ Settled(sorter, tun, arrived)

(* PacketSorter::new: nothing is released, nothing arrived.                 *)
LEMMA InitIInv == Init => IInv
BY NewSettled DEF Init, IInv

(* The oldest released packet moves to the TUN device: what is released     *)
(* does not change.                                                         *)
LEMMA ForwardSortedSettled ==
    ASSUME IInv, ForwardSorted
    PROVE  /\ IInv'
           /\ Head(sorter.sorted) \in arrived
           /\ \A i \in 1 .. Len(tun) : tun[i] < Head(sorter.sorted)
<1> DEFINE h == Head(sorter.sorted)
<1>1. /\ sorter.sorted \in Seq(arrived) /\ sorter.sorted \in Seq(Packets)
      /\ sorter.sorted # <<>> /\ tun \in Seq(Packets)
      /\ arrived \in SUBSET Packets
      /\ Len(sorter.sorted) <= Capacity
  BY DEF IInv, Settled, Sound, SorterOK, ForwardSorted
<1>2. /\ tun' = Append(tun, h)
      /\ sorter' = [sorter EXCEPT !.sorted = Tail(@)]
      /\ arrived' = arrived
  BY DEF ForwardSorted
<1>3. /\ sorter'.packet_queue = sorter.packet_queue
      /\ sorter'.next_seq = sorter.next_seq
      /\ sorter'.deadline_timer = sorter.deadline_timer
      /\ sorter'.sorted = Tail(sorter.sorted)
      /\ sorter' = [packet_queue |-> sorter'.packet_queue, next_seq |-> sorter'.next_seq,
                    deadline_timer |-> sorter'.deadline_timer, sorted |-> sorter'.sorted]
      /\ Held(sorter') = Held(sorter)
  BY <1>2 DEF IInv, Settled, Sound, SorterOK, Held
<1>4. h \in arrived /\ h \in Packets
  BY <1>1
<1>5. tun' \in Seq(Packets)
  BY <1>1, <1>2, <1>4
<1>6. /\ Tail(sorter.sorted) \in Seq(arrived) /\ Tail(sorter.sorted) \in Seq(Packets)
      /\ Len(Tail(sorter.sorted)) <= Capacity
  <2>1. Len(Tail(sorter.sorted)) = Len(sorter.sorted) - 1
    BY <1>1
  <2>2. Tail(sorter.sorted) \in Seq(arrived) /\ Tail(sorter.sorted) \in Seq(Packets)
    BY <1>1
  <2> QED BY <1>1, <2>1, <2>2, ConstantsTyped
<1>7. tun' \o sorter'.sorted = tun \o sorter.sorted
  <2>1. \A x, y \in Seq(Packets) : y # <<>> => Append(x, Head(y)) \o Tail(y) = x \o y
    OBVIOUS
  <2> QED BY <1>1, <1>2, <1>3, <2>1
<1>8. InOrderAfter(tun', sorter')
  BY <1>3, <1>7 DEF IInv, Settled, Sound, InOrderAfter
<1>9. SorterOK(sorter')
  BY <1>3, <1>6 DEF IInv, Settled, Sound, SorterOK
<1>10. Settled(sorter', tun', arrived')
  BY <1>2, <1>3, <1>6, <1>8, <1>9 DEF IInv, Settled, Sound
<1>11. \A i \in 1 .. Len(tun) : tun[i] < h
  <2>1. ASSUME NEW i \in 1 .. Len(tun) PROVE tun[i] < h
    <3>1. /\ Len(tun) + 1 \in 1 .. Len(tun \o sorter.sorted)
          /\ i \in 1 .. Len(tun \o sorter.sorted)
          /\ i < Len(tun) + 1
          /\ (tun \o sorter.sorted)[i] = tun[i]
          /\ (tun \o sorter.sorted)[Len(tun) + 1] = h
      BY <1>1
    <3>2. Increasing(tun \o sorter.sorted)
      BY DEF IInv, Settled, Sound, InOrderAfter
    <3> QED BY <3>1, <3>2 DEF Increasing
  <2> QED BY <2>1
<1> QED BY <1>1, <1>2, <1>4, <1>5, <1>10, <1>11 DEF IInv

(* Every event of the loop leaves the sorter settled. *)
LEMMA NextIInv == IInv /\ [Next]_vars => IInv'
<1> SUFFICES ASSUME IInv, [Next]_vars PROVE IInv'
  OBVIOUS
<1>1. arrived \in SUBSET Packets /\ tun \in Seq(Packets) /\ Settled(sorter, tun, arrived)
  BY DEF IInv
<1>2. ASSUME NEW seq \in Packets, ReceivePacket(seq) PROVE IInv'
  <2>1. sorter' = InsertPacket(sorter, seq) /\ arrived' = arrived \cup {seq} /\ tun' = tun
    BY <1>2 DEF ReceivePacket
  <2>2. Settled(InsertPacket(sorter, seq), tun, arrived \cup {seq})
    BY <1>1, InsertPacketSettled
  <2> QED BY <1>1, <2>1, <2>2 DEF IInv
<1>3. ASSUME HandleDeadline PROVE IInv'
  <2>1. /\ sorter' = AdvanceQueue([sorter EXCEPT !.deadline_timer = Never])
        /\ arrived' = arrived /\ tun' = tun
    BY <1>3 DEF HandleDeadline
  <2>2. Settled(AdvanceQueue([sorter EXCEPT !.deadline_timer = Never]), tun, arrived)
    BY <1>1, DeadlineSettled
  <2> QED BY <1>1, <2>1, <2>2 DEF IInv
<1>4. ASSUME ForwardSorted PROVE IInv'
  BY <1>4, ForwardSortedSettled
<1>5. ASSUME PassTime PROVE IInv'
  BY <1>1, <1>5, TickSettled DEF PassTime, IInv
<1>6. ASSUME ForwardPanics PROVE IInv'
  BY <1>1, <1>6 DEF ForwardPanics, IInv
<1>7. CASE UNCHANGED vars
  BY <1>1, <1>7 DEF vars, IInv
<1> QED BY <1>2, <1>3, <1>4, <1>5, <1>6, <1>7 DEF Next

-----------------------------------------------------------------------------
(* What a drain skips and what it loses.                                    *)

(* enqueue_sorted_packets moves next_seq over held packets only.            *)
LEMMA EnqueueSortedSkipsNone ==
    ASSUME NEW A \in SUBSET Packets, NEW t \in Seq(Packets), NEW s, Sound(s, t, A)
    PROVE  s.next_seq .. (EnqueueSorted(s).next_seq - 1) \subseteq Held(s)
<1>1. /\ Held(s) \in SUBSET Nat /\ s.next_seq \in Nat /\ Held(s) = DOMAIN s.packet_queue
  BY ConstantsTyped DEF Sound, SorterOK, Packets, Held
<1>2. CASE s.next_seq \notin Held(s)
  <2>1. Held(s) = {} \/ FirstKey(s.packet_queue) # s.next_seq
    BY <1>1, <1>2, FirstKeyIsLeast
  <2>2. EnqueueSorted(s) = s
    BY <2>1 DEF EnqueueSorted
  <2> QED BY <1>1, <2>2
<1>3. CASE s.next_seq \in Held(s)
  BY <1>3, EnqueueSortedResult DEF Sound
<1> QED BY <1>2, <1>3

(* From s to e nothing was lost unless the channel is full: what the        *)
(* channel had it still has, and what was held is held or in the channel.   *)
Keeps(s, e) ==
    /\ Len(s.sorted) <= Len(e.sorted)
    /\ \A i \in 1 .. Len(s.sorted) : e.sorted[i] = s.sorted[i]
    /\ \A k \in Held(s) :
        \/ k \in Held(e)
        \/ \E i \in 1 .. Len(e.sorted) : e.sorted[i] = k
        \/ Len(e.sorted) = Capacity

LEMMA KeepsTwice ==
    ASSUME NEW r, NEW s, NEW e, SorterOK(r), SorterOK(s), SorterOK(e), Keeps(r, s), Keeps(s, e)
    PROVE  Keeps(r, e)
<1>1. /\ Len(r.sorted) \in Nat /\ Len(s.sorted) \in Nat /\ Len(e.sorted) \in Nat
      /\ Len(e.sorted) <= Capacity /\ Capacity \in Nat
  BY ConstantsTyped DEF SorterOK
<1>2. ASSUME NEW k \in Held(r)
      PROVE  \/ k \in Held(e)
             \/ \E i \in 1 .. Len(e.sorted) : e.sorted[i] = k
             \/ Len(e.sorted) = Capacity
  <2>1. CASE k \in Held(s)
    BY <2>1 DEF Keeps
  <2>2. ASSUME NEW i \in 1 .. Len(s.sorted), s.sorted[i] = k
        PROVE  i \in 1 .. Len(e.sorted) /\ e.sorted[i] = k
    BY <1>1, <2>2 DEF Keeps
  <2>3. CASE Len(s.sorted) = Capacity
    BY <1>1, <2>3 DEF Keeps
  <2> QED BY <2>1, <2>2, <2>3 DEF Keeps
<1> QED BY <1>1, <1>2 DEF Keeps

(* enqueue_sorted_packets sends the run, or as much of it as there is room. *)
LEMMA EnqueueSortedKeeps ==
    ASSUME NEW A \in SUBSET Packets, NEW t \in Seq(Packets), NEW s, Sound(s, t, A)
    PROVE  Keeps(s, EnqueueSorted(s))
<1>1. /\ Held(s) \in SUBSET Nat /\ s.next_seq \in Nat /\ Held(s) = DOMAIN s.packet_queue
      /\ s.sorted \in Seq(Nat) /\ Len(s.sorted) \in Nat /\ Capacity \in Nat
  <2>1. s.sorted \in Seq(Packets) /\ Packets \subseteq Nat
    BY ConstantsTyped DEF Sound, SorterOK, Packets
  <2>2. s.sorted \in Seq(Nat)
    BY <2>1, SeqWiden
  <2> QED BY <2>2, ConstantsTyped DEF Sound, SorterOK, Packets, Held
<1>2. CASE s.next_seq \notin Held(s)
  <2>1. Held(s) = {} \/ FirstKey(s.packet_queue) # s.next_seq
    BY <1>1, <1>2, FirstKeyIsLeast
  <2>2. EnqueueSorted(s) = s
    BY <2>1 DEF EnqueueSorted
  <2> QED BY <1>1, <2>2 DEF Keeps
<1>3. CASE s.next_seq \in Held(s)
  <2>1. PICK gap \in s.next_seq + 1 .. MaxSeq + 1, sent \in Seq(Nat) :
              /\ Len(sent) \in {gap - s.next_seq, Capacity - Len(s.sorted)}
              /\ \A i \in 1 .. Len(sent) : sent[i] = s.next_seq + i - 1
              /\ EnqueueSorted(s) =
                    [packet_queue   |-> [k \in HeldFrom(s, gap) |-> s.packet_queue[k]],
                     next_seq       |-> gap,
                     deadline_timer |-> Deadline,
                     sorted         |-> s.sorted \o sent]
    BY <1>3, EnqueueSortedResult DEF Sound
  <2>2. PICK e : e = EnqueueSorted(s)
    OBVIOUS
  <2>3. e.sorted = s.sorted \o sent /\ Held(e) = HeldFrom(s, gap)
    BY <2>1, <2>2 DEF Held
  <2>4. /\ Len(e.sorted) = Len(s.sorted) + Len(sent) /\ Len(sent) \in Nat
        /\ \A i \in 1 .. Len(s.sorted) : e.sorted[i] = s.sorted[i]
        /\ \A i \in 1 .. Len(sent) : e.sorted[Len(s.sorted) + i] = sent[i]
    BY <1>1, <2>3
  <2>5. ASSUME NEW k \in Held(s), k \notin Held(e), Len(e.sorted) # Capacity
        PROVE  \E i \in 1 .. Len(e.sorted) : e.sorted[i] = k
    <3>1. gap \in Nat /\ k \in Nat /\ k >= s.next_seq /\ k < gap
      BY <1>1, <2>1, <2>3, <2>5 DEF HeldFrom, Sound
    <3>2. Len(sent) = gap - s.next_seq
      BY <1>1, <2>1, <2>4, <2>5
    <3>3. k - s.next_seq + 1 \in 1 .. Len(sent)
      <4>1. s.next_seq \in Nat
        BY <1>1
      <4> QED BY <3>1, <3>2, <4>1, PositionInRun
    <3>4. sent[k - s.next_seq + 1] = k
      <4>1. sent[k - s.next_seq + 1] = s.next_seq + (k - s.next_seq + 1) - 1
        BY <2>1, <3>3
      <4> QED BY <1>1, <3>1, <4>1
    <3>5. Len(s.sorted) + (k - s.next_seq + 1) \in 1 .. Len(e.sorted)
      <4>1. Len(s.sorted) \in Nat
        BY <1>1
      <4> QED BY <2>4, <3>3, <4>1, PositionBehind
    <3> QED BY <2>4, <3>3, <3>4, <3>5
  <2> QED BY <1>1, <2>2, <2>4, <2>5 DEF Keeps
<1> QED BY <1>2, <1>3

(* advance_queue gives up numbers that are not held.                        *)
LEMMA AdvanceQueueKeeps ==
    ASSUME NEW A \in SUBSET Packets, NEW t \in Seq(Packets), NEW s, Sound(s, t, A)
    PROVE  Keeps(s, AdvanceQueue(s))
<1>1. /\ Held(s) \in SUBSET Nat /\ Held(s) \subseteq 0 .. MaxSeq
      /\ s.next_seq \in Nat /\ MaxSeq \in Nat
      /\ Held(s) = DOMAIN s.packet_queue /\ Len(s.sorted) \in Nat
  BY ConstantsTyped DEF Sound, SorterOK, Packets, Held
<1>2. CASE Held(s) = {}
  <2>1. AdvanceQueue(s).sorted = s.sorted
    BY <1>2 DEF AdvanceQueue, Sound, SorterOK
  <2> QED BY <1>1, <1>2, <2>1 DEF Keeps
<1>3. CASE Held(s) # {}
  <2>1. PICK n : n = FirstKey(s.packet_queue)
    OBVIOUS
  <2>2. n \in Held(s) /\ \A k \in Held(s) : n <= k
    BY <1>1, <1>3, <2>1, FirstKeyIsLeast
  <2>3. n \in s.next_seq .. MaxSeq + 1 /\ \A k \in Held(s) : k >= n
    BY <1>1, <2>2 DEF Sound
  <2>4. PICK u : u = [s EXCEPT !.next_seq = n]
    OBVIOUS
  <2>5. Sound(u, t, A) /\ Held(u) = Held(s) /\ u.sorted = s.sorted
    BY <2>3, <2>4, SkipSound DEF Sound, SorterOK
  <2>6. PICK e : e = EnqueueSorted(u)
    OBVIOUS
  <2>7. Keeps(u, e) /\ Sound(e, t, A)
    BY <2>5, <2>6, EnqueueSortedKeeps, EnqueueSortedSound
  <2>8. PICK d : d = IF Held(e) = {} THEN Never
                     ELSE Deadline - e.packet_queue[FirstKey(e.packet_queue)]
    OBVIOUS
  <2>9. AdvanceQueue(s) = [e EXCEPT !.deadline_timer = d]
    BY <1>3, <2>1, <2>4, <2>6, <2>8 DEF AdvanceQueue
  <2>10. AdvanceQueue(s).sorted = e.sorted /\ Held(AdvanceQueue(s)) = Held(e)
    BY <2>7, <2>9 DEF Sound, SorterOK, Held
  <2> QED BY <2>5, <2>7, <2>10 DEF Keeps
<1> QED BY <1>2, <1>3

(* advance_queue passes, besides held numbers, only numbers below all held. *)
LEMMA AdvanceQueueSkips ==
    ASSUME NEW A \in SUBSET Packets, NEW t \in Seq(Packets), NEW s, Sound(s, t, A)
    PROVE  \A k \in s.next_seq .. (AdvanceQueue(s).next_seq - 1) :
                k \in Held(s) \/ (Held(s) # {} /\ \A j \in Held(s) : k < j)
<1>1. /\ Held(s) \in SUBSET Nat /\ Held(s) \subseteq 0 .. MaxSeq
      /\ s.next_seq \in Nat /\ MaxSeq \in Nat /\ Held(s) = DOMAIN s.packet_queue
  BY ConstantsTyped DEF Sound, SorterOK, Packets, Held
<1>2. CASE Held(s) = {}
  <2>1. AdvanceQueue(s).next_seq = s.next_seq
    BY <1>2 DEF AdvanceQueue, Sound, SorterOK
  <2> QED BY <1>1, <2>1
<1>3. CASE Held(s) # {}
  <2>1. PICK n : n = FirstKey(s.packet_queue)
    OBVIOUS
  <2>2. n \in Held(s) /\ \A k \in Held(s) : n <= k
    BY <1>1, <1>3, <2>1, FirstKeyIsLeast
  <2>3. n \in s.next_seq .. MaxSeq + 1 /\ \A k \in Held(s) : k >= n
    BY <1>1, <2>2 DEF Sound
  <2>4. PICK u : u = [s EXCEPT !.next_seq = n]
    OBVIOUS
  <2>5. Sound(u, t, A) /\ u.next_seq = n /\ Held(u) = Held(s)
    BY <2>3, <2>4, SkipSound
  <2>6. PICK e : e = EnqueueSorted(u)
    OBVIOUS
  <2>7. Sound(e, t, A) /\ n .. (e.next_seq - 1) \subseteq Held(s)
    BY <2>5, <2>6, EnqueueSortedSound, EnqueueSortedSkipsNone
  <2>8. AdvanceQueue(s).next_seq = e.next_seq
    BY <1>3, <2>1, <2>4, <2>6, <2>7 DEF AdvanceQueue, Sound, SorterOK
  <2>9. ASSUME NEW k \in s.next_seq .. (e.next_seq - 1), k \notin Held(s), NEW j \in Held(s)
        PROVE  k < j
    <3>1. e.next_seq \in Nat /\ n \in Nat /\ j \in Nat
      BY <1>1, <2>2, <2>7 DEF Sound, SorterOK
    <3> QED BY <1>1, <2>2, <2>7, <2>9, <3>1
  <2> QED BY <1>3, <2>8, <2>9
<1> QED BY <1>2, <1>3

(* last_entry() of a queue is its greatest key.                             *)
LEMMA LastKeyIsGreatest ==
    ASSUME NEW q, DOMAIN q \in SUBSET Packets, DOMAIN q # {}
    PROVE  LastKey(q) \in DOMAIN q /\ \A k \in DOMAIN q : k <= LastKey(q)
<1> DEFINE T == {MaxSeq - k : k \in DOMAIN q}
<1>1. MaxSeq \in Nat /\ DOMAIN q \subseteq 0 .. MaxSeq
  BY ConstantsTyped DEF Packets
<1>2. T \in SUBSET Nat /\ T # {}
  BY <1>1
<1>3. PICK m \in T : \A d \in T : m <= d
  BY <1>2, NatMin
<1>4. PICK k \in DOMAIN q : m = MaxSeq - k
  OBVIOUS
<1>5. \A x \in DOMAIN q : x <= k
  BY <1>1, <1>3, <1>4
<1> QED BY <1>5 DEF LastKey, Max

(* Inserting seq passes a number that never arrived only when seq is far    *)
(* above all that are held and was not there, and passes none above a held  *)
(* one; it loses nothing unless the channel is full.                        *)
FarAbove(s, seq) == \A j \in Held(s) : seq - j > JumpLimit

SkipsOnlyPast(s, seq, A, r) ==
    \A k \in s.next_seq .. (r.next_seq - 1) :
        k \notin A \cup {seq}
        => /\ Held(s) # {} /\ \A j \in Held(s) : k < j
           /\ seq \notin A /\ FarAbove(s, seq)

LosesOnlyWhenFull(s, seq, r) ==
    \A k : (k \in Held(s) \/ (k = seq /\ seq >= s.next_seq)) =>
            \/ k \in Held(r)
            \/ \E i \in 1 .. Len(r.sorted) : r.sorted[i] = k
            \/ Len(r.sorted) = Capacity

(* insert_packet skips numbers only on a jump, by a packet that was not     *)
(* there, and loses packets only to a full channel.                         *)
LEMMA InsertPacketEffect ==
    ASSUME NEW A \in SUBSET Packets, NEW t \in Seq(Packets), NEW s, Settled(s, t, A),
           NEW seq \in Packets, NEW r, r = InsertPacket(s, seq)
    PROVE  SkipsOnlyPast(s, seq, A, r) /\ LosesOnlyWhenFull(s, seq, r)
<1> USE DEF SkipsOnlyPast, LosesOnlyWhenFull
<1>1. /\ A \cup {seq} \in SUBSET Packets /\ Held(s) \in SUBSET Packets
      /\ seq \in Nat /\ s.next_seq \in Nat /\ JumpLimit \in Nat /\ A \in SUBSET Nat
  BY ConstantsTyped DEF Settled, Sound, SorterOK, Packets
<1>2. CASE seq < s.next_seq
  BY <1>1, <1>2 DEF InsertPacket
<1>3. CASE ~(seq < s.next_seq)
  <2>1. PICK B : B = A \cup {seq}
    OBVIOUS
  <2>2. PICK q : q = Queue(s, seq)
    OBVIOUS
  <2>3. PICK a : a = IF IsJump(s, seq) THEN AdvanceQueue(q) ELSE q
    OBVIOUS
  <2>4. PICK e : e = EnqueueSorted(a)
    OBVIOUS
  <2>5. Sound(q, t, B) /\ q.next_seq = s.next_seq /\ Held(q) = Held(s) \cup {seq}
    <3>1. Sound(s, t, A) /\ s.next_seq <= seq
      BY <1>1, <1>3 DEF Settled
    <3>2. Joins(q, s, seq, t, B)
      BY <2>1, <2>2, <3>1, QueueSound
    <3> QED BY <3>2 DEF Joins
  <2>6. Sound(a, t, B) /\ Keeps(q, a)
    <3>1. CASE IsJump(s, seq)
      <4>1. B \in SUBSET Packets
        BY <1>1, <2>1
      <4> QED BY <2>3, <2>5, <3>1, <4>1, AdvanceQueueSound, AdvanceQueueKeeps
    <3>2. CASE ~IsJump(s, seq)
      <4>1. Len(q.sorted) \in Nat
        BY <2>5 DEF Sound, SorterOK
      <4> QED BY <2>3, <2>5, <3>2, <4>1 DEF Keeps
    <3> QED BY <3>1, <3>2
  <2>7. Sound(e, t, B) /\ Keeps(a, e)
    BY <1>1, <2>1, <2>4, <2>6, EnqueueSortedSound, EnqueueSortedKeeps
  <2>8. Keeps(q, e)
    BY <2>5, <2>6, <2>7, KeepsTwice DEF Sound
  <2>10. r.next_seq = e.next_seq /\ Held(r) = Held(e) /\ r.sorted = e.sorted
    <3>1. r = ArmTimer(e)
      BY <1>3, <2>2, <2>3, <2>4 DEF InsertPacket
    <3> QED BY <2>7, <3>1 DEF ArmTimer, Held, Sound, SorterOK
  <2>11. CASE IsJump(s, seq)
    <3>0. FarAbove(s, seq)
      <4>1. /\ Held(s) # {} /\ seq - LastKey(s.packet_queue) > JumpLimit
            /\ Held(s) = DOMAIN s.packet_queue /\ Packets \subseteq Nat
        BY <2>11, ConstantsTyped DEF IsJump, Held, Packets
      <4>2. /\ LastKey(s.packet_queue) \in Nat
            /\ \A j \in Held(s) : j \in Nat /\ j <= LastKey(s.packet_queue)
        BY <1>1, <4>1, LastKeyIsGreatest
      <4> QED BY <1>1, <4>1, <4>2 DEF FarAbove
    <3>1. seq \notin A
      <4>1. /\ Held(s) # {} /\ seq - LastKey(s.packet_queue) > JumpLimit
            /\ Held(s) = DOMAIN s.packet_queue
        BY <2>11 DEF IsJump, Held
      <4>2. ASSUME seq \in Held(s) PROVE FALSE
        <5>1. seq <= LastKey(s.packet_queue) /\ LastKey(s.packet_queue) \in Nat
          <6>1. LastKey(s.packet_queue) \in Held(s)
            BY <1>1, <4>1, LastKeyIsGreatest
          <6>2. seq <= LastKey(s.packet_queue)
            BY <1>1, <4>1, <4>2, LastKeyIsGreatest
          <6>3. Packets \subseteq Nat
            BY ConstantsTyped DEF Packets
          <6> QED BY <1>1, <6>1, <6>2, <6>3
        <5> QED BY <1>1, <4>1, <5>1
      <4> QED BY <1>1, <1>3, <4>2 DEF Settled
    <3>2. ASSUME NEW k \in s.next_seq .. (r.next_seq - 1), k \notin A \cup {seq}
          PROVE  Held(s) # {} /\ \A j \in Held(s) : k < j
      <4>1. B \in SUBSET Packets /\ a = AdvanceQueue(q)
        BY <1>1, <2>1, <2>3, <2>11
      <4>2. k \notin Held(q) /\ k \notin Held(a)
        <5>1. Held(q) \subseteq B /\ Held(a) \subseteq B
          BY <2>5, <2>6 DEF Sound
        <5> QED BY <2>1, <3>2, <5>1
      <4>3. /\ k \in Nat /\ a.next_seq \in Nat /\ e.next_seq \in Nat
            /\ k \in q.next_seq .. (e.next_seq - 1)
        BY <1>1, <2>5, <2>6, <2>7, <2>10, ConstantsTyped DEF Sound, SorterOK
      <4>4. k \notin a.next_seq .. (e.next_seq - 1)
        BY <2>4, <2>6, <4>1, <4>2, EnqueueSortedSkipsNone
      <4>5. k \in q.next_seq .. (a.next_seq - 1)
        BY <1>1, <2>5, <4>3, <4>4
      <4>6. \A j \in Held(q) : k < j
        BY <2>5, <4>1, <4>2, <4>5, AdvanceQueueSkips
      <4>7. Held(s) # {}
        BY <2>11 DEF IsJump
      <4> QED BY <2>5, <4>6, <4>7
    <3> QED BY <2>5, <2>8, <2>10, <2>11, <3>0, <3>1, <3>2 DEF Keeps
  <2>12. CASE ~IsJump(s, seq)
    <3>1. q.next_seq .. (e.next_seq - 1) \subseteq Held(q)
      BY <1>1, <2>1, <2>3, <2>4, <2>5, <2>12, EnqueueSortedSkipsNone
    <3>2. Held(q) \subseteq A \cup {seq}
      BY <2>1, <2>5 DEF Sound
    <3> QED BY <2>5, <2>8, <2>10, <3>1, <3>2 DEF Keeps
  <2> QED BY <2>11, <2>12
<1> QED BY <1>2, <1>3

-----------------------------------------------------------------------------
(* The sorter is settled after every event of the loop. *)
LEMMA AlwaysSettled == Spec => []IInv
BY InitIInv, NextIInv, PTL DEF Spec

(* The sorter's fields, its bounded channel and the history keep their types. *)
THEOREM TypeCorrect == Spec => []TypeOK
<1> DEFINE Flag == panicked \in BOOLEAN
<1>1. Init => Flag
  BY Zenon DEF Init
<1>2. Flag /\ [Next]_vars => Flag'
  <2>1. [Next]_vars => panicked' = panicked \/ panicked' = TRUE
    BY Zenon DEF Next, ReceivePacket, HandleDeadline, ForwardSorted, ForwardPanics, PassTime, vars
  <2> QED BY <2>1, Zenon
<1>3. IInv /\ Flag => TypeOK
  <2>1. IInv => SorterOK(sorter) /\ tun \in Seq(Packets) /\ arrived \subseteq Packets
    BY DEF IInv, Settled, Sound
  <2> QED BY <2>1, Zenon DEF TypeOK
<1> QED BY <1>1, <1>2, <1>3, AlwaysSettled, PTL DEF Spec

(* No packet is released twice or behind a later one: next_seq is above     *)
(* everything released, and insert_packet refuses what is below next_seq.   *)
THEOREM ReleasedInOrder == Spec => []InOrder
<1>1. IInv => InOrder
  BY DEF IInv, Settled, Sound, InOrderAfter, InOrder, Released
<1> QED BY <1>1, AlwaysSettled, PTL

(* Between two events the queue holds exactly the arrived packets the       *)
(* sorter has not passed, and none of them could be released.               *)
THEOREM NothingReadyIsHeld == Spec => []HeldIsBlocked
<1>1. IInv => HeldIsBlocked
  BY DEF IInv, Settled, HeldIsBlocked
<1> QED BY <1>1, AlwaysSettled, PTL

(* insert_packet and advance_queue never leave a held packet without a      *)
(* deadline that will free it.                                              *)
THEOREM HeldPacketsHaveTimer == Spec => []HeldHasTimer
<1>1. IInv => HeldHasTimer
  BY DEF IInv, Settled, HeldHasTimer
<1> QED BY <1>1, AlwaysSettled, PTL

(* next_seq passes a number that never arrived only when the deadline       *)
(* expired or a packet far above all that are held came, and then only      *)
(* numbers below all that are held.                                         *)
THEOREM SkippingHasCause == Spec => SkipHasCause
<1> DEFINE Cause(k) == /\ Held(sorter) # {} /\ \A j \in Held(sorter) : k < j
                       /\ \/ sorter.deadline_timer = 0 /\ arrived' = arrived
                          \/ \E new \in arrived' \ arrived :
                                \A j \in Held(sorter) : new - j > JumpLimit
           Step == \A k \in sorter.next_seq .. sorter'.next_seq - 1 : k \notin arrived' => Cause(k)
<1>1. IInv /\ [Next]_vars => [Step]_vars
  <2> SUFFICES ASSUME IInv, Next, NEW k \in sorter.next_seq .. sorter'.next_seq - 1,
                      k \notin arrived'
               PROVE  Cause(k)
    OBVIOUS
  <2>1. ASSUME NEW seq \in Packets, ReceivePacket(seq) PROVE Cause(k)
    <3>1. sorter' = InsertPacket(sorter, seq) /\ arrived' = arrived \cup {seq}
      BY <2>1 DEF ReceivePacket
    <3>2. SkipsOnlyPast(sorter, seq, arrived, sorter')
      BY <3>1, InsertPacketEffect DEF IInv
    <3> QED BY <3>1, <3>2 DEF SkipsOnlyPast, FarAbove
  <2>2. ASSUME HandleDeadline PROVE Cause(k)
    <3>1. PICK s : s = [sorter EXCEPT !.deadline_timer = Never]
      OBVIOUS
    <3>2. sorter' = AdvanceQueue(s) /\ arrived' = arrived /\ sorter.deadline_timer = 0
      BY <2>2, <3>1 DEF HandleDeadline
    <3>3. Sound(s, tun, arrived) /\ s.next_seq = sorter.next_seq /\ Held(s) = Held(sorter)
      <4>1. Never \in {Never} \cup 0 .. Deadline /\ Sound(sorter, tun, arrived)
        BY DEF IInv, Settled
      <4> QED BY <3>1, <4>1, TimerSound
    <3>4. k \in Held(s) \/ (Held(s) # {} /\ \A j \in Held(s) : k < j)
      BY <3>2, <3>3, AdvanceQueueSkips DEF IInv
    <3>5. k \notin Held(s)
      BY <3>2, <3>3 DEF Sound
    <3> QED BY <3>2, <3>3, <3>4, <3>5
  <2>3. CASE ForwardSorted \/ ForwardPanics \/ PassTime
    <3>1. sorter'.next_seq = sorter.next_seq /\ sorter.next_seq \in Nat
      <4>1. SorterOK(sorter) /\ sorter.next_seq \in Nat
        BY ConstantsTyped DEF IInv, Settled, Sound, SorterOK
      <4>2. CASE ForwardSorted
        BY <4>1, <4>2 DEF ForwardSorted, SorterOK
      <4>3. CASE PassTime
        BY <4>1, <4>3 DEF PassTime, Tick, SorterOK
      <4>4. CASE ForwardPanics
        BY <4>1, <4>4 DEF ForwardPanics
      <4> QED BY <2>3, <4>1, <4>2, <4>3, <4>4
    <3> QED BY <3>1
  <2> QED BY <2>1, <2>2, <2>3 DEF Next
<1> QED BY <1>1, AlwaysSettled, PTL DEF Spec, SkipHasCause

(* get_next_packet's packets go to the channel or, when it is full, are     *)
(* dropped; no other path of insert_packet or advance_queue loses one.      *)
THEOREM LossNeedsFullChannel == Spec => LossOnlyWhenFull
<1> DEFINE Accepted == Held(sorter) \cup {a \in arrived' \ arrived : a >= sorter.next_seq}
           Safe(k) == \/ k \in Held(sorter)'
                      \/ \E i \in 1 .. Len(Released') : Released'[i] = k
                      \/ Len(sorter'.sorted) = Capacity
           Step == \A k \in Packets : k \in Accepted => Safe(k)
<1>1. IInv /\ [Next]_vars => [Step]_vars
  <2> SUFFICES ASSUME IInv, Next, NEW k \in Accepted PROVE Safe(k)
    OBVIOUS
  <2>0. IInv'
    BY NextIInv
  <2>1. ASSUME tun' = tun, NEW i \in 1 .. Len(sorter'.sorted), sorter'.sorted[i] = k
        PROVE  Safe(k)
    <3>1. tun \in Seq(Packets) /\ sorter'.sorted \in Seq(Packets)
      BY <2>0 DEF IInv, Settled, Sound, SorterOK
    <3>2. Released' = tun \o sorter'.sorted
      BY <2>1 DEF Released
    <3>3. /\ Len(tun) + i \in 1 .. Len(tun \o sorter'.sorted)
          /\ (tun \o sorter'.sorted)[Len(tun) + i] = k
      BY <2>1, <3>1
    <3> QED BY <3>2, <3>3
  <2>2. ASSUME NEW seq \in Packets, ReceivePacket(seq) PROVE Safe(k)
    <3>1. /\ sorter' = InsertPacket(sorter, seq) /\ arrived' = arrived \cup {seq}
          /\ tun' = tun
      BY <2>2 DEF ReceivePacket
    <3>2. k \in Held(sorter) \/ (k = seq /\ seq >= sorter.next_seq)
      BY <3>1
    <3>3. \/ k \in Held(sorter') \/ Len(sorter'.sorted) = Capacity
          \/ \E i \in 1 .. Len(sorter'.sorted) : sorter'.sorted[i] = k
      <4>1. arrived \in SUBSET Packets /\ tun \in Seq(Packets) /\ Settled(sorter, tun, arrived)
        BY DEF IInv
      <4>2. PICK r : r = InsertPacket(sorter, seq)
        OBVIOUS
      <4>3. \/ k \in Held(r) \/ Len(r.sorted) = Capacity
            \/ \E i \in 1 .. Len(r.sorted) : r.sorted[i] = k
        <5>1. LosesOnlyWhenFull(sorter, seq, r)
          BY <4>1, <4>2, InsertPacketEffect
        <5> QED BY <3>2, <5>1 DEF LosesOnlyWhenFull
      <4> QED BY <3>1, <4>2, <4>3
    <3> QED BY <2>1, <3>1, <3>3 DEF Held
  <2>3. ASSUME HandleDeadline PROVE Safe(k)
    <3>1. PICK s : s = [sorter EXCEPT !.deadline_timer = Never]
      OBVIOUS
    <3>2. sorter' = AdvanceQueue(s) /\ arrived' = arrived /\ tun' = tun
      BY <2>3, <3>1 DEF HandleDeadline
    <3>3. Sound(s, tun, arrived) /\ Held(s) = Held(sorter)
      <4>1. Never \in {Never} \cup 0 .. Deadline /\ Sound(sorter, tun, arrived)
        BY DEF IInv, Settled
      <4> QED BY <3>1, <4>1, TimerSound
    <3>4. Keeps(s, AdvanceQueue(s))
      BY <3>3, AdvanceQueueKeeps DEF IInv
    <3>5. k \in Held(s)
      BY <3>2, <3>3
    <3> QED BY <2>1, <3>2, <3>4, <3>5 DEF Keeps, Held
  <2>4. CASE ForwardSorted \/ ForwardPanics \/ PassTime
    <3>1. Held(sorter)' = Held(sorter) /\ arrived' = arrived
      BY <2>4 DEF ForwardSorted, ForwardPanics, PassTime, Tick, IInv, Settled, Sound, SorterOK, Held
    <3> QED BY <3>1
  <2> QED BY <2>2, <2>3, <2>4 DEF Next
<1> QED BY <1>1, AlwaysSettled, PTL DEF Spec, LossOnlyWhenFull

(* The loop gives the TUN device only packets that arrived, each at most    *)
(* once, in the order of their sequence numbers.                            *)
THEOREM ImplementsOrderedDelivery == Spec => OrderedSpec
<1>1. Init => Ordered!ODInit
  BY DEF Init, Ordered!ODInit
<1>2. IInv /\ [Next]_vars => [Ordered!Arrive \/ Ordered!Deliver]_(Ordered!odVars)
  <2> SUFFICES ASSUME IInv, [Next]_vars
               PROVE  Ordered!Arrive \/ Ordered!Deliver \/ UNCHANGED <<arrived, tun>>
    BY DEF Ordered!odVars
  <2>1. ASSUME NEW seq \in Packets, ReceivePacket(seq) PROVE Ordered!Arrive
    BY <2>1 DEF ReceivePacket, Ordered!Arrive
  <2>2. ASSUME ForwardSorted PROVE Ordered!Deliver
    <3>1. tun' = Append(tun, Head(sorter.sorted)) /\ arrived' = arrived
      BY <2>2 DEF ForwardSorted
    <3> QED BY <2>2, <3>1, ForwardSortedSettled DEF Ordered!Deliver
  <2>3. CASE HandleDeadline \/ ForwardPanics \/ PassTime \/ UNCHANGED vars
    BY <2>3 DEF HandleDeadline, ForwardPanics, PassTime, vars
  <2> QED BY <2>1, <2>2, <2>3 DEF Next
<1> QED BY <1>1, <1>2, AlwaysSettled, PTL DEF Spec, OrderedSpec, Ordered!ODSpec
=============================================================================
