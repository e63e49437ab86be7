---------------------------- MODULE BufferProofs ----------------------------
(***************************************************************************)
(* Proofs about BufferChain, for any number of buffers of any size, and    *)
(* about BufRing, for any number of entries that divides the number of     *)
(* values of the tail.                                                     *)
(***************************************************************************)
EXTENDS BufferChain, BufRing, FiniteSetTheorems, SequenceTheorems, TLAPS

\* A leaf that names no prover is for the SMT solver, then for Zenon, then for the
\* SMT solver again.
USE SMTT(25), ZenonT(25), SMTT(26), SMTT(27), SMTT(28)

-----------------------------------------------------------------------------
(* Division: the buffer and the offset of a position in a chain, and the   *)
(* slot of a position in a ring.                                           *)

\* A position is a whole number of buffers and an offset in the next one.
LEMMA Split ==
  ASSUME NEW d \in Nat \ {0}, NEW a \in Nat
  PROVE  /\ a \div d \in Nat /\ a % d \in 0 .. d - 1
         /\ a = (a \div d) * d + (a % d)
  BY Z3

\* There is only one such number and one such offset.
LEMMA Unique ==
  ASSUME NEW d \in Nat \ {0}, NEW q \in Nat, NEW r \in 0 .. d - 1
  PROVE  (q * d + r) \div d = q /\ (q * d + r) % d = r
  BY Z3

\* A buffer more holds all of its bytes more.
LEMMA Product ==
  ASSUME NEW d \in Nat \ {0}, NEW p \in Nat, NEW q \in Nat, p < q
  PROVE  p * d + d <= q * d
  BY Z3

\* A byte beyond q whole buffers is in one of the p buffers.
LEMMA Below ==
  ASSUME NEW d \in Nat \ {0}, NEW p \in Nat, NEW q \in Nat, NEW r \in Nat,
         q * d + r <= p * d, r > 0 \/ (q * d + r = 0 /\ p > 0)
  PROVE  q < p
<1>1. q * d \in Nat /\ p * d \in Nat
  OBVIOUS
<1>2. CASE r > 0
  <2>1. ASSUME p < q PROVE p * d + d <= q * d
    BY <2>1, Product, ZenonT(40)
  <2> QED
    BY <1>1, <1>2, <2>1
<1>3. CASE q * d + r = 0 /\ p > 0
  <2>1. ASSUME 0 < q PROVE d <= q * d
    <3>1. 0 * d + d <= q * d
      BY <2>1, Product, ZenonT(40)
    <3> QED
      BY <3>1
  <2> QED
    BY <1>1, <1>3, <2>1
<1> QED
  BY <1>2, <1>3, ZenonT(40)

\* Bytes that fit in b buffers do not fill more than b.
LEMMA Ceiling ==
  ASSUME NEW d \in Nat \ {0}, NEW a \in Nat, NEW b \in Nat, a <= b * d
  PROVE  (a + d - 1) \div d <= b
<1> DEFINE e == a + d - 1
           q == e \div d
<1>1. e \in Nat /\ b * d \in Nat /\ e < b * d + d
  OBVIOUS
<1>2. q \in Nat /\ q * d <= e
  <2> HIDE DEF e
  <2>1. q \in Nat /\ e % d \in 0 .. d - 1 /\ e = q * d + (e % d)
    BY <1>1, Split, ZenonT(40)
  <2>2. q * d \in Nat
    BY <2>1
  <2> QED
    BY <2>1, <2>2
<1> HIDE DEF e, q
<1>3. ASSUME b < q PROVE FALSE
  BY <1>1, <1>2, <1>3, Product
<1> QED
  BY <1>2, <1>3 DEF q, e

\* A position that is a whole number of rounds further has the same slot.
LEMMA Round ==
  ASSUME NEW d \in Nat \ {0}, NEW a \in Nat, NEW k \in Nat
  PROVE  (a + k * d) % d = a % d
<1> DEFINE q == a \div d
           r == a % d
<1>1. q \in Nat /\ r \in 0 .. d - 1 /\ a = q * d + r
  BY Split, ZenonT(40)
<1> HIDE DEF q, r
<1>2. a + k * d = (q + k) * d + r /\ q + k \in Nat
  BY <1>1, Z3
<1>3. ((q + k) * d + r) % d = r
  BY <1>1, <1>2, Unique, ZenonT(40)
<1> QED
  BY <1>2, <1>3, ZenonT(40) DEF r

\* Less than a round further has another slot.
LEMMA SlotsDiffer ==
  ASSUME NEW d \in Nat \ {0}, NEW a \in Nat, NEW b \in Nat, a < b, b < a + d
  PROVE  a % d # b % d
<1> DEFINE p == a \div d
           q == b \div d
           r == a % d
<1> SUFFICES ASSUME b % d = r PROVE FALSE
  BY ZenonT(40)
<1>1. p \in Nat /\ r \in 0 .. d - 1 /\ a = p * d + r /\ q \in Nat /\ b = q * d + r
  BY Split, ZenonT(40)
<1> HIDE DEF p, q, r
<1>2. p * d \in Nat /\ q * d \in Nat
  BY <1>1
<1>3. ASSUME p < q PROVE p * d + d <= q * d
  BY <1>1, <1>3, Product, ZenonT(40)
<1>4. ASSUME q < p PROVE q * d + d <= p * d
  BY <1>1, <1>4, Product, ZenonT(40)
<1>5. p = q \/ p < q \/ q < p
  BY <1>1
<1> QED
  BY <1>1, <1>2, <1>3, <1>4, <1>5

\* The remainder of what is less than twice the divisor.
LEMMA WrapOnce ==
  ASSUME NEW d \in Nat \ {0}, NEW a \in Nat, a < 2 * d
  PROVE  a % d = IF a < d THEN a ELSE a - d
<1>1. CASE a < d
  <2>1. (0 * d + a) % d = a
    BY <1>1, Unique
  <2> QED
    BY <1>1, <2>1
<1>2. CASE a >= d
  <2>1. a - d \in 0 .. d - 1
    BY <1>2
  <2>2. (1 * d + (a - d)) % d = a - d
    BY <2>1, Unique, ZenonT(40)
  <2> QED
    BY <1>2, <2>2
<1> QED
  BY <1>1, <1>2

-----------------------------------------------------------------------------
(* The ring of provided buffers.                                           *)

RingTyped ==
  /\ entries \in [Bids -> Bids]
  /\ tail \in 0 .. TailModulus - 1 /\ head \in 0 .. TailModulus - 1
  /\ adding \in Bids \cup {None}
  /\ registered \in BOOLEAN
  /\ held \subseteq Bids

\* Every buffer is in the ring once or is held; the one that add_buffer is
\* entering is held until the tail has moved.
RingInv ==
  /\ RingTyped
  /\ Occupancy + Cardinality(held) = RingEntries
  /\ adding # None => adding \in held /\ entries[Slot(tail)] = adding
  /\ \A i \in 1 .. Occupancy : Provided[i] \notin held
  /\ \A i, j \in 1 .. Occupancy : Provided[i] = Provided[j] => i = j

-----------------------------------------------------------------------------
(* Positions.                                                              *)

\* The tail wraps after a whole number of rounds of the ring.
LEMMA Rounds ==
  /\ RingEntries \in Nat \ {0} /\ TailModulus \in Nat \ {0} /\ TailModulus > RingEntries
  /\ TailModulus \div RingEntries \in Nat
  /\ TailModulus = (TailModulus \div RingEntries) * RingEntries
<1>1. /\ RingEntries \in Nat \ {0} /\ TailModulus \in Nat \ {0}
      /\ TailModulus > RingEntries /\ TailModulus % RingEntries = 0
  BY RingAssumption
<1> DEFINE k == TailModulus \div RingEntries
<1>2. k \in Nat /\ TailModulus = k * RingEntries + (TailModulus % RingEntries)
  BY <1>1, Split, ZenonT(40)
<1> HIDE DEF k
<1>3. TailModulus = k * RingEntries
  BY <1>1, <1>2
<1> QED
  BY <1>1, <1>2, <1>3, ZenonT(40) DEF k

\* Wrapping does not change the slot of a position.
LEMMA SlotWraps ==
  ASSUME NEW a \in Nat
  PROVE  Slot(a + TailModulus) = Slot(a) /\ Slot(a) \in Bids
<1> DEFINE k == TailModulus \div RingEntries
<1>1. RingEntries \in Nat \ {0} /\ k \in Nat /\ TailModulus = k * RingEntries
  BY Rounds, ZenonT(40)
<1> HIDE DEF k
<1>2. (a + k * RingEntries) % RingEntries = a % RingEntries
  BY <1>1, Round, ZenonT(40)
<1>3. a % RingEntries \in 0 .. RingEntries - 1
  BY <1>1, Split, ZenonT(40)
<1> QED
  BY <1>1, <1>2, <1>3, ZenonT(40) DEF Slot, Bids

\* The difference of two positions that wrap.
LEMMA Distance ==
  ASSUME NEW t \in 0 .. TailModulus - 1, NEW h \in 0 .. TailModulus - 1
  PROVE  (t + TailModulus - h) % TailModulus = IF h <= t THEN t - h ELSE t + TailModulus - h
<1>1. TailModulus \in Nat \ {0}
  BY Rounds, ZenonT(40)
<1> DEFINE d == t + TailModulus - h
<1>2. d \in Nat /\ d < 2 * TailModulus /\ d >= 1
  BY <1>1
<1>3. d % TailModulus = IF d < TailModulus THEN d ELSE d - TailModulus
  <2> HIDE DEF d
  <2> QED
    BY <1>1, <1>2, WrapOnce, ZenonT(40)
<1> QED
  BY <1>1, <1>3

\* The next position.
LEMMA Successor ==
  ASSUME NEW t \in 0 .. TailModulus - 1
  PROVE  (t + 1) % TailModulus = IF t + 1 < TailModulus THEN t + 1 ELSE 0
<1>1. TailModulus \in Nat \ {0}
  BY Rounds, ZenonT(40)
<1> DEFINE d == t + 1
<1>2. d \in Nat /\ d < 2 * TailModulus /\ d <= TailModulus
  BY <1>1
<1>3. d % TailModulus = IF d < TailModulus THEN d ELSE d - TailModulus
  <2> HIDE DEF d
  <2> QED
    BY <1>1, <1>2, WrapOnce, ZenonT(40)
<1> QED
  BY <1>1, <1>2, <1>3

\* The tail is Occupancy entries after the head, up to wrapping.
LEMMA TailPosition ==
  ASSUME RingTyped
  PROVE  /\ Occupancy \in Nat
         /\ Occupancy = IF head <= tail THEN tail - head ELSE tail + TailModulus - head
         /\ Slot(tail) = Slot(head + Occupancy)
<1>1. /\ TailModulus \in Nat \ {0}
      /\ tail \in 0 .. TailModulus - 1 /\ head \in 0 .. TailModulus - 1
  BY Rounds, ZenonT(40) DEF RingTyped
<1>2. Occupancy = IF head <= tail THEN tail - head ELSE tail + TailModulus - head
  BY <1>1, Distance, ZenonT(40) DEF Occupancy
<1>3. CASE head <= tail
  <2>1. head + Occupancy = tail
    BY <1>1, <1>2, <1>3
  <2> QED
    BY <1>1, <1>2, <1>3, <2>1
<1>4. CASE head > tail
  <2>1. head + Occupancy = tail + TailModulus
    BY <1>1, <1>2, <1>4
  <2>2. Slot(tail + TailModulus) = Slot(tail)
    BY <1>1, SlotWraps
  <2> QED
    BY <1>1, <1>2, <1>4, <2>1, <2>2
<1> QED
  BY <1>1, <1>3, <1>4

\* The entries of the queue and the next free one are in different slots.
LEMMA NextSlotFree ==
  ASSUME RingTyped, Occupancy < RingEntries, NEW i \in 1 .. Occupancy
  PROVE  Slot(head + i - 1) # Slot(tail)
<1>1. /\ RingEntries \in Nat \ {0} /\ head \in Nat /\ Occupancy \in Nat
      /\ Slot(tail) = Slot(head + Occupancy)
  BY Rounds, TailPosition DEF RingTyped
<1> DEFINE a == head + i - 1
           b == head + Occupancy
<1>2. a \in Nat /\ b \in Nat /\ a < b /\ b < a + RingEntries
  BY <1>1
<1> HIDE DEF a, b
<1>3. a % RingEntries # b % RingEntries
  BY <1>1, <1>2, SlotsDiffer, ZenonT(40)
<1> QED
  BY <1>1, <1>3, ZenonT(40) DEF Slot, a, b

\* What the kernel finds are ids of buffers.
LEMMA ProvidedTyped ==
  ASSUME RingTyped
  PROVE  /\ Provided = [i \in 1 .. Occupancy |-> entries[Slot(head + i - 1)]]
         /\ Occupancy \in Nat
         /\ \A i \in 1 .. Occupancy : Provided[i] = entries[Slot(head + i - 1)] /\ Provided[i] \in Bids
<1>1. Occupancy \in Nat /\ head \in Nat
  BY Rounds, TailPosition DEF RingTyped
<1>2. ASSUME NEW i \in 1 .. Occupancy PROVE entries[Slot(head + i - 1)] \in Bids
  <2> DEFINE a == head + i - 1
  <2>1. a \in Nat
    BY <1>1
  <2> HIDE DEF a
  <2>2. Slot(a) \in Bids
    BY <2>1, SlotWraps, ZenonT(40)
  <2> QED
    BY <2>2, ZenonT(40) DEF RingTyped, a
<1> QED
  BY <1>1, <1>2, ZenonT(40) DEF Provided

-----------------------------------------------------------------------------
(* One lemma per action: the invariant and the step of the queue.          *)

\* A held buffer leaves room for it in the ring.
LEMMA Room ==
  ASSUME RingInv, NEW bid \in held
  PROVE  /\ IsFiniteSet(held) /\ Cardinality(held) \in Nat /\ Occupancy < RingEntries
         /\ Cardinality(held \ {bid}) = Cardinality(held) - 1
<1>1. IsFiniteSet(held)
  <2>1. IsFiniteSet(Bids)
    BY Rounds, FS_Interval DEF Bids
  <2> QED
    BY <2>1, FS_Subset, ZenonT(40) DEF RingInv, RingTyped
<1>2. Cardinality(held) \in Nat
  BY <1>1, FS_CardinalityType, ZenonT(40)
<1>3. Cardinality(held \ {bid}) = Cardinality(held) - 1 /\ IsFiniteSet(held \ {bid})
  BY <1>1, FS_RemoveElement, ZenonT(40)
<1>4. Cardinality(held \ {bid}) \in Nat
  BY <1>3, FS_CardinalityType, ZenonT(40)
<1>5. RingEntries \in Nat /\ Occupancy \in Nat /\ Occupancy + Cardinality(held) = RingEntries
  BY Rounds, TailPosition, ZenonT(40) DEF RingInv
<1> QED
  BY <1>1, <1>2, <1>3, <1>4, <1>5

\* add_buffer writes an entry that the kernel does not read.
LEMMA WriteEntryStep ==
  ASSUME RingInv, NEW bid \in Bids, WriteEntry(bid)
  PROVE  RingInv' /\ UNCHANGED <<Provided, held>>
<1>1. /\ RingTyped /\ bid \in held /\ adding' = bid
      /\ entries' = [entries EXCEPT ![Slot(tail)] = bid]
      /\ UNCHANGED <<tail, registered, head, held>>
  BY ZenonT(40) DEF RingInv, WriteEntry
<1>2. Slot(tail) \in Bids /\ Slot(tail)' = Slot(tail) /\ Occupancy' = Occupancy
  <2>1. tail \in Nat
    BY <1>1, Rounds DEF RingTyped
  <2>2. Slot(tail) \in Bids
    BY <2>1, SlotWraps, ZenonT(40)
  <2> QED
    BY <1>1, <2>2, ZenonT(40) DEF Slot, Occupancy
<1>3. entries' \in [Bids -> Bids] /\ entries'[Slot(tail)] = bid
  BY <1>1, <1>2, ZenonT(40) DEF RingTyped
<1>4. RingTyped'
  BY <1>1, <1>3, ZenonT(40) DEF RingTyped
<1>5. ASSUME NEW i \in 1 .. Occupancy
      PROVE  entries'[Slot(head + i - 1)] = entries[Slot(head + i - 1)]
  <2>1. Slot(head + i - 1) # Slot(tail)
    BY <1>1, Room, NextSlotFree, ZenonT(40)
  <2>2. Slot(head + i - 1) \in Bids
    <3>1. head + i - 1 \in Nat
      BY <1>1, Rounds, ProvidedTyped DEF RingTyped
    <3> QED
      BY <3>1, SlotWraps, ZenonT(40)
  <2> QED
    BY <1>1, <2>1, <2>2, ZenonT(40) DEF RingTyped
<1>6. Provided' = Provided
  BY <1>1, <1>2, <1>5, ZenonT(40) DEF Provided, Slot
<1>7. bid # None
  BY Rounds DEF Bids, None
<1> QED
  BY <1>1, <1>2, <1>3, <1>4, <1>6, ZenonT(40) DEF RingInv

\* The new tail appends the entry that was written.
LEMMA WriteTailStep ==
  ASSUME RingInv, WriteTail
  PROVE  RingInv' /\ P!PNext
<1>1. /\ RingTyped /\ adding \in held /\ adding \in Bids /\ entries[Slot(tail)] = adding
      /\ tail' = (tail + 1) % TailModulus /\ held' = held \ {adding} /\ adding' = None
      /\ UNCHANGED <<entries, registered, head>>
  BY ZenonT(40) DEF RingInv, RingTyped, WriteTail
<1>2. /\ RingEntries \in Nat \ {0} /\ TailModulus \in Nat \ {0} /\ TailModulus > RingEntries
      /\ tail \in 0 .. TailModulus - 1 /\ head \in 0 .. TailModulus - 1
  BY <1>1, Rounds, ZenonT(40) DEF RingTyped
<1>3. tail' = IF tail + 1 < TailModulus THEN tail + 1 ELSE 0
  BY <1>1, <1>2, Successor, ZenonT(40)
<1>4. RingTyped'
  BY <1>1, <1>2, <1>3 DEF RingTyped
<1>5. Occupancy' = Occupancy + 1
  <2>1. /\ Occupancy \in Nat /\ Occupancy < RingEntries
        /\ Occupancy = IF head <= tail THEN tail - head ELSE tail + TailModulus - head
    BY <1>1, <1>2, Room, TailPosition, ZenonT(40)
  <2>2. tail' \in 0 .. TailModulus - 1 /\ head' \in 0 .. TailModulus - 1
    BY <1>4, ZenonT(40) DEF RingTyped
  <2>3. Occupancy' = IF head' <= tail' THEN tail' - head' ELSE tail' + TailModulus - head'
    BY <2>2, Distance, ZenonT(40) DEF Occupancy
  <2> QED
    BY <1>1, <1>2, <1>3, <2>1, <2>3
<1>6. /\ \A i \in 1 .. Occupancy : Provided'[i] = Provided[i]
      /\ Provided'[Occupancy + 1] = adding
  <2>1. Occupancy \in Nat /\ head + (Occupancy + 1) - 1 = head + Occupancy
    BY <1>1, <1>2, TailPosition
  <2>2. \A i \in 1 .. Occupancy + 1 : Provided'[i] = entries[Slot(head + i - 1)]
    BY <1>1, <1>5, ZenonT(40) DEF Provided, Slot
  <2>3. Provided'[Occupancy + 1] = entries[Slot(head + Occupancy)]
    BY <2>1, <2>2
  <2>4. \A i \in 1 .. Occupancy : i \in 1 .. Occupancy + 1
    BY <2>1
  <2> QED
    BY <1>1, <2>2, <2>3, <2>4, TailPosition, ZenonT(40) DEF Provided
<1>7. Provided' = Append(Provided, adding)
  <2>1. /\ Provided = [i \in 1 .. Occupancy |-> Provided[i]] /\ Occupancy \in Nat
        /\ Provided \in Seq(Bids) /\ Len(Provided) = Occupancy
    BY <1>1, ProvidedTyped
  <2>2. Provided' = [i \in 1 .. Occupancy + 1 |-> Provided'[i]]
    BY <1>5, ZenonT(40) DEF Provided
  <2>3. Append(Provided, adding) =
          [i \in 1 .. Occupancy + 1 |-> IF i = Occupancy + 1 THEN adding ELSE Provided[i]]
    BY <2>1
  <2> QED
    BY <1>6, <2>1, <2>2, <2>3
<1>8. P!Give(adding)
  BY <1>1, <1>7, ZenonT(40) DEF P!Give
<1>9. Occupancy' + Cardinality(held') = RingEntries
  BY <1>1, <1>2, <1>5, Room, TailPosition DEF RingInv
<1>10. \A i \in 1 .. Occupancy' : Provided'[i] \notin held'
  BY <1>1, <1>5, <1>6, TailPosition DEF RingInv
<1>11. \A i, j \in 1 .. Occupancy' : Provided'[i] = Provided'[j] => i = j
  <2>1. \A i \in 1 .. Occupancy : Provided[i] # adding
    BY <1>1, ZenonT(40) DEF RingInv
  <2>2. \A i, j \in 1 .. Occupancy : Provided[i] = Provided[j] => i = j
    BY ZenonT(40) DEF RingInv
  <2>3. Occupancy \in Nat
    BY <1>1, <1>2, TailPosition, ZenonT(40)
  <2>4. \A i \in 1 .. Occupancy' : i \in 1 .. Occupancy \/ i = Occupancy + 1
    BY <1>5, <2>3
  <2> QED
    BY <1>6, <2>1, <2>2, <2>4, ZenonT(40)
<1> QED
  BY <1>1, <1>4, <1>8, <1>9, <1>10, <1>11, ZenonT(40) DEF RingInv, P!PNext

\* The kernel takes the first entry; the others move up.
LEMMA SelectStep ==
  ASSUME RingInv, Select
  PROVE  RingInv' /\ P!PNext
<1> DEFINE bid == entries[Slot(head)]
<1>1. /\ RingTyped /\ registered /\ head # tail
      /\ held' = held \cup {bid} /\ head' = (head + 1) % TailModulus
      /\ UNCHANGED <<entries, tail, adding, registered>>
  BY ZenonT(40) DEF RingInv, Select
<1>2. /\ RingEntries \in Nat \ {0} /\ TailModulus \in Nat \ {0} /\ TailModulus > RingEntries
      /\ tail \in 0 .. TailModulus - 1 /\ head \in 0 .. TailModulus - 1 /\ head \in Nat
  BY <1>1, Rounds DEF RingTyped
<1>3. head' = IF head + 1 < TailModulus THEN head + 1 ELSE 0
  BY <1>1, <1>2, Successor, ZenonT(40)
<1>4. bid \in Bids
  BY <1>1, <1>2, SlotWraps, ZenonT(40) DEF RingTyped
<1>5. RingTyped'
  BY <1>1, <1>2, <1>3, <1>4 DEF RingTyped
<1>6. Occupancy \in Nat \ {0} /\ Occupancy' = Occupancy - 1
  <2>1. /\ Occupancy \in Nat
        /\ Occupancy = IF head <= tail THEN tail - head ELSE tail + TailModulus - head
    BY <1>1, TailPosition, ZenonT(40)
  <2>2. tail' \in 0 .. TailModulus - 1 /\ head' \in 0 .. TailModulus - 1
    BY <1>5, ZenonT(40) DEF RingTyped
  <2>3. Occupancy' = IF head' <= tail' THEN tail' - head' ELSE tail' + TailModulus - head'
    BY <2>2, Distance, ZenonT(40) DEF Occupancy
  <2> QED
    BY <1>1, <1>2, <1>3, <2>1, <2>3
<1>7. Provided[1] = bid
  <2>1. head + 1 - 1 = head /\ 1 \in 1 .. Occupancy
    BY <1>2, <1>6
  <2>2. Provided[1] = entries[Slot(head + 1 - 1)]
    BY <2>1, ZenonT(40) DEF Provided
  <2> QED
    BY <2>1, <2>2, ZenonT(40)
<1>8. ASSUME NEW i \in 1 .. Occupancy - 1
      PROVE  Provided'[i] = Provided[i + 1]
  <2>1. i \in Nat /\ i + 1 \in 1 .. Occupancy /\ i \in 1 .. Occupancy'
    BY <1>6
  <2>2. Slot(head' + i - 1) = Slot(head + (i + 1) - 1)
    <3>1. CASE head + 1 < TailModulus
      <4>1. head' + i - 1 = head + (i + 1) - 1
        BY <1>2, <1>3, <2>1, <3>1
      <4> QED
        BY <4>1, ZenonT(40)
    <3>2. CASE head + 1 >= TailModulus
      <4> DEFINE a == i - 1
      <4>1. a \in Nat /\ head' + i - 1 = a /\ head + (i + 1) - 1 = a + TailModulus
        BY <1>2, <1>3, <2>1, <3>2
      <4> HIDE DEF a
      <4>2. Slot(a + TailModulus) = Slot(a)
        BY <4>1, SlotWraps, ZenonT(40)
      <4> QED
        BY <4>1, <4>2, ZenonT(40)
    <3> QED
      BY <1>2, <3>1, <3>2
  <2>3. Provided'[i] = entries[Slot(head' + i - 1)]
    BY <1>1, <2>1, ZenonT(40) DEF Provided, Slot
  <2>4. Provided[i + 1] = entries[Slot(head + (i + 1) - 1)]
    BY <2>1, ZenonT(40) DEF Provided
  <2> QED
    BY <2>2, <2>3, <2>4, ZenonT(40)
<1>9. Provided' = Tail(Provided) /\ Provided # <<>> /\ Head(Provided) = bid
  <2>1. /\ Provided \in Seq(Bids) /\ Len(Provided) = Occupancy
        /\ Provided = [i \in 1 .. Occupancy |-> Provided[i]]
    BY <1>1, ProvidedTyped
  <2>2. Provided' = [i \in 1 .. Occupancy - 1 |-> Provided'[i]]
    BY <1>6, ZenonT(40) DEF Provided
  <2>3. Tail(Provided) = [i \in 1 .. Occupancy - 1 |-> Provided[i + 1]]
    BY <1>6, <2>1
  <2>4. Provided # <<>> /\ Head(Provided) = bid
    BY <1>6, <1>7, <2>1
  <2> QED
    BY <1>8, <2>2, <2>3, <2>4, ZenonT(40)
<1> HIDE DEF bid
<1>10. P!Take
  BY <1>1, <1>9, ZenonT(40) DEF P!Take
<1>11. bid \notin held
  BY <1>6, <1>7 DEF RingInv
<1>12. Occupancy' + Cardinality(held') = RingEntries
  <2>1. IsFiniteSet(held)
    <3>1. IsFiniteSet(Bids)
      BY <1>2, FS_Interval DEF Bids
    <3> QED
      BY <1>1, <3>1, FS_Subset, ZenonT(40) DEF RingTyped
  <2>2. Cardinality(held') = Cardinality(held) + 1 /\ Cardinality(held) \in Nat
    BY <1>1, <1>11, <2>1, FS_AddElement, FS_CardinalityType, ZenonT(40)
  <2>3. Occupancy + Cardinality(held) = RingEntries
    BY ZenonT(40) DEF RingInv
  <2> QED
    BY <1>6, <2>2, <2>3
<1>13. /\ \A i \in 1 .. Occupancy : Provided[i] \notin held
       /\ \A i, j \in 1 .. Occupancy : Provided[i] = Provided[j] => i = j
  BY ZenonT(40) DEF RingInv
<1>14. \A i \in 1 .. Occupancy' : i + 1 \in 1 .. Occupancy /\ i + 1 # 1
  BY <1>6
<1>15. \A i \in 1 .. Occupancy' : Provided'[i] \notin held'
  BY <1>1, <1>6, <1>7, <1>8, <1>13, <1>14
<1>16. \A i, j \in 1 .. Occupancy' : Provided'[i] = Provided'[j] => i = j
  BY <1>6, <1>8, <1>13, <1>14
<1>17. adding' # None => adding' \in held' /\ entries'[Slot(tail)'] = adding'
  BY <1>1, ZenonT(40) DEF RingInv, Slot
<1> QED
  BY <1>5, <1>10, <1>12, <1>15, <1>16, <1>17, ZenonT(40) DEF RingInv, P!PNext

\* Registration changes nothing that the queue shows.
LEMMA RegisterStep ==
  ASSUME RingInv, Register \/ UNCHANGED rvars
  PROVE  RingInv' /\ UNCHANGED <<Provided, held>>
<1>1. /\ UNCHANGED <<entries, tail, adding, head, held>> /\ registered' \in BOOLEAN
  BY ZenonT(40) DEF Register, rvars, RingInv, RingTyped
<1>2. Occupancy' = Occupancy /\ Provided' = Provided /\ Slot(tail)' = Slot(tail)
  BY <1>1, ZenonT(40) DEF Occupancy, Provided, Slot
<1> QED
  BY <1>1, <1>2, ZenonT(40) DEF RingInv, RingTyped

\* The ring starts empty, with every buffer held.
LEMMA RingInit ==
  ASSUME RInit
  PROVE  RingInv /\ P!PInit
<1>1. /\ RingEntries \in Nat \ {0} /\ TailModulus \in Nat \ {0} /\ 0 \in Bids
      /\ 0 \in 0 .. TailModulus - 1
  BY Rounds DEF Bids
<1>2. RingTyped
  BY <1>1, ZenonT(40) DEF RInit, RingTyped
<1>3. Occupancy = 0
  BY <1>1, <1>2, TailPosition DEF RInit
<1>4. Provided = <<>>
  BY <1>3 DEF Provided
<1>5. Cardinality(Bids) = RingEntries
  BY <1>1, FS_Interval DEF Bids
<1> QED
  BY <1>1, <1>2, <1>3, <1>4, <1>5 DEF RInit, RingInv, P!PInit

-----------------------------------------------------------------------------
\* The provided buffer ring is a queue for any number of entries: add_buffer
\* never overwrites an entry that the kernel has yet to read, and the wrapping of
\* the tail neither loses nor repeats a buffer.
THEOREM RingIsQueue == RSpec => ImplementsQueue
<1>1. RInit => RingInv /\ P!PInit
  BY RingInit, ZenonT(40)
<1>2. RingInv /\ [RNext]_rvars => RingInv' /\ [P!PNext]_(P!pvars)
  BY WriteEntryStep, WriteTailStep, SelectStep, RegisterStep, ZenonT(40) DEF RNext, P!pvars
<1> QED
  BY <1>1, <1>2, PTL DEF RSpec, ImplementsQueue, P!PSpec

-----------------------------------------------------------------------------
(* The pool: alloc, alloc_many and free_many move indices between lists.   *)

\* PoolIntact, of any two lists.
Partition(f, b) ==
  /\ IsInjective(f) /\ IsInjective(b)
  /\ ToSet(f) \cap ToSet(b) = {}
  /\ ToSet(f) \cup ToSet(b) = Indices

\* The same, index by index.
OncePerIndex(f, b) ==
  /\ \A i, j \in 1 .. Len(f) : f[i] = f[j] => i = j
  /\ \A i, j \in 1 .. Len(b) : b[i] = b[j] => i = j
  /\ \A i \in 1 .. Len(f), j \in 1 .. Len(b) : f[i] # b[j]
  /\ \A x \in Indices : \/ \E i \in 1 .. Len(f) : f[i] = x
                        \/ \E j \in 1 .. Len(b) : b[j] = x

\* The two ways to say it are the same.
LEMMA PartitionByIndex ==
  ASSUME NEW f \in Seq(Indices), NEW b \in Seq(Indices)
  PROVE  Partition(f, b) <=> OncePerIndex(f, b)
<1>1. /\ DOMAIN f = 1 .. Len(f) /\ \A i \in 1 .. Len(f) : f[i] \in Indices
      /\ DOMAIN b = 1 .. Len(b) /\ \A i \in 1 .. Len(b) : b[i] \in Indices
  OBVIOUS
<1>2. /\ \A x : x \in ToSet(f) <=> \E i \in 1 .. Len(f) : f[i] = x
      /\ \A x : x \in ToSet(b) <=> \E i \in 1 .. Len(b) : b[i] = x
  BY <1>1, ZenonT(40) DEF ToSet
<1>3. /\ IsInjective(f) <=> \A i, j \in 1 .. Len(f) : f[i] = f[j] => i = j
      /\ IsInjective(b) <=> \A i, j \in 1 .. Len(b) : b[i] = b[j] => i = j
  BY <1>1, ZenonT(40) DEF IsInjective
<1>4. ToSet(f) \cap ToSet(b) = {} <=>
        \A i \in 1 .. Len(f), j \in 1 .. Len(b) : f[i] # b[j]
  BY <1>2, ZenonT(40)
<1>5. ToSet(f) \cup ToSet(b) = Indices <=>
        \A x \in Indices : \/ \E i \in 1 .. Len(f) : f[i] = x
                           \/ \E j \in 1 .. Len(b) : b[j] = x
  <2>1. ToSet(f) \cup ToSet(b) \subseteq Indices
    BY <1>1, <1>2, ZenonT(40)
  <2>2. ToSet(f) \cup ToSet(b) = Indices <=> Indices \subseteq ToSet(f) \cup ToSet(b)
    BY <2>1, ZenonT(40)
  <2> QED
    BY <1>2, <2>2, ZenonT(40)
<1> QED
  BY <1>3, <1>4, <1>5, ZenonT(40) DEF Partition, OncePerIndex

\* alloc_many pops the top of the free list and leaves the rest in place.
LEMMA Alloc ==
  ASSUME NEW f \in Seq(Indices), NEW n \in Nat, CanAlloc(f, n)
  PROVE  /\ AllocMany(f, n) \in Seq(Indices) /\ Len(AllocMany(f, n)) = n
         /\ \A i \in 1 .. n : AllocMany(f, n)[i] = f[Len(f) - i + 1]
         /\ AfterAlloc(f, n) \in Seq(Indices) /\ Len(AfterAlloc(f, n)) = Len(f) - n
         /\ \A i \in 1 .. Len(f) - n : AfterAlloc(f, n)[i] = f[i]
<1>1. Len(f) \in Nat /\ n <= Len(f) /\ \A i \in 1 .. Len(f) : f[i] \in Indices
  BY DEF CanAlloc
<1>2. \A i \in 1 .. n : Len(f) - i + 1 \in 1 .. Len(f)
  BY <1>1
<1>3. AllocMany(f, n) = [i \in 1 .. n |-> f[Len(f) - i + 1]]
  BY ZenonT(40) DEF AllocMany
<1>4. /\ AllocMany(f, n) \in Seq(Indices) /\ Len(AllocMany(f, n)) = n
      /\ \A i \in 1 .. n : AllocMany(f, n)[i] = f[Len(f) - i + 1]
  BY <1>1, <1>2, <1>3
<1>5. /\ AfterAlloc(f, n) \in Seq(Indices) /\ Len(AfterAlloc(f, n)) = Len(f) - n
      /\ \A i \in 1 .. Len(f) - n : AfterAlloc(f, n)[i] = f[i]
  BY <1>1 DEF AfterAlloc
<1> QED
  BY <1>4, <1>5, ZenonT(40)

\* Buffers that are allocated to the chain leave the free list.
LEMMA AllocPartition ==
  ASSUME NEW f \in Seq(Indices), NEW b \in Seq(Indices), NEW n \in Nat,
         CanAlloc(f, n), Partition(f, b)
  PROVE  Partition(AfterAlloc(f, n), b \o AllocMany(f, n))
<1> DEFINE g == AfterAlloc(f, n)
           a == AllocMany(f, n)
           c == b \o a
<1>1. Len(f) \in Nat /\ n <= Len(f) /\ Len(b) \in Nat
  BY DEF CanAlloc
<1>2. /\ a \in Seq(Indices) /\ Len(a) = n /\ \A i \in 1 .. n : a[i] = f[Len(f) - i + 1]
      /\ g \in Seq(Indices) /\ Len(g) = Len(f) - n
      /\ \A i \in 1 .. Len(f) - n : g[i] = f[i]
  BY Alloc, ZenonT(40)
<1>3. /\ \A i, j \in 1 .. Len(f) : f[i] = f[j] => i = j
      /\ \A i, j \in 1 .. Len(b) : b[i] = b[j] => i = j
      /\ \A i \in 1 .. Len(f), j \in 1 .. Len(b) : f[i] # b[j]
      /\ \A x \in Indices : \/ \E i \in 1 .. Len(f) : f[i] = x
                            \/ \E j \in 1 .. Len(b) : b[j] = x
  BY PartitionByIndex, ZenonT(40) DEF OncePerIndex
<1> HIDE DEF g, a
<1>4. /\ c \in Seq(Indices) /\ Len(c) = Len(b) + n
      /\ \A i \in 1 .. Len(b) : c[i] = b[i]
      /\ \A i \in Len(b) + 1 .. Len(b) + n : c[i] = f[Len(f) - (i - Len(b)) + 1]
  <2>1. /\ c \in Seq(Indices) /\ Len(c) = Len(b) + n
        /\ \A i \in 1 .. Len(b) : c[i] = b[i]
        /\ \A i \in Len(b) + 1 .. Len(b) + n : c[i] = a[i - Len(b)]
    <3>1. /\ c \in Seq(Indices) /\ Len(c) = Len(b) + Len(a)
          /\ \A i \in 1 .. Len(b) + Len(a) :
               c[i] = IF i <= Len(b) THEN b[i] ELSE a[i - Len(b)]
      BY <1>2, ConcatProperties, ZenonT(40)
    <3> HIDE DEF c
    <3> QED
      BY <1>1, <1>2, <3>1
  <2>2. \A i \in Len(b) + 1 .. Len(b) + n : i - Len(b) \in 1 .. n
    BY <1>1
  <2> QED
    BY <1>2, <2>1, <2>2, ZenonT(40)
<1> HIDE DEF c
<1>5. \A i, j \in 1 .. Len(g) : g[i] = g[j] => i = j
  BY <1>1, <1>2, <1>3
<1>6. \A i, j \in 1 .. Len(c) : c[i] = c[j] => i = j
  <2> SUFFICES ASSUME NEW i \in 1 .. Len(c), NEW j \in 1 .. Len(c), c[i] = c[j]
               PROVE  i = j
    BY ZenonT(40)
  <2> DEFINE at(k) == Len(f) - (k - Len(b)) + 1
  <2>1. \A k \in 1 .. Len(c) : \/ k \in 1 .. Len(b) /\ c[k] = b[k]
                               \/ k \in Len(b) + 1 .. Len(b) + n /\ c[k] = f[at(k)]
    BY <1>1, <1>4
  <2>2. \A k \in Len(b) + 1 .. Len(b) + n : at(k) \in 1 .. Len(f)
    BY <1>1
  <2>3. \A k, l \in Len(b) + 1 .. Len(b) + n : at(k) = at(l) => k = l
    BY <1>1
  <2> HIDE DEF at
  <2>4. CASE i \in 1 .. Len(b) /\ c[i] = b[i]
    <3>1. CASE j \in 1 .. Len(b) /\ c[j] = b[j]
      BY <1>3, <2>4, <3>1, ZenonT(40)
    <3>2. CASE j \in Len(b) + 1 .. Len(b) + n /\ c[j] = f[at(j)]
      BY <1>3, <2>2, <2>4, <3>2, ZenonT(40)
    <3> QED
      BY <2>1, <3>1, <3>2, ZenonT(40)
  <2>5. CASE i \in Len(b) + 1 .. Len(b) + n /\ c[i] = f[at(i)]
    <3>1. CASE j \in 1 .. Len(b) /\ c[j] = b[j]
      BY <1>3, <2>2, <2>5, <3>1, ZenonT(40)
    <3>2. CASE j \in Len(b) + 1 .. Len(b) + n /\ c[j] = f[at(j)]
      BY <1>3, <2>2, <2>3, <2>5, <3>2, ZenonT(40)
    <3> QED
      BY <2>1, <3>1, <3>2, ZenonT(40)
  <2> QED
    BY <2>1, <2>4, <2>5, ZenonT(40)
<1>7. \A i \in 1 .. Len(g), j \in 1 .. Len(c) : g[i] # c[j]
  <2> TAKE i \in 1 .. Len(g), j \in 1 .. Len(c)
  <2>1. i \in 1 .. Len(f) /\ g[i] = f[i] /\ i <= Len(f) - n
    BY <1>1, <1>2
  <2>2. CASE j \in 1 .. Len(b)
    BY <1>3, <1>4, <2>1, <2>2
  <2>3. CASE j \in Len(b) + 1 .. Len(b) + n
    <3>1. /\ Len(f) - (j - Len(b)) + 1 \in 1 .. Len(f)
          /\ Len(f) - (j - Len(b)) + 1 > Len(f) - n
      BY <1>1, <2>3
    <3> QED
      BY <1>1, <1>3, <1>4, <2>1, <2>3, <3>1
  <2> QED
    BY <1>1, <1>4, <2>2, <2>3
<1>8. \A x \in Indices : \/ \E i \in 1 .. Len(g) : g[i] = x
                         \/ \E j \in 1 .. Len(c) : c[j] = x
  <2> TAKE x \in Indices
  <2>1. CASE \E j \in 1 .. Len(b) : b[j] = x
    BY <1>1, <1>4, <2>1
  <2>2. CASE \E i \in 1 .. Len(f) : f[i] = x
    <3>1. PICK i \in 1 .. Len(f) : f[i] = x
      BY <2>2, ZenonT(40)
    <3>2. CASE i <= Len(f) - n
      BY <1>1, <1>2, <3>1, <3>2
    <3>3. CASE i > Len(f) - n
      <4> DEFINE j == Len(b) + (Len(f) - i + 1)
      <4>1. /\ j \in Len(b) + 1 .. Len(b) + n
            /\ Len(f) - (j - Len(b)) + 1 = i
        BY <1>1, <3>3
      <4>2. j \in 1 .. Len(c)
        BY <1>1, <1>4, <4>1
      <4> HIDE DEF j
      <4> QED
        BY <1>4, <3>1, <4>1, <4>2, ZenonT(40)
    <3> QED
      BY <1>1, <3>2, <3>3
  <2> QED
    BY <1>3, <2>1, <2>2, ZenonT(40)
<1>9. Partition(g, c)
  BY <1>2, <1>4, <1>5, <1>6, <1>7, <1>8, PartitionByIndex, ZenonT(40) DEF OncePerIndex
<1> QED
  BY <1>9, ZenonT(40) DEF g, c, a

\* Release returns the buffers of the chain.
LEMMA FreePartition ==
  ASSUME NEW f \in Seq(Indices), NEW b \in Seq(Indices), Partition(f, b)
  PROVE  FreeMany(f, b) \in Seq(Indices) /\ Partition(FreeMany(f, b), <<>>)
<1> DEFINE c == f \o b
<1>1. OncePerIndex(f, b)
  BY PartitionByIndex, ZenonT(40)
<1>2. /\ c \in Seq(Indices) /\ Len(c) = Len(f) + Len(b)
      /\ \A i \in 1 .. Len(f) + Len(b) : c[i] = IF i <= Len(f) THEN f[i] ELSE b[i - Len(f)]
  BY ConcatProperties, ZenonT(40)
<1> HIDE DEF c
<1>3. /\ \A k \in 1 .. Len(c) :
           \/ k \in 1 .. Len(f) /\ c[k] = f[k]
           \/ k - Len(f) \in 1 .. Len(b) /\ c[k] = b[k - Len(f)]
      /\ \A i \in 1 .. Len(f) : i \in 1 .. Len(c) /\ c[i] = f[i]
      /\ \A j \in 1 .. Len(b) : Len(f) + j \in 1 .. Len(c) /\ c[Len(f) + j] = b[j]
  <2>1. Len(f) \in Nat /\ Len(b) \in Nat
    OBVIOUS
  <2>2. \A k \in 1 .. Len(c) :
          \/ k \in 1 .. Len(f) /\ c[k] = f[k]
          \/ k - Len(f) \in 1 .. Len(b) /\ c[k] = b[k - Len(f)]
    BY <1>2, <2>1
  <2>3. \A i \in 1 .. Len(f) : i \in 1 .. Len(c) /\ c[i] = f[i]
    BY <1>2, <2>1
  <2>4. \A j \in 1 .. Len(b) : Len(f) + j \in 1 .. Len(c) /\ c[Len(f) + j] = b[j]
    <3> TAKE j \in 1 .. Len(b)
    <3>1. /\ Len(f) + j \in 1 .. Len(f) + Len(b)
          /\ ~(Len(f) + j <= Len(f)) /\ (Len(f) + j) - Len(f) = j
      BY <2>1
    <3> QED
      BY <1>2, <3>1, ZenonT(40)
  <2> QED
    BY <2>2, <2>3, <2>4, ZenonT(40)
<1>4. \A i, j \in 1 .. Len(c) : c[i] = c[j] => i = j
  <2> SUFFICES ASSUME NEW i \in 1 .. Len(c), NEW j \in 1 .. Len(c), c[i] = c[j]
               PROVE  i = j
    BY ZenonT(40)
  <2>1. CASE i \in 1 .. Len(f) /\ c[i] = f[i]
    <3>1. CASE j \in 1 .. Len(f) /\ c[j] = f[j]
      BY <1>1, <2>1, <3>1, ZenonT(40) DEF OncePerIndex
    <3>2. CASE j - Len(f) \in 1 .. Len(b) /\ c[j] = b[j - Len(f)]
      BY <1>1, <2>1, <3>2, ZenonT(40) DEF OncePerIndex
    <3> QED
      BY <1>3, <3>1, <3>2, ZenonT(40)
  <2>2. CASE i - Len(f) \in 1 .. Len(b) /\ c[i] = b[i - Len(f)]
    <3>1. CASE j \in 1 .. Len(f) /\ c[j] = f[j]
      BY <1>1, <2>2, <3>1, ZenonT(40) DEF OncePerIndex
    <3>2. CASE j - Len(f) \in 1 .. Len(b) /\ c[j] = b[j - Len(f)]
      <4>1. i - Len(f) = j - Len(f)
        BY <1>1, <2>2, <3>2, ZenonT(40) DEF OncePerIndex
      <4> QED
        BY <1>2, <4>1
    <3> QED
      BY <1>3, <3>1, <3>2, ZenonT(40)
  <2> QED
    BY <1>3, <2>1, <2>2, ZenonT(40)
<1>5. \A x \in Indices : \E i \in 1 .. Len(c) : c[i] = x
  <2> TAKE x \in Indices
  <2>1. CASE \E i \in 1 .. Len(f) : f[i] = x
    BY <1>3, <2>1, ZenonT(40)
  <2>2. CASE \E j \in 1 .. Len(b) : b[j] = x
    BY <1>3, <2>2, ZenonT(40)
  <2> QED
    BY <1>1, <2>1, <2>2, ZenonT(40) DEF OncePerIndex
<1>6. <<>> \in Seq(Indices) /\ 1 .. Len(<<>>) = {}
  OBVIOUS
<1>7. OncePerIndex(c, <<>>)
  BY <1>4, <1>5, <1>6, ZenonT(40) DEF OncePerIndex
<1> QED
  BY <1>2, <1>6, <1>7, PartitionByIndex, ZenonT(40) DEF FreeMany, c

-----------------------------------------------------------------------------
(* The invariant, one lemma per operation.                                 *)

Inv == TypeOK /\ PoolIntact /\ ContentsKept

\* All buffers are free and the chain is empty at first.
LEMMA InitInv == Init => Inv
<1> SUFFICES ASSUME Init PROVE Inv
  BY ZenonT(40)
<1> USE ChainAssumption
<1>1. free_list \in Seq(Indices) /\ Len(free_list) = Count /\ chain.buffers = <<>>
      /\ \A i \in 1 .. Count : free_list[i] = i - 1
  BY DEF Init, NewPool, Indices
<1>2. TypeOK
  <2>1. memory \in [Indices -> [1 .. BufferSize -> Bytes]]
    BY DEF Init, Indices, Bytes
  <2>2. chain \in [buffers : Seq(Indices), len : Nat] /\ chain.len <= Len(chain.buffers) * BufferSize
    BY DEF Init
  <2>3. value \in Seq(Bytes) /\ pending \in Seq(Bytes) /\ next \in 1 .. MaxBytes + 1
    BY DEF Init
  <2> QED
    BY <1>1, <2>1, <2>2, <2>3, ZenonT(40) DEF TypeOK
<1>3. PoolIntact
  <2>1. <<>> \in Seq(Indices) /\ 1 .. Len(<<>>) = {}
    OBVIOUS
  <2>2. \A x \in Indices : x + 1 \in 1 .. Count /\ free_list[x + 1] = x
    BY <1>1 DEF Indices
  <2>3. \A i, j \in 1 .. Len(free_list) : free_list[i] = free_list[j] => i = j
    BY <1>1
  <2>4. OncePerIndex(free_list, <<>>)
    BY <1>1, <2>1, <2>2, <2>3, ZenonT(40) DEF OncePerIndex
  <2> QED
    BY <1>1, <2>1, <2>4, PartitionByIndex, ZenonT(40) DEF PoolIntact, Partition
<1>4. ContentsKept
  BY DEF Init, ContentsKept
<1> QED
  BY <1>2, <1>3, <1>4, ZenonT(40) DEF Inv

\* The call of append changes only what is still to be copied.
LEMMA AppendDataInv ==
  ASSUME Inv, NEW n \in 1 .. MaxBytes, AppendData(n)
  PROVE  Inv'
<1> USE ChainAssumption
<1>1. pending' \in Seq(Bytes) /\ next' \in 1 .. MaxBytes + 1
  BY DEF Inv, TypeOK, AppendData, Bytes
<1>2. TypeOK'
  BY <1>1, ZenonT(40) DEF Inv, TypeOK, AppendData
<1>3. PoolIntact'
  BY ZenonT(40) DEF Inv, PoolIntact, AppendData
<1>4. ContentsKept'
  BY ZenonT(40) DEF Inv, ContentsKept, AppendData, Dense, ByteAt
<1> QED
  BY <1>2, <1>3, <1>4, ZenonT(40) DEF Inv

\* append gives up with the chain as far as it got.
LEMMA PoolExhaustedInv ==
  ASSUME Inv, PoolExhausted
  PROVE  Inv'
<1>1. TypeOK'
  BY DEF Inv, TypeOK, PoolExhausted
<1>2. PoolIntact'
  BY ZenonT(40) DEF Inv, PoolIntact, PoolExhausted
<1>3. ContentsKept'
  BY ZenonT(40) DEF Inv, ContentsKept, PoolExhausted, Dense, ByteAt
<1> QED
  BY <1>1, <1>2, <1>3, ZenonT(40) DEF Inv

\* release returns every buffer of the chain to the pool.
LEMMA ReleaseInv ==
  ASSUME Inv, Release
  PROVE  Inv'
<1>1. FreeMany(free_list, chain.buffers) \in Seq(Indices)
      /\ Partition(FreeMany(free_list, chain.buffers), <<>>)
  BY FreePartition, ZenonT(40) DEF Inv, TypeOK, PoolIntact, Partition
<1>2. /\ free_list' = FreeMany(free_list, chain.buffers)
      /\ chain' = [buffers |-> <<>>, len |-> 0]
      /\ value' = <<>> /\ memory' = memory /\ pending' = pending /\ next' = next
  BY ZenonT(40) DEF Release
<1>3. TypeOK'
  BY <1>1, <1>2, ChainAssumption DEF Inv, TypeOK
<1>4. PoolIntact'
  BY <1>1, <1>2, ZenonT(40) DEF PoolIntact, Partition
<1>5. ContentsKept'
  BY <1>2 DEF ContentsKept
<1> QED
  BY <1>3, <1>4, <1>5, ZenonT(40) DEF Inv

\* clear keeps the buffers and drops the contents.
LEMMA ClearInv ==
  ASSUME Inv, Clear
  PROVE  Inv'
<1>1. /\ chain' = [buffers |-> chain.buffers, len |-> 0]
      /\ value' = <<>> /\ UNCHANGED <<free_list, memory, pending, next>>
  BY ZenonT(40) DEF Clear, Inv, TypeOK
<1>2. 0 <= Len(chain.buffers) * BufferSize
  BY ChainAssumption DEF Inv, TypeOK
<1>3. TypeOK'
  BY <1>1, <1>2, ChainAssumption DEF Inv, TypeOK
<1>4. PoolIntact'
  BY <1>1, ZenonT(40) DEF Inv, PoolIntact
<1>5. ContentsKept'
  BY <1>1 DEF ContentsKept
<1> QED
  BY <1>3, <1>4, <1>5, ZenonT(40) DEF Inv

\* push_buffer moves a free buffer to the chain.
LEMMA ReserveInv ==
  ASSUME Inv, NEW n \in 1 .. Count, Reserve(n)
  PROVE  Inv'
<1> DEFINE b == chain.buffers
           c == b \o AllocMany(free_list, n)
<1>1. /\ free_list \in Seq(Indices) /\ b \in Seq(Indices) /\ chain.len \in Nat
      /\ Len(b) \in Nat /\ n \in Nat \ {0} /\ chain.len <= Len(b) * BufferSize
      /\ Partition(free_list, b) /\ CanAlloc(free_list, n)
  BY ChainAssumption DEF Inv, TypeOK, PoolIntact, Partition, Reserve
<1>2. /\ free_list' = AfterAlloc(free_list, n)
      /\ chain' = [buffers |-> c, len |-> chain.len]
      /\ UNCHANGED <<memory, value, pending, next>>
  BY ZenonT(40) DEF Reserve, Inv, TypeOK
<1>3. /\ AllocMany(free_list, n) \in Seq(Indices) /\ Len(AllocMany(free_list, n)) = n
      /\ AfterAlloc(free_list, n) \in Seq(Indices)
  BY <1>1, Alloc, ZenonT(40)
<1>4. c \in Seq(Indices) /\ Len(c) = Len(b) + n
  BY <1>1, <1>3, ConcatProperties, ZenonT(40)
<1>5. Partition(AfterAlloc(free_list, n), c)
  BY <1>1, AllocPartition, ZenonT(40)
<1> HIDE DEF c
<1>6. chain.len <= Len(c) * BufferSize
  <2>0. Len(b) \in Nat /\ Len(c) \in Nat /\ Len(b) < Len(c) /\ BufferSize \in Nat \ {0}
    BY <1>1, <1>4, ChainAssumption
  <2>1. Len(b) * BufferSize + BufferSize <= Len(c) * BufferSize
    BY <2>0, Product, ZenonT(40)
  <2>2. /\ BufferSize \in Nat /\ Len(b) * BufferSize \in Nat /\ Len(c) * BufferSize \in Nat
        /\ chain.len \in Nat /\ chain.len <= Len(b) * BufferSize
    BY <1>1, <1>4, ChainAssumption
  <2>3. QED
    BY <2>1, <2>2
<1>7. TypeOK'
  BY <1>1, <1>2, <1>3, <1>4, <1>6, ZenonT(40) DEF Inv, TypeOK
<1>8. PoolIntact'
  BY <1>2, <1>5, ZenonT(40) DEF PoolIntact, Partition
<1>9. ContentsKept'
  <2>1. (chain.len + BufferSize - 1) \div BufferSize <= Len(b)
    BY <1>1, Ceiling, ChainAssumption, ZenonT(40)
  <2>2. (chain.len + BufferSize - 1) \div BufferSize \in Int
    BY <1>1, ChainAssumption
  <2>3. ~Dense'
    BY <1>1, <1>2, <1>4, <2>1, <2>2 DEF Dense
  <2> QED
    BY <1>2, <2>3, ZenonT(40) DEF Inv, ContentsKept
<1> QED
  BY <1>7, <1>8, <1>9, ZenonT(40) DEF Inv

\* One turn of the loop in append writes the next bytes behind the last one.
LEMMA AppendChunkInv ==
  ASSUME Inv, AppendChunk
  PROVE  Inv'
<1> DEFINE b == chain.buffers
           len == chain.len
           needs == NeedsBuffer(chain)
           c == IF needs THEN b \o AllocMany(free_list, 1) ELSE b
           f == IF needs THEN AfterAlloc(free_list, 1) ELSE free_list
           q == len \div BufferSize
           o == Offset(chain)
           available == BufferSize - o
           n == IF available <= Len(pending) THEN available ELSE Len(pending)
           chunk == SubSeq(pending, 1, n)
           last == c[Len(c)]
<1>1. /\ free_list \in Seq(Indices) /\ b \in Seq(Indices) /\ len \in Nat
      /\ Len(b) \in Nat /\ len <= Len(b) * BufferSize
      /\ Partition(free_list, b) /\ BufferSize \in Nat \ {0}
      /\ pending \in Seq(Bytes) /\ Len(pending) \in Nat \ {0}
      /\ value \in Seq(Bytes) /\ len = Len(value)
      /\ memory \in [Indices -> [1 .. BufferSize -> Bytes]]
      /\ next \in 1 .. MaxBytes + 1
  BY ChainAssumption, EmptySeq DEF Inv, TypeOK, PoolIntact, Partition, ContentsKept, AppendChunk
<1>2. /\ needs => CanAlloc(free_list, 1)
      /\ free_list' = f
      /\ chain' = [buffers |-> c, len |-> len + n]
      /\ memory' = [memory EXCEPT ![last] = Written(memory[last], o, chunk)]
      /\ value' = value \o chunk
      /\ pending' = SubSeq(pending, n + 1, Len(pending))
      /\ next' = next
  BY ZenonT(40) DEF AppendChunk, Last
\* The chunk goes to buffer q + 1, if the buffers are dense, at offset o.
<1>3. /\ q \in Nat /\ o \in 0 .. BufferSize - 1 /\ len = q * BufferSize + o
      /\ q * BufferSize \in Nat
  <2>1. q \in Nat /\ o \in 0 .. BufferSize - 1 /\ len = q * BufferSize + o
    BY <1>1, Split, ZenonT(40) DEF Offset
  <2> QED
    BY <1>1, <2>1
<1>4. n \in 1 .. BufferSize - o /\ n <= Len(pending)
  <2> HIDE DEF o
  <2> QED
    BY <1>1, <1>3
<1>5. /\ chunk \in Seq(Bytes) /\ Len(chunk) = n
      /\ \A i \in 1 .. n : chunk[i] \in Bytes
  <2> HIDE DEF n
  <2> QED
    BY <1>1, <1>4
<1>6. pending' \in Seq(Bytes)
  <2> HIDE DEF n
  <2>1. n + 1 \in Int /\ \A i \in n + 1 .. Len(pending) : pending[i] \in Bytes
    BY <1>1, <1>4
  <2> QED
    BY <1>1, <1>2, <2>1, SubSeqProperties
<1>7. /\ value' \in Seq(Bytes) /\ Len(value') = len + n
      /\ \A k \in 1 .. len + n : value'[k] = IF k <= len THEN value[k] ELSE chunk[k - len]
  <2> DEFINE v == value \o chunk
  <2> HIDE DEF chunk, n
  <2>1. /\ v \in Seq(Bytes) /\ Len(v) = Len(value) + Len(chunk)
        /\ \A k \in 1 .. Len(value) + Len(chunk) :
             v[k] = IF k <= Len(value) THEN value[k] ELSE chunk[k - Len(value)]
    BY <1>1, <1>5, ConcatProperties, ZenonT(40)
  <2>2. value' = v
    BY <1>2, ZenonT(40)
  <2> HIDE DEF v
  <2> QED
    BY <1>1, <1>5, <2>1, <2>2, ZenonT(40)
<1> HIDE DEF chunk, n
\* The buffers of the chain stay; a new one comes from the free list.
<1>8. /\ f \in Seq(Indices) /\ c \in Seq(Indices) /\ Partition(f, c)
      /\ Len(c) = IF needs THEN Len(b) + 1 ELSE Len(b)
      /\ \A i \in 1 .. Len(b) : c[i] = b[i]
  <2>1. CASE needs
    <3>1. /\ AllocMany(free_list, 1) \in Seq(Indices) /\ Len(AllocMany(free_list, 1)) = 1
          /\ AfterAlloc(free_list, 1) \in Seq(Indices)
      BY <1>1, <1>2, <2>1, Alloc, ZenonT(40)
    <3>2. Partition(AfterAlloc(free_list, 1), b \o AllocMany(free_list, 1))
      BY <1>1, <1>2, <2>1, AllocPartition, ZenonT(40)
    <3> DEFINE a == AllocMany(free_list, 1)
               e == b \o a
    <3>3. /\ e \in Seq(Indices) /\ Len(e) = Len(b) + Len(a)
          /\ \A i \in 1 .. Len(b) + Len(a) :
               e[i] = IF i <= Len(b) THEN b[i] ELSE a[i - Len(b)]
      <4> HIDE DEF a
      <4> QED
        BY <1>1, <3>1, ConcatProperties DEF a
    <3>4. c = e /\ f = AfterAlloc(free_list, 1)
      BY <2>1, ZenonT(40)
    <3>5. Len(a) = 1
      BY <3>1, ZenonT(40)
    <3> HIDE DEF c, f, e, a
    <3>6. Len(c) = Len(b) + 1
      BY <3>3, <3>4, <3>5, ZenonT(40)
    <3>7. \A i \in 1 .. Len(b) : c[i] = b[i]
      <4> TAKE i \in 1 .. Len(b)
      <4>1. i \in 1 .. Len(b) + Len(a) /\ i <= Len(b)
        BY <1>1, <3>5
      <4>2. e[i] = b[i]
        BY <3>3, <4>1, ZenonT(40)
      <4> QED
        BY <3>4, <4>2, ZenonT(40)
    <3> QED
      BY <2>1, <3>1, <3>2, <3>3, <3>4, <3>6, <3>7, ZenonT(40) DEF a, e
  <2>2. CASE ~needs
    <3> HIDE DEF needs
    <3> QED
      BY <1>1, <2>2, ZenonT(40)
  <2> QED
    BY <2>1, <2>2, ZenonT(40)
<1>9. /\ ~needs => Len(b) > 0 /\ (o > 0 \/ len = 0)
      /\ needs => o = 0
  <2>1. b = <<>> => Len(b) = 0
    OBVIOUS
  <2>2. b # <<>> => Len(b) > 0
    BY <1>1, EmptySeq
  <2>3. Len(b) = 0 => len = 0
    BY <1>1
  <2>4. len = 0 => o = 0
    BY <1>1, <1>3
  <2> QED
    BY <1>1, <1>3, <2>1, <2>2, <2>3, <2>4 DEF NeedsBuffer, Offset
<1> HIDE DEF c, f, needs, o, q
<1>10. Len(c) \in Nat \ {0} /\ last \in Indices
  BY <1>1, <1>8, <1>9
<1> HIDE DEF last
<1>11. /\ memory'[last] = Written(memory[last], o, chunk)
       /\ \A idx \in Indices : idx # last => memory'[idx] = memory[idx]
       /\ memory' \in [Indices -> [1 .. BufferSize -> Bytes]]
  <2>1. Written(memory[last], o, chunk) \in [1 .. BufferSize -> Bytes]
    BY <1>1, <1>3, <1>4, <1>5, <1>10 DEF Written
  <2> QED
    BY <1>1, <1>2, <1>10, <2>1, ZenonT(40)
\* There is room for the chunk.
<1>12. len + n <= Len(c) * BufferSize
  <2>1. CASE needs
    <3>1. n <= BufferSize /\ Len(c) * BufferSize = Len(b) * BufferSize + BufferSize
      BY <1>1, <1>3, <1>4, <1>8, <2>1, Z3
    <3> QED
      BY <1>1, <1>4, <2>1, <3>1
  <2>2. CASE ~needs
    <3>1. q < Len(b)
      <4>1. q * BufferSize + o <= Len(b) * BufferSize
        BY <1>1, <1>3, ZenonT(40)
      <4>2. o > 0 \/ (q * BufferSize + o = 0 /\ Len(b) > 0)
        BY <1>3, <1>9, <2>2, ZenonT(40)
      <4>3. o \in Nat
        BY <1>3
      <4> QED
        BY <1>1, <1>3, <4>1, <4>2, <4>3, Below, ZenonT(40)
    <3>2. q * BufferSize + BufferSize <= Len(b) * BufferSize
      BY <1>1, <1>3, <3>1, Product, ZenonT(40)
    <3>3. Len(c) = Len(b) /\ Len(b) * BufferSize \in Nat
      BY <1>1, <1>8, <2>2
    <3> QED
      BY <1>1, <1>3, <1>4, <3>2, <3>3
  <2> QED
    BY <2>1, <2>2, ZenonT(40)
<1>13. TypeOK'
  <2>1. chain' \in [buffers : Seq(Indices), len : Nat]
    BY <1>1, <1>2, <1>4, <1>8
  <2> QED
    BY <1>1, <1>2, <1>6, <1>7, <1>8, <1>11, <1>12, <2>1, ZenonT(40) DEF TypeOK
<1>14. PoolIntact'
  BY <1>2, <1>8, ZenonT(40) DEF PoolIntact, Partition
\* If the buffers are dense now, then they were before, unless there was no byte.
<1>15. ASSUME Dense'
       PROVE  Len(c) = q + 1 /\ (len > 0 => Dense)
  <2> DEFINE r == o + n - 1
  <2>1. r \in 0 .. BufferSize - 1
    BY <1>1, <1>3, <1>4
  <2>2. len + n + BufferSize - 1 = (q + 1) * BufferSize + r
    <3>1. (q + 1) * BufferSize = q * BufferSize + BufferSize
      BY <1>1, <1>3, Z3
    <3> QED
      BY <1>1, <1>3, <1>4, <3>1
  <2>3. (len + n + BufferSize - 1) \div BufferSize = q + 1
    <3> HIDE DEF r
    <3>1. ((q + 1) * BufferSize + r) \div BufferSize = q + 1
      <4>1. q + 1 \in Nat
        BY <1>3
      <4> QED
        BY <1>1, <2>1, <4>1, Unique, ZenonT(40)
    <3> QED
      BY <2>2, <3>1, ZenonT(40)
  <2>4. Len(c) = q + 1
    BY <1>2, <1>15, <2>3, ZenonT(40) DEF Dense
  <2>5. ASSUME len > 0 PROVE Dense
    <3>1. CASE needs
      <4>1. o = 0 /\ Len(b) = q
        BY <1>1, <1>3, <1>8, <1>9, <2>4, <3>1
      <4>2. len + BufferSize - 1 = q * BufferSize + (BufferSize - 1)
        BY <1>1, <1>3, <4>1
      <4>3. (q * BufferSize + (BufferSize - 1)) \div BufferSize = q
        <5>1. BufferSize - 1 \in 0 .. BufferSize - 1
          BY <1>1
        <5> QED
          BY <1>1, <1>3, <5>1, Unique, ZenonT(40)
      <4> QED
        BY <4>1, <4>2, <4>3, ZenonT(40) DEF Dense
    <3>2. CASE ~needs
      <4>1. o > 0 /\ Len(b) = q + 1
        BY <1>8, <1>9, <2>4, <2>5, <3>2
      <4>2. len + BufferSize - 1 = (q + 1) * BufferSize + (o - 1)
        <5>1. (q + 1) * BufferSize = q * BufferSize + BufferSize
          BY <1>1, <1>3, Z3
        <5> QED
          BY <1>1, <1>3, <5>1
      <4>3. o - 1 \in 0 .. BufferSize - 1
        BY <1>1, <1>3, <4>1
      <4>4. ((q + 1) * BufferSize + (o - 1)) \div BufferSize = q + 1
        <5>1. q + 1 \in Nat
          BY <1>3
        <5> QED
          BY <1>1, <4>3, <5>1, Unique, ZenonT(40)
      <4> QED
        BY <4>1, <4>2, <4>4, ZenonT(40) DEF Dense
    <3> QED
      BY <3>1, <3>2, ZenonT(40)
  <2> QED
    BY <2>4, <2>5, ZenonT(40)
\* Earlier bytes are in other buffers, or before the offset in the last one.
<1>16. ASSUME Dense', NEW k \in 1 .. len
       PROVE  ByteAt(k)' = value'[k]
  <2> DEFINE x == (k - 1) \div BufferSize
             y == (k - 1) % BufferSize
  <2>1. /\ x \in Nat /\ y \in 0 .. BufferSize - 1 /\ k - 1 = x * BufferSize + y
        /\ x * BufferSize \in Nat
    <3>1. k - 1 \in Nat
      BY <1>1
    <3>2. x \in Nat /\ y \in 0 .. BufferSize - 1 /\ k - 1 = x * BufferSize + y
      BY <1>1, <3>1, Split, ZenonT(40)
    <3> QED
      BY <1>1, <3>2
  <2>2. ByteAt(k) = memory[b[x + 1]][y + 1] /\ ByteAt(k)' = memory'[c[x + 1]][y + 1]
    BY <1>2, ZenonT(40) DEF ByteAt
  <2>3. ByteAt(k) = value[k] /\ value'[k] = value[k]
    BY <1>1, <1>4, <1>7, <1>15, <1>16 DEF Inv, ContentsKept
  <2> HIDE DEF x, y
  <2>4. x < Len(b)
    <3>1. x * BufferSize + (y + 1) <= Len(b) * BufferSize
      <4>1. Len(b) * BufferSize \in Nat
        BY <1>1
      <4> QED
        BY <1>1, <2>1, <4>1
    <3>2. y + 1 \in Nat /\ y + 1 > 0
      BY <1>1, <2>1
    <3> QED
      BY <1>1, <2>1, <3>1, <3>2, Below, ZenonT(40)
  <2>5. c[x + 1] = b[x + 1] /\ x + 1 \in 1 .. Len(c) /\ c[x + 1] \in Indices
    <3>1. x + 1 \in 1 .. Len(b) /\ 1 .. Len(b) \subseteq 1 .. Len(c)
      BY <1>1, <1>8, <2>1, <2>4
    <3> QED
      BY <1>8, <3>1
  <2>6. CASE x = q
    <3>1. y + 1 \in 1 .. BufferSize /\ y + 1 <= o
      BY <1>1, <1>3, <2>1, <2>6
    <3>2. c[x + 1] = last
      BY <1>15, <1>16, <2>6, ZenonT(40) DEF last
    <3>3. y + 1 \notin o + 1 .. o + Len(chunk)
      BY <1>3, <1>5, <3>1
    <3>4. memory'[last][y + 1] = memory[last][y + 1]
      BY <1>11, <3>1, <3>3, ZenonT(40) DEF Written
    <3> QED
      BY <2>2, <2>3, <2>5, <3>2, <3>4, ZenonT(40)
  <2>7. CASE x # q
    <3>1. c[x + 1] # last
      <4>1. Len(c) \in 1 .. Len(c) /\ x + 1 # Len(c)
        BY <1>10, <1>15, <1>16, <1>3, <2>1, <2>7
      <4>2. \A i, j \in 1 .. Len(c) : c[i] = c[j] => i = j
        BY <1>8, PartitionByIndex, ZenonT(40) DEF OncePerIndex
      <4> QED
        BY <2>5, <4>1, <4>2, ZenonT(40) DEF last
    <3> QED
      BY <1>11, <2>2, <2>3, <2>5, <3>1, ZenonT(40)
  <2> QED
    BY <2>6, <2>7, ZenonT(40)
\* The bytes of the chunk are in the last buffer.
<1>17. ASSUME Dense', NEW k \in len + 1 .. len + n
       PROVE  ByteAt(k)' = value'[k]
  <2> DEFINE j == k - len
  <2>1. j \in 1 .. n /\ k = len + j
    BY <1>1, <1>4
  <2> HIDE DEF j
  <2>2. o + j - 1 \in 0 .. BufferSize - 1 /\ k - 1 = q * BufferSize + (o + j - 1)
    BY <1>1, <1>3, <1>4, <2>1
  <2>3. (k - 1) \div BufferSize = q /\ (k - 1) % BufferSize = o + j - 1
    <3>1. /\ (q * BufferSize + (o + j - 1)) \div BufferSize = q
          /\ (q * BufferSize + (o + j - 1)) % BufferSize = o + j - 1
      BY <1>1, <1>3, <2>2, Unique, ZenonT(40)
    <3> QED
      BY <2>2, <3>1, ZenonT(40)
  <2>4. ByteAt(k)' = memory'[c[q + 1]][(o + j - 1) + 1]
    BY <1>2, <2>3, ZenonT(40) DEF ByteAt
  <2>5. c[q + 1] = last /\ (o + j - 1) + 1 = o + j
    BY <1>3, <1>4, <1>15, <1>17, <2>1 DEF last
  <2>6. o + j \in 1 .. BufferSize /\ o + j \in o + 1 .. o + Len(chunk) /\ (o + j) - o = j
    BY <1>1, <1>3, <1>4, <1>5, <2>1
  <2>7. memory'[last][o + j] = chunk[j]
    BY <1>11, <2>6, ZenonT(40) DEF Written
  <2>8. value'[k] = chunk[j]
    <3>1. k \in 1 .. len + n /\ ~(k <= len) /\ k - len = j
      BY <1>1, <1>4 DEF j
    <3> QED
      BY <1>7, <3>1, ZenonT(40)
  <2> QED
    BY <2>4, <2>5, <2>7, <2>8, ZenonT(40)
<1>18. ContentsKept'
  <2>1. chain'.len = len + n /\ Len(value') = len + n
    BY <1>2, <1>7, ZenonT(40)
  <2>2. ASSUME Dense', NEW k \in 1 .. len + n
        PROVE  ByteAt(k)' = value'[k]
    <3>1. CASE k \in 1 .. len
      BY <1>16, <2>2, <3>1, ZenonT(40)
    <3>2. CASE k \in len + 1 .. len + n
      BY <1>17, <2>2, <3>2, ZenonT(40)
    <3> QED
      BY <1>1, <1>4, <3>1, <3>2
  <2> QED
    BY <2>1, <2>2, ZenonT(40) DEF ContentsKept
<1> QED
  BY <1>13, <1>14, <1>18, ZenonT(40) DEF Inv

-----------------------------------------------------------------------------
(* Theorems.                                                               *)

\* Every step preserves the invariant.
LEMMA NextInv == Inv /\ [Next]_vars => Inv'
<1> SUFFICES ASSUME Inv, [Next]_vars PROVE Inv'
  BY ZenonT(40)
<1>1. CASE \E n \in 1 .. MaxBytes : AppendData(n)
  BY <1>1, AppendDataInv, ZenonT(40)
<1>2. CASE AppendChunk
  BY <1>2, AppendChunkInv, ZenonT(40)
<1>3. CASE PoolExhausted
  BY <1>3, PoolExhaustedInv, ZenonT(40)
<1>4. CASE \E n \in 1 .. Count : Reserve(n)
  BY <1>4, ReserveInv, ZenonT(40)
<1>5. CASE Clear
  BY <1>5, ClearInv, ZenonT(40)
<1>6. CASE Release
  BY <1>6, ReleaseInv, ZenonT(40)
<1>7. CASE UNCHANGED vars
  BY <1>7, ZenonT(40) DEF vars, Inv, TypeOK, PoolIntact, ContentsKept, Dense, ByteAt
<1> QED
  BY <1>1, <1>2, <1>3, <1>4, <1>5, <1>6, <1>7, ZenonT(40) DEF Next

\* The free list and the chain only hold indices of the pool, and a chain is never
\* longer than its buffers, whatever sequence of append, push_buffer, clear and
\* release led there.
THEOREM ChainTyped == Spec => []TypeOK
<1>1. Inv => TypeOK
  BY ZenonT(40) DEF Inv
<1> QED
  BY <1>1, InitInv, NextInv, PTL DEF Spec

\* No operation of a chain loses a buffer of the pool or leaves one in two places,
\* for any number of buffers.
THEOREM BuffersConserved == Spec => []PoolIntact
<1>1. Inv => PoolIntact
  BY ZenonT(40) DEF Inv
<1> QED
  BY <1>1, InitInv, NextInv, PTL DEF Spec

\* A chain whose buffers are all in use holds, byte by byte, what append was given,
\* for any size of a buffer and any length of the data.
THEOREM BytesKept == Spec => []ContentsKept
<1>1. Inv => ContentsKept
  BY ZenonT(40) DEF Inv
<1> QED
  BY <1>1, InitInv, NextInv, PTL DEF Spec

=============================================================================
