------------------------- MODULE ReadingBufferProofs ------------------------
(***************************************************************************)
(* Proofs about the reading buffer, for any number of nodes, slots and     *)
(* readings: its invariants, and that it implements StoreForward.          *)
(***************************************************************************)
EXTENDS ReadingBuffer, WellFoundedInduction, SequenceTheorems, FiniteSetTheorems, TLAPS

-----------------------------------------------------------------------------
(* Arithmetic and minima *)

\* A ring index moves on by at most one lap.
LEMMA RingWrap ==
  ASSUME NEW N \in Nat \ {0}, NEW h \in 0 .. N - 1, NEW k \in 0 .. N
  PROVE  /\ (h + k) % N = IF h + k < N THEN h + k ELSE h + k - N
         /\ (h + k) % N \in 0 .. N - 1
<1>1. CASE h + k < N
  BY <1>1, SMT
<1>2. CASE h + k >= N
  BY <1>2, SMT
<1>3. QED
  BY <1>1, <1>2

\* The same, for this buffer's rings.
LEMMA RingStep ==
  ASSUME NEW h \in RingIndex, NEW k \in 0 .. ReadingsPerNode
  PROVE  /\ (h + k) % ReadingsPerNode =
              IF h + k < ReadingsPerNode THEN h + k ELSE h + k - ReadingsPerNode
         /\ (h + k) % ReadingsPerNode \in RingIndex
BY RingWrap, SizeAssumption DEF RingIndex

\* Every nonempty set of naturals has a least element.
LEMMA NatMinimum ==
  ASSUME NEW S, S \subseteq Nat, S # {}
  PROVE  \E x \in S : \A y \in S : x <= y
<1>1. IsWellFoundedOn(OpToRel(<, Nat), Nat)
  BY NatLessThanWellFounded
<1>2. PICK x \in S : \A y \in S : ~ (<<y, x>> \in OpToRel(<, Nat))
  BY <1>1, WFMin
<1>3. \A y \in S : ~ (y < x)
  BY <1>2 DEF OpToRel
<1>4. QED
  BY <1>3

\* The lowest of a nonempty set of slots is one of them.
LEMMA LowestIn ==
  ASSUME NEW S, S \subseteq Slot, S # {}
  PROVE  Lowest(S) \in S
<1>1. S \subseteq Nat
  BY SizeAssumption DEF Slot
<1>2. \E i \in S : \A j \in S : i <= j
  BY <1>1, NatMinimum
<1>3. QED
  BY <1>2 DEF Lowest

\* The rotating search stops at a slot that has readings.
LEMMA FirstPendingIn ==
  ASSUME TypeOK, Pending # {}
  PROVE  FirstPending \in Pending
<1>1. \A i \in Slot : Distance(i) \in Nat
  BY SizeAssumption DEF TypeOK, Distance, Slot
<1>2. PICK d \in {Distance(i) : i \in Pending} :
        \A e \in {Distance(i) : i \in Pending} : d <= e
  <2>1. {Distance(i) : i \in Pending} \subseteq Nat
    BY <1>1 DEF Pending
  <2>2. QED
    BY <2>1, NatMinimum
<1>3. \E i \in Pending : \A j \in Pending : Distance(i) <= Distance(j)
  BY <1>2
<1>4. QED
  BY <1>3 DEF FirstPending

-----------------------------------------------------------------------------
(* One slot's ring *)

\* A function over 1 .. n is a sequence of length n.
LEMMA FunctionIsSequence ==
  ASSUME NEW S, NEW n \in Nat, NEW f \in [1 .. n -> S]
  PROVE  f \in Seq(S) /\ Len(f) = n
OBVIOUS

\* What Contents is: as many readings as the slot counts, from the head on.
LEMMA ContentsOfSlot ==
  ASSUME NEW slot \in NodeSlot
  PROVE  /\ Contents(slot) \in Seq(Readings \cup {NoReading})
         /\ Len(Contents(slot)) = slot.count
         /\ \A k \in 1 .. slot.count :
              Contents(slot)[k] = slot.ring[(slot.head + (k - 1)) % ReadingsPerNode]
<1>1. /\ slot.head \in RingIndex
      /\ slot.count \in 0 .. ReadingsPerNode /\ slot.count \in Nat
      /\ slot.ring \in [RingIndex -> Readings \cup {NoReading}]
  BY SizeAssumption DEF NodeSlot
<1>2. ASSUME NEW k \in 1 .. slot.count
      PROVE  slot.ring[(slot.head + (k - 1)) % ReadingsPerNode] \in Readings \cup {NoReading}
  <2>1. k - 1 \in 0 .. ReadingsPerNode
    BY <1>1, SizeAssumption
  <2>2. QED
    BY <1>1, <2>1, RingStep
<1>3. Contents(slot) \in [1 .. slot.count -> Readings \cup {NoReading}]
  BY <1>2 DEF Contents
<1>4. QED
  BY <1>1, <1>3, FunctionIsSequence DEF Contents

\* Storing a reading in a ring that is not full appends it to the contents.
LEMMA AddNewestAppends ==
  ASSUME NEW slot \in NodeSlot, NEW r \in Readings, slot.count < ReadingsPerNode
  PROVE  /\ AddNewest(slot, r) \in NodeSlot
         /\ AddNewest(slot, r).used = slot.used
         /\ AddNewest(slot, r).uid = slot.uid
         /\ AddNewest(slot, r).count = slot.count + 1
         /\ Contents(AddNewest(slot, r)) = Append(Contents(slot), r)
<1> DEFINE N   == ReadingsPerNode
           new == AddNewest(slot, r)
           at  == (slot.head + slot.count) % N
           c   == Contents(slot)
<1>1. /\ slot.head \in RingIndex /\ slot.head \in Nat
      /\ slot.count \in 0 .. N - 1 /\ slot.count \in 0 .. N
      /\ slot.ring \in [RingIndex -> Readings \cup {NoReading}]
      /\ slot.used \in BOOLEAN /\ slot.uid \in Uids \cup {NoUid}
      /\ N \in Nat \ {0}
  BY SizeAssumption DEF NodeSlot, RingIndex
<1>2. /\ at = IF slot.head + slot.count < N THEN slot.head + slot.count
                                            ELSE slot.head + slot.count - N
      /\ at \in RingIndex
  BY <1>1, RingStep
<1>3. /\ new.used = slot.used
      /\ new.uid = slot.uid
      /\ new.ring = [slot.ring EXCEPT ![at] = r]
      /\ new.head = slot.head
      /\ new.count = slot.count + 1
  <2>1. new = [slot EXCEPT !.ring[at] = r, !.count = @ + 1]
    BY DEF AddNewest
  <2> HIDE DEF at, new
  <2>2. QED
    BY <2>1 DEF NodeSlot
<1>4. new \in NodeSlot
  <2>1. new = [slot EXCEPT !.ring[at] = r, !.count = @ + 1]
    BY DEF AddNewest
  <2>2. slot.count + 1 \in 0 .. N
    BY <1>1
  <2> HIDE DEF at, new
  <2>3. [slot.ring EXCEPT ![at] = r] \in [RingIndex -> Readings \cup {NoReading}]
    BY <1>1, <1>2
  <2>4. QED
    BY <2>1, <2>2, <2>3 DEF NodeSlot
<1>5. ASSUME NEW k \in 1 .. slot.count
      PROVE  /\ (slot.head + (k - 1)) % N \in RingIndex
             /\ (slot.head + (k - 1)) % N # at
  <2> DEFINE back == k - 1
             from == (slot.head + back) % N
  <2>1. back \in 0 .. N /\ back < slot.count
    BY <1>1
  <2> HIDE DEF back
  <2>2. /\ from = IF slot.head + back < N THEN slot.head + back
                                          ELSE slot.head + back - N
        /\ from \in RingIndex
    BY <1>1, <2>1, RingStep
  <2> HIDE DEF from, at
  <2>3. from \in RingIndex /\ from # at
    BY <1>1, <1>2, <2>1, <2>2
  <2>4. QED
    BY <2>3 DEF from, back
<1>6. /\ c \in Seq(Readings \cup {NoReading})
      /\ Len(c) = slot.count
      /\ \A k \in 1 .. slot.count : c[k] = slot.ring[(slot.head + (k - 1)) % N]
  BY ContentsOfSlot
<1>7. /\ Contents(new) \in Seq(Readings \cup {NoReading})
      /\ Len(Contents(new)) = slot.count + 1
      /\ \A k \in 1 .. slot.count + 1 :
           Contents(new)[k] = [slot.ring EXCEPT ![at] = r][(slot.head + (k - 1)) % N]
  BY <1>3, <1>4, ContentsOfSlot
<1>8. ASSUME NEW k \in 1 .. slot.count + 1
      PROVE  [slot.ring EXCEPT ![at] = r][(slot.head + (k - 1)) % N] =
               IF k = slot.count + 1 THEN r ELSE c[k]
  <2>1. CASE k = slot.count + 1
    <3>1. k - 1 = slot.count
      BY <1>1, <2>1
    <3>2. QED
      BY <1>1, <1>2, <2>1, <3>1
  <2>2. CASE k # slot.count + 1
    <3>1. k \in 1 .. slot.count
      BY <1>1, <2>2
    <3>2. QED
      BY <1>1, <1>5, <1>6, <2>2, <3>1
  <2>3. QED
    BY <2>1, <2>2
<1>9. Contents(new) = Append(c, r)
  <2>1. /\ Append(c, r) \in Seq(Readings \cup {NoReading})
        /\ Len(Append(c, r)) = slot.count + 1
        /\ \A k \in 1 .. slot.count : Append(c, r)[k] = c[k]
        /\ Append(c, r)[slot.count + 1] = r
    BY <1>6, AppendProperties
  <2> HIDE DEF new, at, c
  <2>2. \A k \in 1 .. slot.count + 1 : Contents(new)[k] = Append(c, r)[k]
    BY <1>1, <1>7, <1>8, <2>1
  <2>3. QED
    BY <1>7, <2>1, <2>2, SeqEqual
<1>10. QED
  BY <1>3, <1>4, <1>9

\* Dropping the oldest reading of a ring that is not empty leaves the rest.
LEMMA DropOldestTails ==
  ASSUME NEW slot \in NodeSlot, slot.count > 0
  PROVE  /\ DropOldest(slot) \in NodeSlot
         /\ DropOldest(slot).used = slot.used
         /\ DropOldest(slot).uid = slot.uid
         /\ DropOldest(slot).count = slot.count - 1
         /\ Contents(DropOldest(slot)) = Tail(Contents(slot))
<1> DEFINE N    == ReadingsPerNode
           new  == DropOldest(slot)
           next == (slot.head + 1) % N
           c    == Contents(slot)
<1>1. /\ slot.head \in RingIndex /\ slot.head \in 0 .. N - 1
      /\ slot.count \in 1 .. N
      /\ slot.ring \in [RingIndex -> Readings \cup {NoReading}]
      /\ slot.used \in BOOLEAN /\ slot.uid \in Uids \cup {NoUid}
      /\ N \in Nat \ {0} /\ 1 \in 0 .. N
  BY SizeAssumption DEF NodeSlot, RingIndex
<1>2. /\ next = IF slot.head + 1 < N THEN slot.head + 1 ELSE slot.head + 1 - N
      /\ next \in RingIndex /\ next \in 0 .. N - 1
  BY <1>1, RingStep DEF RingIndex
<1>3. /\ new \in NodeSlot
      /\ new.used = slot.used
      /\ new.uid = slot.uid
      /\ new.ring = slot.ring
      /\ new.head = next
      /\ new.count = slot.count - 1
  <2>1. new = [slot EXCEPT !.head = next, !.count = @ - 1]
    BY DEF DropOldest
  <2>2. slot.count - 1 \in 0 .. N
    BY <1>1
  <2> HIDE DEF next, new
  <2>3. QED
    BY <1>2, <2>1, <2>2 DEF NodeSlot
<1>5. ASSUME NEW k \in 1 .. slot.count - 1
      PROVE  (next + (k - 1)) % N = (slot.head + k) % N
  <2>1. k \in 0 .. N /\ k - 1 \in 0 .. N
    BY <1>1
  <2>2. (slot.head + k) % N =
          IF slot.head + k < N THEN slot.head + k ELSE slot.head + k - N
    BY <1>1, <2>1, RingStep
  <2>3. (next + (k - 1)) % N =
          IF next + (k - 1) < N THEN next + (k - 1) ELSE next + (k - 1) - N
    BY <1>2, <2>1, RingStep
  <2>4. QED
    BY <1>1, <1>2, <2>1, <2>2, <2>3
<1>6. /\ c \in Seq(Readings \cup {NoReading})
      /\ Len(c) = slot.count
      /\ \A k \in 1 .. slot.count : c[k] = slot.ring[(slot.head + (k - 1)) % N]
  BY ContentsOfSlot
<1>7. /\ Contents(new) \in Seq(Readings \cup {NoReading})
      /\ Len(Contents(new)) = slot.count - 1
      /\ \A k \in 1 .. slot.count - 1 : Contents(new)[k] = slot.ring[(next + (k - 1)) % N]
  BY <1>3, ContentsOfSlot
<1>8. ASSUME NEW k \in 1 .. slot.count - 1
      PROVE  c[k + 1] = slot.ring[(next + (k - 1)) % N]
  <2>1. k + 1 \in 1 .. slot.count /\ (k + 1) - 1 = k
    BY <1>1
  <2>2. c[k + 1] = slot.ring[(slot.head + k) % N]
    BY <1>6, <2>1
  <2>3. QED
    BY <1>5, <2>2
<1>9. Contents(new) = Tail(c)
  <2>1. c # << >>
    BY <1>1, <1>6
  <2>2. /\ Tail(c) \in Seq(Readings \cup {NoReading})
        /\ Len(Tail(c)) = slot.count - 1
        /\ \A k \in 1 .. slot.count - 1 : Tail(c)[k] = c[k + 1]
    BY <1>6, <2>1, HeadTailProperties
  <2> HIDE DEF new, next, c
  <2>3. \A k \in 1 .. slot.count - 1 : Contents(new)[k] = Tail(c)[k]
    BY <1>7, <1>8, <2>2
  <2>4. QED
    BY <1>7, <2>2, <2>3, SeqEqual
<1>10. QED
  BY <1>3, <1>9

\* The oldest reading of a slot that has any is the first of its contents.
LEMMA OldestIsHead ==
  ASSUME NEW slot \in NodeSlot, slot.count > 0
  PROVE  /\ Oldest(slot) = [uid |-> slot.uid, reading |-> Head(Contents(slot))]
         /\ Contents(slot) # << >>
<1>1. /\ slot.head \in RingIndex /\ slot.head \in 0 .. ReadingsPerNode - 1
      /\ slot.count \in 1 .. ReadingsPerNode
      /\ 0 \in 0 .. ReadingsPerNode /\ 1 \in 1 .. slot.count
      /\ ReadingsPerNode \in Nat \ {0}
  BY SizeAssumption DEF NodeSlot, RingIndex
<1>2. (slot.head + 0) % ReadingsPerNode = slot.head
  BY <1>1, RingStep
<1>3. Contents(slot)[1] = slot.ring[slot.head]
  <2>1. Contents(slot)[1] = slot.ring[(slot.head + (1 - 1)) % ReadingsPerNode]
    BY <1>1, ContentsOfSlot
  <2>2. 1 - 1 = 0
    OBVIOUS
  <2>3. QED
    BY <1>2, <2>1, <2>2
<1>4. Contents(slot) # << >> /\ Head(Contents(slot)) = Contents(slot)[1]
  BY <1>1, ContentsOfSlot
<1>5. QED
  BY <1>3, <1>4 DEF Oldest

\* What a push makes of the slot it lands in: the reading joins the contents,
\* in place of the oldest one if the ring was full.
LEMMA PushedContents ==
  ASSUME NEW slot \in NodeSlot, NEW r \in Readings, Contents(slot) \in Seq(Readings)
  PROVE  /\ Pushed(slot, r) \in NodeSlot
         /\ Pushed(slot, r).used = slot.used
         /\ Pushed(slot, r).uid = slot.uid
         /\ Pushed(slot, r).count > 0
         /\ Contents(Pushed(slot, r)) =
              IF IsFull(slot) THEN Append(Tail(Contents(slot)), r)
                              ELSE Append(Contents(slot), r)
         /\ Contents(Pushed(slot, r)) \in Seq(Readings)
<1>1. slot.count \in 0 .. ReadingsPerNode /\ ReadingsPerNode \in Nat \ {0}
  BY SizeAssumption DEF NodeSlot
<1>2. CASE IsFull(slot)
  <2> DEFINE room == DropOldest(slot)
  <2>1. slot.count > 0
    BY <1>1, <1>2 DEF IsFull
  <2>2. /\ room \in NodeSlot
        /\ room.used = slot.used
        /\ room.uid = slot.uid
        /\ room.count = slot.count - 1
        /\ Contents(room) = Tail(Contents(slot))
    BY <2>1, DropOldestTails
  <2>3. Contents(slot) # << >> /\ Tail(Contents(slot)) \in Seq(Readings)
    BY <2>1, OldestIsHead, HeadTailProperties
  <2>4. room.count < ReadingsPerNode /\ room.count + 1 > 0
    BY <1>1, <2>1, <2>2
  <2>5. Pushed(slot, r) = AddNewest(room, r)
    BY <1>2 DEF Pushed
  <2> HIDE DEF room
  <2>6. /\ AddNewest(room, r) \in NodeSlot
        /\ AddNewest(room, r).used = slot.used
        /\ AddNewest(room, r).uid = slot.uid
        /\ AddNewest(room, r).count > 0
        /\ Contents(AddNewest(room, r)) = Append(Tail(Contents(slot)), r)
    BY <2>2, <2>4, AddNewestAppends
  <2>7. Append(Tail(Contents(slot)), r) \in Seq(Readings)
    BY <2>3, AppendProperties
  <2>8. QED
    BY <1>2, <2>5, <2>6, <2>7
<1>3. CASE ~ IsFull(slot)
  <2>1. slot.count < ReadingsPerNode /\ slot.count + 1 > 0
    BY <1>1, <1>3 DEF IsFull
  <2>2. Pushed(slot, r) = AddNewest(slot, r)
    BY <1>3 DEF Pushed
  <2>3. QED
    BY <1>3, <2>1, <2>2, AddNewestAppends, AppendProperties
<1>4. QED
  BY <1>2, <1>3

-----------------------------------------------------------------------------
(* The inductive invariant *)

IInv == TypeOK /\ SlotsConsistent /\ RingWritten /\ PeekHolds

\* A zeroed slot is well formed and holds nothing.
LEMMA ZeroedIsEmpty ==
  /\ ZeroedSlot \in NodeSlot
  /\ ZeroedSlot.used = FALSE
  /\ ZeroedSlot.count = 0
  /\ Contents(ZeroedSlot) = << >>
<1>1. /\ 0 \in RingIndex /\ 0 \in 0 .. ReadingsPerNode
      /\ [k \in RingIndex |-> NoReading] \in [RingIndex -> Readings \cup {NoReading}]
  BY SizeAssumption DEF RingIndex
<1>2. ZeroedSlot \in NodeSlot /\ ZeroedSlot.used = FALSE /\ ZeroedSlot.count = 0
  BY <1>1 DEF ZeroedSlot, NodeSlot
<1>3. Contents(ZeroedSlot) = << >>
  BY <1>2, ContentsOfSlot, EmptySeq
<1>4. QED
  BY <1>2, <1>3

\* The slot a push works on: the node's own, or a free one claimed for it that
\* no other node uses.
LEMMA FoundSlot ==
  ASSUME TypeOK, SlotsConsistent, RingWritten, NEW u \in Uids, HasRoom(u)
  PROVE  /\ ChosenSlot(u) \in Slot
         /\ FindOrClaim(u) \in NodeSlot
         /\ FindOrClaim(u).used
         /\ FindOrClaim(u).uid = u
         /\ Contents(FindOrClaim(u)) \in Seq(Readings)
         /\ \A j \in Slot : slots[j].used /\ slots[j].uid = u => j = ChosenSlot(u)
         /\ slots[ChosenSlot(u)].used => FindOrClaim(u) = slots[ChosenSlot(u)]
         /\ ~ slots[ChosenSlot(u)].used => /\ SlotsOf(u) = {}
                                           /\ Contents(FindOrClaim(u)) = << >>
<1> DEFINE i == ChosenSlot(u)
           fresh == [ZeroedSlot EXCEPT !.used = TRUE, !.uid = u]
<1>1. SlotsOf(u) \subseteq Slot /\ FreeSlots \subseteq Slot
  BY DEF SlotsOf, FreeSlots
<1>2. CASE SlotsOf(u) # {}
  <2>1. i \in SlotsOf(u)
    BY <1>1, <1>2, LowestIn DEF ChosenSlot
  <2>2. i \in Slot /\ slots[i].used /\ slots[i].uid = u
    BY <2>1 DEF SlotsOf
  <2>3. FindOrClaim(u) = slots[i]
    BY <2>2 DEF FindOrClaim
  <2>4. slots[i] \in NodeSlot /\ Contents(slots[i]) \in Seq(Readings)
    BY <2>2 DEF TypeOK, RingWritten
  <2>5. \A j \in Slot : slots[j].used /\ slots[j].uid = u => j = i
    BY <2>2 DEF SlotsConsistent
  <2> HIDE DEF i
  <2>6. QED
    BY <2>2, <2>3, <2>4, <2>5 DEF i
<1>3. CASE SlotsOf(u) = {}
  <2>1. i \in FreeSlots
    BY <1>1, <1>3, LowestIn DEF ChosenSlot, HasRoom
  <2>2. i \in Slot /\ ~ slots[i].used
    BY <2>1 DEF FreeSlots
  <2>3. FindOrClaim(u) = fresh
    BY <2>2 DEF FindOrClaim
  <2>4. /\ fresh \in NodeSlot
        /\ fresh.used
        /\ fresh.uid = u
        /\ fresh.count = 0
    BY ZeroedIsEmpty DEF NodeSlot
  <2>5. Contents(fresh) = << >> /\ << >> \in Seq(Readings)
    BY <2>4, ContentsOfSlot, EmptySeq
  <2>6. \A j \in Slot : ~ (slots[j].used /\ slots[j].uid = u)
    BY <1>3 DEF SlotsOf
  <2> HIDE DEF i, fresh
  <2>7. QED
    BY <1>3, <2>2, <2>3, <2>4, <2>5, <2>6 DEF i
<1>4. QED
  BY <1>2, <1>3

\* Init establishes the invariant.
LEMMA InitIInv == Init => IInv
<1> SUFFICES ASSUME Init PROVE IInv
  OBVIOUS
<1>1. TypeOK
  BY ZeroedIsEmpty, SizeAssumption DEF Init, TypeOK, Slot
<1>2. SlotsConsistent
  BY ZeroedIsEmpty DEF Init, SlotsConsistent
<1>3. RingWritten
  BY ZeroedIsEmpty, EmptySeq DEF Init, RingWritten
<1>4. PeekHolds
  BY DEF Init, PeekHolds
<1>5. QED
  BY <1>1, <1>2, <1>3, <1>4 DEF IInv

\* A push that is stored keeps the invariant.
LEMMA PushIInv ==
  ASSUME IInv, NEW p \in Payload, Push(p)
  PROVE  IInv'
<1> DEFINE i    == ChosenSlot(p.uid)
           slot == FindOrClaim(p.uid)
           new  == Pushed(slot, p.reading)
<1>0. /\ TypeOK /\ SlotsConsistent /\ RingWritten /\ PeekHolds
      /\ p.uid \in Uids /\ p.reading \in Readings
  BY DEF IInv, Payload
<1>1. /\ HasRoom(p.uid)
      /\ slots' = [slots EXCEPT ![i] = new]
      /\ peekedSlot' = IF IsFull(slot) /\ peekedSlot = i THEN None ELSE peekedSlot
      /\ nextSlot' = nextSlot
      /\ out' = out
  BY DEF Push
<1>2. /\ i \in Slot
      /\ slot \in NodeSlot
      /\ slot.used
      /\ slot.uid = p.uid
      /\ Contents(slot) \in Seq(Readings)
      /\ \A j \in Slot : slots[j].used /\ slots[j].uid = p.uid => j = i
      /\ slots[i].used => slot = slots[i]
  BY <1>0, <1>1, FoundSlot
<1>3. /\ new \in NodeSlot
      /\ new.used = slot.used
      /\ new.uid = slot.uid
      /\ new.count > 0
      /\ Contents(new) = IF IsFull(slot) THEN Append(Tail(Contents(slot)), p.reading)
                                         ELSE Append(Contents(slot), p.reading)
      /\ Contents(new) \in Seq(Readings)
  BY <1>0, <1>2, PushedContents
<1> HIDE DEF i, slot, new
<1>4. \A j \in Slot : slots'[j] = IF j = i THEN new ELSE slots[j]
  BY <1>0, <1>1 DEF TypeOK
<1>5. TypeOK'
  BY <1>0, <1>1, <1>2, <1>3 DEF TypeOK
<1>6. SlotsConsistent'
  <2>1. \A j \in Slot : /\ slots'[j].used <=> slots'[j].count > 0
                        /\ slots'[j].used => slots'[j].uid \in Uids
    BY <1>0, <1>2, <1>3, <1>4 DEF SlotsConsistent
  <2>2. ASSUME NEW j \in Slot, NEW k \in Slot,
               slots'[j].used, slots'[k].used, slots'[j].uid = slots'[k].uid
        PROVE  j = k
    BY <1>0, <1>2, <1>3, <1>4, <2>2 DEF SlotsConsistent
  <2>3. QED
    BY <2>1, <2>2 DEF SlotsConsistent
<1>7. RingWritten'
  BY <1>0, <1>3, <1>4 DEF RingWritten
<1>8. PeekHolds'
  <2> SUFFICES ASSUME peekedSlot' # None
               PROVE  slots'[peekedSlot'].used /\ Oldest(slots'[peekedSlot']) = out'
    BY DEF PeekHolds
  <2>1. /\ peekedSlot' = peekedSlot /\ peekedSlot # None /\ peekedSlot \in Slot
        /\ slots[peekedSlot].used /\ Oldest(slots[peekedSlot]) = out
    BY <1>0, <1>1 DEF TypeOK, PeekHolds
  <2>2. CASE peekedSlot # i
    BY <1>1, <1>4, <2>1, <2>2
  <2>3. CASE peekedSlot = i
    <3>1. ~ IsFull(slot) /\ slot = slots[i] /\ slots'[i] = new
      BY <1>1, <1>2, <1>4, <2>1, <2>3
    <3>2. slot.count > 0
      BY <1>0, <1>2, <2>1, <2>3, <3>1 DEF SlotsConsistent
    <3>3. /\ Oldest(slot) = [uid |-> slot.uid, reading |-> Head(Contents(slot))]
          /\ Contents(slot) # << >>
      BY <1>2, <3>2, OldestIsHead
    <3>4. Oldest(new) = [uid |-> new.uid, reading |-> Head(Contents(new))]
      BY <1>3, OldestIsHead
    <3>5. Head(Contents(new)) = Head(Contents(slot))
      BY <1>0, <1>2, <1>3, <3>1, <3>3, HeadTailAppend
    <3>6. QED
      BY <1>1, <1>2, <1>3, <2>1, <2>3, <3>1, <3>3, <3>4, <3>5
  <2>4. QED
    BY <2>2, <2>3
<1>9. QED
  BY <1>5, <1>6, <1>7, <1>8 DEF IInv

\* Peeking keeps the invariant: what it copies out is the reading it claims.
LEMMA PeekIInv ==
  ASSUME IInv, Peek
  PROVE  IInv'
<1>0. TypeOK /\ SlotsConsistent /\ RingWritten
  BY DEF IInv
<1>1. /\ Pending # {}
      /\ peekedSlot' = FirstPending
      /\ out' = Oldest(slots[FirstPending])
      /\ slots' = slots
      /\ nextSlot' = nextSlot
  BY DEF Peek
<1>2. FirstPending \in Pending
  BY <1>0, <1>1, FirstPendingIn
<1>3. /\ FirstPending \in Slot
      /\ slots[FirstPending] \in NodeSlot
      /\ slots[FirstPending].used
      /\ slots[FirstPending].count > 0
      /\ slots[FirstPending].uid \in Uids
      /\ Contents(slots[FirstPending]) \in Seq(Readings)
  BY <1>0, <1>2 DEF Pending, TypeOK, SlotsConsistent, RingWritten
<1>4. out' \in Payload
  <2>1. /\ out' = [uid |-> slots[FirstPending].uid,
                   reading |-> Head(Contents(slots[FirstPending]))]
        /\ Contents(slots[FirstPending]) # << >>
    BY <1>1, <1>3, OldestIsHead
  <2>2. Head(Contents(slots[FirstPending])) \in Readings
    BY <1>3, <2>1, HeadTailProperties
  <2>3. QED
    BY <1>3, <2>1, <2>2 DEF Payload
<1>5. TypeOK'
  BY <1>0, <1>1, <1>3, <1>4 DEF TypeOK
<1>6. SlotsConsistent' /\ RingWritten'
  BY <1>0, <1>1 DEF SlotsConsistent, RingWritten
<1>7. PeekHolds'
  BY <1>1, <1>3 DEF PeekHolds
<1>8. QED
  BY <1>5, <1>6, <1>7 DEF IInv

\* Popping keeps the invariant: the slot it empties is freed.
LEMMA PopIInv ==
  ASSUME IInv, Pop
  PROVE  IInv'
<1> DEFINE slot == slots[peekedSlot]
           rest == DropOldest(slot)
           new  == Popped(slot)
<1>0. TypeOK /\ SlotsConsistent /\ RingWritten /\ PeekHolds
  BY DEF IInv
<1>1. /\ peekedSlot # None
      /\ slots' = [slots EXCEPT ![peekedSlot] = new]
      /\ nextSlot' = (peekedSlot + 1) % MaxNodes
      /\ peekedSlot' = None
      /\ out' = out
  BY DEF Pop
<1>2. /\ peekedSlot \in Slot
      /\ slot \in NodeSlot
      /\ slot.used
      /\ slot.count > 0
      /\ slot.uid \in Uids
      /\ Contents(slot) \in Seq(Readings)
  BY <1>0, <1>1 DEF TypeOK, SlotsConsistent, RingWritten, PeekHolds
<1>3. /\ rest \in NodeSlot
      /\ rest.used = slot.used
      /\ rest.uid = slot.uid
      /\ rest.count = slot.count - 1
      /\ Contents(rest) = Tail(Contents(slot))
  BY <1>2, DropOldestTails
<1>4. Tail(Contents(slot)) \in Seq(Readings)
  BY <1>2, OldestIsHead, HeadTailProperties
<1>5. new = [rest EXCEPT !.used = @ /\ rest.count # 0]
  BY <1>2 DEF Popped
<1> HIDE DEF slot, rest, new
<1>6. /\ new \in NodeSlot
      /\ new.used <=> new.count > 0
      /\ new.uid = slot.uid
      /\ Contents(new) \in Seq(Readings)
  <2>1. rest.used /\ rest.count \in Nat
    BY <1>2, <1>3, SizeAssumption DEF NodeSlot
  <2>2. /\ new \in NodeSlot
        /\ new.used <=> rest.count # 0
        /\ new.uid = rest.uid
        /\ new.count = rest.count
        /\ new.head = rest.head
        /\ new.ring = rest.ring
    BY <1>3, <1>5, <2>1 DEF NodeSlot
  <2>3. Contents(new) = Contents(rest)
    BY <2>2 DEF Contents
  <2>4. Contents(new) \in Seq(Readings)
    BY <1>3, <1>4, <2>3
  <2>5. new.uid = slot.uid
    BY <1>3, <2>2
  <2>6. rest.count # 0 <=> new.count > 0
    BY <2>1, <2>2
  <2>7. QED
    BY <2>2, <2>4, <2>5, <2>6, Zenon
<1>7. \A j \in Slot : slots'[j] = IF j = peekedSlot THEN new ELSE slots[j]
  BY <1>0, <1>1 DEF TypeOK
<1>8. TypeOK'
  <2>1. (peekedSlot + 1) % MaxNodes \in Slot
    BY <1>2, SizeAssumption DEF Slot
  <2>2. QED
    BY <1>0, <1>1, <1>2, <1>6, <2>1 DEF TypeOK
<1>9. SlotsConsistent'
  <2>1. \A j \in Slot : /\ slots'[j].used <=> slots'[j].count > 0
                        /\ slots'[j].used => slots'[j].uid \in Uids
    BY <1>0, <1>2, <1>6, <1>7 DEF SlotsConsistent
  <2>2. ASSUME NEW j \in Slot, NEW k \in Slot,
               slots'[j].used, slots'[k].used, slots'[j].uid = slots'[k].uid
        PROVE  j = k
    BY <1>0, <1>2, <1>6, <1>7, <2>2 DEF SlotsConsistent, slot
  <2>3. QED
    BY <2>1, <2>2 DEF SlotsConsistent
<1>10. RingWritten'
  BY <1>0, <1>6, <1>7 DEF RingWritten
<1>11. PeekHolds'
  BY <1>1 DEF PeekHolds
<1>12. QED
  BY <1>8, <1>9, <1>10, <1>11 DEF IInv

\* Clearing keeps the invariant.
LEMMA ClearIInv ==
  ASSUME IInv, Clear
  PROVE  IInv'
<1>1. TypeOK'
  BY ZeroedIsEmpty, SizeAssumption DEF IInv, TypeOK, Clear, Slot
<1>2. SlotsConsistent'
  BY ZeroedIsEmpty DEF Clear, SlotsConsistent
<1>3. RingWritten'
  BY ZeroedIsEmpty, EmptySeq DEF Clear, RingWritten
<1>4. PeekHolds'
  BY DEF Clear, PeekHolds
<1>5. QED
  BY <1>1, <1>2, <1>3, <1>4 DEF IInv

\* Every step keeps the invariant.
LEMMA NextIInv == IInv /\ [Next]_vars => IInv'
<1> SUFFICES ASSUME IInv, [Next]_vars PROVE IInv'
  OBVIOUS
<1>1. ASSUME NEW p \in Payload, Push(p) PROVE IInv'
  BY <1>1, PushIInv
<1>2. CASE Peek
  BY <1>2, PeekIInv
<1>3. CASE PeekEmpty
  BY <1>3 DEF PeekEmpty, IInv, TypeOK, SlotsConsistent, RingWritten, PeekHolds
<1>4. CASE Pop
  BY <1>4, PopIInv
<1>5. CASE Clear
  BY <1>5, ClearIInv
<1>6. CASE UNCHANGED vars
  BY <1>6 DEF vars, IInv, TypeOK, SlotsConsistent, RingWritten, PeekHolds, Oldest
<1>7. QED
  BY <1>1, <1>2, <1>3, <1>4, <1>5, <1>6 DEF Next, PushRefused, PopNothing

\* The slots stay well formed: one slot per node, held while it has readings.
THEOREM BufferConsistent == Spec => []SlotsConsistent
<1>1. IInv => SlotsConsistent
  BY DEF IInv
<1>2. QED
  BY <1>1, InitIInv, NextIInv, PTL DEF Spec

\* Indices, slots and rings stay in their ranges, however often a ring wraps.
THEOREM BufferTypes == Spec => []TypeOK
<1>1. IInv => TypeOK
  BY DEF IInv
<1>2. QED
  BY <1>1, InitIInv, NextIInv, PTL DEF Spec

\* A ring exposes only readings that were pushed into it, wherever its head is.
THEOREM RingsExposeWritten == Spec => []RingWritten
<1>1. IInv => RingWritten
  BY DEF IInv
<1>2. QED
  BY <1>1, InitIInv, NextIInv, PTL DEF Spec

\* A pop removes exactly the reading the last peek handed out, whatever was
\* pushed in between.
THEOREM PeekStaysValid == Spec => []PeekHolds
<1>1. IInv => PeekHolds
  BY DEF IInv
<1>2. QED
  BY <1>1, InitIInv, NextIInv, PTL DEF Spec

-----------------------------------------------------------------------------
(* What Held says of the slots *)

\* A node's queue is the contents of its slot, or empty if it has none.
HeldLaw ==
  /\ Held \in [Uids -> Seq(Readings)]
  /\ \A i \in Slot : slots[i].used => Held[slots[i].uid] = Contents(slots[i])
  /\ \A u \in Uids : SlotsOf(u) = {} => Held[u] = << >>

LEMMA HeldLawHolds == IInv => HeldLaw
<1> SUFFICES ASSUME IInv PROVE HeldLaw
  OBVIOUS
<1>0. TypeOK /\ SlotsConsistent /\ RingWritten
  BY DEF IInv
<1>1. \A u \in Uids : Held[u] = IF SlotsOf(u) = {} THEN << >>
                                ELSE Contents(slots[Lowest(SlotsOf(u))])
  BY DEF Held
<1>2. \A u \in Uids : SlotsOf(u) \subseteq Slot
  BY DEF SlotsOf
<1>3. ASSUME NEW u \in Uids, SlotsOf(u) # {}
      PROVE  Lowest(SlotsOf(u)) \in SlotsOf(u)
  BY <1>2, <1>3, LowestIn
<1>4. Held \in [Uids -> Seq(Readings)]
  <2>1. ASSUME NEW u \in Uids PROVE Held[u] \in Seq(Readings)
    <3>1. CASE SlotsOf(u) = {}
      BY <1>1, <3>1, EmptySeq
    <3>2. CASE SlotsOf(u) # {}
      <4>1. Lowest(SlotsOf(u)) \in Slot
        BY <1>2, <1>3, <3>2
      <4>2. QED
        BY <1>0, <1>1, <3>2, <4>1 DEF RingWritten
    <3>3. QED
      BY <3>1, <3>2
  <2>2. Held = [u \in Uids |-> Held[u]]
    BY DEF Held
  <2>3. QED
    BY <2>1, <2>2
<1>5. ASSUME NEW i \in Slot, slots[i].used
      PROVE  Held[slots[i].uid] = Contents(slots[i])
  <2>1. slots[i].uid \in Uids /\ i \in SlotsOf(slots[i].uid)
    BY <1>0, <1>5 DEF SlotsConsistent, SlotsOf
  <2>2. Lowest(SlotsOf(slots[i].uid)) \in SlotsOf(slots[i].uid)
    BY <1>3, <2>1
  <2>3. Lowest(SlotsOf(slots[i].uid)) = i
    BY <1>0, <1>5, <2>2 DEF SlotsConsistent, SlotsOf
  <2>4. QED
    BY <1>1, <2>1, <2>3
<1>6. QED
  BY <1>1, <1>4, <1>5 DEF HeldLaw

\* The same in the next state.
LEMMA HeldLawHoldsNext == IInv' => HeldLaw'
BY HeldLawHolds, PTL

\* A step that changes one slot, of one node before and after, leaves the
\* queues of the other nodes alone.
LEMMA OthersKept ==
  ASSUME IInv, IInv', NEW i \in Slot, NEW w,
         \A j \in Slot : j # i => slots'[j] = slots[j],
         slots[i].used => slots[i].uid = w,
         slots'[i].used => slots'[i].uid = w
  PROVE  \A u \in Uids : u # w => Held'[u] = Held[u]
<1> SUFFICES ASSUME NEW u \in Uids, u # w PROVE Held'[u] = Held[u]
  OBVIOUS
<1>1. HeldLaw /\ HeldLaw'
  BY HeldLawHolds, HeldLawHoldsNext
<1>2. CASE SlotsOf(u) = {}
  <2>1. SlotsOf(u)' = {}
    BY <1>2 DEF SlotsOf
  <2>2. QED
    BY <1>1, <1>2, <2>1 DEF HeldLaw
<1>3. CASE SlotsOf(u) # {}
  <2>1. PICK j \in Slot : slots[j].used /\ slots[j].uid = u
    BY <1>3 DEF SlotsOf
  <2>2. slots'[j] = slots[j]
    BY <2>1
  <2>3. Held[u] = Contents(slots[j]) /\ Held'[u] = Contents(slots'[j])
    BY <1>1, <2>1, <2>2 DEF HeldLaw
  <2>4. QED
    BY <2>2, <2>3 DEF Contents
<1>4. QED
  BY <1>2, <1>3

\* Nodes with a slot of their own are no more than there are slots.
SlotsBound ==
  \A U : (\A u \in U : \E i \in Slot : slots[i].used /\ slots[i].uid = u)
           => Cardinality(U) <= MaxNodes

LEMMA SlotsBoundHolds == SlotsBound
<1> SUFFICES ASSUME NEW U,
                    \A u \in U : \E i \in Slot : slots[i].used /\ slots[i].uid = u
             PROVE  Cardinality(U) <= MaxNodes
  BY DEF SlotsBound
<1> DEFINE f == [u \in U |-> CHOOSE i \in Slot : slots[i].used /\ slots[i].uid = u]
<1>1. \A u \in U : f[u] \in Slot /\ slots[f[u]].uid = u
  OBVIOUS
<1>2. f \in Injection(U, Slot)
  <2>1. f \in [U -> Slot]
    BY <1>1
  <2>2. \A u, w \in U : f[u] = f[w] => u = w
    BY <1>1
  <2> HIDE DEF f
  <2>3. QED
    BY <2>1, <2>2 DEF Injection, IsInjective
<1>3. IsFiniteSet(Slot) /\ Cardinality(Slot) = MaxNodes
  <2>1. 0 \in Int /\ MaxNodes - 1 \in Int /\ ~ (0 > MaxNodes - 1)
        /\ (MaxNodes - 1) - 0 + 1 = MaxNodes
    BY SizeAssumption
  <2>2. QED
    BY <2>1, FS_Interval DEF Slot
<1> HIDE DEF f
<1>4. QED
  BY <1>2, <1>3, FS_Injection

LEMMA SlotsBoundHoldsNext == SlotsBound'
BY SlotsBoundHolds, PTL

\* The sentinels are no slot and no node.
LEMMA SentinelsApart == None \notin Slot /\ NoUid \notin Uids
BY UidsAssumption, SizeAssumption DEF None, Slot

\* StoreForward counts as this module does.
LEMMA SameCardinality == \A S : Abstract!Cardinality(S) = Cardinality(S)
BY Zenon DEF Abstract!Cardinality, Cardinality

-----------------------------------------------------------------------------
(* The steps *)

\* A push that is stored is an Accept, or an Overwrite if the ring was full.
LEMMA PushRefines ==
  ASSUME IInv, IInv', NEW p \in Payload, Push(p)
  PROVE  Abstract!Accept(p) \/ Abstract!Overwrite(p)
<1> DEFINE i    == ChosenSlot(p.uid)
           slot == FindOrClaim(p.uid)
           new  == Pushed(slot, p.reading)
           old  == Held[p.uid]
<1>0. /\ TypeOK /\ SlotsConsistent /\ RingWritten /\ PeekHolds
      /\ p.uid \in Uids /\ p.reading \in Readings
  BY DEF IInv, Payload
<1>1. /\ HasRoom(p.uid)
      /\ slots' = [slots EXCEPT ![i] = new]
      /\ peekedSlot' = IF IsFull(slot) /\ peekedSlot = i THEN None ELSE peekedSlot
      /\ out' = out
  BY DEF Push
<1>2. /\ i \in Slot
      /\ slot \in NodeSlot
      /\ slot.used
      /\ slot.uid = p.uid
      /\ Contents(slot) \in Seq(Readings)
      /\ \A j \in Slot : slots[j].used /\ slots[j].uid = p.uid => j = i
      /\ slots[i].used => slot = slots[i]
      /\ ~ slots[i].used => SlotsOf(p.uid) = {} /\ Contents(slot) = << >>
  BY <1>0, <1>1, FoundSlot
<1>3. /\ new.used = slot.used
      /\ new.uid = slot.uid
      /\ Contents(new) = IF IsFull(slot) THEN Append(Tail(Contents(slot)), p.reading)
                                         ELSE Append(Contents(slot), p.reading)
  BY <1>0, <1>2, PushedContents
<1>4. Len(Contents(slot)) = slot.count
  BY <1>2, ContentsOfSlot
<1> HIDE DEF i, slot, new
<1>5. \A j \in Slot : slots'[j] = IF j = i THEN new ELSE slots[j]
  BY <1>0, <1>1 DEF TypeOK
<1>6. HeldLaw /\ HeldLaw'
  BY HeldLawHolds, HeldLawHoldsNext
<1>7. old = Contents(slot)
  <2>1. CASE slots[i].used
    BY <1>2, <1>6, <2>1 DEF HeldLaw
  <2>2. CASE ~ slots[i].used
    BY <1>0, <1>2, <1>6, <2>2 DEF HeldLaw
  <2>3. QED
    BY <2>1, <2>2
<1>8. Held'[p.uid] = Contents(new)
  <2>1. slots'[i] = new /\ slots'[i].used /\ slots'[i].uid = p.uid
    BY <1>2, <1>3, <1>5
  <2>2. Held'[p.uid] = Contents(slots'[i])
    BY <1>2, <1>6, <2>1 DEF HeldLaw
  <2>3. QED
    BY <2>1, <2>2
<1>9. \A u \in Uids : u # p.uid => Held'[u] = Held[u]
  <2>1. /\ \A j \in Slot : j # i => slots'[j] = slots[j]
        /\ slots[i].used => slots[i].uid = p.uid
        /\ slots'[i].used => slots'[i].uid = p.uid
        /\ i \in Slot
    BY <1>2, <1>3, <1>5
  <2>2. QED
    BY <2>1, OthersKept
<1>10. Held' = [Held EXCEPT ![p.uid] = Contents(new)]
  <2>1. Held \in [Uids -> Seq(Readings)] /\ Held' \in [Uids -> Seq(Readings)]
    BY <1>6 DEF HeldLaw
  <2>2. QED
    BY <1>8, <1>9, <2>1
<1>11. CASE IsFull(slot)
  <2>1. Len(old) = ReadingsPerNode
    BY <1>4, <1>7, <1>11 DEF IsFull
  <2>2. Held' = [Held EXCEPT ![p.uid] = Append(Tail(@), p.reading)]
    BY <1>3, <1>7, <1>10, <1>11
  <2>3. Claimed' = IF Claimed = p.uid THEN NoUid ELSE Claimed
    <3>1. CASE peekedSlot = None
      BY <1>0, <1>1, <1>2, <3>1, SentinelsApart DEF Claimed
    <3>2. CASE peekedSlot # None /\ peekedSlot = i
      <4>1. Claimed = p.uid
        BY <1>0, <1>2, <3>2 DEF Claimed, PeekHolds
      <4>2. Claimed' = NoUid
        BY <1>1, <1>11, <3>2 DEF Claimed
      <4>3. QED
        BY <4>1, <4>2
    <3>3. CASE peekedSlot # None /\ peekedSlot # i
      <4>1. peekedSlot \in Slot /\ slots[peekedSlot].used
        BY <1>0, <3>3 DEF TypeOK, PeekHolds
      <4>2. Claimed = slots[peekedSlot].uid /\ Claimed # p.uid
        BY <1>2, <3>3, <4>1 DEF Claimed
      <4>3. Claimed' = slots[peekedSlot].uid
        BY <1>1, <1>5, <3>3, <4>1 DEF Claimed
      <4>4. QED
        BY <4>2, <4>3
    <3>4. QED
      BY <3>1, <3>2, <3>3
  <2>4. Abstract!Overwrite(p)
    BY <1>1, <2>1, <2>2, <2>3 DEF Abstract!Overwrite
  <2>5. QED
    BY <2>4
<1>12. CASE ~ IsFull(slot)
  <2>1. Len(old) < ReadingsPerNode
    BY <1>2, <1>4, <1>7, <1>12, SizeAssumption DEF IsFull, NodeSlot
  <2>2. Held' = [Held EXCEPT ![p.uid] = Append(@, p.reading)]
    BY <1>3, <1>7, <1>10, <1>12
  <2>3. Claimed' = Claimed
    <3>1. peekedSlot' = peekedSlot
      BY <1>1, <1>12
    <3>2. CASE peekedSlot = None
      BY <3>1, <3>2 DEF Claimed
    <3>3. CASE peekedSlot # None
      <4>1. peekedSlot \in Slot /\ slots[peekedSlot].used
        BY <1>0, <3>3 DEF TypeOK, PeekHolds
      <4>2. slots'[peekedSlot].uid = slots[peekedSlot].uid
        BY <1>2, <1>3, <1>5, <4>1
      <4>3. QED
        BY <3>1, <3>3, <4>2 DEF Claimed
    <3>4. QED
      BY <3>2, <3>3
  <2>4. Cardinality(Abstract!Holding \cup {p.uid}) <= MaxNodes
    <3>1. ASSUME NEW u \in Abstract!Holding \cup {p.uid}
          PROVE  \E j \in Slot : slots'[j].used /\ slots'[j].uid = u
      <4>1. CASE u = p.uid
        BY <1>2, <1>3, <1>5, <4>1
      <4>2. CASE u # p.uid
        <5>1. u \in Uids /\ Held[u] # << >>
          BY <3>1, <4>2 DEF Abstract!Holding
        <5>2. PICK j \in Slot : slots[j].used /\ slots[j].uid = u
          BY <1>6, <5>1 DEF HeldLaw, SlotsOf
        <5>3. j # i
          BY <1>2, <4>2, <5>2
        <5>4. QED
          BY <1>5, <5>2, <5>3
      <4>3. QED
        BY <4>1, <4>2
    <3>2. QED
      BY <3>1, SlotsBoundHoldsNext DEF SlotsBound
  <2>5. Abstract!Accept(p)
    BY <1>1, <2>1, <2>2, <2>3, <2>4, SameCardinality DEF Abstract!Accept
  <2>6. QED
    BY <2>5
<1>13. QED
  BY <1>11, <1>12

\* A peek is a Claim of the node whose slot the search stops at.
LEMMA PeekRefines ==
  ASSUME IInv, Peek
  PROVE  \E u \in Uids : Abstract!Claim(u)
<1> DEFINE slot == slots[FirstPending]
<1>0. TypeOK /\ SlotsConsistent
  BY DEF IInv
<1>1. /\ Pending # {}
      /\ peekedSlot' = FirstPending
      /\ out' = Oldest(slot)
      /\ slots' = slots
  BY DEF Peek
<1>2. /\ FirstPending \in Slot
      /\ slot \in NodeSlot
      /\ slot.used
      /\ slot.count > 0
      /\ slot.uid \in Uids
  BY <1>0, <1>1, FirstPendingIn DEF Pending, TypeOK, SlotsConsistent
<1>3. Held[slot.uid] = Contents(slot)
  BY <1>2, HeldLawHolds DEF HeldLaw
<1>4. Contents(slot) # << >> /\ out' = [uid |-> slot.uid, reading |-> Head(Contents(slot))]
  BY <1>1, <1>2, OldestIsHead
<1>5. Claimed' = slot.uid
  BY <1>1, <1>2, SentinelsApart DEF Claimed
<1>6. Held' = Held
  BY <1>1 DEF Held, SlotsOf, Contents
<1> HIDE DEF slot
<1>7. Abstract!Claim(slot.uid)
  BY <1>3, <1>4, <1>5, <1>6 DEF Abstract!Claim
<1>8. QED
  BY <1>2, <1>7

\* A peek of an empty buffer finds nothing.
LEMMA PeekEmptyRefines ==
  ASSUME IInv, PeekEmpty
  PROVE  Abstract!FindNothing
<1>1. Pending = {} /\ peekedSlot' = None /\ slots' = slots /\ out' = out
  BY DEF PeekEmpty
<1>2. \A i \in Slot : ~ slots[i].used
  BY <1>1 DEF IInv, SlotsConsistent, Pending
<1>3. \A u \in Uids : Held[u] = << >>
  BY <1>2, HeldLawHolds DEF HeldLaw, SlotsOf
<1>4. Held' = Held
  BY <1>1 DEF Held, SlotsOf, Contents
<1>5. Claimed' = NoUid
  BY <1>1 DEF Claimed
<1>6. QED
  BY <1>1, <1>3, <1>4, <1>5 DEF Abstract!FindNothing, Abstract!Holding

\* What a pop makes of the slot it takes from: the oldest reading leaves it, and
\* it is free if that was the last one.
LEMMA PoppedContents ==
  ASSUME NEW slot \in NodeSlot, slot.used, slot.count > 0
  PROVE  /\ Popped(slot).used <=> Tail(Contents(slot)) # << >>
         /\ Popped(slot).uid = slot.uid
         /\ Contents(Popped(slot)) = Tail(Contents(slot))
<1> DEFINE rest == DropOldest(slot)
           new  == Popped(slot)
<1>1. /\ rest \in NodeSlot
      /\ rest.used = slot.used
      /\ rest.uid = slot.uid
      /\ Contents(rest) = Tail(Contents(slot))
  BY DropOldestTails
<1>2. new = [rest EXCEPT !.used = @ /\ rest.count # 0]
  BY DEF Popped
<1> HIDE DEF rest, new
<1>3. /\ new.used <=> rest.count # 0
      /\ new.uid = rest.uid
      /\ new.count = rest.count
      /\ new.head = rest.head
      /\ new.ring = rest.ring
  BY <1>1, <1>2 DEF NodeSlot
<1>4. Contents(new) = Contents(rest)
  BY <1>3 DEF Contents
<1>5. rest.count # 0 <=> Contents(rest) # << >>
  <2>1. /\ Contents(rest) \in Seq(Readings \cup {NoReading})
        /\ Len(Contents(rest)) = rest.count
    BY <1>1, ContentsOfSlot
  <2>2. QED
    BY <2>1, EmptySeq
<1>6. QED
  BY <1>1, <1>3, <1>4, <1>5 DEF new

\* A pop removes the claimed reading, which is the one that was handed out.
LEMMA PopRefines ==
  ASSUME IInv, IInv', Pop
  PROVE  Abstract!Remove
<1> DEFINE slot == slots[peekedSlot]
           new  == Popped(slot)
           rest == Tail(Contents(slot))
<1>0. TypeOK /\ SlotsConsistent /\ PeekHolds
  BY DEF IInv
<1>1. /\ peekedSlot # None
      /\ slots' = [slots EXCEPT ![peekedSlot] = new]
      /\ peekedSlot' = None
      /\ out' = out
  BY DEF Pop
<1>2. /\ peekedSlot \in Slot
      /\ slot \in NodeSlot
      /\ slot.used
      /\ slot.count > 0
      /\ slot.uid \in Uids
      /\ Oldest(slot) = out
  BY <1>0, <1>1 DEF TypeOK, SlotsConsistent, PeekHolds
<1>3. /\ new.used <=> rest # << >>
      /\ new.uid = slot.uid
      /\ Contents(new) = rest
  BY <1>2, PoppedContents
<1>4. HeldLaw /\ HeldLaw'
  BY HeldLawHolds, HeldLawHoldsNext
<1>5. Held[slot.uid] = Contents(slot)
  BY <1>2, <1>4 DEF HeldLaw
<1>6. Contents(slot) # << >> /\ out = [uid |-> slot.uid, reading |-> Head(Contents(slot))]
  BY <1>2, OldestIsHead
<1>7. Claimed = slot.uid /\ Claimed' = NoUid
  BY <1>1 DEF Claimed
<1> HIDE DEF slot, new, rest
<1>8. \A j \in Slot : slots'[j] = IF j = peekedSlot THEN new ELSE slots[j]
  BY <1>0, <1>1 DEF TypeOK
<1>9. Held'[slot.uid] = rest
  <2>1. CASE new.used
    <3>1. slots'[peekedSlot] = new
      BY <1>2, <1>8
    <3>2. Held'[slots'[peekedSlot].uid] = Contents(slots'[peekedSlot])
      BY <1>2, <1>4, <2>1, <3>1 DEF HeldLaw
    <3>3. Contents(slots'[peekedSlot]) = Contents(new)
      BY <3>1 DEF Contents
    <3>4. QED
      BY <1>3, <3>1, <3>2, <3>3
  <2>2. CASE ~ new.used
    <3>1. PICK u \in Uids : u = slot.uid
      BY <1>2
    <3>2. \A j \in Slot : ~ (slots'[j].used /\ slots'[j].uid = u)
      BY <1>0, <1>2, <1>8, <2>2, <3>1 DEF SlotsConsistent, slot
    <3>3. SlotsOf(u)' = {}
      BY <3>2 DEF SlotsOf
    <3>4. Held'[u] = << >>
      BY <1>4, <3>3 DEF HeldLaw
    <3>5. QED
      BY <1>3, <2>2, <3>1, <3>4
  <2>3. QED
    BY <2>1, <2>2
<1>10. \A u \in Uids : u # slot.uid => Held'[u] = Held[u]
  <2>1. /\ \A j \in Slot : j # peekedSlot => slots'[j] = slots[j]
        /\ slots[peekedSlot].used => slots[peekedSlot].uid = slot.uid
        /\ slots'[peekedSlot].used => slots'[peekedSlot].uid = slot.uid
    BY <1>2, <1>3, <1>8 DEF slot
  <2>2. QED
    BY <1>2, <2>1, OthersKept
<1>11. Held' = [Held EXCEPT ![slot.uid] = rest]
  <2>1. Held \in [Uids -> Seq(Readings)] /\ Held' \in [Uids -> Seq(Readings)]
    BY <1>4 DEF HeldLaw
  <2>2. QED
    BY <1>9, <1>10, <2>1
<1>12. slot.uid # NoUid
  BY <1>2, SentinelsApart
<1>13. Held' = [Held EXCEPT ![Claimed] = Tail(@)]
  BY <1>5, <1>7, <1>11 DEF rest
<1>14. QED
  BY <1>1, <1>5, <1>6, <1>7, <1>12, <1>13 DEF Abstract!Remove

\* Zeroed slots hold nothing, so Init and Clear leave every queue empty.
LEMMA ZeroedHoldNothing ==
  slots = [i \in Slot |-> ZeroedSlot] => Held = [u \in Uids |-> << >>]
BY ZeroedIsEmpty DEF Held, SlotsOf

LEMMA ZeroedHoldNothingNext ==
  slots' = [i \in Slot |-> ZeroedSlot] => Held' = [u \in Uids |-> << >>]
BY ZeroedIsEmpty DEF Held, SlotsOf

\* Clearing the buffer clears the queues and the claim.
LEMMA ClearRefines ==
  ASSUME Clear
  PROVE  Abstract!Clear
BY ZeroedHoldNothingNext DEF Clear, Abstract!Clear, Claimed

LEMMA InitRefines == Init => Abstract!Init
BY ZeroedHoldNothing DEF Init, Abstract!Init, Claimed, Payload, Abstract!Payload

\* Every step of the buffer is a step of the queues or changes none of them.
LEMMA NextRefines ==
  IInv /\ IInv' /\ [Next]_vars => [Abstract!Next]_(Abstract!vars)
<1> SUFFICES ASSUME IInv, IInv', [Next]_vars
             PROVE  [Abstract!Next]_(Abstract!vars)
  OBVIOUS
<1>1. ASSUME NEW p \in Payload, Push(p) PROVE Abstract!Next
  <2>1. p \in Abstract!Payload
    BY DEF Payload, Abstract!Payload
  <2>2. QED
    BY <1>1, <2>1, PushRefines DEF Abstract!Next
<1>2. CASE Peek
  BY <1>2, PeekRefines DEF Abstract!Next
<1>3. CASE PeekEmpty
  BY <1>3, PeekEmptyRefines DEF Abstract!Next
<1>4. CASE Pop
  BY <1>4, PopRefines DEF Abstract!Next
<1>5. CASE Clear
  BY <1>5, ClearRefines DEF Abstract!Next
<1>6. CASE UNCHANGED vars
  BY <1>6 DEF vars, Abstract!vars, Held, Claimed, SlotsOf, Contents
<1>7. QED
  BY <1>1, <1>2, <1>3, <1>4, <1>5, <1>6 DEF Next, PushRefused, PopNothing

\* The buffer is one bounded FIFO queue per node with one claim: nothing is
\* lost, reordered or handed to another node but the oldest reading of a full
\* ring, and a pop takes what the last peek handed out.
THEOREM BufferRefinesStoreForward == Spec => RefinesStoreForward
<1>1. Init => IInv /\ Abstract!Init
  BY InitIInv, InitRefines
<1>2. IInv /\ [Next]_vars => IInv'
  BY NextIInv
<1>3. IInv /\ IInv' /\ [Next]_vars => [Abstract!Next]_(Abstract!vars)
  BY NextRefines
<1>4. QED
  BY <1>1, <1>2, <1>3, PTL DEF Spec, RefinesStoreForward, Abstract!Spec

=============================================================================
