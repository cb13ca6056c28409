---------------------------- MODULE ReadingBuffer ---------------------------
(***************************************************************************)
(* The substation's store-and-forward buffer,                              *)
(* lib/buffering/reading_buffer/reading_buffer.cpp: a fixed number of node *)
(* slots, each with its own ring of readings, a search position that       *)
(* rotates over the slots, and the slot of the reading the relay peeked.   *)
(*                                                                         *)
(* A reading's values are one member of Readings (sequence number and      *)
(* measured quantities).  The community, unit and node type of a slot are  *)
(* left out: they follow the node's latest payload and nothing reads them  *)
(* but the payload a peek hands out.                                       *)
(***************************************************************************)
EXTENDS Integers, FiniteSets, Sequences

CONSTANTS
  Uids,             \* identities of the meter nodes
  Readings,         \* values of a reading, without its UID
  NoUid,            \* the zeroed UID of a slot that was never claimed
  NoReading,        \* the zeroed entry of a ring
  MaxNodes,         \* READING_BUFFER_MAX_NODES
  ReadingsPerNode   \* READINGS_PER_NODE

ASSUME UidsAssumption == NoUid \notin Uids
ASSUME ReadingsAssumption == NoReading \notin Readings
ASSUME SizeAssumption ==
  /\ MaxNodes \in Nat \ {0}
  /\ ReadingsPerNode \in Nat \ {0}

VARIABLES
  slots,        \* the node slots
  nextSlot,     \* slot the next peek starts searching from
  peekedSlot,   \* slot of the last peeked reading, or None
  out           \* the payload the last successful peek copied to its caller

vars == <<slots, nextSlot, peekedSlot, out>>

None == -1

Slot == 0 .. MaxNodes - 1

RingIndex == 0 .. ReadingsPerNode - 1

Payload == [uid : Uids, reading : Readings]

NodeSlot == [used  : BOOLEAN,
             uid   : Uids \cup {NoUid},
             ring  : [RingIndex -> Readings \cup {NoReading}],
             head  : RingIndex,
             count : 0 .. ReadingsPerNode]

TypeOK ==
  /\ slots \in [Slot -> NodeSlot]
  /\ nextSlot \in Slot
  /\ peekedSlot \in Slot \cup {None}
  /\ out \in Payload

ZeroedSlot == [used  |-> FALSE,
               uid   |-> NoUid,
               ring  |-> [k \in RingIndex |-> NoReading],
               head  |-> 0,
               count |-> 0]

Init ==
  /\ slots = [i \in Slot |-> ZeroedSlot]
  /\ nextSlot = 0
  /\ peekedSlot = None
  /\ out \in Payload

-----------------------------------------------------------------------------
(* Push *)

SlotsOf(uid) == {i \in Slot : slots[i].used /\ slots[i].uid = uid}

FreeSlots == {i \in Slot : ~ slots[i].used}

Lowest(S) == CHOOSE i \in S : \A j \in S : i <= j

\* There is a slot for the UID, its own or a free one.
HasRoom(uid) == SlotsOf(uid) \cup FreeSlots # {}

\* The index findOrClaimSlot returns: the UID's own slot before a free one.
ChosenSlot(uid) ==
  IF SlotsOf(uid) # {} THEN Lowest(SlotsOf(uid)) ELSE Lowest(FreeSlots)

\* The slot findOrClaimSlot returns: a free one is zeroed and claimed first.
FindOrClaim(uid) ==
  IF slots[ChosenSlot(uid)].used
  THEN slots[ChosenSlot(uid)]
  ELSE [ZeroedSlot EXCEPT !.used = TRUE, !.uid = uid]

IsFull(slot) == slot.count = ReadingsPerNode

\* Mutant: head runs past the end of the ring.
DropOldestNoWrap(slot) == [slot EXCEPT !.head = @ + 1, !.count = @ - 1]

DropOldest(slot) ==
  [slot EXCEPT !.head = (@ + 1) % ReadingsPerNode, !.count = @ - 1]

\* Mutant: the newest reading goes one entry too far.
AddNewestTooFar(slot, reading) ==
  [slot EXCEPT !.ring[(slot.head + slot.count + 1) % ReadingsPerNode] = reading,
               !.count = @ + 1]

AddNewest(slot, reading) ==
  [slot EXCEPT !.ring[(slot.head + slot.count) % ReadingsPerNode] = reading,
               !.count = @ + 1]

\* A full ring drops its oldest reading to make room.
Pushed(slot, reading) ==
  AddNewest(IF IsFull(slot) THEN DropOldest(slot) ELSE slot, reading)

\* Mutant: the peek stands although its reading is overwritten.
PushKeepsPeek(p) ==
  /\ HasRoom(p.uid)
  /\ slots' = [slots EXCEPT ![ChosenSlot(p.uid)] = Pushed(FindOrClaim(p.uid), p.reading)]
  /\ UNCHANGED <<nextSlot, peekedSlot, out>>

\* A push that is stored.  When it overwrites the reading the relay peeked, the
\* pop the relay still owes is cancelled.
Push(p) ==
  LET i    == ChosenSlot(p.uid)
      slot == FindOrClaim(p.uid)
  IN  /\ HasRoom(p.uid)
      /\ slots' = [slots EXCEPT ![i] = Pushed(slot, p.reading)]
      /\ peekedSlot' = IF IsFull(slot) /\ peekedSlot = i THEN None ELSE peekedSlot
      /\ UNCHANGED <<nextSlot, out>>

\* A push of a new UID when every slot is taken: false, nothing changes.
PushRefused(p) ==
  /\ ~ HasRoom(p.uid)
  /\ UNCHANGED vars

-----------------------------------------------------------------------------
(* Peek, pop and clear *)

Pending == {i \in Slot : slots[i].used /\ slots[i].count > 0}

\* Distance of slot i from the search position, in search order.
Distance(i) == (i - nextSlot) % MaxNodes

\* The slot the rotating search stops at.
FirstPending == CHOOSE i \in Pending : \A j \in Pending : Distance(i) <= Distance(j)

Oldest(slot) == [uid |-> slot.uid, reading |-> slot.ring[slot.head]]

Peek ==
  /\ Pending # {}
  /\ peekedSlot' = FirstPending
  /\ out' = Oldest(slots[FirstPending])
  /\ UNCHANGED <<slots, nextSlot>>

\* A peek of an empty buffer: false, and the caller's payload is not written.
PeekEmpty ==
  /\ Pending = {}
  /\ peekedSlot' = None
  /\ UNCHANGED <<slots, nextSlot, out>>

\* Mutants: an emptied slot stays its node's; a pop empties the slot.
PoppedKeepsSlot(slot) == IF slot.count > 0 THEN DropOldest(slot) ELSE slot

PoppedAll(slot) == [slot EXCEPT !.used = FALSE, !.count = 0]

\* A slot emptied by a pop is free for another node.
Popped(slot) ==
  LET rest == IF slot.count > 0 THEN DropOldest(slot) ELSE slot
  IN  [rest EXCEPT !.used = @ /\ rest.count # 0]

\* Mutant: the rotation does not move on.
PopStays ==
  /\ peekedSlot # None
  /\ slots' = [slots EXCEPT ![peekedSlot] = Popped(@)]
  /\ peekedSlot' = None
  /\ UNCHANGED <<nextSlot, out>>

Pop ==
  /\ peekedSlot # None
  /\ slots' = [slots EXCEPT ![peekedSlot] = Popped(@)]
  /\ nextSlot' = (peekedSlot + 1) % MaxNodes
  /\ peekedSlot' = None
  /\ UNCHANGED out

\* A pop with nothing peeked: the claimed reading was overwritten meanwhile.
PopNothing ==
  /\ peekedSlot = None
  /\ UNCHANGED vars

Clear ==
  /\ slots' = [i \in Slot |-> ZeroedSlot]
  /\ nextSlot' = 0
  /\ peekedSlot' = None
  /\ UNCHANGED out

Next ==
  \/ \E p \in Payload : Push(p) \/ PushRefused(p)
  \/ Peek
  \/ PeekEmpty
  \/ Pop
  \/ PopNothing
  \/ Clear

Spec == Init /\ [][Next]_vars

\* relayStep keeps peeking, and a reading that stays peeked is acknowledged
\* and popped in the end, however many relays of it fail before.
RelayFairness == WF_vars(Peek) /\ WF_vars(Pop)

FairSpec == Spec /\ RelayFairness

-----------------------------------------------------------------------------
(* Properties *)

\* A slot is held exactly while it has readings, and no node ever owns two of
\* them: findOrClaimSlot and the freeing in readingBufferPop keep the table of
\* slots a partial function from UIDs to rings.
SlotsConsistent ==
  /\ \A i \in Slot : slots[i].used <=> slots[i].count > 0
  /\ \A i \in Slot : slots[i].used => slots[i].uid \in Uids
  /\ \A i, j \in Slot :
       slots[i].used /\ slots[j].used /\ slots[i].uid = slots[j].uid => i = j

\* A slot's readings, oldest first.
Contents(slot) ==
  [k \in 1 .. slot.count |-> slot.ring[(slot.head + (k - 1)) % ReadingsPerNode]]

\* Every entry between head and head + count was written by a push: the ring
\* arithmetic never exposes an entry that claiming the slot zeroed.
RingWritten == \A i \in Slot : Contents(slots[i]) \in Seq(Readings)

\* While a peek stands, the reading it copied out is still the oldest of its
\* slot, whatever was pushed since: the pop that follows the gateway's ACK
\* removes the reading that was sent, never a newer one (reading_buffer.h:43-51).
PeekHolds ==
  peekedSlot # None =>
    /\ slots[peekedSlot].used
    /\ Oldest(slots[peekedSlot]) = out

Held ==
  [u \in Uids |-> IF SlotsOf(u) = {} THEN << >> ELSE Contents(slots[Lowest(SlotsOf(u))])]

Claimed == IF peekedSlot = None THEN NoUid ELSE slots[peekedSlot].uid

Abstract == INSTANCE StoreForward
              WITH held <- Held, claim <- Claimed, Capacity <- ReadingsPerNode

\* The slots, rings and indices implement one bounded FIFO queue per node with
\* at most one claimed reading: nothing is lost, reordered or handed to another
\* node except the oldest reading of a node whose ring is full.
RefinesStoreForward == Abstract!Spec

\* Every node with readings has one peeked sooner or later: "Peeking rotates
\* across nodes so one busy node cannot starve the others"
\* (reading_buffer.h:7-8).
NoStarvation ==
  \A u \in Uids : Held[u] # << >> ~> (Held[u] = << >> \/ Claimed = u)

Overwrite == \E p \in Payload : Push(p) /\ HasRoom(p.uid) /\ IsFull(FindOrClaim(p.uid))

\* The same as long as full rings are not overwritten for ever: a pop moves the
\* rotation past the node just served, however many readings arrive.
NoStarvationUnlessOverwriting == <>[][~ Overwrite]_vars => NoStarvation

=============================================================================
