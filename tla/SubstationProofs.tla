-------------------------- MODULE SubstationProofs --------------------------
(***************************************************************************)
(* Proofs about the substation, for any devices, table, ring and number of *)
(* retries.  They build on the proofs about its two parts: that the        *)
(* reading buffer implements a queue per node with one claim, and that an  *)
(* ACK at the sender names a reading the gateway has.                      *)
(***************************************************************************)
EXTENDS Substation, FiniteSetTheorems, TLAPS

\* The parts, with what is proved of them.
queues == INSTANCE ReadingBufferProofs WITH out <- inFlight
hop == INSTANCE LoRaLinkProofs

LEMMA Assumptions ==
  /\ NoUid \notin Uids /\ NoReading \notin Readings
  /\ MaxNodes \in Nat \ {0} /\ ReadingsPerNode \in Nat \ {0}
  /\ MaxRetries \in 0 .. 255
  /\ NoPacket # OtherPacket /\ {NoPacket, OtherPacket} \cap [uid : Uids, reading : Readings] = {}
BY BufferAssumption, LinkAssumption

-----------------------------------------------------------------------------
(* The operations of the parts are those the proofs are about *)

LEMMA SamePush ==
  ASSUME NEW p
  PROVE  buffer!Push(p) <=> queues!Push(p)
BY DEF buffer!Push, buffer!ChosenSlot, buffer!FindOrClaim, buffer!HasRoom, buffer!SlotsOf,
       buffer!FreeSlots, buffer!Lowest, buffer!ZeroedSlot, buffer!Pushed, buffer!AddNewest,
       buffer!DropOldest, buffer!IsFull, buffer!Slot, buffer!None, buffer!RingIndex,
       queues!Push, queues!ChosenSlot, queues!FindOrClaim, queues!HasRoom, queues!SlotsOf,
       queues!FreeSlots, queues!Lowest, queues!ZeroedSlot, queues!Pushed, queues!AddNewest,
       queues!DropOldest, queues!IsFull, queues!Slot, queues!None, queues!RingIndex

LEMMA SamePeek ==
  /\ buffer!Peek <=> queues!Peek
  /\ buffer!PeekEmpty <=> queues!PeekEmpty
BY DEF buffer!Peek, buffer!PeekEmpty, buffer!Pending, buffer!FirstPending, buffer!Distance,
       buffer!Oldest, buffer!Slot, buffer!None,
       queues!Peek, queues!PeekEmpty, queues!Pending, queues!FirstPending, queues!Distance,
       queues!Oldest, queues!Slot, queues!None

LEMMA SamePop ==
  /\ buffer!Pop <=> queues!Pop
  /\ buffer!PopNothing <=> queues!PopNothing
BY DEF buffer!Pop, buffer!PopNothing, buffer!Popped, buffer!DropOldest, buffer!None, buffer!vars,
       queues!Pop, queues!PopNothing, queues!Popped, queues!DropOldest, queues!None, queues!vars

LEMMA SameHeld == buffer!Held = queues!Held
BY DEF buffer!Held, buffer!SlotsOf, buffer!Lowest, buffer!Contents, buffer!Slot,
       queues!Held, queues!SlotsOf, queues!Lowest, queues!Contents, queues!Slot

LEMMA SameState ==
  /\ buffer!TypeOK <=> queues!TypeOK
  /\ buffer!Init <=> queues!Init
  /\ buffer!Slot = queues!Slot
  /\ buffer!None = queues!None
  /\ buffer!Payload = queues!Payload
  /\ buffer!ZeroedSlot = queues!ZeroedSlot
BY DEF buffer!TypeOK, buffer!Init, buffer!Slot, buffer!None, buffer!Payload, buffer!ZeroedSlot,
       buffer!NodeSlot, buffer!RingIndex,
       queues!TypeOK, queues!Init, queues!Slot, queues!None, queues!Payload, queues!ZeroedSlot,
       queues!NodeSlot, queues!RingIndex

LEMMA SameLink ==
  /\ link!TypeOK <=> hop!TypeOK
  /\ link!Init <=> hop!Init
  /\ link!Pending <=> hop!Pending
  /\ link!Acked <=> hop!Acked
  /\ link!Failed <=> hop!Failed
  /\ \A p : link!BeginSend(p) <=> hop!BeginSend(p)
  /\ link!Receive <=> hop!Receive
  /\ link!ReceiveOther <=> hop!ReceiveOther
  /\ link!Overhear <=> hop!Overhear
BY DEF link!TypeOK, link!Init, link!Pending, link!Acked, link!Failed, link!BeginSend,
       link!Receive, link!ReceiveOther, link!Overhear, link!Transmit, link!TransmitFails,
       link!KeepWaiting, link!AckTimeout, link!BackoffWait, link!Retry, link!Attempts,
       link!Payload, link!Packet, link!senderVars, link!vars,
       hop!TypeOK, hop!Init, hop!Pending, hop!Acked, hop!Failed, hop!BeginSend,
       hop!Receive, hop!ReceiveOther, hop!Overhear, hop!Transmit, hop!TransmitFails,
       hop!KeepWaiting, hop!AckTimeout, hop!BackoffWait, hop!Retry, hop!Attempts,
       hop!Payload, hop!Packet, hop!senderVars, hop!vars

-----------------------------------------------------------------------------
(* The parts in the whole *)

\* What the proofs of the parts need, and that the relay is of the claim.
Core ==
  /\ queues!IInv
  /\ hop!IInv
  /\ phase # "Idle" => pending = inFlight

\* A step of the whole is one of the buffer's, and one of the link's, or a reboot.
LEMMA BufferSteps ==
  ASSUME Next
  PROVE  \/ UNCHANGED bufferVars
         \/ \E p \in queues!Payload : queues!Push(p)
         \/ RelayNext /\ queues!Peek
         \/ queues!PeekEmpty \/ queues!Pop \/ queues!Clear
<1>1. CASE HandleIncoming
  <2>1. ASSUME NEW d \in Devices, NEW seq \in Readings, BufferReading(d, seq)
        PROVE  \E p \in queues!Payload : queues!Push(p)
    <3>1. [uid |-> d.uid, reading |-> seq] \in queues!Payload
      BY DEF queues!Payload, Uids
    <3> QED
      BY <2>1, <3>1, SamePush DEF BufferReading
  <2> QED
    BY <1>1, <2>1 DEF HandleIncoming, AcceptJoin, IgnoreJoin, DropUnjoined, AnswerDuplicate,
       RefuseReading, buffer!PushRefused, buffer!vars, bufferVars
<1>2. CASE RelayStep
  BY <1>2, SamePeek, SamePop
     DEF RelayStep, RelayPending, RelayPolls, RelayAcked, RelayFailed, RelayNext, RelayNothing,
         RelayHeldOff, buffer!PopNothing, buffer!vars, bufferVars
<1>3. CASE HoldOffOver \/ Gateway
  BY <1>3 DEF HoldOffOver, Gateway
<1>4. CASE Reboot
  BY <1>4, SameState DEF Reboot, queues!Clear
<1> QED
  BY <1>1, <1>2, <1>3, <1>4 DEF Next

LEMMA LinkSteps ==
  ASSUME Next
  PROVE  \/ UNCHANGED linkVars
         \/ hop!Pending \/ hop!Acked \/ hop!Failed
         \/ RelayNext /\ hop!BeginSend(inFlight')
         \/ hop!Receive \/ hop!ReceiveOther \/ hop!Overhear
         \/ Reboot
<1>1. CASE HandleIncoming
  BY <1>1 DEF HandleIncoming, AcceptJoin, IgnoreJoin, DropUnjoined, AnswerDuplicate,
     RefuseReading, BufferReading
<1>2. CASE RelayStep
  BY <1>2, SameLink
     DEF RelayStep, RelayPending, RelayPolls, RelayAcked, RelayFailed, RelayNext, RelayNothing,
         RelayHeldOff
<1>3. CASE HoldOffOver \/ Gateway
  BY <1>3, SameLink DEF HoldOffOver, Gateway
<1>4. CASE Reboot
  BY <1>4
<1> QED
  BY <1>1, <1>2, <1>3, <1>4 DEF Next

LEMMA InitCore == Init => Core
<1> SUFFICES ASSUME Init PROVE Core
  OBVIOUS
<1>1. queues!Init /\ hop!Init
  BY SameState, SameLink DEF Init
<1>2. queues!IInv
  BY <1>1, Assumptions, queues!InitIInv
<1>3. hop!IInv
  BY <1>1, Assumptions, hop!InitIInv
<1> QED
  BY <1>1, <1>2, <1>3 DEF Core, Init

LEMMA StepCore == Core /\ [Next]_vars => Core'
<1> SUFFICES ASSUME Core, [Next]_vars PROVE Core'
  OBVIOUS
<1>1. queues!IInv /\ hop!IInv
  BY DEF Core
<1>2. queues!IInv'
  <2>1. queues!Next \/ UNCHANGED bufferVars
    BY BufferSteps DEF queues!Next, vars
  <2>2. [queues!Next]_(queues!vars)
    BY <2>1 DEF queues!vars, bufferVars
  <2> QED
    BY <1>1, <2>2, Assumptions, queues!NextIInv
<1>3. inFlight' \in hop!Payload
  BY <1>2 DEF queues!IInv, queues!TypeOK, queues!Payload, hop!Payload
<1>4. hop!IInv'
  <2>1. CASE Reboot
    BY <1>1, <2>1, Assumptions
       DEF Reboot, hop!IInv, hop!TypeOK, hop!AckNamesReceived, hop!AttemptLeft, hop!Packet,
           hop!Payload, hop!Attempts
  <2>2. CASE ~ Reboot
    <3>1. hop!Next \/ UNCHANGED linkVars
      BY <1>3, <2>2, LinkSteps DEF hop!Next, vars
    <3>2. [hop!Next]_(hop!vars)
      BY <3>1 DEF hop!vars, linkVars
    <3> QED
      BY <1>1, <3>2, Assumptions, hop!StepIInv
  <2> QED
    BY <2>1, <2>2
<1>5. phase' # "Idle" => pending' = inFlight'
  <2>1. CASE RelayNext
    BY <2>1, SameLink DEF RelayNext, hop!BeginSend
  <2>2. CASE UNCHANGED vars
    BY <2>2 DEF Core, vars, bufferVars, linkVars
  <2>3. CASE Next /\ ~ RelayNext
    <3>1. inFlight' = inFlight
      BY <2>3, BufferSteps
         DEF bufferVars, queues!Push, queues!PeekEmpty, queues!Pop, queues!Clear
    <3>2. phase' # "Idle" => phase # "Idle" /\ pending' = pending
      BY <2>3, LinkSteps
         DEF linkVars, hop!Pending, hop!Transmit, hop!TransmitFails, hop!KeepWaiting,
             hop!AckTimeout, hop!BackoffWait, hop!Retry, hop!vars, hop!Acked, hop!Failed,
             hop!Receive, hop!ReceiveOther, hop!Overhear, hop!senderVars, Reboot
    <3> QED
      BY <3>1, <3>2 DEF Core
  <2> QED
    BY <2>1, <2>2, <2>3
<1> QED
  BY <1>2, <1>4, <1>5 DEF Core

-----------------------------------------------------------------------------
(* What steps do to the queues *)

Queues == buffer!Held

LEMMA QueueTypes == Core => Queues \in [Uids -> Seq(Readings)]
<1> SUFFICES ASSUME Core PROVE Queues \in [Uids -> Seq(Readings)]
  OBVIOUS
<1>1. queues!HeldLaw
  BY Assumptions, queues!HeldLawHolds DEF Core
<1> QED
  BY <1>1, SameHeld DEF queues!HeldLaw, Queues

LEMMA QueueTypesNext == Core' => (Queues \in [Uids -> Seq(Readings)])'
BY QueueTypes, PTL

LEMMA SameHeldNext == (buffer!Held = queues!Held)'
BY SameHeld, PTL

\* The queues are made of the slots alone.
LEMMA QueuesUnchanged == slots' = slots => Queues' = Queues
BY DEF Queues, buffer!Held, buffer!SlotsOf, buffer!Contents

\* A buffered reading goes to the end of its node's queue, in the place of the
\* oldest if the queue is full.
LEMMA ReadingQueued ==
  ASSUME Core, Core', NEW d \in Devices, NEW seq \in Readings, BufferReading(d, seq)
  PROVE  /\ d.uid \in Uids
         /\ \/ Queues' = [Queues EXCEPT ![d.uid] = Append(@, seq)]
            \/ /\ Len(Queues[d.uid]) = ReadingsPerNode
               /\ Queues' = [Queues EXCEPT ![d.uid] = Append(Tail(@), seq)]
<1> DEFINE p == [uid |-> d.uid, reading |-> seq]
<1>1. d.uid \in Uids /\ p \in queues!Payload /\ p.uid = d.uid /\ p.reading = seq
  BY DEF queues!Payload, Uids
<1>2. queues!Push(p)
  BY SamePush DEF BufferReading
<1>3. queues!IInv /\ queues!IInv'
  BY DEF Core
<1> HIDE DEF p
<1>4. queues!Abstract!Accept(p) \/ queues!Abstract!Overwrite(p)
  BY <1>1, <1>2, <1>3, Assumptions, queues!PushRefines
<1> QED
  BY <1>1, <1>4, SameHeld, SameHeldNext
     DEF queues!Abstract!Accept, queues!Abstract!Overwrite, Queues

\* A relayed reading leaves the queue whose head it is, and the gateway has it.
LEMMA ReadingRelayed ==
  ASSUME Core, Core', RelayAcked
  PROVE  \/ Queues' = Queues
         \/ \E u \in Uids :
              /\ Queues[u] # << >>
              /\ [uid |-> u, reading |-> Head(Queues[u])] \in received
              /\ Queues' = [Queues EXCEPT ![u] = Tail(@)]
<1>1. CASE buffer!PopNothing
  BY <1>1, QueuesUnchanged DEF buffer!PopNothing, buffer!vars
<1>2. CASE buffer!Pop
  <2>1. hop!Acked /\ queues!Pop /\ queues!IInv /\ queues!IInv' /\ hop!IInv
    BY <1>2, SamePop, SameLink DEF RelayAcked, Core
  <2>2. queues!Abstract!Remove
    BY <2>1, Assumptions, queues!PopRefines
  <2>3. pending \in received /\ pending = inFlight
    BY <2>1, Assumptions, hop!AckedStep DEF Core, hop!Acked
  <2>4. queues!Claimed \in Uids
    BY <2>1, <2>2 DEF queues!Abstract!Remove, queues!Claimed, queues!IInv, queues!SlotsConsistent,
       queues!PeekHolds, queues!TypeOK
  <2> QED
    BY <2>2, <2>3, <2>4, SameHeld, SameHeldNext DEF queues!Abstract!Remove, Queues
<1> QED
  BY <1>1, <1>2 DEF RelayAcked

\* What a step is for the nodes.
LEMMA StepKinds ==
  ASSUME [Next]_vars
  PROVE  \/ /\ UNCHANGED <<joined, slots, arrived>>
            /\ reply' \in {reply, NoReply}
         \/ \E d \in Devices, peerAdded \in BOOLEAN : AcceptJoin(d, peerAdded)
         \/ \E d \in Devices, seq \in Readings :
              \/ DropUnjoined(d, seq) \/ RefuseReading(d, seq)
              \/ AnswerDuplicate(d, seq) \/ BufferReading(d, seq)
         \/ RelayAcked
         \/ Reboot
<1>1. CASE HandleIncoming
  BY <1>1 DEF HandleIncoming, IgnoreJoin, bufferVars
<1>2. CASE RelayStep
  BY <1>2 DEF RelayStep, RelayPending, RelayPolls, RelayFailed, RelayNext, RelayNothing,
     RelayHeldOff, NotIncoming, bufferVars, buffer!Peek, buffer!PeekEmpty
<1>3. CASE HoldOffOver \/ Gateway \/ UNCHANGED vars
  BY <1>3 DEF HoldOffOver, Gateway, nodeVars, bufferVars, vars
<1> QED
  BY <1>1, <1>2, <1>3 DEF Next

\* The gateway forgets nothing.
LEMMA ReceivedGrows ==
  ASSUME [Next]_vars
  PROVE  received \subseteq received'
<1>1. CASE Next
  BY <1>1, LinkSteps
     DEF linkVars, hop!Pending, hop!Transmit, hop!TransmitFails, hop!KeepWaiting,
         hop!AckTimeout, hop!BackoffWait, hop!Retry, hop!vars, hop!Acked, hop!Failed,
         hop!BeginSend, hop!Receive, hop!ReceiveOther, hop!Overhear, hop!senderVars, Reboot
<1> QED
  BY <1>1 DEF vars, linkVars

\* A reboot leaves no reading.
LEMMA RebootEmpties == Reboot => Queues' = [u \in Uids |-> << >>]
<1> SUFFICES ASSUME Reboot PROVE Queues' = [u \in Uids |-> << >>]
  OBVIOUS
<1>1. slots' = [i \in queues!Slot |-> queues!ZeroedSlot]
  BY SameState DEF Reboot
<1> QED
  BY <1>1, Assumptions, SameHeldNext, queues!ZeroedHoldNothingNext DEF Queues

LEMMA InitEmpty == Init => Queues = [u \in Uids |-> << >>]
<1> SUFFICES ASSUME Init PROVE Queues = [u \in Uids |-> << >>]
  OBVIOUS
<1>1. slots = [i \in queues!Slot |-> queues!ZeroedSlot]
  BY SameState DEF Init, queues!Init
<1> QED
  BY <1>1, Assumptions, SameHeld, queues!ZeroedHoldNothing DEF Queues

-----------------------------------------------------------------------------
(* Sequences *)

LEMMA AppendedAt ==
  ASSUME NEW S, NEW s \in Seq(S), NEW x \in S
  PROVE  /\ Append(s, x) \in Seq(S)
         /\ Len(Append(s, x)) = Len(s) + 1
         /\ \A k \in 1 .. Len(s) : Append(s, x)[k] = s[k]
         /\ Append(s, x)[Len(s) + 1] = x
OBVIOUS

LEMMA TailAt ==
  ASSUME NEW S, NEW s \in Seq(S), s # << >>
  PROVE  /\ Head(s) = s[1] /\ Len(s) > 0
         /\ Tail(s) \in Seq(S)
         /\ Len(Tail(s)) = Len(s) - 1
         /\ \A k \in 1 .. Len(s) - 1 : Tail(s)[k] = s[k + 1]
OBVIOUS

-----------------------------------------------------------------------------
(* The joined table *)

TableInv ==
  /\ joined \in [Macs -> JoinedNode \cup {NotJoined}]
  /\ arrived \in [Uids -> Readings \cup {NoSeq}]
  /\ \A m \in Joined : \E d \in Devices : d.mac = m /\ d.uid = joined[m].uid

LEMMA EntryTypes ==
  ASSUME TableInv, NEW d \in Devices
  PROVE  /\ d.mac \in Macs /\ d.uid \in Uids
         /\ JoinedEntry(d) \in JoinedNode
         /\ JoinedEntry(d).uid = d.uid
         /\ JoinedEntry(d).lastSeq # NoSeq =>
              /\ d.mac \in Joined
              /\ joined[d.mac].uid = d.uid
              /\ JoinedEntry(d).lastSeq = joined[d.mac].lastSeq
<1>1. d.mac \in Macs /\ d.uid \in Uids
  BY DEF Macs, Uids
<1>2. d.mac \in Joined => joined[d.mac].lastSeq \in Readings \cup {NoSeq}
  BY DEF TableInv, Joined, JoinedNode
<1> QED
  BY <1>1, <1>2 DEF JoinedEntry, JoinedNode

\* The table after a Join.
LEMMA TableAfterJoin ==
  ASSUME TableInv, NEW d \in Devices, joined' = [joined EXCEPT ![d.mac] = JoinedEntry(d)]
  PROVE  /\ joined' \in [Macs -> JoinedNode \cup {NotJoined}]
         /\ Joined' = Joined \cup {d.mac}
         /\ joined'[d.mac] = JoinedEntry(d)
         /\ \A m \in Macs : m # d.mac => joined'[m] = joined[m]
<1>1. d.mac \in Macs /\ JoinedEntry(d) \in JoinedNode
  BY EntryTypes
<1>2. NotJoined \notin JoinedNode
  BY TableAssumption DEF JoinedNode
<1> HIDE DEF JoinedEntry
<1> QED
  BY <1>1, <1>2 DEF TableInv, Joined

\* The table after a reading was buffered.
LEMMA TableAfterReading ==
  ASSUME TableInv, NEW d \in Devices, NEW seq \in Readings, BufferReading(d, seq)
  PROVE  /\ joined' \in [Macs -> JoinedNode \cup {NotJoined}]
         /\ Joined' = Joined
         /\ d.mac \in Joined /\ joined[d.mac].uid = d.uid
         /\ joined'[d.mac].uid = d.uid /\ joined'[d.mac].lastSeq = seq
         /\ \A m \in Macs : m # d.mac => joined'[m] = joined[m]
<1>1. /\ d.mac \in Macs /\ d.mac \in Joined /\ joined[d.mac].uid = d.uid
      /\ joined' = [joined EXCEPT ![d.mac].lastSeq = seq]
  BY DEF BufferReading, Arrives, Joined
<1>2. joined[d.mac] \in JoinedNode
  BY <1>1 DEF TableInv, Joined
<1>3. [joined[d.mac] EXCEPT !.lastSeq = seq] \in JoinedNode
  BY <1>2 DEF JoinedNode
<1>4. joined' = [joined EXCEPT ![d.mac] = [joined[d.mac] EXCEPT !.lastSeq = seq]]
  BY <1>1
<1>5. NotJoined \notin JoinedNode
  BY TableAssumption DEF JoinedNode
<1> DEFINE entry == [joined[d.mac] EXCEPT !.lastSeq = seq]
<1>6. entry.uid = d.uid /\ entry.lastSeq = seq
  BY <1>1, <1>2 DEF JoinedNode
<1>7. entry \in JoinedNode /\ joined' = [joined EXCEPT ![d.mac] = entry]
  BY <1>3, <1>4
<1> HIDE DEF entry
<1> QED
  BY <1>1, <1>5, <1>6, <1>7 DEF TableInv, Joined

LEMMA ArrivedTypes ==
  ASSUME TableInv, NEW d \in Devices, NEW seq \in Readings, Arrives(d, seq)
  PROVE  /\ arrived' \in [Uids -> Readings \cup {NoSeq}]
         /\ arrived' = [arrived EXCEPT ![d.uid] = seq]
         /\ seq >= arrived[d.uid]
BY DEF TableInv, Arrives, Uids

LEMMA InitTable == Init => TableInv
BY DEF Init, TableInv, Joined

LEMMA StepTable == TableInv /\ [Next]_vars => TableInv'
<1> SUFFICES ASSUME TableInv, [Next]_vars PROVE TableInv'
  OBVIOUS
<1>1. CASE UNCHANGED <<joined, arrived>>
  BY <1>1 DEF TableInv, Joined
<1>2. ASSUME NEW d \in Devices, NEW peerAdded \in BOOLEAN, AcceptJoin(d, peerAdded)
      PROVE  TableInv'
  <2>1. joined' = [joined EXCEPT ![d.mac] = JoinedEntry(d)] /\ arrived' = arrived
    BY <1>2 DEF AcceptJoin
  <2> QED
    BY <2>1, TableAfterJoin, EntryTypes DEF TableInv, Joined
<1>3. ASSUME NEW d \in Devices, NEW seq \in Readings,
             DropUnjoined(d, seq) \/ RefuseReading(d, seq) \/ AnswerDuplicate(d, seq)
      PROVE  TableInv'
  <2>1. joined' = joined /\ Arrives(d, seq)
    BY <1>3 DEF DropUnjoined, RefuseReading, AnswerDuplicate
  <2> QED
    BY <2>1, ArrivedTypes DEF TableInv, Joined
<1>4. ASSUME NEW d \in Devices, NEW seq \in Readings, BufferReading(d, seq)
      PROVE  TableInv'
  <2>1. Arrives(d, seq)
    BY <1>4 DEF BufferReading
  <2> QED
    BY <1>4, <2>1, TableAfterReading, ArrivedTypes DEF TableInv, Joined
<1>5. CASE RelayAcked
  BY <1>1, <1>5 DEF RelayAcked, NotIncoming
<1>6. CASE Reboot
  BY <1>6 DEF Reboot, TableInv, Joined
<1> QED
  BY <1>1, <1>2, <1>3, <1>4, <1>5, <1>6, StepKinds

-----------------------------------------------------------------------------
(* A reading stays kept *)

LEMMA KeptIn ==
  ASSUME NEW u, NEW seq
  PROVE  Kept(u, seq) <=> \/ \E k \in 1 .. Len(Queues[u]) : Queues[u][k] = seq
                          \/ [uid |-> u, reading |-> seq] \in received
BY DEF Kept, Held, Queues

LEMMA KeptInNext ==
  ASSUME NEW CONSTANT u, NEW CONSTANT seq
  PROVE  Kept(u, seq)' <=> \/ \E k \in 1 .. Len(Queues'[u]) : Queues'[u][k] = seq
                           \/ [uid |-> u, reading |-> seq] \in received'
BY DEF Kept, Held, Queues

\* Steps that leave a node's queue alone.
LEMMA KeptStays ==
  ASSUME NEW CONSTANT u, NEW CONSTANT seq, Queues'[u] = Queues[u], [Next]_vars, Kept(u, seq)
  PROVE  Kept(u, seq)'
<1>1. received \subseteq received'
  BY ReceivedGrows
<1> HIDE DEF Queues
<1> QED
  BY <1>1, KeptIn, KeptInNext

\* A relayed reading is at the gateway, and the others of its queue move up.
LEMMA KeptWhenRelayed ==
  ASSUME Core, Core', [Next]_vars, RelayAcked,
         NEW CONSTANT u \in Uids, NEW CONSTANT seq, Kept(u, seq)
  PROVE  Kept(u, seq)'
<1>1. Queues \in [Uids -> Seq(Readings)] /\ received \subseteq received'
  BY QueueTypes, ReceivedGrows
<1>2. CASE Queues'[u] = Queues[u]
  BY <1>2, KeptStays
<1>3. CASE Queues'[u] # Queues[u]
  <2>1. /\ Queues[u] # << >>
        /\ [uid |-> u, reading |-> Head(Queues[u])] \in received
        /\ Queues'[u] = Tail(Queues[u])
    BY <1>1, <1>3, ReadingRelayed
  <2> DEFINE q == Queues[u]
  <2>2. /\ q[1] = Head(q) /\ Len(Tail(q)) = Len(q) - 1 /\ Len(q) \in Nat
        /\ \A k \in 1 .. Len(q) - 1 : Tail(q)[k] = q[k + 1]
    BY <1>1, <2>1, TailAt
  <2> HIDE DEF q
  <2>3. CASE [uid |-> u, reading |-> seq] \in received
    BY <1>1, <2>3, KeptInNext
  <2>4. ASSUME NEW k \in 1 .. Len(q), q[k] = seq PROVE Kept(u, seq)'
    <3>1. CASE k = 1
      BY <1>1, <2>1, <2>2, <2>4, <3>1, KeptInNext DEF q
    <3>2. CASE k # 1
      <4>1. k - 1 \in 1 .. Len(Tail(q)) /\ Tail(q)[k - 1] = seq
        BY <2>2, <2>4, <3>2
      <4>2. Queues'[u] = Tail(q)
        BY <2>1 DEF q
      <4> QED
        BY <4>1, <4>2, KeptInNext
    <3> QED
      BY <3>1, <3>2
  <2> QED
    BY <2>3, <2>4, KeptIn DEF q
<1> QED
  BY <1>2, <1>3

\* A reading that was just buffered is kept.
LEMMA KeptWhenBuffered ==
  ASSUME Core, Core', NEW CONSTANT d \in Devices, NEW CONSTANT seq \in Readings,
         BufferReading(d, seq)
  PROVE  Kept(d.uid, seq)'
<1>1. Queues \in [Uids -> Seq(Readings)] /\ d.uid \in Uids
  BY QueueTypes, ReadingQueued
<1> DEFINE q == Queues[d.uid]
           r == Queues'[d.uid]
<1>2. (q \in Seq(Readings) /\ Tail(q) \in Seq(Readings)) \/ q = << >>
  BY <1>1, TailAt
<1>3. r = Append(q, seq) \/ (r = Append(Tail(q), seq) /\ Len(q) = ReadingsPerNode)
  BY <1>1, ReadingQueued
<1>4. Len(q) = ReadingsPerNode => q # << >>
  BY BufferAssumption
<1> HIDE DEF q, r
<1>5. q \in Seq(Readings)
  BY <1>1 DEF q
<1>6. PICK s \in Seq(Readings) : r = Append(s, seq)
  BY <1>2, <1>3, <1>4, <1>5
<1>7. Len(s) + 1 \in 1 .. Len(r) /\ r[Len(s) + 1] = seq
  BY <1>6, AppendedAt
<1> QED
  BY <1>7, KeptInNext DEF r

-----------------------------------------------------------------------------
(* What the substation answers for *)

\* A board has one UID, which its eFuse holds, and one MAC.
OneUidPerMac == \A d, e \in Devices : d.mac = e.mac => d.uid = e.uid

OneMacPerUid == \A d, e \in Devices : d.uid = e.uid => d.mac = e.mac

\* A joined node's last reading is kept, and so is the one just answered.
LastKept ==
  \A m \in Joined, u \in Uids, seq \in Readings :
    joined[m].uid = u /\ joined[m].lastSeq = seq => Kept(u, seq)

AnsweredKept ==
  \A u \in Uids, seq \in Readings :
    reply # NoReply /\ reply.kind = "Ack" /\ reply.uid = u /\ reply.seq = seq => Kept(u, seq)

AnswersInv ==
  /\ reply \in Reply \cup {NoReply}
  /\ LastKept
  /\ AnsweredKept

LEMMA InitAnswers == Init => AnswersInv
BY DEF Init, AnswersInv, LastKept, AnsweredKept, Joined

\* Steps that send nothing and lose nothing that is kept.
LEMMA AnswersStay ==
  ASSUME AnswersInv, joined' = joined, reply' \in {reply, NoReply},
         \A u \in Uids : \A seq \in Readings : Kept(u, seq) => Kept(u, seq)'
  PROVE  AnswersInv'
<1>1. LastKept'
  BY DEF AnswersInv, LastKept, Joined
<1>2. AnsweredKept'
  BY DEF AnswersInv, AnsweredKept
<1> QED
  BY <1>1, <1>2 DEF AnswersInv

LEMMA StepAnswers ==
  ASSUME OneMacPerUid, Core, Core', TableInv, AnswersInv, [Next]_vars
  PROVE  AnswersInv'
<1>0. \A u \in Uids : \A seq \in Readings : slots' = slots /\ Kept(u, seq) => Kept(u, seq)'
  BY QueuesUnchanged, KeptStays
<1>1. CASE UNCHANGED <<joined, slots>> /\ reply' \in {reply, NoReply}
  BY <1>0, <1>1, AnswersStay
<1>2. ASSUME NEW d \in Devices, NEW peerAdded \in BOOLEAN, AcceptJoin(d, peerAdded)
      PROVE  AnswersInv'
  <2>1. /\ slots' = slots
        /\ joined' = [joined EXCEPT ![d.mac] = JoinedEntry(d)]
        /\ reply' \in {[kind |-> "JoinAck", mac |-> d.mac, uid |-> d.uid], NoReply}
    BY <1>2 DEF AcceptJoin, bufferVars
  <2>2. reply' \in Reply \cup {NoReply} /\ AnsweredKept'
    BY <2>1, EntryTypes DEF Reply, AnsweredKept
  <2>3. ASSUME NEW m \in Joined', NEW u \in Uids, NEW seq \in Readings,
               joined'[m].uid = u, joined'[m].lastSeq = seq
        PROVE  Kept(u, seq)'
    <3>1. seq # NoSeq
      BY DEF Readings, NoSeq
    <3>2. m \in Joined /\ joined[m].uid = u /\ joined[m].lastSeq = seq
      BY <2>1, <2>3, <3>1, TableAfterJoin, EntryTypes DEF Joined
    <3>3. Kept(u, seq)
      BY <3>2 DEF AnswersInv, LastKept
    <3> QED
      BY <1>0, <2>1, <3>3
  <2>4. LastKept'
    BY <2>3 DEF LastKept
  <2> QED
    BY <2>2, <2>4 DEF AnswersInv
<1>3. ASSUME NEW d \in Devices, NEW seq \in Readings,
             DropUnjoined(d, seq) \/ RefuseReading(d, seq)
      PROVE  AnswersInv'
  BY <1>1, <1>3 DEF DropUnjoined, RefuseReading, buffer!PushRefused, buffer!vars, bufferVars
<1>4. ASSUME NEW d \in Devices, NEW seq \in Readings, AnswerDuplicate(d, seq)
      PROVE  AnswersInv'
  <2>1. /\ slots' = slots /\ joined' = joined
        /\ d.mac \in Joined /\ joined[d.mac].uid = d.uid /\ joined[d.mac].lastSeq = seq
        /\ reply' = [kind |-> "Ack", mac |-> d.mac, uid |-> d.uid, seq |-> seq]
    BY <1>4 DEF AnswerDuplicate, Arrives, IsDuplicate, DeliveryAck, bufferVars
  <2>2. d.uid \in Uids /\ d.mac \in Macs
    BY EntryTypes
  <2>3. Kept(d.uid, seq)
    BY <2>1, <2>2 DEF AnswersInv, LastKept
  <2>4. Kept(d.uid, seq)'
    BY <1>0, <2>1, <2>2, <2>3
  <2>5. AnsweredKept'
    BY <2>1, <2>4 DEF AnsweredKept
  <2>6. LastKept'
    BY <1>0, <2>1 DEF AnswersInv, LastKept, Joined
  <2>7. reply' \in Reply
    BY <2>1, <2>2 DEF Reply
  <2> QED
    BY <2>5, <2>6, <2>7 DEF AnswersInv
<1>5. ASSUME NEW d \in Devices, NEW seq \in Readings, BufferReading(d, seq)
      PROVE  AnswersInv'
  <2>1. reply' = [kind |-> "Ack", mac |-> d.mac, uid |-> d.uid, seq |-> seq]
    BY <1>5 DEF BufferReading, DeliveryAck
  <2>2. d.uid \in Uids /\ d.mac \in Macs
    BY EntryTypes
  <2>3. Kept(d.uid, seq)'
    BY <1>5, KeptWhenBuffered
  <2>4. AnsweredKept'
    BY <2>1, <2>3 DEF AnsweredKept
  <2>5. ASSUME NEW m \in Joined', NEW u \in Uids, NEW q \in Readings,
               joined'[m].uid = u, joined'[m].lastSeq = q
        PROVE  Kept(u, q)'
    <3>1. CASE m = d.mac
      <4>1. u = d.uid /\ q = seq
        BY <1>5, <2>5, <3>1, TableAfterReading
      <4> QED
        BY <2>3, <4>1
    <3>2. CASE m # d.mac
      <4>1. m \in Joined /\ joined[m].uid = u /\ joined[m].lastSeq = q
        BY <1>5, <2>5, <3>2, TableAfterReading DEF Joined
      <4>2. u # d.uid
        BY <3>2, <4>1 DEF TableInv, OneMacPerUid
      <4>3. Queues'[u] = Queues[u]
        BY <1>5, <4>2, QueueTypes, ReadingQueued
      <4>4. Kept(u, q)
        BY <4>1 DEF AnswersInv, LastKept
      <4> QED
        BY <4>3, <4>4, KeptStays
    <3> QED
      BY <3>1, <3>2
  <2>6. LastKept'
    BY <2>5 DEF LastKept
  <2>7. reply' \in Reply
    BY <2>1, <2>2 DEF Reply
  <2> QED
    BY <2>4, <2>6, <2>7 DEF AnswersInv
<1>6. CASE RelayAcked
  BY <1>6, AnswersStay, KeptWhenRelayed DEF RelayAcked, NotIncoming
<1>7. CASE Reboot
  BY <1>7 DEF Reboot, AnswersInv, LastKept, AnsweredKept, Joined
<1> QED
  BY <1>1, <1>2, <1>3, <1>4, <1>5, <1>6, <1>7, StepKinds

-----------------------------------------------------------------------------
(* Order, and who has readings in the buffer *)

\* Whoever has readings in the buffer is joined.
HoldersJoined ==
  \A u \in Uids : Queues[u] # << >> => \E m \in Joined : joined[m].uid = u

\* A joined node's last sequence number is the highest of its queue.
LastIsHighest ==
  \A m \in Joined, u \in Uids :
    joined[m].uid = u =>
      /\ joined[m].lastSeq <= arrived[u]
      /\ \A k \in 1 .. Len(Queues[u]) : Queues[u][k] <= joined[m].lastSeq

Ordered(q) == \A i, j \in 1 .. Len(q) : i < j => q[i] < q[j]

LEMMA OrderedAppend ==
  ASSUME NEW q \in Seq(Readings), NEW x \in Readings, Ordered(q),
         \A k \in 1 .. Len(q) : q[k] < x
  PROVE  /\ Ordered(Append(q, x))
         /\ \A k \in 1 .. Len(Append(q, x)) : Append(q, x)[k] <= x
<1> DEFINE r == Append(q, x)
<1>1. /\ Len(r) = Len(q) + 1 /\ r[Len(q) + 1] = x /\ Len(q) \in Nat
      /\ \A k \in 1 .. Len(q) : r[k] = q[k]
  BY AppendedAt
<1>2. x \in Int
  BY BoundsAssumption DEF Readings
<1> HIDE DEF r
<1>3. Ordered(r)
  BY <1>1, <1>2 DEF Ordered
<1>4. \A k \in 1 .. Len(q) : q[k] \in Int
  BY BoundsAssumption DEF Readings
<1>5. \A k \in 1 .. Len(r) : r[k] <= x
  BY <1>1, <1>2, <1>4
<1> QED
  BY <1>3, <1>5 DEF r

LEMMA OrderedTail ==
  ASSUME NEW q \in Seq(Readings), q # << >>, Ordered(q)
  PROVE  Ordered(Tail(q))
<1> DEFINE r == Tail(q)
<1>1. /\ Len(r) = Len(q) - 1 /\ Len(q) \in Nat
      /\ \A k \in 1 .. Len(q) - 1 : r[k] = q[k + 1]
  BY TailAt
<1> HIDE DEF r
<1>2. Ordered(r)
  BY <1>1 DEF Ordered
<1> QED
  BY <1>2 DEF r

OrderInv ==
  /\ HoldersJoined
  /\ LastIsHighest
  /\ \A u \in Uids : Ordered(Queues[u])

LEMMA OrderedIsProperty == OrderInv => BufferedOnceInOrder
BY DEF OrderInv, Ordered, BufferedOnceInOrder, Held, Queues

LEMMA InitOrder == Init => OrderInv
<1> SUFFICES ASSUME Init PROVE OrderInv
  OBVIOUS
<1>1. \A u \in Uids : Queues[u] = << >>
  BY InitEmpty
<1>2. Joined = {}
  BY DEF Init, Joined
<1> HIDE DEF Queues
<1> QED
  BY <1>1, <1>2 DEF OrderInv, HoldersJoined, LastIsHighest, Ordered

\* A joined node's UID is its board's, and no other board on its MAC has joined.
LEMMA JoinedIsBoard ==
  ASSUME OneUidPerMac, OneMacPerUid, TableInv, NEW d \in Devices, NEW m \in Joined
  PROVE  joined[m].uid = d.uid <=> m = d.mac
BY DEF TableInv, OneUidPerMac, OneMacPerUid

\* Steps that leave the table and the queues alone, while readings may arrive.
LEMMA OrderStays ==
  ASSUME TableInv, OrderInv, joined' = joined, Queues' = Queues,
         \A u \in Uids : arrived'[u] \in Int /\ arrived'[u] >= arrived[u]
  PROVE  OrderInv'
<1>1. \A m \in Joined : joined[m].lastSeq \in Int
  BY BoundsAssumption DEF TableInv, Joined, JoinedNode, Readings, NoSeq
<1>2. \A u \in Uids : arrived[u] \in Int
  BY BoundsAssumption DEF TableInv, Readings, NoSeq
<1>3. LastIsHighest'
  BY <1>1, <1>2 DEF OrderInv, LastIsHighest, Joined
<1>4. HoldersJoined'
  BY DEF OrderInv, HoldersJoined, Joined
<1> QED
  BY <1>3, <1>4 DEF OrderInv

LEMMA StepOrder ==
  ASSUME OneUidPerMac, OneMacPerUid, Core, Core', TableInv, TableInv', OrderInv, [Next]_vars
  PROVE  OrderInv'
<1>0. /\ Queues \in [Uids -> Seq(Readings)]
      /\ slots' = slots => Queues' = Queues
  BY QueueTypes, QueuesUnchanged
<1>1. \A u \in Uids : arrived[u] \in Int
  BY BoundsAssumption DEF TableInv, Readings, NoSeq
<1>2. CASE UNCHANGED <<joined, slots, arrived>>
  BY <1>0, <1>1, <1>2, OrderStays
<1>3. ASSUME NEW d \in Devices, NEW peerAdded \in BOOLEAN, AcceptJoin(d, peerAdded)
      PROVE  OrderInv'
  <2>1. /\ Queues' = Queues /\ arrived' = arrived
        /\ joined' = [joined EXCEPT ![d.mac] = JoinedEntry(d)]
    BY <1>0, <1>3 DEF AcceptJoin, bufferVars
  <2>2. /\ Joined' = Joined \cup {d.mac}
        /\ joined'[d.mac].uid = d.uid
        /\ \A m \in Macs : m # d.mac => joined'[m] = joined[m]
        /\ d.uid \in Uids
    BY <2>1, TableAfterJoin, EntryTypes
  <2>3. d.mac \in Joined => /\ joined[d.mac].uid = d.uid
                            /\ joined'[d.mac].lastSeq = joined[d.mac].lastSeq
    BY <2>1, TableAfterJoin, JoinedIsBoard DEF JoinedEntry
  <2>4. d.mac \notin Joined => joined'[d.mac].lastSeq = NoSeq /\ Queues[d.uid] = << >>
    <3>1. ASSUME d.mac \notin Joined, Queues[d.uid] # << >> PROVE FALSE
      BY <2>2, <3>1, JoinedIsBoard DEF OrderInv, HoldersJoined
    <3>2. joined'[d.mac] = JoinedEntry(d)
      BY <2>1, TableAfterJoin
    <3>3. d.mac \notin Joined => JoinedEntry(d).lastSeq = NoSeq
      BY DEF JoinedEntry
    <3> QED
      BY <3>1, <3>2, <3>3
  <2>5. HoldersJoined'
    <3>1. ASSUME NEW u \in Uids, NEW m \in Joined, joined[m].uid = u
          PROVE  m \in Joined' /\ joined'[m].uid = u
      BY <2>2, <2>3, <3>1 DEF Joined
    <3> QED
      BY <2>1, <3>1 DEF OrderInv, HoldersJoined
  <2>6. ASSUME NEW m \in Joined', NEW u \in Uids, joined'[m].uid = u
        PROVE  /\ joined'[m].lastSeq <= arrived[u]
               /\ \A k \in 1 .. Len(Queues[u]) : Queues[u][k] <= joined'[m].lastSeq
    <3>1. CASE m \in Joined
      <4>1. joined[m].uid = u /\ joined'[m].lastSeq = joined[m].lastSeq
        BY <2>2, <2>3, <2>6, <3>1 DEF Joined
      <4> QED
        BY <3>1, <4>1 DEF OrderInv, LastIsHighest
    <3>2. CASE m \notin Joined
      <4>1. m = d.mac /\ u = d.uid
        BY <2>2, <2>6, <3>2
      <4>2. arrived[u] >= NoSeq
        BY <4>1, <2>2 DEF TableInv, Readings, NoSeq
      <4>3. 1 .. Len(Queues[u]) = {} /\ joined'[m].lastSeq = NoSeq
        BY <2>4, <3>2, <4>1
      <4> QED
        BY <1>1, <4>2, <4>3 DEF NoSeq
    <3> QED
      BY <3>1, <3>2
  <2>7. LastIsHighest'
    BY <2>1, <2>6 DEF LastIsHighest
  <2> QED
    BY <2>1, <2>5, <2>7 DEF OrderInv
<1>4. ASSUME NEW d \in Devices, NEW seq \in Readings,
             DropUnjoined(d, seq) \/ RefuseReading(d, seq) \/ AnswerDuplicate(d, seq)
      PROVE  OrderInv'
  <2>1. joined' = joined /\ slots' = slots /\ Arrives(d, seq)
    BY <1>4 DEF DropUnjoined, RefuseReading, AnswerDuplicate, buffer!PushRefused, buffer!vars,
       bufferVars
  <2>2. \A u \in Uids : arrived'[u] = IF u = d.uid THEN seq ELSE arrived[u]
    BY <2>1, ArrivedTypes DEF TableInv
  <2>3. seq \in Int /\ seq >= arrived[d.uid]
    BY <2>1, ArrivedTypes, BoundsAssumption DEF Readings
  <2> QED
    BY <1>0, <1>1, <2>1, <2>2, <2>3, OrderStays
<1>5. ASSUME NEW d \in Devices, NEW seq \in Readings, BufferReading(d, seq)
      PROVE  OrderInv'
  <2> DEFINE q == Queues[d.uid]
             r == Queues'[d.uid]
  <2>1. /\ d.uid \in Uids /\ d.mac \in Joined /\ joined[d.mac].uid = d.uid
        /\ Joined' = Joined
        /\ joined'[d.mac].uid = d.uid /\ joined'[d.mac].lastSeq = seq
        /\ \A m \in Macs : m # d.mac => joined'[m] = joined[m]
    BY <1>5, TableAfterReading, EntryTypes
  <2>2. \A u \in Uids : u # d.uid => Queues'[u] = Queues[u]
    BY <1>0, <1>5, ReadingQueued
  <2>3. r = Append(q, seq) \/ (r = Append(Tail(q), seq) /\ q # << >>)
    BY <1>0, <1>5, ReadingQueued, BufferAssumption
  <2>4. /\ Arrives(d, seq)
        /\ joined[d.mac].lastSeq # seq
    BY <1>5 DEF BufferReading, IsDuplicate
  <2>5. \A u \in Uids : arrived'[u] = IF u = d.uid THEN seq ELSE arrived[u]
    BY <2>4, ArrivedTypes DEF TableInv
  <2>6. \A k \in 1 .. Len(q) : q[k] < seq
    <3>1. /\ seq \in Int /\ arrived[d.uid] \in Int /\ joined[d.mac].lastSeq \in Int
          /\ seq >= arrived[d.uid]
      BY <1>1, <2>1, <2>4, ArrivedTypes, BoundsAssumption
         DEF TableInv, Joined, JoinedNode, Readings, NoSeq
    <3>2. joined[d.mac].lastSeq <= arrived[d.uid]
      BY <2>1 DEF OrderInv, LastIsHighest
    <3>3. \A k \in 1 .. Len(q) : q[k] <= joined[d.mac].lastSeq
      BY <2>1 DEF OrderInv, LastIsHighest
    <3>4. \A k \in 1 .. Len(q) : q[k] \in Int
      BY <1>0, <2>1, BoundsAssumption DEF Readings
    <3> HIDE DEF q
    <3>5. joined[d.mac].lastSeq < seq
      BY <2>4, <3>1, <3>2
    <3> QED
      BY <3>1, <3>3, <3>4, <3>5
  <2>7. q \in Seq(Readings) /\ Ordered(q)
    BY <1>0, <2>1 DEF OrderInv
  <2> HIDE DEF q, r
  <2>8. Ordered(r) /\ \A k \in 1 .. Len(r) : r[k] <= seq
    <3>1. CASE r = Append(q, seq)
      BY <2>6, <2>7, <3>1, OrderedAppend
    <3>2. CASE r = Append(Tail(q), seq) /\ q # << >>
      <4> DEFINE s == Tail(q)
      <4>1. s \in Seq(Readings) /\ Ordered(s) /\ Len(s) = Len(q) - 1 /\ Len(q) \in Nat
            /\ \A k \in 1 .. Len(q) - 1 : s[k] = q[k + 1]
        BY <2>7, <3>2, TailAt, OrderedTail
      <4> HIDE DEF s
      <4>2. \A k \in 1 .. Len(s) : s[k] < seq
        BY <2>6, <4>1
      <4>3. r = Append(s, seq)
        BY <3>2 DEF s
      <4> QED
        BY <4>1, <4>2, <4>3, OrderedAppend
    <3> QED
      BY <2>3, <3>1, <3>2
  <2>9. HoldersJoined'
    <3>1. ASSUME NEW u \in Uids, NEW m \in Joined, joined[m].uid = u
          PROVE  m \in Joined' /\ joined'[m].uid = u
      BY <2>1, <3>1 DEF Joined
    <3> QED
      BY <2>1, <2>2, <3>1 DEF OrderInv, HoldersJoined
  <2>10. ASSUME NEW m \in Joined', NEW u \in Uids, joined'[m].uid = u
         PROVE  /\ joined'[m].lastSeq <= arrived'[u]
                /\ \A k \in 1 .. Len(Queues'[u]) : Queues'[u][k] <= joined'[m].lastSeq
    <3>1. CASE m = d.mac
      <4>1. u = d.uid
        BY <2>1, <2>10, <3>1
      <4>2. seq \in Int
        BY BoundsAssumption DEF Readings
      <4> QED
        BY <2>1, <2>5, <2>8, <3>1, <4>1, <4>2 DEF r
    <3>2. CASE m # d.mac
      <4>1. m \in Joined /\ joined'[m] = joined[m]
        BY <2>1, <2>10, <3>2 DEF Joined
      <4>2. u # d.uid
        BY <2>10, <3>2, <4>1, JoinedIsBoard
      <4> QED
        BY <2>2, <2>5, <2>10, <4>1, <4>2 DEF OrderInv, LastIsHighest
    <3> QED
      BY <3>1, <3>2
  <2>11. LastIsHighest'
    BY <2>10 DEF LastIsHighest
  <2>12. \A u \in Uids : Ordered(Queues'[u])
    BY <2>2, <2>8 DEF r, OrderInv
  <2> QED
    BY <2>9, <2>11, <2>12 DEF OrderInv, Ordered
<1>6. CASE RelayAcked
  <2>1. joined' = joined /\ arrived' = arrived
    BY <1>6 DEF RelayAcked, NotIncoming
  <2>2. CASE Queues' = Queues
    BY <1>1, <2>1, <2>2, OrderStays
  <2>3. ASSUME NEW u \in Uids, Queues[u] # << >>, Queues' = [Queues EXCEPT ![u] = Tail(@)]
        PROVE  OrderInv'
    <3> DEFINE q == Queues[u]
    <3>1. /\ Queues'[u] = Tail(q)
          /\ \A w \in Uids : w # u => Queues'[w] = Queues[w]
          /\ q \in Seq(Readings) /\ q # << >> /\ Ordered(q)
      BY <1>0, <2>3 DEF OrderInv
    <3> HIDE DEF q
    <3>2. /\ Ordered(Tail(q)) /\ Len(Tail(q)) = Len(q) - 1 /\ Len(q) \in Nat
          /\ \A k \in 1 .. Len(q) - 1 : Tail(q)[k] = q[k + 1]
      BY <3>1, TailAt, OrderedTail
    <3>3. HoldersJoined'
      BY <2>1, <2>3, <3>1 DEF OrderInv, HoldersJoined, Joined
    <3>4. ASSUME NEW m \in Joined, joined[m].uid = u
          PROVE  \A k \in 1 .. Len(Tail(q)) : Tail(q)[k] <= joined[m].lastSeq
      <4>1. \A k \in 1 .. Len(q) : q[k] <= joined[m].lastSeq
        BY <3>4 DEF OrderInv, LastIsHighest, q
      <4> QED
        BY <3>2, <4>1
    <3>5. LastIsHighest'
      BY <2>1, <3>1, <3>4 DEF OrderInv, LastIsHighest, Joined
    <3>6. \A w \in Uids : Ordered(Queues'[w])
      BY <3>1, <3>2 DEF OrderInv
    <3> QED
      BY <3>3, <3>5, <3>6 DEF OrderInv, Ordered
  <2> QED
    BY <1>6, <2>2, <2>3, ReadingRelayed
<1>7. CASE Reboot
  <2>1. Joined' = {} /\ \A u \in Uids : Queues'[u] = << >>
    BY <1>7, RebootEmpties DEF Reboot, Joined
  <2> QED
    BY <2>1 DEF OrderInv, HoldersJoined, LastIsHighest, Ordered
<1> QED
  BY <1>2, <1>3, <1>4, <1>5, <1>6, <1>7, StepKinds

-----------------------------------------------------------------------------
(* Room for the joined *)

Capped == IsFiniteSet(Joined) /\ Cardinality(Joined) <= MaxNodes

LEMMA InitCapped == Init => Capped
<1> SUFFICES ASSUME Init PROVE Capped
  OBVIOUS
<1>1. Joined = {}
  BY DEF Init, Joined
<1> QED
  BY <1>1, FS_EmptySet, BufferAssumption DEF Capped

LEMMA StepCapped ==
  ASSUME TableInv, Capped, [Next]_vars
  PROVE  Capped'
<1>1. CASE Joined' = Joined
  BY <1>1 DEF Capped
<1>2. ASSUME NEW d \in Devices, NEW peerAdded \in BOOLEAN, AcceptJoin(d, peerAdded)
      PROVE  Capped'
  <2>1. /\ Joined' = Joined \cup {d.mac}
        /\ d.mac \in Joined \/ Cardinality(Joined) < MaxNodes
    BY <1>2, TableAfterJoin DEF AcceptJoin
  <2>2. IsFiniteSet(Joined) /\ Cardinality(Joined) \in Nat /\ Cardinality(Joined) <= MaxNodes
    BY FS_CardinalityType DEF Capped
  <2>3. /\ IsFiniteSet(Joined \cup {d.mac})
        /\ Cardinality(Joined \cup {d.mac})
             = IF d.mac \in Joined THEN Cardinality(Joined) ELSE Cardinality(Joined) + 1
    BY <2>2, FS_AddElement
  <2> QED
    BY <2>1, <2>2, <2>3, BufferAssumption DEF Capped
<1>3. ASSUME NEW d \in Devices, NEW seq \in Readings,
             \/ DropUnjoined(d, seq) \/ RefuseReading(d, seq)
             \/ AnswerDuplicate(d, seq) \/ BufferReading(d, seq)
      PROVE  Joined' = Joined
  BY <1>3, TableAfterReading DEF DropUnjoined, RefuseReading, AnswerDuplicate, Joined
<1>4. CASE RelayAcked
  BY <1>1, <1>4 DEF RelayAcked, NotIncoming, Joined
<1>5. CASE Reboot
  <2>1. Joined' = {}
    BY <1>5 DEF Reboot, Joined
  <2> QED
    BY <2>1, FS_EmptySet, BufferAssumption DEF Capped
<1>6. CASE UNCHANGED joined
  BY <1>1, <1>6 DEF Joined
<1> QED
  BY <1>1, <1>2, <1>3, <1>4, <1>5, <1>6, StepKinds

\* Were there no slot for a joined node, every slot would be another joined node's.
LEMMA RoomForAll ==
  ASSUME Core, TableInv, HoldersJoined, Capped
  PROVE  JoinedHasRoom
<1> SUFFICES ASSUME NEW m \in Joined, ~ buffer!HasRoom(joined[m].uid)
             PROVE  FALSE
  BY DEF JoinedHasRoom
<1>1. \A i \in queues!Slot : slots[i].used /\ slots[i].uid # joined[m].uid
  BY SameState DEF buffer!HasRoom, buffer!SlotsOf, buffer!FreeSlots
<1>2. \A i \in queues!Slot : slots[i].uid \in Uids /\ Queues[slots[i].uid] # << >>
  <2>1. queues!HeldLaw
    BY Assumptions, queues!HeldLawHolds DEF Core
  <2>2. ASSUME NEW i \in queues!Slot
        PROVE  slots[i].uid \in Uids /\ Queues[slots[i].uid] # << >>
    <3>1. /\ slots[i].uid \in Uids /\ slots[i].count > 0 /\ slots[i] \in queues!NodeSlot
      BY <1>1 DEF Core, queues!IInv, queues!TypeOK, queues!SlotsConsistent
    <3>2. Queues[slots[i].uid] = queues!Contents(slots[i])
      BY <1>1, <2>1, SameHeld DEF queues!HeldLaw, Queues
    <3>3. queues!Contents(slots[i]) # << >>
      BY <3>1, Assumptions, queues!OldestIsHead
    <3> QED
      BY <3>1, <3>2, <3>3
  <2> QED
    BY <2>2
<1> DEFINE f == [i \in queues!Slot |-> CHOOSE n \in Joined : joined[n].uid = slots[i].uid]
<1>3. \A i \in queues!Slot : f[i] \in Joined /\ joined[f[i]].uid = slots[i].uid
  BY <1>2 DEF HoldersJoined
<1>4. \A i, j \in queues!Slot : slots[i].uid = slots[j].uid => i = j
  BY <1>1 DEF Core, queues!IInv, queues!SlotsConsistent
<1>5. f \in [queues!Slot -> Joined \ {m}]
  BY <1>1, <1>3
<1> HIDE DEF f
<1>6. f \in Injection(queues!Slot, Joined \ {m})
  BY <1>3, <1>4, <1>5 DEF Injection, IsInjective
<1>7. IsFiniteSet(Joined) /\ Cardinality(Joined) \in Nat /\ Cardinality(Joined) <= MaxNodes
  BY FS_CardinalityType DEF Capped
<1>8. IsFiniteSet(Joined \ {m}) /\ Cardinality(Joined \ {m}) = Cardinality(Joined) - 1
  BY <1>7, FS_RemoveElement
<1>9. Cardinality(queues!Slot) = MaxNodes
  <2>1. 0 \in Int /\ MaxNodes - 1 \in Int /\ ~ (0 > MaxNodes - 1)
        /\ (MaxNodes - 1) - 0 + 1 = MaxNodes
    BY BufferAssumption
  <2> QED
    BY <2>1, FS_Interval DEF queues!Slot
<1>10. Cardinality(queues!Slot) <= Cardinality(Joined \ {m})
  BY <1>6, <1>8, FS_Injection
<1> QED
  BY <1>7, <1>8, <1>9, <1>10, BufferAssumption

-----------------------------------------------------------------------------
(* The remaining types *)

PlainTypes ==
  /\ holdOff \in BOOLEAN
  /\ reply \in Reply \cup {NoReply}
  /\ reboots \in 0 .. MaxReboots

LEMMA InitPlainTypes == Init => PlainTypes
<1> SUFFICES ASSUME Init PROVE PlainTypes
  OBVIOUS
<1>1. holdOff \in BOOLEAN
  BY DEF Init
<1>2. reply \in Reply \cup {NoReply}
  BY DEF Init
<1>3. reboots \in 0 .. MaxReboots
  BY BoundsAssumption DEF Init
<1> QED
  BY <1>1, <1>2, <1>3 DEF PlainTypes

LEMMA StepReply ==
  ASSUME reply \in Reply \cup {NoReply}, [Next]_vars
  PROVE  reply' \in Reply \cup {NoReply}
<1>1. ASSUME NEW d \in Devices, NEW peerAdded \in BOOLEAN, AcceptJoin(d, peerAdded)
      PROVE  reply' \in Reply \cup {NoReply}
  <2>1. [kind |-> "JoinAck", mac |-> d.mac, uid |-> d.uid] \in Reply
    <3>1. d.mac \in Macs /\ d.uid \in Uids
      BY DEF Macs, Uids
    <3>2. [kind |-> "JoinAck", mac |-> d.mac, uid |-> d.uid]
            \in [kind : {"JoinAck"}, mac : Macs, uid : Uids]
      BY <3>1
    <3> QED
      BY <3>2 DEF Reply
  <2> QED
    BY <1>1, <2>1 DEF AcceptJoin
<1>2. ASSUME NEW d \in Devices, NEW seq \in Readings, AnswerDuplicate(d, seq) \/ BufferReading(d, seq)
      PROVE  reply' \in Reply \cup {NoReply}
  <2>1. DeliveryAck(d, seq) \in Reply
    <3>1. d.mac \in Macs /\ d.uid \in Uids
      BY DEF Macs, Uids
    <3>2. DeliveryAck(d, seq) \in [kind : {"Ack"}, mac : Macs, uid : Uids, seq : Readings]
      BY <3>1 DEF DeliveryAck
    <3> QED
      BY <3>2 DEF Reply
  <2> QED
    BY <1>2, <2>1 DEF AnswerDuplicate, BufferReading
<1>3. ASSUME NEW d \in Devices, NEW seq \in Readings, DropUnjoined(d, seq) \/ RefuseReading(d, seq)
      PROVE  reply' = NoReply
  BY <1>3 DEF DropUnjoined, RefuseReading
<1>4. CASE RelayAcked \/ Reboot
  BY <1>4 DEF RelayAcked, NotIncoming, Reboot
<1> QED
  BY <1>1, <1>2, <1>3, <1>4, StepKinds

LEMMA StepPlainTypes == PlainTypes /\ [Next]_vars => PlainTypes'
<1> SUFFICES ASSUME PlainTypes, [Next]_vars PROVE PlainTypes'
  OBVIOUS
<1>1. reply' \in Reply \cup {NoReply}
  BY StepReply DEF PlainTypes
<1>2. holdOff' \in BOOLEAN
  <2>1. holdOff' \in {holdOff, TRUE, FALSE}
    <3>1. CASE HandleIncoming
      BY <3>1 DEF HandleIncoming, AcceptJoin, IgnoreJoin, DropUnjoined, AnswerDuplicate,
         BufferReading, RefuseReading
    <3>2. CASE RelayStep
      BY <3>2 DEF RelayStep, RelayPending, RelayPolls, RelayAcked, RelayFailed, RelayNext,
         RelayNothing, RelayHeldOff
    <3>3. CASE HoldOffOver \/ Gateway \/ Reboot \/ UNCHANGED vars
      BY <3>3 DEF HoldOffOver, Gateway, Reboot, vars
    <3> QED
      BY <3>1, <3>2, <3>3 DEF Next
  <2> QED
    BY <2>1 DEF PlainTypes
<1>3. reboots' \in 0 .. MaxReboots
  <2>1. CASE Reboot
    BY <2>1, BoundsAssumption DEF Reboot, PlainTypes
  <2>2. CASE HandleIncoming
    BY <2>2 DEF HandleIncoming, AcceptJoin, IgnoreJoin, DropUnjoined, AnswerDuplicate,
       BufferReading, RefuseReading, PlainTypes
  <2>3. CASE RelayStep
    BY <2>3 DEF RelayStep, RelayPending, RelayPolls, RelayAcked, RelayFailed, RelayNext,
       RelayNothing, RelayHeldOff, NotIncoming, PlainTypes
  <2>4. CASE HoldOffOver \/ Gateway \/ UNCHANGED vars
    BY <2>4 DEF HoldOffOver, Gateway, vars, PlainTypes
  <2> QED
    BY <2>1, <2>2, <2>3, <2>4 DEF Next
<1> QED
  BY <1>1, <1>2, <1>3 DEF PlainTypes

-----------------------------------------------------------------------------
(* Readings leave only confirmed *)

\* What LeavesConfirmed asks of a step.
Left(u, k) ==
  \/ \E j \in 1 .. Len(Queues'[u]) : Queues'[u][j] = Queues[u][k]
  \/ [uid |-> u, reading |-> Queues[u][k]] \in received
  \/ k = 1 /\ Len(Queues[u]) = ReadingsPerNode /\ Len(Queues'[u]) = ReadingsPerNode

LEMMA StepLeft ==
  ASSUME Core, Core', TableInv, PlainTypes, [Next]_vars, reboots' = reboots,
         NEW u \in Uids, NEW k \in 1 .. Len(Queues[u])
  PROVE  Left(u, k)
<1> DEFINE q == Queues[u]
           r == Queues'[u]
<1>1. q \in Seq(Readings) /\ k \in 1 .. Len(q)
  BY QueueTypes
<1>2. CASE r = q
  BY <1>2 DEF Left
<1>3. ASSUME NEW d \in Devices, NEW seq \in Readings, BufferReading(d, seq)
      PROVE  Left(u, k)
  <2>1. \/ r = q
        \/ r = Append(q, seq)
        \/ r = Append(Tail(q), seq) /\ Len(q) = ReadingsPerNode
    <3>1. /\ d.uid \in Uids
          /\ \/ Queues' = [Queues EXCEPT ![d.uid] = Append(@, seq)]
             \/ /\ Len(Queues[d.uid]) = ReadingsPerNode
                /\ Queues' = [Queues EXCEPT ![d.uid] = Append(Tail(@), seq)]
      BY <1>3, ReadingQueued
    <3>2. Queues \in [Uids -> Seq(Readings)]
      BY QueueTypes
    <3>3. CASE d.uid = u
      BY <3>1, <3>2, <3>3
    <3>4. CASE d.uid # u
      BY <3>1, <3>2, <3>4
    <3> QED
      BY <3>3, <3>4
  <2> HIDE DEF q, r
  <2>2. CASE r = Append(q, seq)
    <3>1. r[k] = q[k] /\ k \in 1 .. Len(r)
      BY <1>1, <2>2, AppendedAt
    <3> QED
      BY <3>1 DEF Left, q, r
  <2>3. CASE r = Append(Tail(q), seq) /\ Len(q) = ReadingsPerNode
    <3> DEFINE s == Tail(q)
    <3>1. /\ s \in Seq(Readings) /\ Len(s) = Len(q) - 1 /\ Len(q) \in Nat
          /\ \A j \in 1 .. Len(q) - 1 : s[j] = q[j + 1]
      <4>1. q # << >>
        BY <1>1
      <4> QED
        BY <1>1, <4>1, TailAt
    <3> HIDE DEF s
    <3>2. r = Append(s, seq)
      BY <2>3 DEF s
    <3>3. Len(r) = Len(s) + 1 /\ \A j \in 1 .. Len(s) : r[j] = s[j]
      BY <3>1, <3>2, AppendedAt
    <3>4. CASE k = 1
      <4>1. Len(r) = ReadingsPerNode
        BY <2>3, <3>1, <3>3
      <4> QED
        BY <2>3, <3>4, <4>1 DEF Left, q, r
    <3>5. CASE k # 1
      <4>1. k - 1 \in 1 .. Len(r) /\ r[k - 1] = q[k]
        BY <1>1, <3>1, <3>3, <3>5
      <4> QED
        BY <4>1 DEF Left, q, r
    <3> QED
      BY <3>4, <3>5
  <2> QED
    BY <1>2, <2>1, <2>2, <2>3
<1>4. CASE RelayAcked
  <2>1. \/ r = q
        \/ /\ q # << >> /\ r = Tail(q)
           /\ [uid |-> u, reading |-> Head(q)] \in received
    BY <1>4, QueueTypes, ReadingRelayed
  <2> HIDE DEF q, r
  <2>2. CASE q # << >> /\ r = Tail(q) /\ [uid |-> u, reading |-> Head(q)] \in received
    <3>1. /\ Head(q) = q[1] /\ Len(r) = Len(q) - 1 /\ Len(q) \in Nat
          /\ \A j \in 1 .. Len(q) - 1 : r[j] = q[j + 1]
      BY <1>1, <2>2, TailAt
    <3>2. CASE k = 1
      BY <2>2, <3>1, <3>2 DEF Left, q
    <3>3. CASE k # 1
      <4>1. k - 1 \in 1 .. Len(r) /\ r[k - 1] = q[k]
        BY <1>1, <3>1, <3>3
      <4> QED
        BY <4>1 DEF Left, q, r
    <3> QED
      BY <3>2, <3>3
  <2> QED
    BY <1>2, <2>1, <2>2
<1>5. CASE Reboot
  BY <1>5, BoundsAssumption DEF Reboot, PlainTypes
<1>6. CASE slots' = slots
  BY <1>2, <1>6, QueuesUnchanged
<1>7. ASSUME NEW d \in Devices, NEW peerAdded \in BOOLEAN, AcceptJoin(d, peerAdded)
      PROVE  slots' = slots
  BY <1>7 DEF AcceptJoin, bufferVars
<1>8. ASSUME NEW d \in Devices, NEW seq \in Readings,
             DropUnjoined(d, seq) \/ RefuseReading(d, seq) \/ AnswerDuplicate(d, seq)
      PROVE  slots' = slots
  BY <1>8 DEF DropUnjoined, RefuseReading, AnswerDuplicate, buffer!PushRefused, buffer!vars,
     bufferVars
<1> QED
  BY <1>3, <1>4, <1>5, <1>6, <1>7, <1>8, StepKinds

-----------------------------------------------------------------------------
(* Theorems *)

CoreSpec == Core /\ TableInv /\ Capped /\ PlainTypes

LEMMA SpecCore == Spec => []CoreSpec
<1>1. Init => CoreSpec
  BY InitCore, InitTable, InitCapped, InitPlainTypes DEF CoreSpec
<1>2. CoreSpec /\ [Next]_vars => CoreSpec'
  BY StepCore, StepTable, StepCapped, StepPlainTypes DEF CoreSpec
<1> QED
  BY <1>1, <1>2, PTL DEF Spec

\* The ACK of one reading never pops another, for any rings, slots and retries:
\* the reading on the air is the one the buffer's claim is on.
THEOREM ClaimIsOnAir == Spec => []InFlightIsClaimed
<1>1. CoreSpec => InFlightIsClaimed
  BY SameState DEF CoreSpec, Core, queues!IInv, queues!PeekHolds, queues!Oldest, buffer!Oldest,
     InFlightIsClaimed
<1> QED
  BY <1>1, SpecCore, PTL

\* If no board has another's MAC or UID, a node is answered only for readings
\* that are in the buffer or at the gateway.
THEOREM AnswersAreKept == OneMacPerUid => (Spec => []AnsweredIsKept)
<1> SUFFICES ASSUME OneMacPerUid PROVE Spec => []AnsweredIsKept
  OBVIOUS
<1>1. AnswersInv => AnsweredIsKept
  BY DEF AnswersInv, AnsweredKept, AnsweredIsKept, Reply
<1>2. CoreSpec /\ CoreSpec' /\ AnswersInv /\ [Next]_vars => AnswersInv'
  BY StepAnswers DEF CoreSpec
<1> QED
  BY <1>1, <1>2, SpecCore, InitAnswers, PTL DEF Spec

\* Then also a reading is buffered once, and a node's readings in its order.
THEOREM OnceAndInOrder ==
  OneUidPerMac /\ OneMacPerUid => (Spec => []BufferedOnceInOrder)
<1> SUFFICES ASSUME OneUidPerMac, OneMacPerUid PROVE Spec => []BufferedOnceInOrder
  OBVIOUS
<1>1. CoreSpec /\ CoreSpec' /\ OrderInv /\ [Next]_vars => OrderInv'
  BY StepOrder DEF CoreSpec
<1> QED
  BY <1>1, SpecCore, InitOrder, OrderedIsProperty, PTL DEF Spec

\* And every joined node has a slot or can claim one.
THEOREM RoomForTheJoined ==
  OneUidPerMac /\ OneMacPerUid => (Spec => []JoinedHasRoom)
<1> SUFFICES ASSUME OneUidPerMac, OneMacPerUid PROVE Spec => []JoinedHasRoom
  OBVIOUS
<1>1. CoreSpec /\ CoreSpec' /\ OrderInv /\ [Next]_vars => OrderInv'
  BY StepOrder DEF CoreSpec
<1>2. CoreSpec /\ OrderInv => JoinedHasRoom
  BY RoomForAll DEF CoreSpec, OrderInv
<1> QED
  BY <1>1, <1>2, SpecCore, InitOrder, PTL DEF Spec

\* A reading leaves the substation once the gateway has it, or as the oldest of
\* a full ring, or in a reboot; whatever the devices' UIDs.
THEOREM LeavesOnlyConfirmed == Spec => LeavesConfirmed
<1> DEFINE A == reboots' = reboots =>
                  \A u \in Uids : \A k \in 1 .. Len(Held(u)) :
                    \/ \E j \in 1 .. Len(Held(u)') : Held(u)'[j] = Held(u)[k]
                    \/ [uid |-> u, reading |-> Held(u)[k]] \in received
                    \/ k = 1 /\ Len(Held(u)) = ReadingsPerNode /\ Len(Held(u)') = ReadingsPerNode
<1>1. CoreSpec /\ CoreSpec' /\ [Next]_vars => [A]_vars
  BY StepLeft DEF CoreSpec, Left, Held, Queues
<1> QED
  BY <1>1, SpecCore, PTL DEF Spec, LeavesConfirmed

\* The substation is, per node, one bounded FIFO queue with one claim at most: each
\* of its steps accepts a reading, overwrites the oldest of a full queue, claims a
\* head, removes the one that was claimed, clears all, or leaves the queues alone.
THEOREM SubstationStoresAndForwards == Spec => queues!RefinesStoreForward
<1>1. Init => queues!Abstract!Init
  <2>1. Init => queues!Init
    BY SameState DEF Init
  <2> QED
    BY <2>1, Assumptions, queues!InitRefines
<1>2. CoreSpec /\ CoreSpec' /\ [Next]_vars => [queues!Abstract!Next]_(queues!Abstract!vars)
  <2> SUFFICES ASSUME CoreSpec, CoreSpec', [Next]_vars
               PROVE  [queues!Abstract!Next]_(queues!Abstract!vars)
    OBVIOUS
  <2>1. queues!Next \/ UNCHANGED bufferVars
    BY BufferSteps DEF queues!Next, vars
  <2>2. [queues!Next]_(queues!vars)
    BY <2>1 DEF queues!vars, bufferVars
  <2>3. queues!IInv /\ queues!IInv'
    BY DEF CoreSpec, Core
  <2> QED
    BY <2>2, <2>3, Assumptions, queues!NextRefines
<1> QED
  BY <1>1, <1>2, SpecCore, PTL DEF Spec, queues!RefinesStoreForward, queues!Abstract!Spec

\* The types, of the two parts as well.
THEOREM SubstationTypes == Spec => []TypeOK
<1>1. CoreSpec => TypeOK
  BY SameState, SameLink DEF CoreSpec, Core, queues!IInv, hop!IInv, TableInv, PlainTypes, TypeOK
<1> QED
  BY <1>1, SpecCore, PTL

=============================================================================
