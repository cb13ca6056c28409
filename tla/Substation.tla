----------------------------- MODULE Substation -----------------------------
(***************************************************************************)
(* The substation, src/nodes/substation.cpp: it admits meter nodes into    *)
(* its joined table, buffers and acknowledges their readings, and relays   *)
(* the buffer over LoRa, one reading at a time.  It composes the reading   *)
(* buffer (ReadingBuffer) and the LoRa hop (LoRaLink).                     *)
(*                                                                         *)
(* substationLoop runs handleIncoming and relayStep in turn, and any       *)
(* number of frames may be waiting in between, so a step of the model is   *)
(* one frame of handleIncoming or one relayStep.  What the ESP-NOW queue   *)
(* may hold is left to the environment: Joins of any device, with this     *)
(* boot's epoch or another, and readings of each device in the order it    *)
(* numbered them, each any number of times.  Beacons change no state here  *)
(* (their timing is in SubstationTimers).                                  *)
(***************************************************************************)
EXTENDS Integers, FiniteSets, Sequences

CONSTANTS
  Devices,          \* the meter nodes, as records of a mac and a uid
  MaxSeq,           \* bound: readings a device numbers, from 1
  MaxReboots,       \* bound: reboots of the substation
  MaxNodes,         \* READING_BUFFER_MAX_NODES, also the size of the joined table
  ReadingsPerNode,  \* READINGS_PER_NODE
  MaxRetries,       \* LoRaLinkConfig::maxRetries
  NotJoined, NoUid, NoReading, NoPacket, OtherPacket, NoReply

Uids == {d.uid : d \in Devices}
Macs == {d.mac : d \in Devices}
Readings == 1 .. MaxSeq
NoSeq == 0

ASSUME DevicesAssumption == Devices \subseteq [mac : Macs, uid : Uids]

ASSUME BoundsAssumption == MaxSeq \in Nat /\ MaxReboots \in Nat

ASSUME BufferAssumption ==
  /\ MaxNodes \in Nat \ {0}
  /\ ReadingsPerNode \in Nat \ {0}
  /\ NoUid \notin Uids
  /\ NoReading \notin Readings

ASSUME LinkAssumption ==
  /\ MaxRetries \in 0 .. 255
  /\ NoPacket # OtherPacket
  /\ {NoPacket, OtherPacket} \cap [uid : Uids, reading : Readings] = {}

ASSUME TableAssumption == NotJoined \notin [uid : Uids, lastSeq : Readings \cup {NoSeq}]

VARIABLES
  joined,     \* joined[mac]: the node's entry in the joined table
  holdOff,    \* nextSendAt is still to come
  reply,      \* the frame the last step sent back to a node
  slots, nextSlot, peekedSlot, inFlight,                 \* ReadingBuffer
  phase, attempt, pending, heard, air, received,         \* LoRaLink
  arrived,    \* arrived[uid]: the last reading taken from the ESP-NOW queue
  reboots

nodeVars   == <<joined, reply, arrived>>
bufferVars == <<slots, nextSlot, peekedSlot, inFlight>>
linkVars   == <<phase, attempt, pending, heard, air, received>>
vars == <<nodeVars, bufferVars, linkVars, holdOff, reboots>>

buffer == INSTANCE ReadingBuffer WITH out <- inFlight
link == INSTANCE LoRaLink

Payload == buffer!Payload

JoinedNode == [uid : Uids, lastSeq : Readings \cup {NoSeq}]

Reply == [kind : {"JoinAck"}, mac : Macs, uid : Uids]
           \cup [kind : {"Ack"}, mac : Macs, uid : Uids, seq : Readings]

TypeOK ==
  /\ buffer!TypeOK
  /\ link!TypeOK
  /\ joined \in [Macs -> JoinedNode \cup {NotJoined}]
  /\ holdOff \in BOOLEAN
  /\ reply \in Reply \cup {NoReply}
  /\ arrived \in [Uids -> Readings \cup {NoSeq}]
  /\ reboots \in 0 .. MaxReboots

Init ==
  /\ joined = [m \in Macs |-> NotJoined]
  /\ holdOff = FALSE
  /\ reply = NoReply
  /\ buffer!Init
  /\ link!Init
  /\ inFlight = pending
  /\ arrived = [u \in Uids |-> NoSeq]
  /\ reboots = 0

-----------------------------------------------------------------------------
(* handleIncoming: Joins *)

Joined == {m \in Macs : joined[m] # NotJoined}

\* Mutants: a rejoin forgets the last sequence number; another device on the
\* MAC inherits it.
JoinedEntryForgets(d) == [uid |-> d.uid, lastSeq |-> NoSeq]

JoinedEntryInherits(d) ==
  [uid |-> d.uid, lastSeq |-> IF d.mac \in Joined THEN joined[d.mac].lastSeq ELSE NoSeq]

\* The table entry a Join leaves: a rejoin by the same node keeps its last
\* sequence number, another device on the same MAC does not inherit it.
JoinedEntry(d) ==
  [uid |-> d.uid,
   lastSeq |-> IF d.mac \in Joined /\ joined[d.mac].uid = d.uid
               THEN joined[d.mac].lastSeq ELSE NoSeq]

\* Mutant: the table is not capped.
AcceptJoinUncapped(d, peerAdded) ==
  /\ joined' = [joined EXCEPT ![d.mac] = JoinedEntry(d)]
  /\ reply' = IF peerAdded THEN [kind |-> "JoinAck", mac |-> d.mac, uid |-> d.uid]
                           ELSE NoReply
  /\ UNCHANGED <<bufferVars, linkVars, holdOff, arrived, reboots>>

\* handleJoin for a Join of this epoch, when the table has the node or room
\* for it.  The JoinAck is not sent if the radio cannot take the peer.
AcceptJoin(d, peerAdded) ==
  /\ d.mac \in Joined \/ Cardinality(Joined) < MaxNodes
  /\ joined' = [joined EXCEPT ![d.mac] = JoinedEntry(d)]
  /\ reply' = IF peerAdded THEN [kind |-> "JoinAck", mac |-> d.mac, uid |-> d.uid]
                           ELSE NoReply
  /\ UNCHANGED <<bufferVars, linkVars, holdOff, arrived, reboots>>

\* A Join of another epoch, or of a new node when the table is full, gets no
\* answer and leaves the table alone.
IgnoreJoin(d, sameEpoch) ==
  /\ \/ ~ sameEpoch
     \/ d.mac \notin Joined /\ Cardinality(Joined) = MaxNodes
  /\ reply' = NoReply
  /\ UNCHANGED <<joined, bufferVars, linkVars, holdOff, arrived, reboots>>

-----------------------------------------------------------------------------
(* handleIncoming: readings *)

DeliveryAck(d, seq) == [kind |-> "Ack", mac |-> d.mac, uid |-> d.uid, seq |-> seq]

\* The next reading a device has in the queue: the last one again, or a newer.
\* A node sends readings only once its Join was answered (SubstationLink::send),
\* so of the devices on one MAC only the last that joined does.
Arrives(d, seq) ==
  /\ d.mac \in Joined => joined[d.mac].uid = d.uid
  /\ seq >= arrived[d.uid]
  /\ arrived' = [arrived EXCEPT ![d.uid] = seq]

IsDuplicate(d, seq) == joined[d.mac].lastSeq = seq

DropUnjoined(d, seq) ==
  /\ d.mac \notin Joined
  /\ Arrives(d, seq)
  /\ reply' = NoReply
  /\ UNCHANGED <<joined, bufferVars, linkVars, holdOff, reboots>>

\* Not buffered again, but acknowledged again: the ACK was lost.
AnswerDuplicate(d, seq) ==
  /\ d.mac \in Joined
  /\ IsDuplicate(d, seq)
  /\ Arrives(d, seq)
  /\ reply' = DeliveryAck(d, seq)
  /\ UNCHANGED <<joined, bufferVars, linkVars, holdOff, reboots>>

\* Buffered, and acknowledged because it is.
BufferReading(d, seq) ==
  /\ d.mac \in Joined
  /\ ~ IsDuplicate(d, seq)
  /\ Arrives(d, seq)
  /\ buffer!Push([uid |-> d.uid, reading |-> seq])
  /\ joined' = [joined EXCEPT ![d.mac].lastSeq = seq]
  /\ reply' = DeliveryAck(d, seq)
  /\ UNCHANGED <<linkVars, holdOff, reboots>>

\* The buffer has no slot for the node: dropped and not acknowledged.
RefuseReading(d, seq) ==
  /\ d.mac \in Joined
  /\ ~ IsDuplicate(d, seq)
  /\ Arrives(d, seq)
  /\ buffer!PushRefused([uid |-> d.uid, reading |-> seq])
  /\ reply' = NoReply
  /\ UNCHANGED <<joined, linkVars, holdOff, reboots>>

HandleIncoming ==
  \E d \in Devices :
    \/ \E peerAdded \in BOOLEAN : AcceptJoin(d, peerAdded)
    \/ \E sameEpoch \in BOOLEAN : IgnoreJoin(d, sameEpoch)
    \/ \E seq \in Readings : \/ DropUnjoined(d, seq)
                             \/ AnswerDuplicate(d, seq)
                             \/ BufferReading(d, seq)
                             \/ RefuseReading(d, seq)

-----------------------------------------------------------------------------
(* relayStep *)

NotIncoming == reply' = NoReply /\ UNCHANGED <<joined, arrived, reboots>>

\* The send in flight needs more polls.
RelayPolls(poll) ==
  /\ poll
  /\ NotIncoming
  /\ UNCHANGED <<bufferVars, holdOff>>

RelayPending == RelayPolls(link!Pending)

\* An attempt, which the radio makes or reports not to have made.
RelayTransmits == RelayPolls(link!Transmit \/ link!TransmitFails)

\* Mutant: an acknowledged reading is not popped.
RelayAckedKeeps ==
  /\ link!Acked
  /\ NotIncoming
  /\ UNCHANGED <<bufferVars, holdOff>>

\* The gateway has it: the reading leaves the buffer, unless a push already
\* overwrote it.
RelayAcked ==
  /\ link!Acked
  /\ buffer!Pop \/ buffer!PopNothing
  /\ NotIncoming
  /\ UNCHANGED holdOff

\* Mutant: a reading that could not be relayed is given up.
RelayFailedPops ==
  /\ link!Failed
  /\ buffer!Pop \/ buffer!PopNothing
  /\ holdOff' = TRUE
  /\ NotIncoming

\* Every attempt went unanswered: the reading stays for a later try.
RelayFailed ==
  /\ link!Failed
  /\ holdOff' = TRUE
  /\ NotIncoming
  /\ UNCHANGED bufferVars

\* Mutant: the claim of a failed relay is taken for one in flight.
RelayNextUnclaimed ==
  /\ link!IsIdle
  /\ ~ holdOff
  /\ peekedSlot = buffer!None
  /\ buffer!Peek
  /\ link!BeginSend(inFlight')
  /\ NotIncoming
  /\ UNCHANGED holdOff

\* Nothing in flight and no hold-off: relay the next reading in turn.
RelayNext ==
  /\ link!IsIdle
  /\ ~ holdOff
  /\ buffer!Peek
  /\ link!BeginSend(inFlight')
  /\ NotIncoming
  /\ UNCHANGED holdOff

RelayNothing ==
  /\ link!IsIdle
  /\ ~ holdOff
  /\ buffer!PeekEmpty
  /\ NotIncoming
  /\ UNCHANGED <<linkVars, holdOff>>

RelayHeldOff ==
  /\ link!IsIdle
  /\ holdOff
  /\ NotIncoming
  /\ UNCHANGED <<bufferVars, linkVars, holdOff>>

RelayStep ==
  RelayPending \/ RelayAcked \/ RelayFailed \/ RelayNext \/ RelayNothing \/ RelayHeldOff

\* RETRY_BACKOFF_MS after a failed relay.
HoldOffOver ==
  /\ holdOff
  /\ holdOff' = FALSE
  /\ UNCHANGED <<nodeVars, bufferVars, linkVars, reboots>>

-----------------------------------------------------------------------------
(* The gateway's side of the hop, and reboots *)

Gateway ==
  /\ link!Receive \/ link!ReceiveOther \/ link!Overhear
  /\ UNCHANGED <<nodeVars, bufferVars, holdOff, reboots>>

\* Mutant: the joined table outlives the readings it vouches for.
RebootKeepsTable ==
  /\ reboots < MaxReboots
  /\ reboots' = reboots + 1
  /\ holdOff' = FALSE
  /\ reply' = NoReply
  /\ slots' = [i \in buffer!Slot |-> buffer!ZeroedSlot]
  /\ nextSlot' = 0
  /\ peekedSlot' = buffer!None
  /\ phase' = "Idle"
  /\ attempt' = 0
  /\ heard' = NoPacket
  /\ UNCHANGED <<joined, inFlight, pending, air, received, arrived>>

\* Power loss or a crash: everything is in RAM, only the packets in the air and
\* at the gateway stay.
Reboot ==
  /\ reboots < MaxReboots
  /\ reboots' = reboots + 1
  /\ joined' = [m \in Macs |-> NotJoined]
  /\ holdOff' = FALSE
  /\ reply' = NoReply
  /\ slots' = [i \in buffer!Slot |-> buffer!ZeroedSlot]
  /\ nextSlot' = 0
  /\ peekedSlot' = buffer!None
  /\ phase' = "Idle"
  /\ attempt' = 0
  /\ heard' = NoPacket
  /\ UNCHANGED <<inFlight, pending, air, received, arrived>>

Next == HandleIncoming \/ RelayStep \/ HoldOffOver \/ Gateway \/ Reboot

Spec == Init /\ [][Next]_vars

\* The loop keeps calling relayStep, and the ACK timeout, the backoff and the
\* hold-off all run out (how long a hold-off takes is in SubstationTimers).
RelayFairness ==
  /\ WF_vars(RelayNext)
  /\ WF_vars(RelayTransmits)
  /\ WF_vars(RelayAcked \/ RelayPolls(link!AckTimeout))
  /\ WF_vars(RelayFailed \/ RelayPolls(link!Retry))
  /\ WF_vars(HoldOffOver)

FairSpec == Spec /\ RelayFairness /\ SF_vars(RelayAcked)

-----------------------------------------------------------------------------
(* Properties *)

Held(u) == buffer!Held[u]

\* The reading is in the buffer or has reached the gateway.
Kept(u, seq) ==
  \/ \E k \in 1 .. Len(Held(u)) : Held(u)[k] = seq
  \/ [uid |-> u, reading |-> seq] \in received

\* A node is told its reading was taken only while it is: also when the answer
\* is to a duplicate, after a rejoin, or follows a refusal or a reboot
\* (substation_link.h:44-46).
AnsweredIsKept ==
  reply # NoReply /\ reply.kind = "Ack" => Kept(reply.uid, reply.seq)

\* However often a node resends, a reading is in the buffer once, and a node's
\* readings are relayed in the order it took them (PROTOCOLS.md:187).
BufferedOnceInOrder ==
  \A u \in Uids : \A i, j \in 1 .. Len(Held(u)) : i < j => Held(u)[i] < Held(u)[j]

\* The reading on the air is the one the buffer's claim is on, so the ACK of one
\* reading never pops another.
InFlightIsClaimed ==
  phase # "Idle" =>
    /\ pending = inFlight
    /\ peekedSlot # buffer!None => buffer!Oldest(slots[peekedSlot]) = pending

\* A reading only leaves the substation once the gateway has it; the exceptions
\* are the oldest of a full ring, which a newer one overwrites, and a reboot
\* (PROTOCOLS.md:166-168).
LeavesConfirmed ==
  [][reboots' = reboots =>
       \A u \in Uids : \A k \in 1 .. Len(Held(u)) :
         \/ \E j \in 1 .. Len(Held(u)') : Held(u)'[j] = Held(u)[k]
         \/ [uid |-> u, reading |-> Held(u)[k]] \in received
         \/ k = 1 /\ Len(Held(u)) = ReadingsPerNode /\ Len(Held(u)') = ReadingsPerNode]_vars

\* The joined table is capped at the buffer's slots, so every joined node has a
\* slot or can claim one (substation.cpp:62).
JoinedHasRoom == \A m \in Joined : buffer!HasRoom(joined[m].uid)

\* The gateway receives a reading that the relay awaits the ACK of, and its ACK
\* reaches the relay's radio.
Answers(p) ==
  /\ Gateway
  /\ phase = "AwaitAck"
  /\ pending = p
  /\ air = p
  /\ heard' = p

\* Radio, channel and gateway work now and then: of a reading that the relay sends
\* again and again, they answer some send, again and again.  What the relay does
\* between its sends is left to the code.
GatewayAnswers ==
  \A p \in Payload :
    []<><<RelayTransmits /\ pending = p>>_vars => []<><<Answers(p)>>_vars

\* Then the buffer is emptied, again and again, whatever fails before: no failure,
\* no reboot, and no reading overwritten on the air leaves the relay stuck with
\* readings it does not send.
RelayDrains == GatewayAnswers => []<>(\A u \in Uids : Held(u) = << >>)

=============================================================================
