------------------------------ MODULE NodeLink ------------------------------
(***************************************************************************)
(* A meter node's connection to the substations in range: SubstationLink   *)
(* (lib/links/substation_link) on the node, with the sequence counter in   *)
(* NVS that numbers its readings, against the Join and reading handlers of *)
(* src/nodes/substation.cpp as far as this node sees them, over the        *)
(* queues and the unreliable sends of EspNowUplink.                        *)
(*                                                                         *)
(* Every wait of the node may end before its answer comes, every frame may *)
(* be lost, and sendPacket may report either outcome whatever became of    *)
(* the frame: a delivered frame's own acknowledgement can be lost, and a   *)
(* report that comes after sendTimeoutMs is taken for the next frame's.    *)
(* Once the world is timely none of this happens any more: frames arrive,  *)
(* nobody reboots, and the waits outlast the answers, as their lengths are *)
(* chosen to (substation_link.h:15-31).                                    *)
(*                                                                         *)
(* A reading is its number in the order the node took them; seq is what    *)
(* the counter gave it.  Epochs are boot numbers, so they never repeat;    *)
(* the code draws 32 random bits.                                          *)
(***************************************************************************)
EXTENDS Naturals, Sequences, FiniteSets

CONSTANTS
  Substations,     \* MACs of the substations in range
  MaxQueue,        \* ESPNOW_RX_QUEUE_DEPTH
  JoinAttempts,    \* JOIN_ATTEMPTS
  SendAttempts,    \* SEND_ATTEMPTS
  MaxReadings,     \* bound: readings the node takes
  MaxReboots,      \* bound: reboots, of the node and of substations
  MaxNvsLosses     \* bound: numbers the counter loses

ASSUME LinkAssumption ==
  /\ Substations # {}
  /\ {MaxQueue, JoinAttempts, SendAttempts} \subseteq Nat \ {0}
  /\ {MaxReadings, MaxReboots, MaxNvsLosses} \subseteq Nat

VARIABLES
  step,        \* where the node is in send, or in the join of its setup
  sending,     \* send was called, and not only join
  attempt,     \* attempts of this send that failed
  joins,       \* Joins sent by this join
  joined, substation, epoch,   \* members of SubstationLink
  peers,       \* substations registered with ESP-NOW
  offer,       \* the beacon join took: its sender and epoch
  rxQueue,     \* frames received by the node, oldest first
  reading,     \* the number of the last reading taken
  seq, stored, \* the sequence counter, and what NVS holds of it
  result,      \* what the last send returned
  startedTimely,  \* the last send was called in a timely world
  boot,        \* boot[s]: the epoch of substation s
  knows,       \* knows[s]: the node is in the joined table of s
  lastSeq,     \* lastSeq[s]: its entry's last sequence number
  inbox,       \* frames of the node received by s, oldest first
  buffered,    \* buffered[s]: readings s pushed in this boot, in order
  taken,       \* readings any substation ever pushed
  timely, reboots, nvsLosses

sendVars   == <<step, sending, attempt, joins, offer, result, startedTimely>>
joinedVars == <<joined, substation, epoch, peers>>
seqVars    == <<reading, seq, stored, nvsLosses>>
subVars    == <<boot, knows, lastSeq, inbox, buffered, taken>>
worldVars  == <<timely, reboots>>
vars == <<sendVars, joinedVars, rxQueue, seqVars, subVars, worldVars>>

NoSeq == 0
Epochs == 0 .. MaxReboots
Seqs == 1 .. MaxReadings

ToNode ==
  [kind : {"Beacon", "JoinAck"}, from : Substations, epoch : Epochs]
    \cup [kind : {"Ack"}, from : Substations, seq : Seqs]

ToSubstation ==
  [kind : {"Join"}, epoch : Epochs]
    \cup [kind : {"Payload"}, seq : Seqs, reading : Seqs]

Steps == {"Idle", "Drain", "Discover", "Join", "AwaitJoinAck", "Send", "AwaitAck"}

TypeOK ==
  /\ step \in Steps
  /\ sending \in BOOLEAN
  /\ attempt \in 0 .. SendAttempts
  /\ joins \in 0 .. JoinAttempts
  /\ joined \in BOOLEAN
  /\ substation \in Substations
  /\ epoch \in Epochs
  /\ peers \subseteq Substations
  /\ offer \in [from : Substations, epoch : Epochs]
  /\ rxQueue \in Seq(ToNode) /\ Len(rxQueue) <= MaxQueue
  /\ {reading, seq, stored} \subseteq Seqs \cup {NoSeq}
  /\ result \in {"None", "Success", "Failure"}
  /\ startedTimely \in BOOLEAN
  /\ boot \in [Substations -> Epochs]
  /\ knows \in [Substations -> BOOLEAN]
  /\ lastSeq \in [Substations -> Seqs \cup {NoSeq}]
  /\ \A s \in Substations : inbox[s] \in Seq(ToSubstation) /\ Len(inbox[s]) <= MaxQueue
  /\ \A s \in Substations : buffered[s] \in Seq(Seqs)
  /\ taken \subseteq Seqs
  /\ timely \in BOOLEAN
  /\ reboots \in 0 .. MaxReboots
  /\ nvsLosses \in 0 .. MaxNvsLosses

\* A new board: nothing counted, and setup joins before the first reading.
Init ==
  /\ step = "Discover"
  /\ sending = FALSE
  /\ attempt = 0
  /\ joins = 0
  /\ joined = FALSE
  /\ substation \in Substations
  /\ epoch = 0
  /\ peers = {}
  /\ offer = [from |-> substation, epoch |-> 0]
  /\ rxQueue = << >>
  /\ reading = 0
  /\ seq = 0
  /\ stored = 0
  /\ result = "None"
  /\ startedTimely = FALSE
  /\ boot = [s \in Substations |-> 0]
  /\ knows = [s \in Substations |-> FALSE]
  /\ lastSeq = [s \in Substations |-> NoSeq]
  /\ inbox = [s \in Substations |-> << >>]
  /\ buffered = [s \in Substations |-> << >>]
  /\ taken = {}
  /\ timely = FALSE
  /\ reboots = 0
  /\ nvsLosses = 0

-----------------------------------------------------------------------------
(* The radio *)

\* Mutant: the receive queue has no limit.
ReceivedUnbounded(queue, frame) == Append(queue, frame)

\* onReceived: a full queue loses its oldest frame.
Received(queue, frame) ==
  Append(IF Len(queue) < MaxQueue THEN queue ELSE Tail(queue), frame)

\* sendPacket of the node to substation s, which reports success or failure.
\* ESP-NOW only sends to peers.
NodeSends(s, frame, reported) ==
  /\ \/ s \in peers /\ inbox' = [inbox EXCEPT ![s] = Received(@, frame)]
     \/ (s \in peers => ~ timely) /\ UNCHANGED inbox
  /\ timely \/ s \notin peers => reported = (s \in peers)
  /\ UNCHANGED <<boot, knows, lastSeq, buffered, taken>>

\* sendPacket of a substation to the node, whose outcome it ignores.  In a timely
\* world the frame finds room in the queue of a node that is reading it.
SubstationSends(frame) ==
  /\ timely /\ step # "Idle" => Len(rxQueue) < MaxQueue
  /\ \/ rxQueue' = Received(rxQueue, frame)
     \/ ~ timely /\ UNCHANGED rxQueue

-----------------------------------------------------------------------------
(* The node: seqNext, send and join *)

\* send(p) for the next reading.  The number is saved to NVS, whether that
\* works or not.
NewReading ==
  /\ step = "Idle"
  /\ reading < MaxReadings
  /\ reading' = reading + 1
  /\ seq' = seq + 1
  /\ \/ stored' = seq + 1 /\ UNCHANGED nvsLosses
     \/ nvsLosses < MaxNvsLosses /\ nvsLosses' = nvsLosses + 1 /\ UNCHANGED stored
  /\ step' = "Drain"
  /\ sending' = TRUE
  /\ attempt' = 0
  /\ result' = "None"
  /\ startedTimely' = timely
  /\ UNCHANGED <<joins, offer, joinedVars, rxQueue, subVars, worldVars>>

TakeFrame == rxQueue # << >> /\ rxQueue' = Tail(rxQueue)

Rebooted(frame) ==
  frame.kind = "Beacon" /\ frame.from = substation /\ frame.epoch # epoch

\* forget() unregisters the substation.
PeersOnForget == peers \ {substation}

\* drainReceived empties the queue; a beacon of our substation with a new epoch
\* forgets it.  The join that follows returns at once while joined.
Drain ==
  /\ step = "Drain"
  /\ joined' = (joined /\ \A i \in 1 .. Len(rxQueue) : ~ Rebooted(rxQueue[i]))
  /\ peers' = IF joined /\ ~ joined' THEN PeersOnForget ELSE peers
  /\ rxQueue' = << >>
  /\ step' = IF joined' THEN "Send" ELSE "Discover"
  /\ UNCHANGED <<sending, attempt, joins, offer, result, startedTimely>>
  /\ UNCHANGED <<substation, epoch, seqVars, subVars, worldVars>>

\* waitForBeacon takes the first beacon of any substation, which becomes a peer.
HearBeacon ==
  /\ step = "Discover"
  /\ TakeFrame
  /\ Head(rxQueue).kind = "Beacon"
  /\ offer' = [from |-> Head(rxQueue).from, epoch |-> Head(rxQueue).epoch]
  /\ peers' = peers \cup {Head(rxQueue).from}
  /\ step' = "Join"
  /\ joins' = 0
  /\ UNCHANGED <<sending, attempt, result, startedTimely>>
  /\ UNCHANGED <<joined, substation, epoch, seqVars, subVars, worldVars>>

\* send returns EXIT_FAILURE when join does; in setup nobody minds.
JoinFails ==
  /\ step' = "Idle"
  /\ result' = IF sending THEN "Failure" ELSE result
  /\ UNCHANGED <<sending, attempt, joins, offer, startedTimely>>
  /\ UNCHANGED <<joined, substation, epoch, seqVars, subVars, worldVars>>

\* No beacon for JOIN_BEACON_WAIT_MS, which is three beacon intervals.
NoBeacon ==
  /\ step = "Discover"
  /\ ~ timely
  /\ JoinFails
  /\ UNCHANGED <<peers, rxQueue>>

\* addPeer fails for the beacon's sender.
NoPeer ==
  /\ step = "Discover"
  /\ ~ timely
  /\ TakeFrame
  /\ Head(rxQueue).kind = "Beacon"
  /\ JoinFails
  /\ UNCHANGED peers

JoinFrame == [kind |-> "Join", epoch |-> offer.epoch]

\* sendPacket returns for a Join.
JoinSent(reported) ==
  /\ step = "Join"
  /\ joins < JoinAttempts
  /\ joins' = joins + 1
  /\ step' = IF reported THEN "AwaitJoinAck" ELSE "Join"
  /\ UNCHANGED <<sending, attempt, offer, result, startedTimely>>
  /\ UNCHANGED <<joinedVars, rxQueue, seqVars, worldVars>>

SendJoin(reported) == JoinSent(reported) /\ NodeSends(offer.from, JoinFrame, reported)

OurJoinAck == [kind |-> "JoinAck", from |-> offer.from, epoch |-> offer.epoch]

IsJoinAck(frame) == frame = OurJoinAck

\* Mutant: the sender of the beacon is not remembered.
TakeJoinAckOnly ==
  /\ step = "AwaitJoinAck"
  /\ TakeFrame
  /\ IsJoinAck(Head(rxQueue))
  /\ joined' = TRUE
  /\ epoch' = offer.epoch
  /\ step' = IF sending THEN "Send" ELSE "Idle"
  /\ UNCHANGED <<sending, attempt, joins, offer, result, startedTimely>>
  /\ UNCHANGED <<substation, peers, seqVars, subVars, worldVars>>

TakeJoinAck ==
  /\ step = "AwaitJoinAck"
  /\ TakeFrame
  /\ IsJoinAck(Head(rxQueue))
  /\ joined' = TRUE
  /\ substation' = offer.from
  /\ epoch' = offer.epoch
  /\ step' = IF sending THEN "Send" ELSE "Idle"
  /\ UNCHANGED <<sending, attempt, joins, offer, result, startedTimely>>
  /\ UNCHANGED <<peers, seqVars, subVars, worldVars>>

\* An answer to the node's last frame is still to come: in a timely world the
\* node waits for it.
AnswerComing(s, answer) ==
  \/ inbox[s] # << >>
  \/ \E i \in 1 .. Len(rxQueue) : rxQueue[i] = answer

JoinAckTimeout ==
  /\ step = "AwaitJoinAck"
  /\ timely => ~ AnswerComing(offer.from, OurJoinAck)
  /\ step' = "Join"
  /\ UNCHANGED <<sending, attempt, joins, offer, result, startedTimely>>
  /\ UNCHANGED <<joinedVars, rxQueue, seqVars, subVars, worldVars>>

\* Mutant: the last Join is not recognised as the last.
JoinGivesUpLate ==
  /\ step = "Join"
  /\ joins > JoinAttempts
  /\ peers' = peers \ {offer.from}
  /\ JoinFails
  /\ UNCHANGED rxQueue

\* Mutant: the substation that did not answer stays a peer.
JoinGivesUpKeepsPeer ==
  /\ step = "Join"
  /\ joins = JoinAttempts
  /\ JoinFails
  /\ UNCHANGED <<peers, rxQueue>>

\* JOIN_ATTEMPTS Joins went unanswered.
JoinGivesUp ==
  /\ step = "Join"
  /\ joins = JoinAttempts
  /\ peers' = peers \ {offer.from}
  /\ JoinFails
  /\ UNCHANGED rxQueue

\* Mutant: send gives up when its first attempt fails.
AttemptFailsForGood ==
  /\ joined' = FALSE
  /\ peers' = PeersOnForget
  /\ attempt' = attempt + 1
  /\ step' = "Idle"
  /\ result' = "Failure"
  /\ UNCHANGED <<sending, joins, offer, startedTimely>>
  /\ UNCHANGED <<substation, epoch, rxQueue, seqVars, worldVars>>

\* forget, and another attempt if there is one left.
AttemptFails ==
  /\ joined' = FALSE
  /\ peers' = PeersOnForget
  /\ attempt' = attempt + 1
  /\ step' = IF attempt + 1 < SendAttempts THEN "Discover" ELSE "Idle"
  /\ result' = IF attempt + 1 < SendAttempts THEN result ELSE "Failure"
  /\ UNCHANGED <<sending, joins, offer, startedTimely>>
  /\ UNCHANGED <<substation, epoch, rxQueue, seqVars, worldVars>>

PayloadFrame == [kind |-> "Payload", seq |-> seq, reading |-> reading]

\* sendPacket returns for the reading.
ReadingSent ==
  /\ step = "Send"
  /\ step' = "AwaitAck"
  /\ UNCHANGED <<sending, attempt, joins, offer, result, startedTimely>>
  /\ UNCHANGED <<joinedVars, rxQueue, seqVars, worldVars>>

ReadingNotSent == step = "Send" /\ AttemptFails

SendReading == ReadingSent /\ NodeSends(substation, PayloadFrame, TRUE)

SendReadingFails == ReadingNotSent /\ NodeSends(substation, PayloadFrame, FALSE)

\* Mutant: an ACK of any reading will do.
IsAnyAck(frame) == frame.kind = "Ack" /\ frame.from = substation

OurAck == [kind |-> "Ack", from |-> substation, seq |-> seq]

IsAck(frame) == frame = OurAck

TakeAck ==
  /\ step = "AwaitAck"
  /\ TakeFrame
  /\ IsAck(Head(rxQueue))
  /\ step' = "Idle"
  /\ result' = "Success"
  /\ UNCHANGED <<sending, attempt, joins, offer, startedTimely>>
  /\ UNCHANGED <<joinedVars, seqVars, subVars, worldVars>>

AckTimeout ==
  /\ step = "AwaitAck"
  /\ timely => ~ AnswerComing(substation, OurAck)
  /\ AttemptFails
  /\ UNCHANGED subVars

\* Each wait skips the frames it does not wait for, beacons of a new epoch
\* included.
SkipFrame ==
  /\ TakeFrame
  /\ \/ step = "Discover" /\ Head(rxQueue).kind # "Beacon"
     \/ step = "AwaitJoinAck" /\ ~ IsJoinAck(Head(rxQueue))
     \/ step = "AwaitAck" /\ ~ IsAck(Head(rxQueue))
  /\ UNCHANGED <<sendVars, joinedVars, seqVars, subVars, worldVars>>

Node ==
  \/ NewReading
  \/ Drain
  \/ HearBeacon
  \/ NoBeacon
  \/ NoPeer
  \/ \E reported \in BOOLEAN : SendJoin(reported)
  \/ TakeJoinAck
  \/ JoinAckTimeout
  \/ JoinGivesUp
  \/ SendReading
  \/ SendReadingFails
  \/ TakeAck
  \/ AckTimeout
  \/ SkipFrame

-----------------------------------------------------------------------------
(* A substation: beaconIfDue, handleJoin and handleIncoming *)

Beacon(s) ==
  /\ SubstationSends([kind |-> "Beacon", from |-> s, epoch |-> boot[s]])
  /\ UNCHANGED <<sendVars, joinedVars, seqVars, subVars, worldVars>>

Handles(s, kind) ==
  /\ inbox[s] # << >>
  /\ Head(inbox[s]).kind = kind
  /\ inbox' = [inbox EXCEPT ![s] = Tail(@)]

AcceptJoin(s) ==
  /\ Handles(s, "Join")
  /\ Head(inbox[s]).epoch = boot[s]
  /\ knows' = [knows EXCEPT ![s] = TRUE]
  /\ SubstationSends([kind |-> "JoinAck", from |-> s, epoch |-> boot[s]])
  /\ UNCHANGED <<boot, lastSeq, buffered, taken>>
  /\ UNCHANGED <<sendVars, joinedVars, seqVars, worldVars>>

\* A Join of an earlier boot, or one for which the table has no room.
IgnoreJoin(s) ==
  /\ Handles(s, "Join")
  /\ Head(inbox[s]).epoch # boot[s] \/ (~ knows[s] /\ ~ timely)
  /\ UNCHANGED <<boot, knows, lastSeq, buffered, taken>>
  /\ UNCHANGED <<sendVars, joinedVars, rxQueue, seqVars, worldVars>>

\* Mutant: a resent reading is buffered again.
IsNeverDuplicate(s) == FALSE

IsDuplicate(s) == lastSeq[s] = Head(inbox[s]).seq

AckOf(s) == [kind |-> "Ack", from |-> s, seq |-> Head(inbox[s]).seq]

\* Unjoined, or refused by the reading buffer: no answer.
DropReading(s) ==
  /\ Handles(s, "Payload")
  /\ ~ knows[s] \/ (~ IsDuplicate(s) /\ ~ timely)
  /\ UNCHANGED <<boot, knows, lastSeq, buffered, taken>>
  /\ UNCHANGED <<sendVars, joinedVars, rxQueue, seqVars, worldVars>>

AnswerDuplicate(s) ==
  /\ Handles(s, "Payload")
  /\ knows[s] /\ IsDuplicate(s)
  /\ SubstationSends(AckOf(s))
  /\ UNCHANGED <<boot, knows, lastSeq, buffered, taken>>
  /\ UNCHANGED <<sendVars, joinedVars, seqVars, worldVars>>

BufferReading(s) ==
  /\ Handles(s, "Payload")
  /\ knows[s] /\ ~ IsDuplicate(s)
  /\ buffered' = [buffered EXCEPT ![s] = Append(@, Head(inbox[s]).reading)]
  /\ taken' = taken \cup {Head(inbox[s]).reading}
  /\ lastSeq' = [lastSeq EXCEPT ![s] = Head(inbox[s]).seq]
  /\ SubstationSends(AckOf(s))
  /\ UNCHANGED <<boot, knows>>
  /\ UNCHANGED <<sendVars, joinedVars, seqVars, worldVars>>

HandleIncoming(s) ==
  \/ AcceptJoin(s)
  \/ IgnoreJoin(s)
  \/ DropReading(s)
  \/ AnswerDuplicate(s)
  \/ BufferReading(s)

-----------------------------------------------------------------------------
(* The world *)

Reboots == ~ timely /\ reboots < MaxReboots /\ reboots' = reboots + 1

RebootSubstation(s) ==
  /\ Reboots
  /\ boot' = [boot EXCEPT ![s] = reboots + 1]
  /\ knows' = [knows EXCEPT ![s] = FALSE]
  /\ lastSeq' = [lastSeq EXCEPT ![s] = NoSeq]
  /\ inbox' = [inbox EXCEPT ![s] = << >>]
  /\ buffered' = [buffered EXCEPT ![s] = << >>]
  /\ UNCHANGED <<taken, timely, sendVars, joinedVars, rxQueue, seqVars>>

\* The counter resumes from NVS, or from zero if NVS was wiped.
RebootNode ==
  /\ Reboots
  /\ \/ UNCHANGED <<stored, nvsLosses>>
     \/ nvsLosses < MaxNvsLosses /\ nvsLosses' = nvsLosses + 1 /\ stored' = 0
  /\ seq' = stored'
  /\ step' = "Discover"
  /\ sending' = FALSE
  /\ attempt' = 0
  /\ joined' = FALSE
  /\ peers' = {}
  /\ rxQueue' = << >>
  /\ result' = "None"
  /\ UNCHANGED <<joins, offer, startedTimely, substation, epoch, reading, subVars, timely>>

BecomeTimely ==
  /\ ~ timely
  /\ timely' = TRUE
  /\ UNCHANGED <<sendVars, joinedVars, rxQueue, seqVars, subVars, reboots>>

Next ==
  \/ Node
  \/ \E s \in Substations : Beacon(s) \/ HandleIncoming(s) \/ RebootSubstation(s)
  \/ RebootNode
  \/ BecomeTimely

Spec == Init /\ [][Next]_vars

\* The node's loop and the substations' loops keep running, beacons keep coming,
\* every wait ends, and substations read their queues.
Fairness ==
  /\ WF_vars(Drain)
  /\ WF_vars(HearBeacon \/ NoBeacon \/ NoPeer)
  /\ WF_vars((\E reported \in BOOLEAN : SendJoin(reported)) \/ JoinGivesUp)
  /\ WF_vars(TakeJoinAck \/ JoinAckTimeout)
  /\ WF_vars(SendReading \/ SendReadingFails)
  /\ WF_vars(TakeAck \/ AckTimeout)
  /\ WF_vars(SkipFrame)
  /\ \A s \in Substations : SF_vars(HandleIncoming(s)) /\ WF_vars(Beacon(s))

FairSpec == Spec /\ Fairness

-----------------------------------------------------------------------------
(* Properties *)

\* "A reading only counts as delivered once the substation answers it with an
\* AckPayload, which it sends after the reading is in its buffer"
\* (substation_link.h:44-46): no ACK of another reading, of an earlier attempt or
\* of a substation left behind is taken for it.  It holds while the counter
\* gives no number twice, and only then.
DeliveredWasBuffered == result = "Success" => reading \in taken

\* A substation buffers a reading once per boot, in the order the node took
\* them, whatever was resent, rejoined or left in its queue.
BufferedOnceInOrder ==
  \A s \in Substations : \A i, j \in 1 .. Len(buffered[s]) :
    i < j => buffered[s][i] < buffered[s][j]

\* A node that believes it is joined is in the table of the boot it joined, so
\* only a reboot can separate them, and the epoch shows it (PROTOCOLS.md:74-76).
JoinedAgreement ==
  joined /\ boot[substation] = epoch => knows[substation]

\* The peer table holds the substation the node is joined to or is joining, and
\* no other: a send never fails for want of a peer, and substations left behind do
\* not fill the table until no beacon can be answered (esp_now_uplink.cpp:97-125).
PeersInUse ==
  peers = IF joined THEN {substation}
          ELSE IF step \in {"Join", "AwaitJoinAck"} THEN {offer.from} ELSE {}

\* In a timely world no send fails: two attempts, with one rejoin between them,
\* are enough to get over a substation's reboot before, or the node's, whatever
\* frames were left over from before.
TimelySendWorks == startedTimely => result # "Failure"

\* Every send and every join ends, whatever is lost.
SendEnds == step # "Idle" ~> step = "Idle"

=============================================================================
