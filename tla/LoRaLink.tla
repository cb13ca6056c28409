------------------------------ MODULE LoRaLink ------------------------------
(***************************************************************************)
(* One acknowledged LoRa hop, lib/links/lora_link/lora_link.cpp: the       *)
(* stepped sender of a substation (beginSend, pollSend) and the            *)
(* acknowledging receiver of the gateway (receivePacket), over a broadcast *)
(* radio that loses packets.                                               *)
(*                                                                         *)
(* A payload is its UID and its reading; the reading stands for the        *)
(* sequence number and the values read with it, so an ACK, which carries   *)
(* UID and sequence number, names the payload it answers.  Each radio      *)
(* holds at most one received packet (the SX1276 FIFO), which a later one  *)
(* replaces.  Timers are abstracted: a poll finds its timer expired or not.*)
(***************************************************************************)
EXTENDS Naturals

CONSTANTS
  Uids,         \* identities of the meter nodes
  Readings,     \* values of a reading, without its UID
  NoPacket,     \* nothing in a radio's FIFO
  OtherPacket,  \* a packet that is neither a Payload nor an ACK we could match
  MaxRetries    \* LoRaLinkConfig::maxRetries

ASSUME RetriesAssumption == MaxRetries \in 0 .. 255

ASSUME PacketAssumption ==
  /\ NoPacket # OtherPacket
  /\ {NoPacket, OtherPacket} \cap [uid : Uids, reading : Readings] = {}

VARIABLES
  phase,     \* where the send in flight is in its attempt
  attempt,   \* attempts made for pending so far
  pending,   \* reading being sent, valid unless phase is Idle
  heard,     \* the packet in the sender's radio: the payload an ACK names
  air,       \* the packet in the gateway's radio
  received   \* payloads the gateway's receivePacket has returned

senderVars == <<phase, attempt, pending>>
vars == <<phase, attempt, pending, heard, air, received>>

Payload == [uid : Uids, reading : Readings]

Packet == Payload \cup {OtherPacket, NoPacket}

\* A send makes one attempt even when no retries are configured.
Attempts == IF MaxRetries = 0 THEN 1 ELSE MaxRetries

TypeOK ==
  /\ phase \in {"Idle", "Transmit", "AwaitAck", "Backoff"}
  /\ attempt \in 0 .. Attempts
  /\ pending \in Payload
  /\ heard \in Packet
  /\ air \in Packet
  /\ received \subseteq Payload

Init ==
  /\ phase = "Idle"
  /\ attempt = 0
  /\ pending \in Payload
  /\ heard = NoPacket
  /\ air = NoPacket
  /\ received = {}

-----------------------------------------------------------------------------
(* The sender: beginSend and the steps of pollSend *)

BeginSend(p) ==
  /\ phase = "Idle"
  /\ phase' = "Transmit"
  /\ attempt' = 0
  /\ pending' = p
  /\ UNCHANGED <<heard, air, received>>

\* A send is in flight already: EXIT_FAILURE, and the one in flight goes on.
BeginRefused ==
  /\ phase # "Idle"
  /\ UNCHANGED vars

\* pollSend's Transmit step: the packet reaches the gateway's radio or is lost,
\* and what the sender's radio held before survives the transmission or not.
Transmit ==
  /\ phase = "Transmit"
  /\ attempt' = attempt + 1
  /\ phase' = "AwaitAck"
  /\ air' \in {pending, air}
  /\ heard' \in {heard, NoPacket}
  /\ UNCHANGED <<pending, received>>

\* The radio reports that it did not transmit.
TransmitFails ==
  /\ phase = "Transmit"
  /\ attempt' = attempt + 1
  /\ phase' = "Backoff"
  /\ UNCHANGED <<pending, heard, air, received>>

\* Mutant: any ACK ends the send.
AckedByAny ==
  /\ phase = "AwaitAck"
  /\ heard \in Payload
  /\ phase' = "Idle"
  /\ heard' = NoPacket
  /\ UNCHANGED <<attempt, pending, air, received>>

\* The matching ACK: the send is over, whatever the timer says.
Acked ==
  /\ phase = "AwaitAck"
  /\ heard = pending
  /\ phase' = "Idle"
  /\ heard' = NoPacket
  /\ UNCHANGED <<attempt, pending, air, received>>

\* No packet, or one that is not the ACK and is drained; time is not up.
KeepWaiting ==
  /\ phase = "AwaitAck"
  /\ heard # pending
  /\ heard' = NoPacket
  /\ UNCHANGED <<phase, attempt, pending, air, received>>

\* The same, with ackTimeoutMs over.
AckTimeout ==
  /\ phase = "AwaitAck"
  /\ heard # pending
  /\ heard' = NoPacket
  /\ phase' = "Backoff"
  /\ UNCHANGED <<attempt, pending, air, received>>

BackoffWait ==
  /\ phase = "Backoff"
  /\ UNCHANGED vars

\* Mutant: one attempt too many.
RetryOnceMore ==
  /\ phase = "Backoff"
  /\ attempt <= MaxRetries
  /\ phase' = "Transmit"
  /\ UNCHANGED <<attempt, pending, heard, air, received>>

Retry ==
  /\ phase = "Backoff"
  /\ attempt < MaxRetries
  /\ phase' = "Transmit"
  /\ UNCHANGED <<attempt, pending, heard, air, received>>

\* Mutant: the last attempt is not recognised as the last.
FailedTooLate ==
  /\ phase = "Backoff"
  /\ attempt > MaxRetries
  /\ phase' = "Idle"
  /\ UNCHANGED <<attempt, pending, heard, air, received>>

Failed ==
  /\ phase = "Backoff"
  /\ attempt >= MaxRetries
  /\ phase' = "Idle"
  /\ UNCHANGED <<attempt, pending, heard, air, received>>

\* The polls that report Pending, and the phase in which a poll reports Idle.
Pending == Transmit \/ TransmitFails \/ KeepWaiting \/ AckTimeout \/ BackoffWait \/ Retry

IsIdle == phase = "Idle"

-----------------------------------------------------------------------------
(* The receiver, and the air between them *)

\* Mutant: a frame is acknowledged before reading it can fail.
ReceiveAcksFirst ==
  /\ air \in Payload
  /\ received' \in {received, received \cup {air}}
  /\ heard' \in {air, heard}
  /\ air' = NoPacket
  /\ UNCHANGED senderVars

\* receivePacket returns a Payload and transmits its ACK, which the sender's
\* radio hears or not.
Receive ==
  /\ air \in Payload
  /\ received' = received \cup {air}
  /\ heard' \in {air, heard}
  /\ air' = NoPacket
  /\ UNCHANGED senderVars

\* A stray ACK, or a packet of another size, is drained and not answered.
ReceiveOther ==
  /\ air = OtherPacket
  /\ air' = NoPacket
  /\ UNCHANGED <<phase, attempt, pending, heard, received>>

\* Another substation's or gateway's packet takes the place of what a radio held.
Overhear ==
  /\ \/ heard' = OtherPacket /\ air' = air
     \/ air' = OtherPacket /\ heard' = heard
  /\ UNCHANGED <<phase, attempt, pending, received>>

Next ==
  \/ \E p \in Payload : BeginSend(p)
  \/ BeginRefused
  \/ Pending
  \/ Acked
  \/ Failed
  \/ Receive
  \/ ReceiveOther
  \/ Overhear

Spec == Init /\ [][Next]_vars

\* The loop keeps polling and time passes, so no phase lasts forever.
PollFairness ==
  /\ WF_vars(Transmit \/ TransmitFails)
  /\ WF_vars(Acked \/ AckTimeout)
  /\ WF_vars(Retry \/ Failed)

FairSpec == Spec /\ PollFairness

-----------------------------------------------------------------------------
(* Properties *)

\* An ACK in the sender's radio was sent by the gateway for a payload it had
\* already taken in: a lost, late or repeated ACK never announces more than that.
AckNamesReceived == heard \in Payload => heard \in received

\* A send reports Acked only when the gateway has the very reading it sent,
\* although ACKs of earlier sends and other readings may still be about
\* (PROTOCOLS.md:145-147).
AckedIsReceived == [][Acked => pending \in received]_vars

\* Every send ends, Acked or Failed, whatever the radio loses.
SendEnds == phase # "Idle" ~> phase = "Idle"

=============================================================================
