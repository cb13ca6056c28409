---------------------------- MODULE EspNowUplink ----------------------------
(***************************************************************************)
(* EspNowUplink, lib/links/esp_now_uplink: sendPacket blocks the loop on a *)
(* semaphore that the send callback gives, and the receive callback queues *)
(* frames for receivePacket.                                               *)
(*                                                                         *)
(* The callbacks run one at a time in the Wi-Fi task, which on a board of  *)
(* two cores runs beside the loop: the loop may step between any two calls *)
(* of a callback.  A send that runs out of time leaves its frame with the  *)
(* radio, which may still send it, and report it, during a later send.     *)
(* Frames are reported in the order they were handed over.                 *)
(*                                                                         *)
(* A received frame stands for the number of frames received after it.     *)
(***************************************************************************)
EXTENDS Integers, Sequences

CONSTANTS
  RxQueueDepth,   \* ESPNOW_RX_QUEUE_DEPTH
  MaxOnAir        \* bound: frames the radio has not reported

ASSUME UplinkAssumption == {RxQueueDepth, MaxOnAir} \subseteq Nat \ {0}

VARIABLES
  instance,         \* init is over, and the callbacks are registered
  rxQueue,
  receiving,        \* onReceived: "Idle", "Full" (the queue is), "MadeRoom"
  onAir,            \* frames esp_now_send took and onSent has not reported
  reporting,        \* onSent has set deliverySuccess and not given sendDone yet
  sendDone,         \* the semaphore is given
  deliverySuccess,
  sender,           \* sendPacket: "Out", "Waits" for sendDone, "Woken" by it
  fate,             \* history: what became of the last frame sent
  behind            \* history: an earlier frame's report was to come when it was sent

sendPacketVars == <<sender, fate, behind>>
onSentVars == <<onAir, reporting, deliverySuccess>>
onReceivedVars == <<rxQueue, receiving>>
uplinkVars == <<instance, sendPacketVars, onSentVars, sendDone, onReceivedVars>>

UplinkTypeOK ==
  /\ rxQueue \in Seq(0 .. RxQueueDepth) /\ Len(rxQueue) <= RxQueueDepth
  /\ receiving \in {"Idle", "Full", "MadeRoom"}
  /\ onAir \in Seq({"Broadcast", "Unicast"}) /\ Len(onAir) <= MaxOnAir
  /\ {instance, reporting, sendDone, deliverySuccess, behind} \subseteq BOOLEAN
  /\ sender \in {"Out", "Waits", "Woken"}
  /\ fate \in {"OnAir", "Acknowledged", "Unacknowledged"}

UplinkInit ==
  /\ instance = FALSE
  /\ rxQueue = << >>
  /\ receiving = "Idle"
  /\ onAir = << >>
  /\ reporting = FALSE
  /\ sendDone = FALSE
  /\ deliverySuccess = FALSE
  /\ sender = "Out"
  /\ fate = "Unacknowledged"
  /\ behind = FALSE

\* init: the station, the queue, the semaphore, both empty, and ESP-NOW.
InitUplink ==
  /\ instance' = TRUE
  /\ UNCHANGED <<sendPacketVars, onSentVars, sendDone, onReceivedVars>>

-----------------------------------------------------------------------------
(* sendPacket *)

\* Mutant: the give left over from an earlier send stays.
KeepSendDone == UNCHANGED sendDone

ClearSendDone == sendDone' = FALSE

\* esp_now_send takes the frame, and the loop blocks.
SendStarts(kind) ==
  /\ sender = "Out"
  /\ Len(onAir) < MaxOnAir
  /\ ClearSendDone
  /\ onAir' = Append(onAir, kind)
  /\ sender' = "Waits"
  /\ fate' = "OnAir"
  /\ behind' = (onAir # << >> \/ reporting)
  /\ UNCHANGED <<reporting, deliverySuccess>>

\* esp_now_send has no memory for another frame.
SendRefused ==
  /\ sender = "Out"
  /\ ClearSendDone
  /\ UNCHANGED <<sendPacketVars, onSentVars>>

SendPacket(kind) == SendStarts(kind) \/ SendRefused

Wake ==
  /\ sender = "Waits"
  /\ sendDone
  /\ sendDone' = FALSE
  /\ sender' = "Woken"
  /\ UNCHANGED <<fate, behind, onSentVars, onReceivedVars>>

Returns ==
  /\ sender' = "Out"
  /\ fate' = "Unacknowledged"
  /\ behind' = FALSE
  /\ UNCHANGED <<onSentVars, sendDone, onReceivedVars>>

\* sendPacket returns deliverySuccess, or gives up after sendTimeoutMs.
ReadReport == sender = "Woken" /\ Returns

SendTimeout == sender = "Waits" /\ ~ sendDone /\ Returns

\* receivePacket, when a frame is queued.
ReceivePacket ==
  /\ rxQueue # << >>
  /\ rxQueue' = Tail(rxQueue)
  /\ UNCHANGED receiving

-----------------------------------------------------------------------------
(* The callbacks *)

CallbackIdle == receiving = "Idle" /\ ~ reporting

\* The last frame sent is the one the radio reports next.
OwnReport == fate = "OnAir" /\ Len(onAir) = 1

\* onSent records the result.  A broadcast, which nobody acknowledges, always
\* succeeds.
OnSent(acked) ==
  /\ CallbackIdle
  /\ onAir # << >>
  /\ Head(onAir) = "Broadcast" => acked
  /\ onAir' = Tail(onAir)
  /\ deliverySuccess' = acked
  /\ reporting' = TRUE
  /\ fate' = IF ~ OwnReport THEN fate
             ELSE IF acked THEN "Acknowledged" ELSE "Unacknowledged"
  /\ UNCHANGED <<sender, behind, sendDone, onReceivedVars>>

GiveSendDone ==
  /\ reporting
  /\ reporting' = FALSE
  /\ sendDone' = TRUE
  /\ UNCHANGED <<sendPacketVars, onAir, deliverySuccess, onReceivedVars>>

Aged == [i \in DOMAIN rxQueue |-> rxQueue[i] + 1]

\* onReceived: its first xQueueSend.
OnReceived ==
  /\ instance
  /\ CallbackIdle
  /\ IF Len(rxQueue) < RxQueueDepth
     THEN rxQueue' = Append(Aged, 0) /\ UNCHANGED receiving
     ELSE rxQueue' = Aged /\ receiving' = "Full"
  /\ UNCHANGED <<sendPacketVars, onSentVars, sendDone>>

\* Mutant: no room is made for the new frame.
DropNothing ==
  /\ receiving = "Full"
  /\ receiving' = "MadeRoom"
  /\ UNCHANGED <<rxQueue, sendPacketVars, onSentVars, sendDone>>

\* onReceived: the oldest frame goes, if the loop has left one.
DropOldest ==
  /\ receiving = "Full"
  /\ rxQueue' = IF rxQueue = << >> THEN << >> ELSE Tail(rxQueue)
  /\ receiving' = "MadeRoom"
  /\ UNCHANGED <<sendPacketVars, onSentVars, sendDone>>

\* onReceived: its second xQueueSend, which does not wait either.
QueueAgain ==
  /\ receiving = "MadeRoom"
  /\ rxQueue' = IF Len(rxQueue) < RxQueueDepth THEN Append(rxQueue, 0) ELSE rxQueue
  /\ receiving' = "Idle"
  /\ UNCHANGED <<sendPacketVars, onSentVars, sendDone>>

\* The radio, its callbacks, and sendPacket's return from its wait.
UplinkStep ==
  /\ \/ \E acked \in BOOLEAN : OnSent(acked)
     \/ GiveSendDone
     \/ OnReceived
     \/ DropOldest
     \/ QueueAgain
     \/ Wake
     \/ ReadReport
     \/ SendTimeout
  /\ UNCHANGED instance

-----------------------------------------------------------------------------
(* Properties *)

\* sendPacket returns success for a frame its peer acknowledged
\* (esp_now_uplink.h:121), whatever timed out before, unless the report of an
\* earlier frame was still to come when it cleared the semaphore.
SuccessIsHonest ==
  sender = "Woken" /\ deliverySuccess /\ ~ behind => fate = "Acknowledged"

\* However the loop's receives fall between the callback's three queue calls,
\* the queue holds the newest frames, in order and without a gap: a slow reader
\* still sees the latest ones (esp_now_uplink.h:17).
NewestKept ==
  LET inHand == IF receiving = "Idle" THEN 0 ELSE 1
  IN  \A i \in DOMAIN rxQueue : rxQueue[i] = Len(rxQueue) - i + inHand

=============================================================================
