-------------------------- MODULE SubstationTimers --------------------------
(***************************************************************************)
(* substationSetup and substationLoop, src/nodes/substation.cpp, with the  *)
(* uplink the loop blocks on and its two deadlines: the next beacon        *)
(* (beaconIfDue) and the end of the hold-off after a failed relay          *)
(* (relayStep).  Both compare a wrapping millis() with a stored deadline   *)
(* as a signed difference.                                                 *)
(*                                                                         *)
(* millis() counts ClockSize = 2^32 values in the code; the instance is    *)
(* small, with the intervals in proportion.  A pass, the sends it blocks   *)
(* on included, is assumed to take at most MaxLag ticks: the code bounds   *)
(* each send, and not the number of frames a pass handles.  A failed relay *)
(* needs MinAttempt ticks of sending; an acknowledged one takes no time.   *)
(***************************************************************************)
EXTENDS EspNowUplink

CONSTANTS
  ClockSize,        \* values millis() takes before it wraps
  BeaconInterval,   \* BEACON_INTERVAL_MS
  RetryBackoff,     \* RETRY_BACKOFF_MS
  MinAttempt,       \* ticks a failing send takes, at least
  MaxLag            \* ticks one pass of the loop can take

ASSUME TimersAssumption ==
  /\ {ClockSize, BeaconInterval, RetryBackoff, MinAttempt, MaxLag} \subseteq Nat \ {0}
  /\ ClockSize % 2 = 0
  /\ BeaconInterval + MaxLag < ClockSize \div 2
  /\ RetryBackoff + MaxLag < ClockSize \div 2

VARIABLES
  now,            \* millis()
  at,             \* the call of substationLoop that is next
  lag,            \* ticks since the last pass began
  nextBeaconAt,
  nextSendAt,
  sending,        \* a relay is in flight; the ticks it has taken
  waiting,        \* there are readings in the buffer
  sinceBeacon,    \* ticks since the last beacon, up to a cap
  sinceFailure    \* ticks since the last failed relay, up to a cap

beaconVars == <<nextBeaconAt, sinceBeacon>>
relayVars == <<nextSendAt, sending, sinceFailure>>
timerVars == <<now, at, lag, beaconVars, relayVars, waiting>>
vars == <<timerVars, uplinkVars>>

NotSending == -1

SinceCap == RetryBackoff + BeaconInterval + MaxLag + 1

TypeOK ==
  /\ UplinkTypeOK
  /\ at \in {"loraInit", "uplinkInit", "addPeer", "idle",
            "beaconIfDue", "handleIncoming", "relayStep"}
  /\ {now, nextBeaconAt, nextSendAt} \subseteq 0 .. ClockSize - 1
  /\ lag \in 0 .. MaxLag
  /\ sending \in NotSending .. MinAttempt
  /\ waiting \in BOOLEAN
  /\ {sinceBeacon, sinceFailure} \subseteq 0 .. SinceCap

\* At boot nothing has been sent and nothing has failed.
Init ==
  /\ UplinkInit
  /\ now = 0
  /\ at = "loraInit"
  /\ lag = 0
  /\ nextBeaconAt = 0
  /\ nextSendAt = 0
  /\ sending = NotSending
  /\ waiting = FALSE
  /\ sinceBeacon = 0
  /\ sinceFailure = SinceCap

\* Mutants: deadlines compared without wrapping, and computed without wrapping.
IsDueUnsigned(deadline) == now >= deadline

AfterNoWrap(interval) == now + interval

\* static_cast<long>(millis() - deadline) >= 0
IsDue(deadline) == (now - deadline) % ClockSize < ClockSize \div 2

After(interval) == (now + interval) % ClockSize

CountUp(n) == IF n < SinceCap THEN n + 1 ELSE n

-----------------------------------------------------------------------------

frameVars == <<now, lag, beaconVars, relayVars, waiting>>

\* substationSetup: configuration, LoRa, ESP-NOW and the broadcast peer, in turn.
LoRaReady ==
  /\ at = "loraInit"
  /\ at' = "uplinkInit"
  /\ UNCHANGED <<frameVars, uplinkVars>>

UplinkReady ==
  /\ at = "uplinkInit"
  /\ at' = "addPeer"
  /\ InitUplink
  /\ UNCHANGED frameVars

\* Frames may have come in by now.
PeerAdded ==
  /\ at = "addPeer"
  /\ at' = "beaconIfDue"
  /\ UNCHANGED <<frameVars, uplinkVars>>

\* One of them failed: not ready, and substationLoop returns at once.
SetUpFails ==
  /\ at \in {"loraInit", "uplinkInit", "addPeer"}
  /\ at' = "idle"
  /\ UNCHANGED <<frameVars, uplinkVars>>

Idle == at = "idle" /\ UNCHANGED vars

SetUp == LoRaReady \/ UplinkReady \/ PeerAdded \/ SetUpFails \/ Idle

Tick ==
  /\ at \in {"beaconIfDue", "handleIncoming", "relayStep"}
  /\ lag < MaxLag
  /\ lag' = lag + 1
  /\ now' = (now + 1) % ClockSize
  /\ sending' = IF sending = NotSending \/ sending = MinAttempt
                THEN sending ELSE sending + 1
  /\ sinceBeacon' = CountUp(sinceBeacon)
  /\ sinceFailure' = CountUp(sinceFailure)
  /\ UNCHANGED <<at, nextBeaconAt, nextSendAt, waiting, uplinkVars>>

\* The next call of the loop, unless it is blocked in sendPacket.
Calls(this, next) == at = this /\ sender = "Out" /\ at' = next

BeaconIfDue ==
  /\ Calls("beaconIfDue", "handleIncoming")
  /\ lag' = 0
  /\ IF IsDue(nextBeaconAt)
     THEN /\ nextBeaconAt' = After(BeaconInterval)
          /\ sinceBeacon' = 0
          /\ SendPacket("Broadcast")
     ELSE UNCHANGED <<beaconVars, sendPacketVars, onSentVars, sendDone>>
  /\ UNCHANGED <<now, relayVars, waiting, instance, onReceivedVars>>

\* handleIncoming: a frame it ignores, or one it answers with an ACK or a
\* JoinAck, which may be a reading it has buffered.
HandleFrame ==
  /\ Calls("handleIncoming", "handleIncoming")
  /\ ReceivePacket
  /\ \/ UNCHANGED <<waiting, sendPacketVars, onSentVars, sendDone>>
     \/ waiting' \in {waiting, TRUE} /\ SendPacket("Unicast")
  /\ UNCHANGED <<now, lag, beaconVars, relayVars, instance>>

\* handleIncoming ends when no frame is left.
NoFrameLeft ==
  /\ Calls("handleIncoming", "relayStep")
  /\ rxQueue = << >>
  /\ UNCHANGED <<now, lag, beaconVars, relayVars, waiting, uplinkVars>>

\* relayStep while a relay is in flight, still pending.
RelayPending ==
  /\ sending # NotSending
  /\ UNCHANGED <<relayVars, waiting>>

\* relayStep on Acked: readings may be left, or not.
RelayAcked ==
  /\ sending # NotSending
  /\ sending' = NotSending
  /\ waiting' \in BOOLEAN
  /\ UNCHANGED <<nextSendAt, sinceFailure>>

\* Mutant: a failure sets no hold-off.
RelayFailedForgets ==
  /\ sending = MinAttempt
  /\ sending' = NotSending
  /\ sinceFailure' = 0
  /\ UNCHANGED <<nextSendAt, waiting>>

\* relayStep on Failed.
RelayFailed ==
  /\ sending = MinAttempt
  /\ sending' = NotSending
  /\ nextSendAt' = After(RetryBackoff)
  /\ sinceFailure' = 0
  /\ UNCHANGED waiting

RelayHeldOff ==
  /\ sending = NotSending
  /\ ~ IsDue(nextSendAt)
  /\ UNCHANGED <<relayVars, waiting>>

RelayNext ==
  /\ sending = NotSending
  /\ IsDue(nextSendAt)
  /\ sending' = IF waiting THEN 0 ELSE NotSending
  /\ UNCHANGED <<nextSendAt, waiting, sinceFailure>>

RelayStep ==
  /\ Calls("relayStep", "beaconIfDue")
  /\ RelayPending \/ RelayAcked \/ RelayFailed \/ RelayHeldOff \/ RelayNext
  /\ UNCHANGED <<now, lag, beaconVars, uplinkVars>>

Loop == BeaconIfDue \/ HandleFrame \/ NoFrameLeft \/ RelayStep

Next == SetUp \/ Tick \/ Loop \/ (UplinkStep /\ UNCHANGED timerVars)

Spec == Init /\ [][Next]_vars

-----------------------------------------------------------------------------
(* Properties *)

\* A beacon is handed to the uplink once per interval, give or take a pass of the
\* loop and the sends it blocks on, before, while and after millis() wraps, so a
\* node that listens for JOIN_BEACON_WAIT_MS can hear one (substation.cpp:133).
BeaconsRegular == sinceBeacon <= BeaconInterval + MaxLag

\* A failed relay holds the next one off for the whole backoff.
HoldOffKept == [][sending = NotSending /\ sending' # NotSending => sinceFailure >= RetryBackoff]_vars

\* A relay is held off only because one failed less than the backoff ago: "the
\* check still works when millis() wraps" (substation.cpp:287).
HeldOffOnlyAfterFailure == ~ IsDue(nextSendAt) => sinceFailure < RetryBackoff

=============================================================================
