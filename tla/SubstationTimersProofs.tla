----------------------- MODULE SubstationTimersProofs -----------------------
(***************************************************************************)
(* Proofs about the substation's loop with its two deadlines and the       *)
(* uplink it uses, for any clock that is long enough for the intervals,    *)
(* queues of any length and any number of frames with the radio.           *)
(*                                                                         *)
(* The uplink's variables fall into two halves that no step mixes: the     *)
(* sending half, which sendPacket shares with onSent, and the receiving    *)
(* half, which receivePacket shares with onReceived.  Each half has an     *)
(* invariant of its own.                                                   *)
(*                                                                         *)
(* A deadline is compared modulo the clock, so what is invariant is not    *)
(* its order to the clock but the distance: now - deadline is, give or     *)
(* take one turn of the clock, the time since the deadline was set less    *)
(* the interval.  As long as that stays within half a turn, IsDue tells    *)
(* its sign.  The beacon's deadline is renewed in time by the loop itself. *)
(* The hold-off's is not, so its distance is known only until the backoff  *)
(* is over, which is all that HoldOffKept needs.                           *)
(***************************************************************************)
EXTENDS SubstationTimers, SequenceTheorems, TLAPS

-----------------------------------------------------------------------------
(* The uplink *)

Frames == {"Broadcast", "Unicast"}

sendingVars == <<sendPacketVars, onSentVars, sendDone>>

SendingStep ==
  \/ \E kind \in Frames : SendPacket(kind)
  \/ Wake
  \/ ReadReport
  \/ SendTimeout
  \/ \E acked \in BOOLEAN : OnSent(acked)
  \/ GiveSendDone
  \/ UNCHANGED sendingVars

ReceivingStep ==
  \/ ReceivePacket
  \/ OnReceived
  \/ DropOldest
  \/ QueueAgain
  \/ UNCHANGED onReceivedVars

\* What a step of the substation may do to either half.
LEMMA StepHalves == [Next]_vars => SendingStep /\ ReceivingStep
<1> SUFFICES ASSUME [Next]_vars PROVE SendingStep /\ ReceivingStep
  OBVIOUS
<1>1. CASE SetUp \/ Tick \/ NoFrameLeft \/ RelayStep \/ UNCHANGED vars
  BY <1>1 DEF SetUp, LoRaReady, UplinkReady, PeerAdded, SetUpFails, Idle, Tick,
      NoFrameLeft, RelayStep, InitUplink, uplinkVars, vars, sendingVars,
      SendingStep, ReceivingStep
<1>2. CASE BeaconIfDue
  <2>1. UNCHANGED onReceivedVars
    BY <1>2 DEF BeaconIfDue
  <2>2. SendPacket("Broadcast") \/ UNCHANGED sendingVars
    BY <1>2 DEF BeaconIfDue, sendingVars
  <2> QED
    BY <2>1, <2>2 DEF SendingStep, ReceivingStep, Frames
<1>3. CASE HandleFrame
  <2>1. ReceivePacket
    BY <1>3 DEF HandleFrame
  <2>2. SendPacket("Unicast") \/ UNCHANGED sendingVars
    BY <1>3 DEF HandleFrame, sendingVars
  <2> QED
    BY <2>1, <2>2 DEF SendingStep, ReceivingStep, Frames
<1>4. CASE UplinkStep
  <2>1. CASE \E acked \in BOOLEAN : OnSent(acked)
    BY <2>1 DEF OnSent, SendingStep, ReceivingStep
  <2>2. CASE GiveSendDone \/ Wake \/ ReadReport \/ SendTimeout
    BY <2>2 DEF GiveSendDone, Wake, ReadReport, SendTimeout, Returns,
        SendingStep, ReceivingStep
  <2>3. CASE OnReceived \/ DropOldest \/ QueueAgain
    BY <2>3 DEF OnReceived, DropOldest, QueueAgain, sendingVars,
        SendingStep, ReceivingStep
  <2> QED
    BY <1>4, <2>1, <2>2, <2>3 DEF UplinkStep
<1> QED
  BY <1>1, <1>2, <1>3, <1>4 DEF Next, Loop

-----------------------------------------------------------------------------
(* The sending half *)

SendingTypes ==
  /\ onAir \in Seq(Frames) /\ Len(onAir) <= MaxOnAir
  /\ {reporting, sendDone, deliverySuccess, behind} \subseteq BOOLEAN
  /\ sender \in {"Out", "Waits", "Woken"}
  /\ fate \in {"OnAir", "Acknowledged", "Unacknowledged"}

\* A send that nothing was ahead of is alone with the radio until its own report,
\* which is the last one until it returns.
OwnReportOnly ==
  ~ behind /\ sender # "Out" =>
    \/ /\ sender = "Waits" /\ fate = "OnAir" /\ Len(onAir) = 1
       /\ ~ reporting /\ ~ sendDone
    \/ /\ fate # "OnAir" /\ onAir = << >>
       /\ deliverySuccess => fate = "Acknowledged"

SendingInv == SendingTypes /\ OwnReportOnly

LEMMA InitSendingInv == Init => SendingInv
<1>1. << >> \in Seq(Frames) /\ Len(<< >>) = 0
  BY EmptySeq
<1> SUFFICES ASSUME Init PROVE SendingInv
  OBVIOUS
<1>2. /\ onAir = << >> /\ reporting = FALSE /\ sendDone = FALSE
      /\ deliverySuccess = FALSE /\ behind = FALSE
      /\ sender = "Out" /\ fate = "Unacknowledged"
  BY DEF Init, UplinkInit
<1>3. Len(onAir) <= MaxOnAir /\ onAir \in Seq(Frames)
  BY <1>1, <1>2, UplinkAssumption
<1>4. SendingTypes
  BY <1>2, <1>3 DEF SendingTypes
<1>5. OwnReportOnly
  BY <1>2 DEF OwnReportOnly
<1> QED
  BY <1>4, <1>5 DEF SendingInv

LEMMA SendStartsInv ==
  ASSUME SendingInv, NEW kind \in Frames, SendStarts(kind)
  PROVE  SendingInv'
<1>1. /\ onAir \in Seq(Frames) /\ Len(onAir) < MaxOnAir
      /\ onAir' = Append(onAir, kind)
      /\ sender' = "Waits" /\ fate' = "OnAir" /\ sendDone' = FALSE
      /\ behind' = (onAir # << >> \/ reporting)
      /\ UNCHANGED <<reporting, deliverySuccess>>
  BY DEF SendStarts, ClearSendDone, SendingInv, SendingTypes
<1>2. onAir' \in Seq(Frames) /\ Len(onAir') = Len(onAir) + 1 /\ Len(onAir) \in Nat
  BY <1>1, AppendProperties, LenProperties
<1>3. SendingTypes'
  <2>1. behind' \in BOOLEAN
    BY <1>1
  <2>2. Len(onAir') <= MaxOnAir
    BY <1>1, <1>2, UplinkAssumption
  <2>3. {reporting', sendDone', deliverySuccess', behind'} \subseteq BOOLEAN
    BY <1>1, <2>1 DEF SendingInv, SendingTypes
  <2> QED
    BY <1>1, <1>2, <2>2, <2>3 DEF SendingTypes
<1>4. ~ behind' => Len(onAir') = 1 /\ ~ reporting'
  <2>1. onAir = << >> => Len(onAir) = 0
    BY EmptySeq
  <2>2. ~ behind' => onAir = << >> /\ ~ reporting
    BY <1>1
  <2>3. reporting' = reporting
    BY <1>1
  <2> QED
    BY <1>2, <2>1, <2>2, <2>3
<1>5. OwnReportOnly'
  BY <1>1, <1>4 DEF OwnReportOnly
<1> QED
  BY <1>3, <1>5 DEF SendingInv

LEMMA OnSentInv ==
  ASSUME SendingInv, NEW acked \in BOOLEAN, OnSent(acked)
  PROVE  SendingInv'
<1>1. /\ onAir \in Seq(Frames) /\ onAir # << >> /\ ~ reporting
      /\ onAir' = Tail(onAir) /\ reporting' = TRUE /\ deliverySuccess' = acked
      /\ fate' = IF ~ OwnReport THEN fate
                 ELSE IF acked THEN "Acknowledged" ELSE "Unacknowledged"
      /\ UNCHANGED <<sender, behind, sendDone>>
  BY DEF OnSent, CallbackIdle, onReceivedVars, SendingInv, SendingTypes
<1>2. onAir' \in Seq(Frames) /\ Len(onAir') = Len(onAir) - 1 /\ Len(onAir) \in Nat
  BY <1>1, HeadTailProperties, LenProperties
<1>3. SendingTypes'
  BY <1>1, <1>2, UplinkAssumption DEF SendingInv, SendingTypes
<1>4. OwnReportOnly'
  <2> SUFFICES ASSUME ~ behind', sender' # "Out"
               PROVE  /\ fate' # "OnAir" /\ onAir' = << >>
                      /\ deliverySuccess' => fate' = "Acknowledged"
    BY DEF OwnReportOnly
  <2>1. fate = "OnAir" /\ Len(onAir) = 1
    BY <1>1 DEF SendingInv, OwnReportOnly
  <2>2. onAir' = << >>
    BY <1>2, <2>1, EmptySeq
  <2>3. fate' = IF acked THEN "Acknowledged" ELSE "Unacknowledged"
    BY <1>1, <2>1 DEF OwnReport
  <2> QED
    BY <1>1, <2>2, <2>3
<1> QED
  BY <1>3, <1>4 DEF SendingInv

LEMMA StepSendingInv == SendingInv /\ SendingStep => SendingInv'
<1> SUFFICES ASSUME SendingInv, SendingStep PROVE SendingInv'
  OBVIOUS
<1>1. ASSUME NEW kind \in Frames, SendPacket(kind) PROVE SendingInv'
  <2>1. CASE SendStarts(kind)
    BY <2>1, SendStartsInv
  <2>2. CASE SendRefused
    BY <2>2 DEF SendRefused, ClearSendDone, sendPacketVars, onSentVars, SendingInv,
        SendingTypes, OwnReportOnly
  <2> QED
    BY <1>1, <2>1, <2>2 DEF SendPacket
<1>2. CASE Wake
  BY <1>2 DEF Wake, onSentVars, SendingInv, SendingTypes, OwnReportOnly
<1>6. CASE ReadReport \/ SendTimeout
  <2>1. /\ sender' = "Out" /\ fate' = "Unacknowledged" /\ behind' = FALSE
        /\ UNCHANGED <<onAir, reporting, deliverySuccess, sendDone>>
    BY <1>6 DEF ReadReport, SendTimeout, Returns, onSentVars
  <2> QED
    BY <2>1 DEF SendingInv, SendingTypes, OwnReportOnly
<1>3. ASSUME NEW acked \in BOOLEAN, OnSent(acked) PROVE SendingInv'
  BY <1>3, OnSentInv
<1>4. CASE GiveSendDone
  BY <1>4 DEF GiveSendDone, sendPacketVars, SendingInv, SendingTypes, OwnReportOnly
<1>5. CASE UNCHANGED sendingVars
  BY <1>5 DEF sendingVars, sendPacketVars, onSentVars, SendingInv, SendingTypes,
      OwnReportOnly
<1> QED
  BY <1>1, <1>2, <1>3, <1>4, <1>5, <1>6 DEF SendingStep

\* sendPacket reports success only for a frame its peer acknowledged, whatever
\* sends timed out before and however the callback's two steps fall, unless the
\* report of an earlier frame was outstanding when it began.
THEOREM SuccessBelongsToFrame == Spec => []SuccessIsHonest
<1>1. SendingInv /\ [Next]_vars => SendingInv'
  BY StepHalves, StepSendingInv
<1>2. SendingInv => SuccessIsHonest
  BY DEF SendingInv, OwnReportOnly, SuccessIsHonest
<1> QED
  BY <1>1, <1>2, InitSendingInv, PTL DEF Spec

-----------------------------------------------------------------------------
(* The receiving half *)

InHand == IF receiving = "Idle" THEN 0 ELSE 1

\* The queue without its types: entry i of n has seen n - i frames come after it.
Newest == \A i \in 1 .. Len(rxQueue) : rxQueue[i] = Len(rxQueue) - i + InHand

ReceivingInv ==
  /\ rxQueue \in Seq(Nat) /\ Len(rxQueue) <= RxQueueDepth
  /\ receiving \in {"Idle", "Full", "MadeRoom"}
  /\ receiving = "MadeRoom" => Len(rxQueue) < RxQueueDepth
  /\ Newest

LEMMA InitReceivingInv == Init => ReceivingInv
<1>1. << >> \in Seq(Nat) /\ Len(<< >>) = 0
  BY EmptySeq
<1> QED
  BY <1>1, UplinkAssumption DEF Init, UplinkInit, ReceivingInv, Newest, InHand

\* Taking the oldest entry leaves the others as they are.
LEMMA TailNewest ==
  ASSUME ReceivingInv, rxQueue # << >>
  PROVE  /\ Tail(rxQueue) \in Seq(Nat)
         /\ Len(Tail(rxQueue)) = Len(rxQueue) - 1
         /\ \A i \in 1 .. Len(Tail(rxQueue)) :
              Tail(rxQueue)[i] = Len(Tail(rxQueue)) - i + InHand
<1>1. /\ rxQueue \in Seq(Nat) /\ Len(rxQueue) \in Nat
      /\ InHand \in Nat
  BY LenProperties DEF ReceivingInv, InHand
<1>2. /\ Tail(rxQueue) \in Seq(Nat)
      /\ Len(Tail(rxQueue)) = Len(rxQueue) - 1
      /\ \A i \in 1 .. Len(Tail(rxQueue)) : Tail(rxQueue)[i] = rxQueue[i + 1]
  BY <1>1, HeadTailProperties
<1>3. ASSUME NEW i \in 1 .. Len(Tail(rxQueue))
      PROVE  Tail(rxQueue)[i] = Len(Tail(rxQueue)) - i + InHand
  <2>1. i + 1 \in 1 .. Len(rxQueue)
    BY <1>1, <1>2
  <2>2. rxQueue[i + 1] = Len(rxQueue) - (i + 1) + InHand
    BY <2>1 DEF ReceivingInv, Newest
  <2> QED
    BY <1>1, <1>2, <2>2
<1> QED
  BY <1>2, <1>3

LEMMA AgedQueue ==
  ASSUME ReceivingInv
  PROVE  /\ Aged \in Seq(Nat)
         /\ Len(Aged) = Len(rxQueue)
         /\ \A i \in 1 .. Len(rxQueue) : Aged[i] = rxQueue[i] + 1
<1>1. rxQueue \in [1 .. Len(rxQueue) -> Nat] /\ Len(rxQueue) \in Nat
  BY LenProperties DEF ReceivingInv
<1>2. Aged \in [1 .. Len(rxQueue) -> Nat]
  BY <1>1 DEF Aged
<1> QED
  BY <1>1, <1>2 DEF Aged

LEMMA OnReceivedInv == ReceivingInv /\ OnReceived => ReceivingInv'
<1> SUFFICES ASSUME ReceivingInv, OnReceived PROVE ReceivingInv'
  OBVIOUS
<1>1. /\ Aged \in Seq(Nat) /\ Len(Aged) = Len(rxQueue) /\ Len(rxQueue) \in Nat
      /\ receiving = "Idle"
  BY AgedQueue, LenProperties DEF OnReceived, CallbackIdle, ReceivingInv
<1>2. \A i \in 1 .. Len(rxQueue) : Aged[i] = Len(rxQueue) - i + 1
  <2> TAKE i \in 1 .. Len(rxQueue)
  <2>1. rxQueue[i] = Len(rxQueue) - i
    BY <1>1 DEF ReceivingInv, Newest, InHand
  <2> QED
    BY <1>1, <2>1, AgedQueue
<1>3. CASE Len(rxQueue) < RxQueueDepth
  <2>1. rxQueue' = Append(Aged, 0) /\ receiving' = "Idle"
    BY <1>1, <1>3 DEF OnReceived
  <2>2. /\ rxQueue' \in Seq(Nat) /\ Len(rxQueue') = Len(rxQueue) + 1
        /\ \A i \in 1 .. Len(rxQueue) : rxQueue'[i] = Aged[i]
        /\ rxQueue'[Len(rxQueue) + 1] = 0
    BY <1>1, <2>1, AppendProperties
  <2>3. ASSUME NEW i \in 1 .. Len(rxQueue')
        PROVE  rxQueue'[i] = Len(rxQueue') - i + 0
    <3>1. CASE i \in 1 .. Len(rxQueue)
      BY <1>1, <1>2, <2>2, <3>1
    <3>2. CASE i = Len(rxQueue) + 1
      BY <1>1, <2>2, <3>2
    <3> QED
      BY <1>1, <2>2, <3>1, <3>2
  <2> QED
    BY <1>1, <1>3, <2>1, <2>2, <2>3, UplinkAssumption DEF ReceivingInv, Newest, InHand
<1>4. CASE ~ (Len(rxQueue) < RxQueueDepth)
  <2>1. rxQueue' = Aged /\ receiving' = "Full"
    BY <1>4 DEF OnReceived
  <2> QED
    BY <1>1, <1>2, <2>1 DEF ReceivingInv, Newest, InHand
<1> QED
  BY <1>3, <1>4

LEMMA DropOldestInv == ReceivingInv /\ DropOldest => ReceivingInv'
<1> SUFFICES ASSUME ReceivingInv, DropOldest PROVE ReceivingInv'
  OBVIOUS
<1>1. receiving = "Full" /\ receiving' = "MadeRoom" /\ InHand' = InHand
  BY DEF DropOldest, InHand
<1>2. CASE rxQueue = << >>
  <2>1. rxQueue' = << >> /\ Len(rxQueue') = 0 /\ rxQueue' \in Seq(Nat)
    BY <1>2, EmptySeq DEF DropOldest
  <2> QED
    BY <1>1, <2>1, UplinkAssumption DEF ReceivingInv, Newest
<1>3. CASE rxQueue # << >>
  <2>1. rxQueue' = Tail(rxQueue)
    BY <1>3 DEF DropOldest
  <2>2. Len(rxQueue) \in Nat /\ Len(rxQueue) <= RxQueueDepth
    BY LenProperties DEF ReceivingInv
  <2> QED
    BY <1>1, <1>3, <2>1, <2>2, TailNewest, UplinkAssumption DEF ReceivingInv, Newest
<1> QED
  BY <1>2, <1>3

\* There is room, since nobody else adds to the queue.
LEMMA QueueAgainInv == ReceivingInv /\ QueueAgain => ReceivingInv'
<1> SUFFICES ASSUME ReceivingInv, QueueAgain PROVE ReceivingInv'
  OBVIOUS
<1>1. /\ rxQueue \in Seq(Nat) /\ Len(rxQueue) \in Nat /\ Len(rxQueue) < RxQueueDepth
      /\ rxQueue' = Append(rxQueue, 0)
      /\ InHand = 1 /\ receiving' = "Idle" /\ InHand' = 0
  BY LenProperties DEF ReceivingInv, QueueAgain, InHand
<1>2. /\ rxQueue' \in Seq(Nat) /\ Len(rxQueue') = Len(rxQueue) + 1
      /\ \A i \in 1 .. Len(rxQueue) : rxQueue'[i] = rxQueue[i]
      /\ rxQueue'[Len(rxQueue) + 1] = 0
  BY <1>1, AppendProperties
<1>3. \A i \in 1 .. Len(rxQueue) : rxQueue[i] = Len(rxQueue) - i + 1
  BY <1>1 DEF ReceivingInv, Newest
<1>4. ASSUME NEW i \in 1 .. Len(rxQueue')
      PROVE  rxQueue'[i] = Len(rxQueue') - i + InHand'
  <2>1. CASE i \in 1 .. Len(rxQueue)
    BY <1>1, <1>2, <1>3, <2>1
  <2>2. CASE i = Len(rxQueue) + 1
    BY <1>1, <1>2, <2>2
  <2> QED
    BY <1>1, <1>2, <2>1, <2>2
<1> QED
  BY <1>1, <1>2, <1>4, UplinkAssumption DEF ReceivingInv, Newest

LEMMA ReceivePacketInv == ReceivingInv /\ ReceivePacket => ReceivingInv'
<1> SUFFICES ASSUME ReceivingInv, ReceivePacket PROVE ReceivingInv'
  OBVIOUS
<1>1. rxQueue # << >> /\ rxQueue' = Tail(rxQueue) /\ receiving' = receiving
      /\ InHand' = InHand
  BY DEF ReceivePacket, InHand
<1>2. Len(rxQueue) \in Nat
  BY LenProperties DEF ReceivingInv
<1> QED
  BY <1>1, <1>2, TailNewest, UplinkAssumption DEF ReceivingInv, Newest

LEMMA StepReceivingInv == ReceivingInv /\ ReceivingStep => ReceivingInv'
<1>1. ReceivingInv /\ UNCHANGED onReceivedVars => ReceivingInv'
  BY DEF onReceivedVars, ReceivingInv, Newest, InHand
<1> QED
  BY <1>1, OnReceivedInv, DropOldestInv, QueueAgainInv, ReceivePacketInv
  DEF ReceivingStep

\* The receive queue holds the newest frames in order, with no gap, however the
\* loop's receives fall between the three queue calls of the callback.
THEOREM QueueKeepsNewest == Spec => []NewestKept
<1>1. ReceivingInv /\ [Next]_vars => ReceivingInv'
  BY StepHalves, StepReceivingInv
<1>2. ReceivingInv => NewestKept
  <2> SUFFICES ASSUME ReceivingInv PROVE NewestKept
    OBVIOUS
  <2>1. DOMAIN rxQueue = 1 .. Len(rxQueue)
    BY LenProperties DEF ReceivingInv
  <2> QED
    BY <2>1 DEF ReceivingInv, Newest, InHand, NewestKept
<1> QED
  BY <1>1, <1>2, InitReceivingInv, PTL DEF Spec

-----------------------------------------------------------------------------
(* Clock arithmetic *)

LEMMA OneTurn ==
  ASSUME NEW C \in Nat \ {0}, NEW x \in Int, - C <= x, x < C + C
  PROVE  x % C = IF x < 0 THEN x + C ELSE IF x < C THEN x ELSE x - C
<1>1. CASE x < 0
  BY <1>1, SMT
<1>2. CASE 0 <= x /\ x < C
  BY <1>2, SMT
<1>3. CASE C <= x
  BY <1>3, SMT
<1> QED
  BY <1>1, <1>2, <1>3

LEMMA NextTurn ==
  ASSUME NEW C \in Nat \ {0}, NEW x \in Int, 0 <= x, x < C + C
  PROVE  x % C = IF x < C THEN x ELSE x - C
<1>1. - C <= x /\ ~ (x < 0)
  OBVIOUS
<1> QED
  BY <1>1, OneTurn

\* Times t and d differ by gap, give or take one turn of a clock of C values.
Apart(t, d, gap, C) == t - d \in {gap - C, gap, gap + C}

LEMMA TickApart ==
  ASSUME NEW C \in Nat \ {0}, NEW t \in 0 .. C - 1, NEW d \in 0 .. C - 1,
         NEW gap \in Int, - C < gap + gap, gap + gap + 2 < C,
         Apart(t, d, gap, C)
  PROVE  Apart((t + 1) % C, d, gap + 1, C)
<1>1. (t + 1) % C = IF t + 1 < C THEN t + 1 ELSE t + 1 - C
  BY OneTurn
<1> QED
  BY <1>1 DEF Apart

LEMMA SetApart ==
  ASSUME NEW C \in Nat \ {0}, NEW t \in 0 .. C - 1, NEW interval \in 0 .. C
  PROVE  /\ (t + interval) % C \in 0 .. C - 1
         /\ Apart(t, (t + interval) % C, - interval, C)
<1> DEFINE x == t + interval
<1>1. x \in Int /\ 0 <= x /\ x < C + C
  OBVIOUS
<1>2. x % C = IF x < C THEN x ELSE x - C
  <2> HIDE DEF x
  <2> QED
    BY <1>1, NextTurn
<1> QED
  BY <1>1, <1>2 DEF Apart

\* The signed difference tells the sign of a gap of less than half a turn.
LEMMA DueApart ==
  ASSUME NEW C \in Nat \ {0}, C % 2 = 0, NEW t \in 0 .. C - 1, NEW d \in 0 .. C - 1,
         NEW gap \in Int, - C < gap + gap, gap + gap < C,
         Apart(t, d, gap, C)
  PROVE  (t - d) % C < C \div 2 <=> gap >= 0
<1>1. (t - d) % C = IF t - d < 0 THEN t - d + C ELSE t - d
  <2>1. t - d \in Int /\ - C <= t - d /\ t - d < C /\ t - d < C + C
    OBVIOUS
  <2> QED
    BY <2>1, OneTurn
<1>2. (t - d) % C = IF gap < 0 THEN gap + C ELSE gap
  BY <1>1 DEF Apart
<1>3. (C \div 2) + (C \div 2) = C
  OBVIOUS
<1> QED
  BY <1>2, <1>3

-----------------------------------------------------------------------------
(* The invariant *)

TimerTypes ==
  /\ at \in {"loraInit", "uplinkInit", "addPeer", "idle",
             "beaconIfDue", "handleIncoming", "relayStep"}
  /\ {now, nextBeaconAt, nextSendAt} \subseteq 0 .. ClockSize - 1
  /\ lag \in 0 .. MaxLag
  /\ sending \in NotSending .. MinAttempt
  /\ waiting \in BOOLEAN
  /\ {sinceBeacon, sinceFailure} \subseteq 0 .. SinceCap

\* Before the first beacon the clock and the counter start together.
BeaconDeadline ==
  /\ sinceBeacon <= BeaconInterval + lag
  /\ \/ Apart(now, nextBeaconAt, sinceBeacon - BeaconInterval, ClockSize)
     \/ /\ at \notin {"handleIncoming", "relayStep"}
        /\ nextBeaconAt = 0 /\ now = lag /\ sinceBeacon = lag

HoldOffDeadline ==
  sinceFailure < RetryBackoff =>
    Apart(now, nextSendAt, sinceFailure - RetryBackoff, ClockSize)

TimerInv == TimerTypes /\ BeaconDeadline /\ HoldOffDeadline

\* What the proofs use of the constants.
LEMMA Sizes ==
  /\ ClockSize \in Nat \ {0}
  /\ {BeaconInterval, RetryBackoff, MinAttempt, MaxLag} \subseteq Nat \ {0}
  /\ BeaconInterval + MaxLag + BeaconInterval + MaxLag < ClockSize
  /\ RetryBackoff + MaxLag + RetryBackoff + MaxLag < ClockSize
  /\ SinceCap = RetryBackoff + BeaconInterval + MaxLag + 1
  /\ NotSending = -1
BY TimersAssumption DEF SinceCap, NotSending

LEMMA EvenClock == ClockSize % 2 = 0
BY TimersAssumption

LEMMA InitTimerInv == Init => TimerInv
<1> SUFFICES ASSUME Init PROVE TimerInv
  OBVIOUS
<1>1. /\ now = 0 /\ lag = 0 /\ nextBeaconAt = 0 /\ nextSendAt = 0 /\ sinceBeacon = 0
      /\ at = "loraInit" /\ sending = NotSending /\ waiting = FALSE
      /\ sinceFailure = SinceCap
  BY DEF Init
<1>2. TimerTypes
  <2>1. /\ 0 \in 0 .. ClockSize - 1 /\ 0 \in 0 .. MaxLag
        /\ NotSending \in NotSending .. MinAttempt
        /\ 0 \in 0 .. SinceCap /\ SinceCap \in 0 .. SinceCap
    BY Sizes
  <2> QED
    BY <1>1, <2>1 DEF TimerTypes
<1>3. BeaconDeadline
  BY <1>1, Sizes DEF BeaconDeadline
<1>4. HoldOffDeadline
  BY <1>1, Sizes DEF HoldOffDeadline
<1> QED
  BY <1>2, <1>3, <1>4 DEF TimerInv

LEMMA TickInv == TimerInv /\ Tick => TimerInv'
<1> SUFFICES ASSUME TimerInv, Tick PROVE TimerInv'
  OBVIOUS
<1> DEFINE gap == sinceBeacon - BeaconInterval
           rest == sinceFailure - RetryBackoff
<1>1. /\ now' = (now + 1) % ClockSize
      /\ lag' = lag + 1 /\ lag < MaxLag
      /\ sinceBeacon' = CountUp(sinceBeacon) /\ sinceFailure' = CountUp(sinceFailure)
      /\ sending' = IF sending = NotSending \/ sending = MinAttempt
                    THEN sending ELSE sending + 1
      /\ at \in {"beaconIfDue", "handleIncoming", "relayStep"}
      /\ UNCHANGED <<at, nextBeaconAt, nextSendAt, waiting>>
  BY DEF Tick
<1>2. /\ now \in 0 .. ClockSize - 1 /\ nextBeaconAt \in 0 .. ClockSize - 1
      /\ nextSendAt \in 0 .. ClockSize - 1
      /\ lag \in 0 .. MaxLag /\ sinceBeacon \in 0 .. SinceCap
      /\ sinceFailure \in 0 .. SinceCap /\ sending \in NotSending .. MinAttempt
      /\ sinceBeacon <= BeaconInterval + lag
  BY DEF TimerInv, TimerTypes, BeaconDeadline
<1>3. now' \in 0 .. ClockSize - 1 /\ (now + 1 < ClockSize => now' = now + 1)
  <2> DEFINE x == now + 1
  <2>1. x \in Int /\ 0 <= x /\ x < ClockSize + ClockSize /\ ClockSize \in Nat \ {0}
    BY <1>2, Sizes
  <2>2. now' = x % ClockSize
    BY <1>1
  <2>3. now' \in 0 .. ClockSize - 1 /\ (x < ClockSize => now' = x)
    <3> HIDE DEF x
    <3>1. x % ClockSize = IF x < ClockSize THEN x ELSE x - ClockSize
      BY <2>1, NextTurn
    <3> QED
      BY <2>1, <2>2, <3>1
  <2> QED
    BY <2>3
<1>4. TimerTypes'
  <2>1. sinceBeacon' \in 0 .. SinceCap /\ sinceFailure' \in 0 .. SinceCap
    BY <1>1, <1>2, Sizes DEF CountUp
  <2>2. lag' \in 0 .. MaxLag /\ sending' \in NotSending .. MinAttempt
    BY <1>1, <1>2, Sizes
  <2> QED
    BY <1>1, <1>2, <1>3, <2>1, <2>2 DEF TimerInv, TimerTypes
<1>5. sinceBeacon' = sinceBeacon + 1
  BY <1>1, <1>2, Sizes DEF CountUp
<1>6. BeaconDeadline'
  <2>1. sinceBeacon' <= BeaconInterval + lag'
    BY <1>1, <1>2, <1>5, Sizes
  <2>2. CASE Apart(now, nextBeaconAt, gap, ClockSize)
    <3>1. gap \in Int /\ - ClockSize < gap + gap /\ gap + gap + 2 < ClockSize
      <4>1. lag < MaxLag
        BY <1>1
      <4>2. - BeaconInterval <= gap /\ gap <= lag /\ gap \in Int
        BY <1>2, Sizes
      <4> QED
        BY <1>2, <4>1, <4>2, Sizes
    <3>2. Apart(now', nextBeaconAt, gap + 1, ClockSize)
      BY <1>1, <1>2, <2>2, <3>1, Sizes, TickApart
    <3>3. gap + 1 = sinceBeacon' - BeaconInterval /\ nextBeaconAt' = nextBeaconAt
      BY <1>1, <1>2, <1>5, Sizes
    <3> QED
      BY <2>1, <3>2, <3>3 DEF BeaconDeadline
  <2>3. CASE /\ at \notin {"handleIncoming", "relayStep"}
             /\ nextBeaconAt = 0 /\ now = lag /\ sinceBeacon = lag
    <3>1. now' = lag' /\ sinceBeacon' = lag'
      BY <1>1, <1>2, <1>3, <1>5, <2>3, Sizes
    <3> QED
      BY <1>1, <2>1, <2>3, <3>1 DEF BeaconDeadline
  <2> QED
    BY <2>2, <2>3 DEF TimerInv, BeaconDeadline
<1>7. HoldOffDeadline'
  <2> SUFFICES ASSUME sinceFailure' < RetryBackoff
               PROVE  Apart(now', nextSendAt', sinceFailure' - RetryBackoff, ClockSize)
    BY DEF HoldOffDeadline
  <2>1. sinceFailure' = sinceFailure + 1 /\ sinceFailure < RetryBackoff
    BY <1>1, <1>2, Sizes DEF CountUp
  <2>2. rest \in Int /\ - ClockSize < rest + rest /\ rest + rest + 2 < ClockSize
    BY <1>2, <2>1, Sizes
  <2>3. Apart(now, nextSendAt, rest, ClockSize)
    BY <2>1 DEF TimerInv, HoldOffDeadline
  <2>4. Apart(now', nextSendAt, rest + 1, ClockSize)
    BY <1>1, <1>2, <2>2, <2>3, Sizes, TickApart
  <2>5. rest + 1 = sinceFailure' - RetryBackoff /\ nextSendAt' = nextSendAt
    BY <1>1, <1>2, <2>1, Sizes
  <2> QED
    BY <2>4, <2>5
<1> QED
  BY <1>4, <1>6, <1>7 DEF TimerInv

\* A beacon that is not due leaves less than an interval behind.
LEMMA BeaconIfDueInv == TimerInv /\ BeaconIfDue => TimerInv'
<1> SUFFICES ASSUME TimerInv, BeaconIfDue PROVE TimerInv'
  OBVIOUS
<1> DEFINE gap == sinceBeacon - BeaconInterval
<1>1. /\ lag' = 0 /\ at = "beaconIfDue" /\ at' = "handleIncoming"
      /\ UNCHANGED <<now, nextSendAt, sending, sinceFailure, waiting>>
  BY DEF BeaconIfDue, Calls, relayVars
<1>2. /\ now \in 0 .. ClockSize - 1 /\ nextBeaconAt \in 0 .. ClockSize - 1
      /\ lag \in 0 .. MaxLag /\ sinceBeacon \in 0 .. SinceCap
      /\ sinceBeacon <= BeaconInterval + lag
  BY DEF TimerInv, TimerTypes, BeaconDeadline
<1>3. HoldOffDeadline'
  BY <1>1 DEF TimerInv, HoldOffDeadline
<1>4. CASE IsDue(nextBeaconAt)
  <2>1. nextBeaconAt' = (now + BeaconInterval) % ClockSize /\ sinceBeacon' = 0
    BY <1>4 DEF BeaconIfDue, After
  <2>2. BeaconInterval \in 0 .. ClockSize
    BY Sizes
  <2>3. /\ nextBeaconAt' \in 0 .. ClockSize - 1
        /\ Apart(now, nextBeaconAt', - BeaconInterval, ClockSize)
    BY <1>2, <2>1, <2>2, Sizes, SetApart
  <2>4. sinceBeacon' - BeaconInterval = - BeaconInterval /\ lag' \in 0 .. MaxLag
        /\ sinceBeacon' <= BeaconInterval + lag' /\ sinceBeacon' \in 0 .. SinceCap
    BY <1>1, <2>1, Sizes
  <2>5. TimerTypes'
    BY <1>1, <2>3, <2>4 DEF TimerInv, TimerTypes
  <2>6. BeaconDeadline'
    BY <1>1, <2>3, <2>4 DEF BeaconDeadline
  <2> QED
    BY <1>3, <2>5, <2>6 DEF TimerInv
<1>5. CASE ~ IsDue(nextBeaconAt)
  <2>1. nextBeaconAt' = nextBeaconAt /\ sinceBeacon' = sinceBeacon
    BY <1>5 DEF BeaconIfDue, beaconVars
  <2>2. Apart(now, nextBeaconAt, gap, ClockSize)
    <3>1. CASE nextBeaconAt = 0 /\ now = lag
      <4>1. Apart(now, nextBeaconAt, lag, ClockSize)
        BY <1>2, <3>1, Sizes DEF Apart
      <4>2. lag \in Int /\ - ClockSize < lag + lag /\ lag + lag < ClockSize /\ lag >= 0
        BY <1>2, Sizes
      <4> QED
        BY <1>2, <1>5, <4>1, <4>2, Sizes, EvenClock, DueApart DEF IsDue
    <3> QED
      BY <3>1 DEF TimerInv, BeaconDeadline
  <2>3. gap \in Int /\ - ClockSize < gap + gap /\ gap + gap < ClockSize
    BY <1>2, Sizes
  <2>4. ~ (gap >= 0)
    BY <1>2, <1>5, <2>2, <2>3, Sizes, EvenClock, DueApart DEF IsDue
  <2>5. sinceBeacon' <= BeaconInterval + lag' /\ lag' \in 0 .. MaxLag
    BY <1>1, <1>2, <2>1, <2>4, Sizes
  <2>6. TimerTypes'
    BY <1>1, <2>1, <2>5 DEF TimerInv, TimerTypes
  <2>7. BeaconDeadline'
    BY <1>1, <2>1, <2>2, <2>5 DEF BeaconDeadline
  <2> QED
    BY <1>3, <2>6, <2>7 DEF TimerInv
<1> QED
  BY <1>4, <1>5

LEMMA RelayStepInv == TimerInv /\ RelayStep => TimerInv'
<1> SUFFICES ASSUME TimerInv, RelayStep PROVE TimerInv'
  OBVIOUS
<1>1. /\ at = "relayStep" /\ at' = "beaconIfDue"
      /\ UNCHANGED <<now, lag, nextBeaconAt, sinceBeacon>>
  BY DEF RelayStep, Calls, beaconVars
<1>2. BeaconDeadline'
  BY <1>1 DEF TimerInv, BeaconDeadline
<1>3. CASE RelayFailed
  <2>1. /\ sending' = NotSending /\ sinceFailure' = 0 /\ waiting' = waiting
        /\ nextSendAt' = (now + RetryBackoff) % ClockSize
    BY <1>3 DEF RelayFailed, After
  <2>2. RetryBackoff \in 0 .. ClockSize /\ now \in 0 .. ClockSize - 1
    BY Sizes DEF TimerInv, TimerTypes
  <2>3. /\ nextSendAt' \in 0 .. ClockSize - 1
        /\ Apart(now, nextSendAt', - RetryBackoff, ClockSize)
    BY <2>1, <2>2, Sizes, SetApart
  <2>4. /\ sinceFailure' - RetryBackoff = - RetryBackoff
        /\ sinceFailure' \in 0 .. SinceCap /\ sending' \in NotSending .. MinAttempt
    BY <2>1, Sizes
  <2>5. TimerTypes'
    BY <1>1, <2>1, <2>3, <2>4 DEF TimerInv, TimerTypes
  <2>6. HoldOffDeadline'
    BY <1>1, <2>3, <2>4 DEF HoldOffDeadline
  <2> QED
    BY <1>2, <2>5, <2>6 DEF TimerInv
<1>4. CASE RelayPending \/ RelayAcked \/ RelayHeldOff \/ RelayNext
  <2>1. /\ UNCHANGED <<nextSendAt, sinceFailure>>
        /\ waiting' \in BOOLEAN
        /\ sending' \in {sending, NotSending, 0}
    BY <1>4 DEF RelayPending, RelayAcked, RelayHeldOff, RelayNext, relayVars,
        TimerInv, TimerTypes
  <2>2. sending' \in NotSending .. MinAttempt
    BY <2>1, Sizes DEF TimerInv, TimerTypes
  <2>3. TimerTypes' /\ HoldOffDeadline'
    BY <1>1, <2>1, <2>2 DEF TimerInv, TimerTypes, HoldOffDeadline
  <2> QED
    BY <1>2, <2>3 DEF TimerInv
<1> QED
  BY <1>3, <1>4 DEF RelayStep

\* The other steps let no time pass and set no deadline.
LEMMA OtherInv ==
  ASSUME TimerInv,
         \/ SetUp \/ HandleFrame \/ NoFrameLeft
         \/ UNCHANGED timerVars
  PROVE  TimerInv'
<1>1. /\ UNCHANGED <<now, lag, nextBeaconAt, nextSendAt, sending, sinceBeacon, sinceFailure>>
      /\ waiting' \in BOOLEAN
      /\ \/ at' = at
         \/ at' \in {"uplinkInit", "addPeer", "idle", "beaconIfDue"}
            /\ at \in {"loraInit", "uplinkInit", "addPeer"}
         \/ at = "handleIncoming" /\ at' = "relayStep"
  <2>1. CASE SetUp
    BY <2>1 DEF SetUp, LoRaReady, UplinkReady, PeerAdded, SetUpFails, Idle, vars,
        timerVars, frameVars, beaconVars, relayVars, TimerInv, TimerTypes
  <2>2. CASE HandleFrame
    BY <2>2 DEF HandleFrame, Calls, beaconVars, relayVars, TimerInv, TimerTypes
  <2>3. CASE NoFrameLeft
    BY <2>3 DEF NoFrameLeft, Calls, beaconVars, relayVars, TimerInv, TimerTypes
  <2>4. CASE UNCHANGED timerVars
    BY <2>4 DEF timerVars, beaconVars, relayVars, TimerInv, TimerTypes
  <2> QED
    BY <2>1, <2>2, <2>3, <2>4
<1> QED
  BY <1>1 DEF TimerInv, TimerTypes, BeaconDeadline, HoldOffDeadline

LEMMA StepTimerInv == TimerInv /\ [Next]_vars => TimerInv'
<1>1. UNCHANGED vars => UNCHANGED timerVars
  BY DEF vars
<1> QED
  BY <1>1, TickInv, BeaconIfDueInv, RelayStepInv, OtherInv DEF Next, Loop

-----------------------------------------------------------------------------
(* Theorems *)

\* For any clock whose half exceeds an interval and a pass of the loop, beacons
\* stay at most an interval and a pass apart, through every wrap of millis().
THEOREM BeaconsStayRegular == Spec => []BeaconsRegular
<1>1. TimerInv => BeaconsRegular
  BY Sizes DEF TimerInv, TimerTypes, BeaconDeadline, BeaconsRegular
<1> QED
  BY <1>1, InitTimerInv, StepTimerInv, PTL DEF Spec

\* For any such clock, no relay starts before the backoff after a failed one is
\* over, also when millis() wraps in between.
THEOREM HoldOffIsKept == Spec => HoldOffKept
<1>1. TimerInv /\ [Next]_vars =>
        [sending = NotSending /\ sending' # NotSending => sinceFailure >= RetryBackoff]_vars
  <2> SUFFICES ASSUME TimerInv, Next, sending = NotSending, sending' # NotSending
               PROVE  sinceFailure >= RetryBackoff
    OBVIOUS
  <2>1. RelayNext /\ IsDue(nextSendAt)
    <3>1. Next => RelayStep \/ UNCHANGED sending \/ Tick
      BY DEF Next, Loop, SetUp, LoRaReady, UplinkReady, PeerAdded, SetUpFails, Idle,
          BeaconIfDue, HandleFrame, NoFrameLeft, vars, timerVars, frameVars, relayVars
    <3>2. ~ Tick
      BY DEF Tick
    <3>3. RelayStep
      BY <3>1, <3>2
    <3> QED
      BY <3>3 DEF RelayStep, RelayPending, RelayAcked, RelayFailed, RelayHeldOff,
          RelayNext, relayVars
  <2> DEFINE rest == sinceFailure - RetryBackoff
  <2>2. /\ now \in 0 .. ClockSize - 1 /\ nextSendAt \in 0 .. ClockSize - 1
        /\ sinceFailure \in 0 .. SinceCap
    BY DEF TimerInv, TimerTypes
  <2>3. ASSUME sinceFailure < RetryBackoff PROVE FALSE
    <3>1. Apart(now, nextSendAt, rest, ClockSize)
      BY <2>3 DEF TimerInv, HoldOffDeadline
    <3>2. rest \in Int /\ - ClockSize < rest + rest /\ rest + rest < ClockSize
          /\ ~ (rest >= 0)
      BY <2>2, <2>3, Sizes
    <3> QED
      BY <2>1, <2>2, <3>1, <3>2, Sizes, EvenClock, DueApart DEF IsDue
  <2> QED
    BY <2>2, <2>3, Sizes
<1> QED
  BY <1>1, InitTimerInv, StepTimerInv, PTL DEF Spec, HoldOffKept

InstanceType == instance \in BOOLEAN

\* The types of the loop's and the uplink's state: the deadlines stay clock
\* values, and the two queues within their lengths.
THEOREM TimersTypes == Spec => []TypeOK
<1>1. Init => InstanceType
  BY DEF Init, UplinkInit, InstanceType
<1>2. InstanceType /\ [Next]_vars => InstanceType'
  BY DEF Next, Loop, SetUp, LoRaReady, UplinkReady, PeerAdded, SetUpFails, Idle, Tick,
      BeaconIfDue, HandleFrame, NoFrameLeft, RelayStep, UplinkStep, InitUplink, vars,
      uplinkVars, InstanceType
<1>3. InstanceType /\ TimerInv /\ SendingInv /\ ReceivingInv => TypeOK
  <2> SUFFICES ASSUME InstanceType, TimerInv, SendingInv, ReceivingInv
               PROVE  TypeOK
    OBVIOUS
  <2>1. rxQueue \in Seq(0 .. RxQueueDepth)
    <3> DEFINE q == [i \in 1 .. Len(rxQueue) |-> rxQueue[i]]
    <3>1. rxQueue \in [1 .. Len(rxQueue) -> Nat] /\ Len(rxQueue) \in Nat
      BY LenProperties DEF ReceivingInv
    <3>2. \A i \in 1 .. Len(rxQueue) : rxQueue[i] \in 0 .. RxQueueDepth
      BY <3>1, UplinkAssumption DEF ReceivingInv, Newest, InHand
    <3>3. q \in Seq(0 .. RxQueueDepth)
      BY <3>1, <3>2
    <3>4. rxQueue = q
      BY <3>1
    <3> HIDE DEF q
    <3> QED
      BY <3>3, <3>4
  <2>2. UplinkTypeOK
    BY <2>1 DEF UplinkTypeOK, SendingInv, SendingTypes, ReceivingInv, Frames, InstanceType
  <2> QED
    BY <2>2 DEF TypeOK, TimerInv, TimerTypes
<1>4. SendingInv /\ [Next]_vars => SendingInv'
  BY StepHalves, StepSendingInv
<1>5. ReceivingInv /\ [Next]_vars => ReceivingInv'
  BY StepHalves, StepReceivingInv
<1> QED
  BY <1>1, <1>2, <1>3, <1>4, <1>5, InitTimerInv, StepTimerInv, InitSendingInv,
     InitReceivingInv, PTL DEF Spec

=============================================================================
