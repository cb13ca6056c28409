---------------------------- MODULE GatewayProofs ---------------------------
(***************************************************************************)
(* Proofs about Gateway, for any queue depth, any number of readings and   *)
(* of reboots: no acknowledged reading is dropped, forwarded twice or      *)
(* forwarded out of turn, however the task and the loop interleave.        *)
(*                                                                         *)
(* EachForwardedOnce speaks of a concatenation, which no step changes      *)
(* simply.  InOrder says the same entry by entry: the readings forwarded   *)
(* are numbered from 1, the queue goes on from Removed, the number of      *)
(* readings that have left it, and the task's reading follows.  RoomLeft   *)
(* carries the task's check of the queue over to its xQueueSend: nobody    *)
(* else adds to the queue.  HeadIsPeeked carries the loop's peek over to   *)
(* its xQueueReceive: nobody else takes from it.                           *)
(***************************************************************************)
EXTENDS Gateway, SequenceTheorems, TLAPS

Removed == IF loop = "Remove" THEN Len(forwarded) - 1 ELSE Len(forwarded)

InHandCount == IF rx = "Queue" THEN 1 ELSE 0

InOrder ==
  /\ \A k \in 1 .. Len(forwarded) : forwarded[k] = k
  /\ \A k \in 1 .. Len(queue) : queue[k] = Removed + k
  /\ acked = Removed + Len(queue) + InHandCount

RoomLeft == rx \in {"Receive", "Queue"} => Len(queue) < Depth

HeadIsPeeked ==
  /\ loop \in {"Publish", "Remove"} => Len(queue) > 0
  /\ loop = "Publish" => peeked = Len(forwarded) + 1
  /\ loop = "Remove" => Len(forwarded) > 0

IInv == TypeOK /\ InOrder /\ RoomLeft /\ HeadIsPeeked

\* The state after power-on, and after any reboot.
LEMMA EmptyIInv ==
  ASSUME /\ mqttEnabled \in BOOLEAN /\ reboots \in 0 .. MaxReboots /\ lost \in Nat
         /\ rx = "Off" /\ acked = 0 /\ queue = << >> /\ loop = "Setup"
         /\ peeked = NoReading /\ connected = FALSE /\ forwarded = << >>
  PROVE  IInv
<1>1. /\ queue \in Seq(Reading) /\ Len(queue) = 0
      /\ forwarded \in Seq(Reading) /\ Len(forwarded) = 0
  BY EmptySeq
<1>2. TypeOK
  <2>1. Len(queue) <= Depth /\ acked \in 0 .. MaxPackets
    BY <1>1, DepthAssumption, BoundsAssumption
  <2>2. rx \in RxSteps /\ loop \in LoopSteps
    BY DEF RxSteps, LoopSteps
  <2> QED
    BY <1>1, <2>1, <2>2 DEF TypeOK
<1>3. Removed = 0 /\ InHandCount = 0
  BY <1>1 DEF Removed, InHandCount
<1>4. InOrder /\ RoomLeft /\ HeadIsPeeked
  BY <1>1, <1>3 DEF InOrder, RoomLeft, HeadIsPeeked
<1> QED
  BY <1>2, <1>4 DEF IInv

LEMMA InitIInv == Init => IInv
<1>1. Init => reboots \in 0 .. MaxReboots /\ lost \in Nat
  BY BoundsAssumption DEF Init
<1> QED
  BY <1>1, EmptyIInv DEF Init

-----------------------------------------------------------------------------

\* Steps that move only the program counters, where the counters do not matter.
LEMMA SetupIInv == IInv /\ Setup => IInv'
  BY DepthAssumption, BoundsAssumption
  DEF IInv, TypeOK, InOrder, RoomLeft, HeadIsPeeked, Removed, InHandCount,
      RxSteps, LoopSteps, Setup, SetupFails, StartTask, SetupDone,
      rxVars, loopVars, envVars

LEMMA RxTaskIInv == IInv /\ RxTask => IInv'
<1> SUFFICES ASSUME IInv, RxTask PROVE IInv'
  OBVIOUS
<1> USE DepthAssumption, BoundsAssumption
<1>1. CASE CheckSpace \/ ReceiveNothing
  BY <1>1 DEF IInv, TypeOK, InOrder, RoomLeft, HeadIsPeeked, Removed, InHandCount,
      RxSteps, CheckSpace, ReceiveNothing, rxVars, loopVars, envVars
<1>2. CASE ReceiveReading
  <2>1. /\ rx = "Receive" /\ rx' = "Queue" /\ acked' = acked + 1
        /\ acked' \in 0 .. MaxPackets
        /\ UNCHANGED <<queue, loop, peeked, forwarded, connected, mqttEnabled, reboots, lost>>
    BY <1>2 DEF ReceiveReading, IInv, TypeOK, loopVars, envVars
  <2>2. TypeOK'
    BY <2>1 DEF IInv, TypeOK, RxSteps
  <2>3. /\ Removed' = Removed /\ Removed \in Int /\ Len(queue) \in Nat
        /\ InHandCount = 0 /\ InHandCount' = 1
    BY <2>1 DEF IInv, TypeOK, Removed, InHandCount
  <2>4. InOrder' /\ RoomLeft' /\ HeadIsPeeked'
    BY <2>1, <2>3 DEF IInv, InOrder, RoomLeft, HeadIsPeeked
  <2> QED
    BY <2>2, <2>4 DEF IInv
<1>3. CASE Enqueue
  <2>1. /\ queue' = Append(queue, acked)
        /\ rx = "Queue" /\ rx' = "Check"
        /\ UNCHANGED <<acked, loop, peeked, forwarded, connected, mqttEnabled, reboots, lost>>
    BY <1>3 DEF Enqueue, IInv, RoomLeft, loopVars, envVars
  <2>2. acked \in Reading /\ queue \in Seq(Reading) /\ forwarded \in Seq(Reading)
    BY <2>1 DEF IInv, TypeOK, InOrder, InHandCount, Removed, HeadIsPeeked, Reading
  <2>3. /\ queue' \in Seq(Reading)
        /\ Len(queue') = Len(queue) + 1
        /\ \A k \in 1 .. Len(queue) : queue'[k] = queue[k]
        /\ queue'[Len(queue) + 1] = acked
    BY <2>1, <2>2
  <2>4. TypeOK'
    BY <2>1, <2>3 DEF IInv, TypeOK, RxSteps, RoomLeft
  <2>5. InOrder'
    <3>1. Removed' = Removed /\ Removed \in Int
      BY <2>1, <2>2 DEF Removed
    <3>2. acked = Removed + Len(queue) + 1 /\ InHandCount' = 0
      BY <2>1 DEF IInv, InOrder, InHandCount
    <3>3. ASSUME NEW k \in 1 .. Len(queue') PROVE queue'[k] = Removed + k
      <4>1. CASE k \in 1 .. Len(queue)
        BY <4>1, <2>3 DEF IInv, InOrder
      <4>2. CASE k = Len(queue) + 1
        BY <4>2, <2>2, <2>3, <3>1, <3>2
      <4> QED
        BY <2>2, <2>3, <4>1, <4>2
    <3> QED
      BY <2>1, <2>2, <2>3, <3>1, <3>2, <3>3 DEF IInv, InOrder
  <2>6. RoomLeft' /\ HeadIsPeeked'
    BY <2>1, <2>2, <2>3 DEF IInv, RoomLeft, HeadIsPeeked
  <2> QED
    BY <2>4, <2>5, <2>6 DEF IInv
<1> QED
  BY <1>1, <1>2, <1>3 DEF RxTask

\* The steps of the loop that forward and remove nothing.
LEMMA LoopWaitsIInv ==
  IInv /\ (Serve \/ StartReconnect \/ Connect \/ PeekNothing \/ PublishFails \/ Disconnect)
    => IInv'
  BY DepthAssumption, BoundsAssumption
  DEF IInv, TypeOK, InOrder, RoomLeft, HeadIsPeeked, Removed, InHandCount, LoopSteps,
      Serve, StartReconnect, Connect, PeekNothing, PublishFails, Disconnect,
      rxVars, loopVars, envVars

LEMMA PeekIInv == IInv /\ PeekReading => IInv'
<1> SUFFICES ASSUME IInv, PeekReading PROVE IInv'
  OBVIOUS
<1>1. /\ queue \in Seq(Reading) /\ forwarded \in Seq(Reading)
      /\ queue # << >> /\ peeked' = Head(queue)
      /\ loop = "Peek" /\ loop' = "Publish"
      /\ UNCHANGED <<rx, acked, queue, forwarded, connected, mqttEnabled, reboots, lost>>
  BY DEF IInv, TypeOK, PeekReading, rxVars, envVars
<1>2. Len(queue) > 0 /\ Head(queue) = queue[1] /\ Head(queue) \in Reading
  BY <1>1
<1>3. Removed' = Removed /\ Removed = Len(forwarded) /\ InHandCount' = InHandCount
  BY <1>1 DEF Removed, InHandCount
<1>4. queue[1] = Len(forwarded) + 1
  BY <1>1, <1>2, <1>3 DEF IInv, InOrder
<1>5. TypeOK'
  BY <1>1, <1>2 DEF IInv, TypeOK, LoopSteps
<1>6. InOrder' /\ RoomLeft'
  BY <1>1, <1>3 DEF IInv, InOrder, RoomLeft
<1>7. HeadIsPeeked'
  BY <1>1, <1>2, <1>4 DEF HeadIsPeeked
<1> QED
  BY <1>5, <1>6, <1>7 DEF IInv

\* Publishing, or logging, puts the peeked reading at the end of forwarded.
LEMMA ForwardIInv == IInv /\ (LogOnly \/ Publish) => IInv'
<1> SUFFICES ASSUME IInv, LogOnly \/ Publish PROVE IInv'
  OBVIOUS
<1>1. /\ queue \in Seq(Reading) /\ forwarded \in Seq(Reading)
      /\ forwarded' = Append(forwarded, peeked)
      /\ loop = "Publish" /\ loop' = "Remove"
      /\ UNCHANGED <<rx, acked, queue, peeked, connected, mqttEnabled, reboots, lost>>
  BY DEF IInv, TypeOK, LogOnly, Publish, rxVars, envVars
<1>2. Len(queue) > 0 /\ peeked = Len(forwarded) + 1 /\ peeked \in Reading
  <2>1. Len(queue) > 0 /\ peeked = Len(forwarded) + 1
    BY <1>1 DEF IInv, HeadIsPeeked
  <2> QED
    BY <1>1, <2>1 DEF IInv, TypeOK, NoReading
<1>3. /\ forwarded' \in Seq(Reading)
      /\ Len(forwarded') = Len(forwarded) + 1
      /\ \A k \in 1 .. Len(forwarded) : forwarded'[k] = forwarded[k]
      /\ forwarded'[Len(forwarded) + 1] = peeked
  BY <1>1, <1>2
<1>4. Removed' = Removed /\ InHandCount' = InHandCount
  BY <1>1, <1>3 DEF Removed, InHandCount
<1>5. TypeOK'
  BY <1>1, <1>3 DEF IInv, TypeOK, LoopSteps
<1>6. \A k \in 1 .. Len(forwarded') : forwarded'[k] = k
  BY <1>1, <1>2, <1>3 DEF IInv, InOrder
<1>7. InOrder' /\ RoomLeft'
  BY <1>1, <1>4, <1>6 DEF IInv, InOrder, RoomLeft
<1>8. HeadIsPeeked'
  BY <1>1, <1>2, <1>3 DEF HeadIsPeeked
<1> QED
  BY <1>5, <1>7, <1>8 DEF IInv

LEMMA RemoveIInv == IInv /\ Remove => IInv'
<1> SUFFICES ASSUME IInv, Remove PROVE IInv'
  OBVIOUS
<1>1. /\ queue \in Seq(Reading) /\ forwarded \in Seq(Reading)
      /\ Len(queue) > 0 /\ Len(forwarded) > 0
      /\ queue' = Tail(queue)
      /\ loop = "Remove" /\ loop' = "Top"
      /\ UNCHANGED <<rx, acked, peeked, forwarded, connected, mqttEnabled, reboots, lost>>
  BY DEF IInv, TypeOK, HeadIsPeeked, Remove, rxVars, envVars
<1>2. /\ queue' \in Seq(Reading)
      /\ Len(queue') = Len(queue) - 1
      /\ \A k \in 1 .. Len(queue') : queue'[k] = queue[k + 1]
  BY <1>1
<1>3. Removed' = Removed + 1 /\ Removed \in Int /\ InHandCount' = InHandCount
  BY <1>1 DEF Removed, InHandCount
<1>4. TypeOK'
  BY <1>1, <1>2, DepthAssumption DEF IInv, TypeOK, LoopSteps
<1>5. \A k \in 1 .. Len(queue') : queue'[k] = Removed' + k
  BY <1>1, <1>2, <1>3 DEF IInv, InOrder
<1>6. acked' = Removed' + Len(queue') + InHandCount'
  <2>1. InHandCount \in {0, 1} /\ acked = Removed + Len(queue) + InHandCount
    BY DEF IInv, InOrder, InHandCount
  <2> QED
    BY <1>1, <1>2, <1>3, <2>1
<1>7. InOrder'
  BY <1>1, <1>5, <1>6 DEF IInv, InOrder
<1>8. RoomLeft' /\ HeadIsPeeked'
  BY <1>1, <1>2, DepthAssumption DEF IInv, RoomLeft, HeadIsPeeked
<1> QED
  BY <1>4, <1>7, <1>8 DEF IInv

\* What a reboot would lose.
LEMMA UnforwardedFits == IInv => acked - Len(forwarded) \in 0 .. Depth
<1> SUFFICES ASSUME IInv PROVE acked - Len(forwarded) \in 0 .. Depth
  OBVIOUS
<1>1. Len(queue) \in Nat /\ Len(forwarded) \in Nat /\ acked \in Nat /\ Len(queue) <= Depth
  BY DEF IInv, TypeOK
<1>2. acked = Removed + Len(queue) + InHandCount
  BY DEF IInv, InOrder
<1>3. InHandCount = 0 \/ (InHandCount = 1 /\ Len(queue) < Depth)
  BY DEF IInv, RoomLeft, InHandCount
<1>4. Removed = Len(forwarded) \/ (Removed = Len(forwarded) - 1 /\ Len(queue) > 0)
  BY DEF IInv, HeadIsPeeked, Removed
<1> QED
  BY <1>1, <1>2, <1>3, <1>4, DepthAssumption

LEMMA RebootIInv == IInv /\ Reboot => IInv'
<1> SUFFICES ASSUME IInv, Reboot PROVE IInv'
  OBVIOUS
<1>1. mqttEnabled' \in BOOLEAN
  BY DEF IInv, TypeOK, Reboot
<1>2. reboots' \in 0 .. MaxReboots
  BY BoundsAssumption DEF IInv, TypeOK, Reboot
<1>3. /\ queue' \in Seq(Reading) /\ Len(queue') = 0
      /\ forwarded' \in Seq(Reading) /\ Len(forwarded') = 0
  BY EmptySeq DEF Reboot
<1>4. TypeOK'
  <2>1. Len(queue') <= Depth /\ acked' \in 0 .. MaxPackets
    BY <1>3, DepthAssumption, BoundsAssumption DEF Reboot
  <2>2. rx' \in RxSteps /\ loop' \in LoopSteps
    BY DEF Reboot, RxSteps, LoopSteps
  <2>3. peeked' \in Reading \cup {NoReading} /\ connected' \in BOOLEAN
    BY DEF Reboot
  <2>4. lost' \in Nat
    <3>1. lost \in Nat /\ Len(forwarded) \in Nat /\ acked \in Nat
          /\ lost' = lost + acked - Len(forwarded)
      BY DEF IInv, TypeOK, Reboot
    <3> QED
      BY <3>1, UnforwardedFits, DepthAssumption
  <2> QED
    BY <1>1, <1>2, <1>3, <2>1, <2>2, <2>3, <2>4 DEF TypeOK
<1>5. Removed' = 0 /\ InHandCount' = 0
  BY <1>3 DEF Removed, InHandCount, Reboot
<1>6. InOrder' /\ RoomLeft' /\ HeadIsPeeked'
  BY <1>3, <1>5 DEF InOrder, RoomLeft, HeadIsPeeked, Reboot
<1> QED
  BY <1>4, <1>6 DEF IInv

LEMMA StutterIInv == IInv /\ UNCHANGED vars => IInv'
  BY DEF IInv, TypeOK, InOrder, RoomLeft, HeadIsPeeked, Removed, InHandCount,
      vars, rxVars, loopVars, envVars

LEMMA NextIInv == IInv /\ [Next]_vars => IInv'
<1>1. IInv /\ Loop => IInv'
  BY LoopWaitsIInv, PeekIInv, ForwardIInv, RemoveIInv, StutterIInv
  DEF Loop, LoopIdle, ConnectFails
<1> QED
  BY <1>1, SetupIInv, RxTaskIInv, LoopWaitsIInv, RebootIInv, StutterIInv DEF Next

-----------------------------------------------------------------------------

\* The entries of InOrder put together again.
LEMMA InOrderConcatenates == IInv => EachForwardedOnce
<1> SUFFICES ASSUME IInv PROVE EachForwardedOnce
  OBVIOUS
<1> DEFINE all == forwarded \o Waiting \o InHand
<1>1. /\ queue \in Seq(Reading) /\ forwarded \in Seq(Reading) /\ acked \in Nat
      /\ loop = "Remove" => Len(queue) > 0 /\ Len(forwarded) > 0
  BY DEF IInv, TypeOK, HeadIsPeeked
<1>2. /\ Waiting \in Seq(Int)
      /\ \A k \in 1 .. Len(Waiting) : Waiting[k] = Len(forwarded) + k
      /\ Len(forwarded) + Len(Waiting) + InHandCount = acked
  <2>1. CASE loop = "Remove"
    <3>1. Waiting = Tail(queue) /\ Removed = Len(forwarded) - 1
      BY <2>1 DEF Waiting, Removed
    <3>2. /\ Waiting \in Seq(Int) /\ Len(Waiting) = Len(queue) - 1
          /\ \A k \in 1 .. Len(Waiting) : Waiting[k] = queue[k + 1]
      <4>1. Waiting \in Seq(Reading) /\ Reading \subseteq Int
        BY <1>1, <2>1, <3>1 DEF Reading
      <4>2. Waiting \in Seq(Int)
        BY <4>1, SeqMonotonic
      <4> QED
        BY <4>2, <1>1, <2>1, <3>1
    <3>3. \A k \in 1 .. Len(Waiting) : Waiting[k] = Len(forwarded) + k
      BY <1>1, <3>1, <3>2 DEF IInv, InOrder
    <3>4. InHandCount \in {0, 1} /\ acked = Removed + Len(queue) + InHandCount
      BY DEF IInv, InOrder, InHandCount
    <3> QED
      BY <1>1, <3>1, <3>2, <3>3, <3>4
  <2>2. CASE loop # "Remove"
    <3>1. Waiting = queue /\ Removed = Len(forwarded)
      BY <2>2 DEF Waiting, Removed
    <3> QED
      BY <1>1, <3>1 DEF IInv, InOrder, Reading
  <2> QED
    BY <2>1, <2>2
<1>3. /\ InHand \in Seq(Int) /\ Len(InHand) = InHandCount /\ InHandCount \in {0, 1}
      /\ \A k \in 1 .. Len(InHand) : InHand[k] = acked
  BY <1>1 DEF InHand, InHandCount
<1>4. /\ all \in Seq(Int)
      /\ Len(all) = acked
      /\ \A k \in 1 .. acked : all[k] = k
  <2>1. forwarded \in Seq(Int) /\ \A k \in 1 .. Len(forwarded) : forwarded[k] = k
    BY <1>1 DEF IInv, InOrder, Reading
  <2> DEFINE front == forwarded \o Waiting
  <2>2. /\ front \in Seq(Int) /\ Len(front) = Len(forwarded) + Len(Waiting)
        /\ \A k \in 1 .. Len(front) : front[k] = k
    <3>1. /\ front \in Seq(Int) /\ Len(front) = Len(forwarded) + Len(Waiting)
          /\ \A k \in 1 .. Len(forwarded) + Len(Waiting) :
               front[k] = IF k <= Len(forwarded) THEN forwarded[k]
                                                 ELSE Waiting[k - Len(forwarded)]
      BY <1>2, <2>1, ConcatProperties
    <3> HIDE DEF front
    <3>2. ASSUME NEW k \in 1 .. Len(front) PROVE front[k] = k
      <4>1. Len(forwarded) \in Nat /\ Len(Waiting) \in Nat
        BY <1>2, <2>1
      <4>2. CASE k <= Len(forwarded)
        BY <2>1, <3>1, <4>1, <4>2
      <4>3. CASE ~ k <= Len(forwarded)
        <5>1. k - Len(forwarded) \in 1 .. Len(Waiting)
          BY <3>1, <4>1, <4>3
        <5>2. front[k] = Waiting[k - Len(forwarded)]
          BY <3>1, <4>1, <4>3
        <5>3. Waiting[k - Len(forwarded)] = Len(forwarded) + (k - Len(forwarded))
          BY <1>2, <5>1
        <5> QED
          BY <3>1, <4>1, <5>2, <5>3
      <4> QED
        BY <4>2, <4>3
    <3> QED
      BY <3>1, <3>2
  <2> HIDE DEF front
  <2>3. /\ front \o InHand \in Seq(Int)
        /\ Len(front \o InHand) = Len(front) + Len(InHand)
        /\ \A k \in 1 .. Len(front) + Len(InHand) :
             (front \o InHand)[k] = IF k <= Len(front) THEN front[k]
                                                       ELSE InHand[k - Len(front)]
    BY <1>3, <2>2, ConcatProperties
  <2>4. Len(front) + Len(InHand) = acked
    BY <1>1, <1>2, <1>3, <2>1, <2>2
  <2>5. ASSUME NEW k \in 1 .. acked PROVE (front \o InHand)[k] = k
    BY <1>1, <1>3, <2>2, <2>3, <2>4
  <2> QED
    BY <2>3, <2>4, <2>5 DEF front
<1>5. all = [k \in 1 .. acked |-> k]
  <2> HIDE DEF all
  <2>1. /\ [k \in 1 .. acked |-> k] \in Seq(Int)
        /\ Len([k \in 1 .. acked |-> k]) = acked
    BY <1>1
  <2> QED
    BY <1>1, <1>4, <2>1, SeqEqual
<1> QED
  BY <1>1, <1>5 DEF EachForwardedOnce

\* Every reading the gateway acknowledged in this boot is forwarded exactly once,
\* in order, or still waits: at any queue depth, with any broker outages.
THEOREM NothingDropped == Spec => []EachForwardedOnce
  BY InitIInv, NextIInv, InOrderConcatenates, PTL DEF Spec

-----------------------------------------------------------------------------

LEMMA NextLossBounded == IInv /\ LossBounded /\ [Next]_vars => LossBounded'
<1> SUFFICES ASSUME IInv, LossBounded, [Next]_vars PROVE LossBounded'
  OBVIOUS
<1>1. CASE Reboot
  <2>1. /\ reboots' = reboots + 1
        /\ lost' = lost + acked - Len(forwarded)
    BY <1>1 DEF Reboot
  <2>2. /\ Depth \in Nat /\ reboots \in Nat /\ lost \in Nat
        /\ acked \in Nat /\ Len(forwarded) \in Nat
    BY DepthAssumption DEF IInv, TypeOK
  <2>3. acked - Len(forwarded) \in 0 .. Depth /\ lost <= Depth * reboots
    BY UnforwardedFits DEF LossBounded
  <2>4. Depth * (reboots + 1) = Depth * reboots + Depth /\ Depth * reboots \in Nat
    BY <2>2
  <2>5. lost + acked - Len(forwarded) <= Depth * reboots + Depth
    BY <2>2, <2>3, <2>4
  <2> QED
    BY <2>1, <2>4, <2>5 DEF LossBounded
<1>2. CASE UNCHANGED <<lost, reboots>>
  BY <1>2 DEF LossBounded
<1>3. Reboot \/ UNCHANGED <<lost, reboots>>
  BY DEF Next, Setup, SetupFails, StartTask, SetupDone, RxTask, CheckSpace,
      ReceiveNothing, ReceiveReading, Enqueue, Loop, LoopIdle, Serve, StartReconnect,
      Connect, ConnectFails, PeekNothing, PeekReading, LogOnly, Publish, PublishFails,
      Remove, Disconnect, vars, envVars
<1> QED
  BY <1>1, <1>2, <1>3

\* A reboot of the gateway loses at most READINGS_DEPTH acknowledged readings: at
\* any queue depth, after any number of reboots.
THEOREM RebootLosesTheQueue == Spec => []LossBounded
<1>1. Init => LossBounded
  BY DepthAssumption DEF Init, LossBounded
<1> QED
  BY <1>1, InitIInv, NextIInv, NextLossBounded, PTL DEF Spec

\* Type correctness of the gateway.
THEOREM GatewayTypes == Spec => []TypeOK
<1>1. IInv => TypeOK
  BY DEF IInv
<1> QED
  BY <1>1, InitIInv, NextIInv, PTL DEF Spec

=============================================================================
