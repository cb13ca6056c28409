------------------------------ MODULE Gateway -------------------------------
(***************************************************************************)
(* The gateway, src/nodes/gateway.cpp: a task (loraRxTask) that receives   *)
(* and acknowledges LoRa readings and queues them, and a loop              *)
(* (gatewayLoop) that publishes the queue to the MQTT broker.  The two run *)
(* side by side, as FreeRTOS tasks, and share only the queue.              *)
(*                                                                         *)
(* A reading is the number of its reception in this boot: the gateway does *)
(* not look for duplicates, so a reading received twice is two readings    *)
(* here.  MQTT is external: a connection that comes and goes, and publish  *)
(* calls that succeed or fail.                                             *)
(***************************************************************************)
EXTENDS Integers, Sequences

CONSTANTS
  Depth,        \* READINGS_DEPTH
  MaxPackets,   \* bound: readings received per boot
  MaxReboots    \* bound: reboots of the gateway

ASSUME DepthAssumption == Depth \in Nat \ {0}
ASSUME BoundsAssumption == MaxPackets \in Nat /\ MaxReboots \in Nat

VARIABLES
  mqttEnabled,   \* cfg.mqtt.enabled
  rx,            \* where loraRxTask is in its pass
  acked,         \* readings received and acknowledged in this boot
  queue,         \* the readings queue
  loop,          \* where setup, and then gatewayLoop, is in its pass
  peeked,        \* the reading gatewayLoop works on
  connected,     \* client.connected()
  forwarded,     \* readings published in this boot, or only logged without MQTT
  reboots,
  lost           \* history: readings acknowledged, not forwarded, and gone with a reboot

rxVars == <<rx, acked>>
loopVars == <<loop, peeked, forwarded>>
envVars == <<mqttEnabled, reboots, lost>>
vars == <<rxVars, queue, loopVars, connected, envVars>>

Reading == 1 .. MaxPackets

NoReading == 0

RxSteps == {"Off", "Check", "Receive", "Queue"}

LoopSteps == {"Setup", "Idle", "Top", "Reconnect", "Peek", "Publish", "Remove"}

TypeOK ==
  /\ mqttEnabled \in BOOLEAN
  /\ rx \in RxSteps
  /\ acked \in 0 .. MaxPackets
  /\ queue \in Seq(Reading)
  /\ Len(queue) <= Depth
  /\ loop \in LoopSteps
  /\ peeked \in Reading \cup {NoReading}
  /\ connected \in BOOLEAN
  /\ forwarded \in Seq(Reading)
  /\ reboots \in 0 .. MaxReboots
  /\ lost \in Nat

Init ==
  /\ mqttEnabled \in BOOLEAN
  /\ rx = "Off"
  /\ acked = 0
  /\ queue = << >>
  /\ loop = "Setup"
  /\ peeked = NoReading
  /\ connected = FALSE
  /\ forwarded = << >>
  /\ reboots = 0
  /\ lost = 0

-----------------------------------------------------------------------------
(* Setup *)

\* NVS, the radio, the queue or the task is missing: the gateway idles.
SetupFails ==
  /\ loop = "Setup"
  /\ rx = "Off"
  /\ loop' = "Idle"
  /\ UNCHANGED <<rxVars, queue, peeked, forwarded, connected, envVars>>

\* xTaskCreate: the task receives before gatewaySetup is over.
StartTask ==
  /\ loop = "Setup"
  /\ rx = "Off"
  /\ rx' = "Check"
  /\ UNCHANGED <<acked, queue, loopVars, connected, envVars>>

SetupDone ==
  /\ loop = "Setup"
  /\ rx # "Off"
  /\ loop' = "Top"
  /\ UNCHANGED <<rxVars, queue, peeked, forwarded, connected, envVars>>

\* gatewayLoop of a gateway that is not ready.
LoopIdle ==
  /\ loop = "Idle"
  /\ UNCHANGED vars

-----------------------------------------------------------------------------
(* loraRxTask *)

\* Mutant: the task does not look at the queue before it receives.
CheckNothing ==
  /\ rx = "Check"
  /\ rx' = "Receive"
  /\ UNCHANGED <<acked, queue, loopVars, connected, envVars>>

\* Nothing is received while the queue is full.
CheckSpace ==
  /\ rx = "Check"
  /\ Len(queue) < Depth
  /\ rx' = "Receive"
  /\ UNCHANGED <<acked, queue, loopVars, connected, envVars>>

\* receivePacket has no reading to return.
ReceiveNothing ==
  /\ rx = "Receive"
  /\ rx' = "Check"
  /\ UNCHANGED <<acked, queue, loopVars, connected, envVars>>

\* receivePacket returns a reading, having acknowledged it.
ReceiveReading ==
  /\ rx = "Receive"
  /\ acked < MaxPackets
  /\ acked' = acked + 1
  /\ rx' = "Queue"
  /\ UNCHANGED <<queue, loopVars, connected, envVars>>

\* xQueueSend without a wait: a full queue would refuse the reading.
Enqueue ==
  /\ rx = "Queue"
  /\ queue' = IF Len(queue) < Depth THEN Append(queue, acked) ELSE queue
  /\ rx' = "Check"
  /\ UNCHANGED <<acked, loopVars, connected, envVars>>

-----------------------------------------------------------------------------
(* gatewayLoop *)

\* Mutant: the loop never comes back from reconnecting.
ServeFromTop ==
  /\ loop = "Top"
  /\ mqttEnabled => connected
  /\ loop' = "Peek"
  /\ UNCHANGED <<rxVars, queue, peeked, forwarded, connected, envVars>>

\* The connection is there or is not needed.
Serve ==
  /\ loop \in {"Top", "Reconnect"}
  /\ mqttEnabled => connected
  /\ loop' = "Peek"
  /\ UNCHANGED <<rxVars, queue, peeked, forwarded, connected, envVars>>

\* reconnect_mqtt blocks the loop from here on.
StartReconnect ==
  /\ loop = "Top"
  /\ mqttEnabled /\ ~ connected
  /\ loop' = "Reconnect"
  /\ UNCHANGED <<rxVars, queue, peeked, forwarded, connected, envVars>>

Connect ==
  /\ loop = "Reconnect"
  /\ ~ connected
  /\ connected' = TRUE
  /\ UNCHANGED <<rxVars, queue, loopVars, envVars>>

ConnectFails ==
  /\ loop = "Reconnect"
  /\ ~ connected
  /\ UNCHANGED vars

\* Mutant: a peek that timed out is not noticed.
PeekIgnored ==
  /\ loop = "Peek"
  /\ queue = << >>
  /\ loop' = "Publish"
  /\ UNCHANGED <<rxVars, queue, peeked, forwarded, connected, envVars>>

PeekNothing ==
  /\ loop = "Peek"
  /\ queue = << >>
  /\ loop' = "Top"
  /\ UNCHANGED <<rxVars, queue, peeked, forwarded, connected, envVars>>

\* xQueuePeek: the reading stays in the queue until it is forwarded.
PeekReading ==
  /\ loop = "Peek"
  /\ queue # << >>
  /\ peeked' = Head(queue)
  /\ loop' = "Publish"
  /\ UNCHANGED <<rxVars, queue, forwarded, connected, envVars>>

\* Without MQTT a reading is logged and taken off the queue.
LogOnly ==
  /\ loop = "Publish"
  /\ ~ mqttEnabled
  /\ forwarded' = Append(forwarded, peeked)
  /\ loop' = "Remove"
  /\ UNCHANGED <<rxVars, queue, peeked, connected, envVars>>

Publish ==
  /\ loop = "Publish"
  /\ mqttEnabled /\ connected
  /\ forwarded' = Append(forwarded, peeked)
  /\ loop' = "Remove"
  /\ UNCHANGED <<rxVars, queue, peeked, connected, envVars>>

\* The connection is down, or publish reports failure: kept for the next pass.
PublishFails ==
  /\ loop = "Publish"
  /\ mqttEnabled
  /\ loop' = "Top"
  /\ UNCHANGED <<rxVars, queue, peeked, forwarded, connected, envVars>>

\* xQueueReceive of what is at the head of the queue by now.
Remove ==
  /\ loop = "Remove"
  /\ queue' = IF queue = << >> THEN queue ELSE Tail(queue)
  /\ loop' = "Top"
  /\ UNCHANGED <<rxVars, peeked, forwarded, connected, envVars>>

-----------------------------------------------------------------------------
(* The broker's connection, and reboots *)

Disconnect ==
  /\ connected
  /\ connected' = FALSE
  /\ UNCHANGED <<rxVars, queue, loopVars, envVars>>

\* The queue is in RAM.
Reboot ==
  /\ reboots < MaxReboots
  /\ reboots' = reboots + 1
  /\ lost' = lost + acked - Len(forwarded)
  /\ rx' = "Off"
  /\ acked' = 0
  /\ queue' = << >>
  /\ loop' = "Setup"
  /\ peeked' = NoReading
  /\ connected' = FALSE
  /\ forwarded' = << >>
  /\ UNCHANGED mqttEnabled

Setup == SetupFails \/ StartTask \/ SetupDone

RxTask == CheckSpace \/ ReceiveNothing \/ ReceiveReading \/ Enqueue

Loop ==
  \/ LoopIdle
  \/ Serve
  \/ StartReconnect
  \/ Connect
  \/ ConnectFails
  \/ PeekNothing
  \/ PeekReading
  \/ LogOnly
  \/ Publish
  \/ PublishFails
  \/ Remove

Next == Setup \/ RxTask \/ Loop \/ Disconnect \/ Reboot

Spec == Init /\ [][Next]_vars

\* Both tasks are scheduled, setup ends, and the broker is not unreachable for
\* ever.
Fairness ==
  /\ WF_vars(Setup)
  /\ WF_vars(CheckSpace)
  /\ WF_vars(ReceiveNothing \/ ReceiveReading)
  /\ WF_vars(Enqueue)
  /\ WF_vars(Serve \/ StartReconnect)
  /\ WF_vars(Connect)
  /\ WF_vars(PeekNothing \/ PeekReading)
  /\ WF_vars(LogOnly \/ Publish \/ PublishFails)
  /\ WF_vars(Remove)

FairSpec == Spec /\ Fairness

-----------------------------------------------------------------------------
(* Properties *)

\* The readings still to be forwarded: the head of the queue no longer counts
\* once it is forwarded, and one reading may be on its way into the queue.
Waiting == IF loop = "Remove" THEN Tail(queue) ELSE queue

InHand == IF rx = "Queue" THEN <<acked>> ELSE << >>

\* Whatever the interleaving of the two tasks, every reading acknowledged in
\* this boot is forwarded once, waits, or is in the task's hand, in the order of
\* reception: xQueueSend never finds the queue full and xQueueReceive never
\* takes a reading that was not forwarded (PROTOCOLS.md:175-176).
EachForwardedOnce ==
  /\ loop = "Remove" => queue # << >>
  /\ forwarded \o Waiting \o InHand = [k \in 1 .. acked |-> k]

\* A reboot loses at most the queue: the gateway acknowledges no more readings
\* than it can hold, so the substation, which has popped them, loses READINGS_DEPTH
\* of them per reboot and no more.
LossBounded == lost <= Depth * reboots

\* Once the broker's connection holds and publishing succeeds, the queue gets
\* out, however long it was held up: no acknowledged reading waits for ever.
BrokerHolds == <>[][~ Disconnect /\ ~ PublishFails]_vars

AckedIsForwarded ==
  BrokerHolds => \A k \in Reading : \A n \in 0 .. MaxReboots :
                   acked >= k /\ reboots = n ~> Len(forwarded) >= k \/ reboots > n

=============================================================================
