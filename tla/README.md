# TLA+ models of the IoT firmware

The firmware (`src/`) turns ESP32-C3 boards into the nodes of a metering
network. *Meter nodes* read an electricity meter (RS485, optical IR, or a camera
at its display) about once a minute. They send each reading over ESP-NOW to a
*substation*, which buffers it, acknowledges it and relays it over LoRa to the
*gateway*, which acknowledges it in turn and publishes it to an MQTT broker.

```
 meter --bus--> meter node --ESP-NOW--> substation --LoRa--> gateway --MQTT--> broker
                SubstationLink          substation.cpp       gateway.cpp
                EspNowUplink            reading_buffer       LoRaLink (receiver)
                seq_counter             LoRaLink (sender)
```

No component can see the whole path. Each hop promises only that *an
acknowledged reading is held by the acknowledging side*, and the questions below
are all about that promise: who may forget a reading, when a duplicate is really
a duplicate, whether an answer belongs to the question, and whether the path
starts moving again after a failure. Paths below are relative to `src/`.

## Inventory

| Component | State | Operations | Talks to | What is hard | What makes it correct |
|---|---|---|---|---|---|
| Reading buffer, `lib/buffering/reading_buffer` | node slots, each with a ring; rotation index; the peeked slot | push, peek, pop, count, clear | called by the substation | a push may overwrite the peeked reading; slots change owner; ring indices wrap | one bounded FIFO per node; a pop removes what was peeked; the rotation reaches every node |
| LoRa link, `lib/links/lora_link` | phase, attempt, pending reading | beginSend, pollSend, receivePacket (sendPacket loops over the first two) | radio; the other station | lost, late, foreign packets; ACK against timer | Acked means the gateway has *this* reading; every send ends |
| Substation, `src/nodes/substation.cpp` | joined table, epoch, beacon and hold-off deadlines, in-flight reading | set-up; join, take reading, relay step, beacon | nodes over ESP-NOW; buffer; LoRa link | resends and rejoins; table and slots fill differently; reboot between ACK and relay; `millis()` wraps | an ACK is honest; nothing is buffered twice; readings leave only confirmed; the relay gets going again |
| Gateway, `src/nodes/gateway.cpp` | queue shared by two tasks; MQTT connection | receive task, publishing loop, reconnect | LoRa link; MQTT client | two FreeRTOS tasks; connection lost between publish and removal; full queue | acknowledged readings are forwarded once and in order |
| Substation link, `lib/links/substation_link` | joined, substation MAC, epoch | join, send, drainReceived | ESP-NOW uplink; substation | waits that time out while the answer is on its way; leftovers of an earlier boot or substation | delivered means buffered; agreement on who is joined; a send ends |
| Sequence counter, `lib/buffering/seq_counter` | number in RAM and in NVS | begin, next | NVS | a number used but not saved | no number names two readings |
| ESP-NOW uplink, `lib/links/esp_now_uplink` | receive queue, send semaphore and status, radio's peer table | init, send, receive, add and remove peer, two callbacks | Wi-Fi task | callbacks run in another task beside the loop; a report that comes late; a full queue | success only for a frame that was acknowledged; the newest frames are kept; no peer is left over |
| Wi-Fi radio, `lib/links/wifi_radio` | access point, station, channel | start either | Wi-Fi driver | two users of one radio, either may be refused | both on one channel |
| End node bring-up and meter gate, `lib/bringup` | the part that is next; ready, failed reads, probe timer | bring-up; ready, reportRead | configuration, counter, radio, bus, reader, link | a part that fails for a reason outside the board; probe and read alternate as the meter comes and goes | only a fault of the board keeps it idle; a lost meter is probed again; no reading while it is lost |
| Buses and their checks, `lib/buses` | UART polarities and loopback, pin pulls | init with pin probes and loopback test; send, clear, receive | pins, UART, socket | the test rewires the UART and has several ways out; noise looks like a level | a node is up only with its bus wired; the test leaves no trace |
| Meter node loops, `src/nodes/{rs485,ir,cv}_node.cpp` | READ, SEND, SLEEP | one step per loop | reader, gate, link | a failed read between two that worked leaves a mixed payload unsent | every reading sent was read in one cycle |
| Modbus, IEC 62056-21, DLMS/COSEM, camera readers, `lib/protocols` | bus timing, caches, HDLC sequence numbers | probe, get_import, get_export, get_voltage | buses | a reply that arrives after its timeout | a value is the one that was asked for |
| Entry points, NVS configuration, LoRa driver, payload JSON, simulators | – | sequential loading, pure I/O, formatting | – | – | – |

The hazards of this code, each at its line and with the properties that would
catch it, are listed in `PROJECT.json` under `hazards`.

## Modules

| Module | Models | Composes |
|---|---|---|
| `StoreForward` | what a store-and-forward buffer promises: one bounded FIFO per node and at most one claimed reading (abstract) | |
| `ReadingBuffer` | slots, rings, rotation and peeked slot of `reading_buffer.cpp` | refines `StoreForward` |
| `LoRaLink` | the LoRa hop: stepped sender, acknowledging receiver, two one-packet radios | |
| `Substation` | `substation.cpp`: joins, readings, relay, reboot | instances of `ReadingBuffer` and `LoRaLink` |
| `EspNowUplink` | the uplink: `sendPacket` and its semaphore, `onSent` and `onReceived` beside it, the receive queue | |
| `SubstationTimers` | set-up and loop of the substation as it blocks in the uplink, and its two deadlines on a wrapping clock | extends `EspNowUplink` |
| `Gateway` | the receive task and the publishing loop of `gateway.cpp` | |
| `NodeLink` | a meter node's `SubstationLink` and sequence counter against the substations' handlers over ESP-NOW queues | |
| `MeterBus` | the bus to the meter: sending, clearing, and answers that are late, lost or garbled | |
| `MeterReader` | the interface of the readers: the call under way and its result | extends `MeterBus` |
| `ModbusRtu`, `DlmsCosem`, `Iec62056`, `CamHttp` | the four readers, each with its meter | extend `MeterReader` |
| `WifiRadio` | access point and station on one channel | |
| `NodeBringUp` | a meter node's set-up, part by part, with the checks of its bus | extends `WifiRadio` |
| `MeterNode` | set-up, `MeterGate` and the three node loops | extends `NodeBringUp` and `MeterReader`; instances of the four readers |
| `MC*` | constants of the checked instances | the module after `MC` |
| `*Proofs` | theorems and their proofs | the module before `Proofs` |
| `SubstationProofs` | the substation's theorems | also instances of `ReadingBufferProofs` and `LoRaLinkProofs` |
| `NodeBringUpProofs`, `MeterNodeProofs` | theorems about a node's set-up and about its loops | extend `MeterNode`, the second also the first |

An operator whose comment begins with "Mutant" is not part of a model. It is a
wrong version of the definition that follows it, written down to show that the
properties notice: `PROJECT.json` (`mutants`) names, for every property of every
run, a wrong version that the run catches.

### How the models correspond to the code

**ReadingBuffer.** `slots`, `nextSlot`, `peekedSlot` are the file's variables;
`out` is the payload the last successful peek copied to its caller. `Push`,
`PushRefused`, `Peek`, `PeekEmpty`, `Pop`, `PopNothing`, `Clear` are the public
functions, split by what they return. `readingBufferCount` changes nothing and is
left out. A reading's number and values are one value: nothing in the buffer looks
at them. The community, unit and node type of a slot, which follow the latest
payload, are left out. The module carries the relay's rotation too: its readings
are not numbered, so they can arrive without end, which `Substation` cannot show.

**LoRaLink.** One `pollSend` is one of `Transmit`, `TransmitFails`, `Acked`,
`KeepWaiting`, `AckTimeout`, `BackoffWait`, `Retry`, `Failed`; the two timers are
nondeterministic. Each radio holds one packet, the next replaces it, and packets
of others (`OtherPacket`) arrive at any time. `maxRetries = 0` still makes one
attempt, as in the code. `AckTimeout` is guarded by the packet not being the
awaited ACK, because `pollSend` looks at the packet before it looks at the timer.

**Substation.** One step is one frame of `handleIncoming` or one `relayStep`: the
functions run one after the other in one task. The frames are the environment's:
any Join, of this epoch or another, and any device's readings in the order it
numbered them, each any number of times. Of two devices with one MAC only the one
that joined last sends readings, as `SubstationLink::send` requires. `reply` is the
frame the step sent back. `Reboot` clears everything kept in RAM; packets in the
air and at the gateway stay. Set-up, and the ways it fails, are in
`SubstationTimers`.

**EspNowUplink.** The callbacks run one at a time, in the Wi-Fi task, and the loop may
step between any two calls of a callback: between `onSent`'s store of
`deliverySuccess` and its give (`OnSent`, `GiveSendDone`), and between
`onReceived`'s queue calls (`OnReceived`, `DropOldest`, `QueueAgain`). `sendPacket`
clears the semaphore and hands over the frame in one step. That loses nothing: what a
callback does between the two it may as well do right after them, and `behind` marks a
send during which an earlier frame's report was still to come. `sender` tells whether the loop waits for the semaphore,
has taken it, or is elsewhere, so the result it reads may be a later one's. A frame in `rxQueue` stands for the number of
frames received after it, which is all that `NewestKept` needs. `onAir` is what the radio
has taken and not reported. It reports in order, and a broadcast always as sent,
since nobody acknowledges one: its success means only that it went out.

**SubstationTimers.** `IsDue` is the code's `static_cast<long>(millis() -
deadline) >= 0` modulo the clock size. `at` is the call of `substationLoop` that is next;
a send keeps the loop there until the uplink returns, and the callbacks go
on meanwhile. What a frame or a relay says is left to `Substation`: here
any frame may be answered or ignored. One pass takes at most `MaxLag` ticks. That is an assumption:
the code bounds each send by its timeout, but `handleIncoming` goes on as long as
frames are queued (`substation.cpp:213`), so nodes that send without a break could hold
off beacons and relays. Set-up initialises the radio twice (`radio->init()` and again in
`loraLink->init()`), which is one step here. `sinceBeacon` and `sinceFailure` are history.

**Gateway.** `loop` and `rx` are the points between which the other task may run.
`CheckSpace`, `ReceiveReading` and `Enqueue` are separate steps, as are `PeekReading`,
`Publish` and `Remove`. A reading is the number of its reception in this boot. The
gateway does not look for duplicates: a reading received twice is published
twice, by design. The task starts inside set-up (`xTaskCreate`), so it may receive
before the loop runs. `lost` is history: how many acknowledged readings went with a reboot.

**NodeLink.** `join`, `send` and `drainReceived` are cut where the node waits. A
wait may end before its answer, a frame may be lost, and `sendPacket` may report
either outcome whatever became of the frame. This covers a report that comes late
and is taken for that of the next frame (`esp_now_uplink.cpp:134`), which `EspNowUplink`
shows in detail. `peers` is the radio's peer table, whose few entries `join` and `forget` add and remove. `timely` is a switch that goes on once
and stays: from then on nothing is lost, nobody reboots, waits outlast answers,
which is what the lengths of the waits are chosen for (`substation_link.h:15-31`), and a
substation finds room in its table and buffer, and in the queue of a node that waits. Beacons that push
an answer out of that queue belong to the time before.
A reading has two numbers, `reading` (its real order) and `seq` (what the counter
gave it), so that the model can tell when a number names two readings. Epochs are
boot numbers; the code draws 32 random bits, so the chance of two boots with
one epoch is left out.

**MeterBus, MeterReader.** `coming` holds what the meter still sends, `arrived` what
the UART or socket has received and nobody has read. `Send` throws `arrived` away and
sends, as `Sp3485::send`, `TcpBus::send` and the IR head's caller do. A value carries
the register it was read from and whether it was asked for in the reading under
way; numbers, units and checksums are reduced to that and to "garbled". A frame cut
in two by a timeout is a timeout followed by a garbled frame. A frame in `coming` may be delivered
at any time, so it may arrive before or after the wait for it runs out. Two things bound this:
`MaxLag`, and `Quiet`, which says that after a *pause* nothing is on its
way any more. A pause is the interval between readings, the one between
probes, or the 2 s an IEC probe idles. `Quiet` is an assumption about the meter, as nothing in the
code waits for answers that are still to come. The RS485 interval is a minute from the
send, the others are `poll_ms` (a minute, if it is not set in NVS) from the start of the
reading, so a long reading leaves less of it. The 5 s between probes run from the start of a probe
(`end_node_bringup.cpp:68`), so from its end it may be about a second. `punctual` is a switch that goes on once and stays:
the meter then answers every request, and within the reader's timeout. `timedOut`
is history: a wait of a reader ran out since the last pause.

**ModbusRtu, DlmsCosem, Iec62056, CamHttp.** One step is one frame sent, one frame taken or one wait that
ran out. Modbus: a reply names slave, function and length, and not the register.
DLMS/COSEM: each read is a session (SNRM, AARQ, GET scaler_unit, GET value, DISC);
`vs` and `vr` are the reader's counters modulo 8, `meter` is the link as the meter sees it;
a value scaled with another register's scaler is `NoValue`. A refused association, a GET error and a
malformed answer are one `Error`. IEC 62056-21: `currentBaud` tells only 300 from the offered rate;
what arrives at the other rate is garbled; the head may see its own LED (echo). The ACK
goes out without clearing (`iec62056_21.cpp:177-191`). Camera: each call is an HTTP
request on a connection of its own, so it succeeds or fails.

**MeterNode.** `at` is where the loop is: at its top, or in a call of the reader, in which it
blocks. `isReady`, `probeDue`, `failedReads` are `MeterGate`'s members; `probeWaits`
stands for `lastProbeMs`, and `state` for the loops' READ, SEND, SLEEP and, for the IR and
camera nodes, for `lastPoll`. `payload` is the node's reading; at the start of a
reading the values still in it are those of an earlier one, so they become `NoValue`.
`sent` is history: whether every register of the reading sent last was asked for in
that reading and is in its own field, and whether a wait ran out before it.
`substation->send()` is one step, since `NodeLink` is about it. A reboot leads back to `Init` after seconds of set-up and
is left out: nothing of the loops outlives it.

**NodeBringUp, WifiRadio.** `part` is the part of `endNodeBringUp` that is next. What is
outside the board answers as it likes: a host joins the access point or not, a substation
answers or not. `sound` says that the board's own flash, configuration, radio and
UART work, and `wiring` what is on the RX pin with DE/RE low and high; with these,
`IdlesForOwnFaultOnly` can say what a node may be kept down by. A pin probe reads the pin
under each pull: a pin nothing drives follows the pull, noise reads as anything. `uart` holds
the polarities, the loopback switch and what is in the receive buffer (`fifo`). `begin()` sets both
polarities to TX's, the head sets RX's, the test matches RX to TX again, and each of its two ways out
(`NoEcho`, and `ReadEcho` for every byte or pair of bytes read) has an `EndLoopback` of its own to undo
that. A byte cannot be read at another polarity than it was sent at. The test's exit for a UART
without a port number (`bus_checks.cpp:143`) is left out, since both buses are given `Serial1`. Once a node is up,
`SetUpForgotten` resets these variables, as the loops never look at them. The parts that hold no state beyond
that (reader, counter, ESP-NOW itself) succeed or fail. The access point, where
there is one, is started before the station; each refuses a channel other than the one in use.

## Runs

| Run | Instance | Question and answer |
|---|---|---|
| `reading_buffer` | 3 nodes, 2 slots of 2 readings, 2 values | `SlotsConsistent`, `RingWritten`, `PeekHolds`; refinement of `StoreForward`; the rotation serves every node, if rings are not overwritten for ever. Both limits are reached, rings wrap, and a slot changes owner. Two values tell neighbours apart, which is all that order in a ring of two needs. |
| `starvation` (violated) | the same | Without that condition it does not: finding 2. |
| `lora_link` | 2 nodes, 2 readings, 2 attempts | An ACK names a reading the gateway has, `Acked` is about the reading sent, every send ends. Two attempts and two readings are enough for a late ACK of an earlier attempt, of an earlier send and of another reading. |
| `substation` | 2 nodes, 2 readings each, room for 1 node, ring of 2, retries 0 (one attempt), 1 reboot | `BufferedOnceInOrder`, `JoinedHasRoom`, and `RelayDrains`. The table is full whenever one node has joined. Resends of an attempt are in `lora_link`. |
| `substation_same_mac` | 2 boards on 1 MAC, 2 readings each, 1 slot, ring of 1, 1 reboot | `AnsweredIsKept`: the second board does not inherit the first one's number, and a joined node that finds no slot is not answered; `InFlightIsClaimed`; `LeavesConfirmed`. The ring of one makes every second reading an overwrite, also while it is on the air. |
| `substation_timers` | clock of 12, beacon every 2, backoff 3, failing send at least 1, lag 2, queues of 2 frames | `BeaconsRegular` and `HoldOffKept` through many wraps, `SuccessIsHonest`, `NewestKept`. Two frames with the radio are one that timed out and one that is waited for. |
| `hold_off` (violated) | the same | The relay is held off only after a failure: finding 1. |
| `gateway` | queue of 2, 4 readings per boot, 2 reboots | `EachForwardedOnce`, `LossBounded` and `AckedIsForwarded`. The queue fills, drains and fills again. |
| `node_link` | 1 substation, queues of 2, 2 readings, 2 Joins, 2 sends, 1 reboot, 1 lost number | `BufferedOnceInOrder`, `SendEnds`. |
| `node_link_two` | 2 substations, queues of 2, 2 readings, 1 Join, 2 sends, 1 reboot | `DeliveredWasBuffered`, `JoinedAgreement`, `PeersInUse`, `TimelySendWorks`: frames of a substation left behind are in the queue while another is joined. |
| `meter_node` | all readers and buses, every wiring and polarity, 3 answers on their way | `IdlesForOwnFaultOnly`, `UpIsWhole`, `UartListens` of set-up; `SentIsCoherent`, `ReadsAreFresh`, `SendsAgain` of the loops. Three answers are enough for one late reply to stand at the start of a session, one in the middle and one at its end. |
| `late_reply` (violated) | Modbus, 2 answers on their way | A read returns the register it is named for: finding 3. |

All runs are exhaustive for their instance. The bounds (`MaxSeq`, `MaxReboots`,
`MaxPackets`, `MaxReadings`, `MaxNvsLosses`, `MaxLag`) stand in guards and are named in each
module's `CONSTANTS`. One reboot separates two boots, and no rule of the code looks
at more than the previous boot. `SEND_ATTEMPTS` is the code's own 2, `JOIN_ATTEMPTS`
is reduced, as is the depth of queues: two entries already let a beacon push an
answer out. Deadlock is checked everywhere.

### What the deeper properties say

* `AnsweredIsKept`: when a node is told its reading was taken, it is in the buffer
  or at the gateway. That holds for a first answer and for the answer to a
  duplicate, after a rejoin, after a reboot, and when two boards share a MAC.
* `JoinedHasRoom`: a table capped at the number of slots is enough, although slots
  are claimed by readings and not by joins. This rests on slots being freed when
  they empty *and* on one UID per MAC. With two boards in turn on one MAC it does not hold: the
  first board's readings keep the slot, the second joins and is refused until they
  are relayed. Nothing is lost by that, as `AnsweredIsKept` shows for the same
  instance, so it is not listed as a finding.
* `InFlightIsClaimed`: the ACK of one reading never pops another, also when the
  one on the air was overwritten meanwhile.
* `LeavesConfirmed`: no failure of the hop, no clearing and no change of a slot's owner
  takes a reading away before the gateway has it; only a newer reading of the same node
  or a reboot does.
* `LossBounded`: what a reboot of the gateway can cost. The substation has dropped its
  copy by then, so these readings are gone: at most `READINGS_DEPTH` per
  reboot, because the reading that is acknowledged and not yet queued has a place in
  the queue waiting for it.
* `SuccessIsHonest`: a timeout leaves its frame with the radio, and a report that comes then must not
  count for the next frame. The clearing take (`esp_now_uplink.cpp:134`) ensures that for a report that has
  come by the next send. One still outstanding then is taken for that
  send's, which `esp_now_uplink.h:121` does not say; `behind` excludes this
  case. It costs a retry or a wait for an answer that does not come, and no reading:
  a reading counts as delivered only by the substation's own answer
  (`DeliveredWasBuffered`).
* `NewestKept`: if the queue is full, `onReceived` drops the oldest frame and adds its
  own, in three calls the loop may receive between. What is dropped is then a frame that need
  not have gone, but never a newer one than what stays, and there is no gap.
* `PeersInUse`: Joins that time out, substations left behind and rejoins add and
  remove peers in the right pairs. A peer too many would fill the radio's table over
  months; one too few would fail every send.
* `IdlesForOwnFaultOnly`: an idle node needs somebody to go and reset it, so nothing outside
  the board may cause it. The exception the premise names is the pin: an RX pin that picks up noise
  at boot, while its bus is unplugged say, idles the node until a reset.
* `RelayDrains`: every failed relay leaves the claim, the phase of the link and the hold-off behind, and
  each must let the next relay begin. The premise `GatewayAnswers` speaks of the radio, the
  channel and the gateway only: of a reading that is sent again and again, some sends are
  answered. A relay that stopped sending would satisfy it and violate the property, as does the
  mutant `RelayNextUnclaimed`, which takes the claim of a failed relay for one in flight.
* `UartListens`: whoever leaves the test has to put RX's polarity back and to empty the
  buffer, or the reader would start with the test's byte. One of the two ways out without
  it (`NoEchoForgets`, `ReadEchoUnmatched`) would show on heads with split polarity only. What is
  put back must be the polarity at which the head's check found its line idle.
* `EachForwardedOnce`: `xQueueSend` with no wait never meets a full queue, since
  only the task adds and it checked before it received. `xQueueReceive` never
  takes anything but what was peeked.
* `TimelySendWorks`: two attempts with one rejoin between them are enough to
  recover from a reboot of either side, whatever was left in the queues.
* `JoinedAgreement`: a node that thinks it is joined is in the table, unless the
  substation rebooted, which the epoch in its beacons shows.
* `ReadsAreFresh`: reads that fail half way and are started over do not let a late
  answer in. For DLMS/COSEM, whose replies do not name their register either, it
  rests on the kind of reply each step of a session expects: at three outstanding
  answers a late one falls short of the step it would fit, and the proof needs no
  sequence number. A reader that took any I-frame would fail (the mutant `AcceptsAny`).
  Nothing in the code keeps the answers to three. With `MaxLag = 4` the property no longer
  holds: a meter that is a whole session behind, which takes many seconds, answers the
  new session in step. The other readers need no such bound. For IEC 62056-21 it
  rests on the cache being emptied before each import, and on nothing being on its way by then.
* `SentIsCoherent`: the same of what is sent, where also the payload's own leftovers
  must not count: a getter that failed after another had stored its value, the
  import that a camera node holds back until it has the export. For Modbus it
  holds until a wait has run out, and again after the next pause.
* `SendsAgain`: no rate left over from a session, no reply left over on the bus, no link
  the meter believes up, and no closed gate keeps a node from recovering.

### Fairness

Fairness is weak fairness of the steps a running loop is bound to take, with these
additions.

* `LoRaLink`: timers run out, so `Acked \/ AckTimeout` and `Retry \/ Failed` are not
  put off for ever.
* `Substation`: strong fairness of `RelayAcked`. When the awaited ACK is in the
  radio the next poll takes it; only another packet replacing it prevents that, so
  an ACK that comes again and again is taken at some time. Beyond that only weak fairness: the loop begins,
  transmits, times out, retries and fails as it is its turn to, and a hold-off ends
  (after how long is in `SubstationTimers`). That ACKs come is not
  assumed but a premise (`GatewayAnswers`).
* `ReadingBuffer`: the relay keeps peeking, and a reading that stays peeked is
  acknowledged and popped in the end, however many of its relays fail before.
* `Gateway`: both tasks are scheduled, and reconnecting succeeds at some time.
  That the connection then holds is the premise `BrokerHolds`.
* `NodeLink`: strong fairness of each substation's handler, which a full queue in a
  timely world disables for a moment, and weak fairness of beacons. Losing every
  frame for ever stays allowed, and sends end nevertheless.

* `MeterNode`: the loop runs, and what the meter has sent arrives or is lost. That the
  meter is punctual from some time on is the premise of `SendsAgain`.

## Findings

1. **Hold-off without a failure** (`hold_off`). `nextSendAt` is set only when a
   relay fails, and compared as a signed difference at every later `relayStep`
   (`substation.cpp:287-290`). About 25 days after the last failure (or after boot)
   the difference turns negative and nothing is relayed for up to another 25 days,
   although nothing failed. The comment says that the check still works when `millis()`
   wraps. `nextBeaconAt` has no such problem, since it is renewed every second
   (`BeaconsRegular`).
2. **A busy node can starve the others** (`starvation`). The rotation advances only
   in a pop. A push that overwrites the peeked reading cancels the pop, and with it
   the advance, so a node whose full ring is overwritten during each of its relays
   is peeked again every time. The header promises the opposite. With 288 readings
   per ring and one reading a minute it takes a long outage of the LoRa hop to
   fill a ring.
3. **A late reply is taken for the next one** (`late_reply`). `TcpBus::send` and
   `Sp3485::send` discard what has arrived, which does not help against a reply that is still on its
   way, and `read_response` accepts any well-formed reply of four data bytes. When the
   meter needs longer than the 500 ms of `TIMEOUT` for the import, the retry takes
   the reply to the first request, the export takes the reply to the retry, and
   the import is sent as the export. The comment in `tcp_bus.cpp:40` claims
   that the discarding prevents this. The readings are right again after the next
   pause (`SentIsCoherent`).

Small divergences met on the way, which no run checks. `gateway.cpp:75` and
`PROTOCOLS.md:191` say that LoRa packets are not received while the gateway
reconnects to the broker. They are, by the task, until the queue is full.
`PublishFails` after a publish that did reach the broker repeats it, so the broker
may see a reading twice. A gateway that reboots loses the acknowledged readings in
its queue: `EachForwardedOnce` is per boot, and `LossBounded` says how many can go. `seqNext` (`seq_counter.cpp:36`) does
not look at whether NVS took the number; if the next boot hands it out again and the
last reading the substation had of this node carried it, the new reading is acknowledged
as a duplicate and never buffered. `DeliveredWasBuffered` is therefore checked with
`MaxNvsLosses = 0`; with 1 it fails. `ir_node.cpp:86` and `cv_node.cpp` say that a node
reads "straight away once ready, instead of waiting out a whole interval"; `lastPoll` is moved
back only in a pass that finds the meter not ready, so after a probe that passes at
once (at boot, or in the first pass after the meter was lost) the interval is waited out.

## Proofs

TLC checks small instances; these theorems hold for all values of the constants.

| Theorem | Statement | Argument |
|---|---|---|
| `ReadingBufferProofs!BufferConsistent`, `BufferTypes`, `RingsExposeWritten` | `Spec => []SlotsConsistent`, `[]TypeOK`, `[]RingWritten` | The three are inductive together. The ring arithmetic is in lemmas of its own (`head + count` modulo the size, what dropping and adding do to the written entries), so the steps need no arithmetic. |
| `ReadingBufferProofs!PeekStaysValid` | `Spec => []PeekHolds` | On top of the first: a push to the peeked slot either leaves `head` or drops the peek; a new claim never takes a used slot. |
| `ReadingBufferProofs!BufferRefinesStoreForward` | `Spec => RefinesStoreForward` | See below. |
| `LoRaLinkProofs!AckIsHonest`, `AttemptsAreBounded` | `Spec => []AckNamesReceived`, `[]TypeOK` | Inductive together, with the attempts left in each phase: `heard` becomes a payload only in `Receive`, which puts it into `received`, and nothing leaves `received`. |
| `LoRaLinkProofs!AckedMeansReceived` | `Spec => AckedIsReceived` | `Acked` compares the packet with `pending`; with the invariant above it has been received. |
| `SubstationProofs!ClaimIsOnAir` | `Spec => []InFlightIsClaimed` | See below, as for the next four. |
| `SubstationProofs!LeavesOnlyConfirmed` | `Spec => LeavesConfirmed` | |
| `SubstationProofs!AnswersAreKept` | `OneMacPerUid => (Spec => []AnsweredIsKept)` | |
| `SubstationProofs!OnceAndInOrder` | `OneUidPerMac /\ OneMacPerUid => (Spec => []BufferedOnceInOrder)` | |
| `SubstationProofs!RoomForTheJoined` | `OneUidPerMac /\ OneMacPerUid => (Spec => []JoinedHasRoom)` | |
| `SubstationProofs!SubstationStoresAndForwards` | `Spec => queues!RefinesStoreForward` | The buffer's refinement carried over to the whole: each step of the substation is one of the buffer's, a reboot its `Clear`, or leaves the buffer alone (`BufferSteps`). |
| `SubstationProofs!SubstationTypes` | `Spec => []TypeOK` | The invariants of the two parts and the types of the table. |
| `SubstationTimersProofs!SuccessBelongsToFrame`, `QueueKeepsNewest` | `Spec => []SuccessIsHonest`, `[]NewestKept` | No step mixes the sending half of the uplink's state with the receiving half, so each has an invariant of its own. |
| `SubstationTimersProofs!BeaconsStayRegular`, `HoldOffIsKept`, `TimersTypes` | `Spec => []BeaconsRegular`, `HoldOffKept`, `[]TypeOK` | See below. |
| `GatewayProofs!NothingDropped` | `Spec => []EachForwardedOnce` | See below. |
| `GatewayProofs!RebootLosesTheQueue`, `GatewayTypes` | `Spec => []LossBounded`, `[]TypeOK` | The same invariant: what is acknowledged and not forwarded fits into the queue. |
| `NodeLinkProofs!LinkKeepsOrder` | `Spec => []BufferedOnceInOrder` | See below, as for the next two. |
| `NodeLinkProofs!DeliveredMeansBuffered` | `MaxNvsLosses = 0 => (Spec => []DeliveredWasBuffered)` | |
| `NodeLinkProofs!JoinedMeansKnown` | `Spec => []JoinedAgreement` | |
| `NodeLinkProofs!PeersStayInUse`, `NodeLinkTypes` | `Spec => []PeersInUse`, `[]TypeOK` | Inductive together, with where the node can be while joined or not (`Flow`): readings are sent only while joined, and joins only while not. |
| `NodeLinkProofs!SecondAttemptWorks` | `SendAttempts >= 2 => (Spec => []TimelySendWorks)` | See below. |
| `NodeBringUpProofs!NodeIsWhole`, `SoundNodesNeverIdle`, `UartIsRestored` | `Spec => []UpIsWhole`, `[]IdlesForOwnFaultOnly`, `[]UartListens` | `SetUpInv` says what each part has established for the parts after it: the access point and its channel, the checked pin, the UART's polarities and what the test has left in it, the station. `UartIsRestored` needs of it what the pin's check found (`PinChecked`) and how each step of UART and test leaves the UART (`UartSet`). |
| `MeterNodeProofs!MeterNodeTypes` | `Spec => []TypeOK` | With the flow of the readers' calls (`Flow`): which call a reader is in, and at which step, in each state of the loops. |
| `MeterNodeProofs!ReadingsAreFresh`, `ReadingsSentAreCoherent` | `("dlms" \in Kinds => MaxLag <= 3) => (Spec => []ReadsAreFresh)`, `[]SentIsCoherent` | See below. |

**Gateway.** `EachForwardedOnce` is not inductive. The strengthening `IInv` of `GatewayProofs`
adds that the task holds a reading or is about to receive one only while the queue
has room (`RoomLeft`), which is what the separation of check and send depends on,
and that between peek and removal the peeked reading is the head of the queue
(`HeadIsPeeked`), which holds because only the loop removes. Order is stated pointwise
(`InOrder`) to keep the sequence reasoning in three lemmas.

**Refinement.** It rests on the invariant of `ReadingBufferProofs`. `HeldLaw` turns the
mapping, which looks for a node's slot, into three facts about queues; it holds in
every state, so also after a step. `OthersKept` says that a step that touches one
slot leaves the other nodes' queues alone, and `SlotsBound` counts: nodes with a slot inject into
the slots, so a push that finds one keeps within `MaxNodes`. Then each operation has
a lemma: a push is an `Accept` or an `Overwrite`, depending on the ring being full, and a pop is a
`Remove`, because by `PeekHolds` what was handed out is still the head of the queue.

**Timers.** Deadlines are compared modulo the clock, so the order of deadline and clock is
no invariant. Their distance is: `now - deadline` is, give or take one turn, the time since the deadline was
set less its interval (`Apart`). While that stays within half a turn, `IsDue` tells its
sign. The loop itself renews the beacon's deadline in time. Nobody renews the
hold-off's, so its distance is known only until the backoff is over, which is enough for
`HoldOffKept`, and is the reason for finding 1.

**Substation.** The proofs use what is proved of the parts. `SubstationProofs` instantiates
`ReadingBufferProofs` and `LoRaLinkProofs` with the substation's own variables,
shows that the substation's steps are steps of the two (`BufferSteps`, `LinkSteps`; a
reboot is the buffer's `Clear`), and gets both invariants from their theorems
(`StepCore`), together with the link between them: what is on the air is what the buffer handed out. The rest is about queues
and no longer about slots and rings: a reading is appended (`ReadingQueued`), is removed at the
head once the gateway has it (`ReadingRelayed`), or all go (`RebootEmpties`).
`AnsweredIsKept` needs that each joined node's last reading is kept too
(`LastKept`), since a duplicate is answered from the table. `BufferedOnceInOrder` needs
that this last number is the highest of the node's queue (`LastIsHighest`), and that whoever has readings
is joined (`HoldersJoined`). `JoinedHasRoom` is then a count:
were there no slot for a joined node, every slot would be another joined node's, and
there would be more joined nodes than slots. The hypotheses of these theorems say that a board has one
UID, which is its eFuse's, and one MAC: with two boards in turn on one MAC
`JoinedHasRoom` does fail.

**Node link.** What a node's frames and a substation's answers say was true when they were sent, so each
theorem needs an invariant about the frames still in the queues. For
`JoinedAgreement` it is that a JoinAck of a substation's present boot means that the
node is in its table (`JoinAcksTrue`), and that no epoch known to anybody is of a boot to
come (`EpochsPast`), or a reboot could make an old JoinAck valid. For `BufferedOnceInOrder` it
is that the readings in a substation's queue come in order, that one reading has one
number while it is there (`InboxOrdered`), and that a resend of the newest buffered reading
has the number the substation noted (`BufferOrdered`). The order does not rest on the counter: it holds
however many numbers NVS loses, because a reading that is taken for a duplicate is dropped and not
buffered. `DeliveredWasBuffered` does rest on it: with no number lost, reading and
number are the same, and every ACK on its way is of a reading that was taken (`DeliveryInv`).

`TimelySendWorks` needs to follow one send from its start (`TimelySend`). It drains the queue, so
from then on every beacon the node hears is of the present boot (`BeaconsCurrent`), a join
is offered by a substation that is up, and its answer is either in the node's queue or will be put there
by a handler that has the Join before it (`JoinOnItsWay`). What the first attempt meets is
unknown, but it can only end in an answer or in a rejoin. The second is then made at a
substation that knows the node, and its reading's answer is on its way as the Join's was
(`ReadingOnItsWay`). With one attempt the theorem would be false, hence its hypothesis;
`SEND_ATTEMPTS` is 2.

**Meter node.** What the readers can be given is the frames in the UART or socket and those on their
way, as one sequence (`Line`). The bus only thins it (`Thinned`: frames go or are garbled, and
none moves back), a request discards its front and adds an answer at its end (`SendWithin`), and a
reader takes its head (`TakeWithin`). The invariants of the readers are then about *where*
dangerous frames may be in it: among the first n (`Within`), or nowhere but at the
end (`LastOnly`).

* DLMS/COSEM (`DlmsInv`). Late readings that could pass for the one asked for are
  among the first n of the line, where n is the number of replies the session still takes before it takes
  its own value (`DlmsBacklog`): two when the AARE is awaited, one when the scaler is, none after.
  Two is `MaxLag` less the one that must go for a UA to be taken, and this is where three is
  needed. The same count excludes the scaler of another register (`DlmsScalers`). Only reads of `import` have
  an unknown past; those of the export and the voltage follow a session that succeeded,
  which leaves no I-frame (`DlmsResults`, `DlmsFollows`).
* Modbus (`ModbusInv`). Until a wait runs out there is one reply for each request, and none is
  on its way between two.
* IEC 62056-21 (`IecInv`). A reading begins after a probe or a pause, with nothing on its way, so
  the first block it sees is its own, and the cached export is from the same block.
* Camera (`CamInv`). An HTTP call returns its own answer.

`ReadingInv` carries these values through the payload: a field is fresh once the loop is past its
getter, also after a getter failed and the reading was begun again, since it begins with the import.

The assumptions are those named in the modules: sizes are positive, sentinels are
not data, `MaxRetries` is a `uint8_t`; the clock has an even number of values and half of
it is longer than an interval and a pass together (`TimersAssumption`).

Only model-checked: what is temporal under fairness (`SendEnds` of `LoRaLink` and
`NodeLink`, `RelayDrains`, `AckedIsForwarded`, `SendsAgain`, and the rotation,
`NoStarvationUnlessOverwriting`), which is out of the prover's reach. Every invariant
and every action property of the passing runs is a theorem. What the violated runs refute is found by
TLC alone.

## Plan

Done, in this order: the reading buffer with its abstract specification, the
proof that it implements it and its rotation, the LoRa hop, the substation that composes them, the timers,
the gateway, the node's link, the node's loops with their readers, the uplink with its
callbacks, set-up with the radio and the buses' checks, the proofs of the substation on those of its
parts, and those of the node's link and of its loops, reader by reader.

Left, the most important first:

1. `Path`: node, substation and gateway in one abstract chain with `NodeLink`,
   `Substation` and `Gateway` as its hops: a delivered reading reaches the broker or
   is in a list of named exceptions.
2. `EspNowUplink` composed into `NodeLink`, where today `sendPacket` may report anything. The outcomes are
   the same or fewer, so no property of `NodeLink` depends on it.

Not modelled: the entry points, which ask for a role once; configuration in NVS;
JSON, HDLC, BER and other byte formats, whose frames are told apart by kind and
by being garbled or not; the LoRa driver's SPI and settings; Wi-Fi association, NTP and the MQTT library, which are
external; simulators, tools and tests. They are sequential or pure I/O, and
the `components` of `PROJECT.json` give the reason for each.
