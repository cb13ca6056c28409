-------------------------- MODULE NodeBringUpProofs -------------------------
(***************************************************************************)
(* Proofs about the set-up of a meter node, for every reader, bus, wiring  *)
(* and polarity, as MeterNode runs it.                                     *)
(*                                                                         *)
(* The invariant says what each part has established for the parts after   *)
(* it: the access point and its channel, the checked RX pin, the UART and  *)
(* its polarities, and the station.                                        *)
(***************************************************************************)
EXTENDS MeterNode, TLAPS

\* All that a step of the node does to its set-up.
LEMMA StepSetUp == [Next]_vars => SetUpNext \/ SetUpForgotten \/ UNCHANGED setUpVars
  BY DEF Next, Loop, SetUpStep, BringUp, BringUpFails, Idle, BusStep, TurnPunctual, vars

\* What a pin that was found driven, or floating, has on it.
LEMMA ProbedDriven ==
  ASSUME NEW level, wiring[level] \in Signals, NEW drive \in ProbePin(level)
  PROVE  /\ drive = "DrivenHigh" => wiring[level] \in {"High", "Noise"}
         /\ drive = "DrivenLow" => wiring[level] \in {"Low", "Noise"}
         /\ drive = "Floating" => wiring[level] \in {"Nothing", "Noise"}
         /\ wiring[level] = "High" => drive = "DrivenHigh"
         /\ wiring[level] = "Low" => drive = "DrivenLow"
         /\ wiring[level] = "Nothing" => drive = "Floating"
<1>1. PICK up \in ReadWithPull(wiring[level], 1), down \in ReadWithPull(wiring[level], 0) :
        drive = ClassifyPin(up, down)
  BY DEF ProbePin
<1>2. CASE wiring[level] = "High"
  BY <1>1, <1>2 DEF ReadWithPull, ClassifyPin
<1>3. CASE wiring[level] = "Low"
  BY <1>1, <1>3 DEF ReadWithPull, ClassifyPin
<1>4. CASE wiring[level] = "Nothing"
  BY <1>1, <1>4 DEF ReadWithPull, ClassifyPin
<1>5. CASE wiring[level] = "Noise"
  BY <1>5
<1> QED
  BY <1>2, <1>3, <1>4, <1>5 DEF Signals

-----------------------------------------------------------------------------
(* The invariant *)

ApStarted ==
  part \notin {"config", "seqCounter", "ap", "failed"} /\ bus \in ApBuses =>
    apUp /\ radioChannel = Channel

PinChecked ==
  part \in {"uart", "loopback", "echo", "reader", "link", "join", "up"} =>
    Wired({"Noise"})

UartSet ==
  /\ uart \in [on : BOOLEAN, tx : BOOLEAN, rx : BOOLEAN,
               loopBack : BOOLEAN, testing : BOOLEAN, fifo : Bytes]
  /\ part \in {"loopback", "echo"} => uart.on
  /\ part \in {"config", "seqCounter", "ap", "bus", "uart"} => ~ uart.on
  /\ uart.on => uart.tx = polarity.tx
  /\ uart.on /\ part # "echo" => uart.rx = polarity.rx
  /\ part = "echo" => /\ uart.rx = uart.tx
                      /\ uart.fifo = "None" => uart.testing
                      /\ sound => uart.fifo \in {"None", "TestByte"}
  /\ part # "echo" => ~ uart.loopBack
  /\ part \notin {"loopback", "echo"} => uart.fifo = "None"

StationStarted == part \in {"join", "up"} => stationUp /\ radioChannel = Channel

WiringTypes ==
  /\ part \in Parts
  /\ polarity \in [tx : BOOLEAN, rx : BOOLEAN]
  /\ wiring \in [LOW : Signals, HIGH : Signals]

SetUpInv ==
  /\ WiringTypes
  /\ ApStarted
  /\ PinChecked
  /\ UartSet
  /\ StationStarted
  /\ IdlesForOwnFaultOnly

LEMMA ResetSetUpInv ==
  ASSUME part = "config", uart = UartOff, polarity \in [tx : BOOLEAN, rx : BOOLEAN],
         wiring \in [LOW : Signals, HIGH : Signals]
  PROVE  SetUpInv
BY DEF SetUpInv, WiringTypes, ApStarted, PinChecked, UartSet, StationStarted,
       IdlesForOwnFaultOnly, Parts, UartOff, Bytes

LEMMA PlainTypes ==
  /\ Normal \in [tx : BOOLEAN, rx : BOOLEAN]
  /\ Unwired \in [LOW : Signals, HIGH : Signals]
BY DEF Normal, Unwired, Signals

LEMMA InitSetUpInv == Init => SetUpInv
<1> SUFFICES ASSUME Init PROVE SetUpInv
  OBVIOUS
<1>1. part = "config" /\ uart = UartOff
  BY DEF Init, SetUpInit
<1>2. polarity \in [tx : BOOLEAN, rx : BOOLEAN]
  BY PlainTypes DEF Init, SetUpInit
<1>3. wiring \in [LOW : Signals, HIGH : Signals]
  BY PlainTypes DEF Init, SetUpInit
<1> QED
  BY <1>1, <1>2, <1>3, ResetSetUpInv

LEMMA ForgottenSetUpInv == SetUpForgotten => SetUpInv'
<1> SUFFICES ASSUME SetUpForgotten PROVE SetUpInv'
  OBVIOUS
<1>1. /\ part' = "config" /\ uart' = UartOff
      /\ polarity' \in [tx : BOOLEAN, rx : BOOLEAN]
      /\ wiring' \in [LOW : Signals, HIGH : Signals]
  BY PlainTypes DEF SetUpForgotten
<1> QED
  BY <1>1 DEF SetUpInv, WiringTypes, ApStarted, PinChecked, UartSet, StationStarted,
              IdlesForOwnFaultOnly, Parts, UartOff, Bytes

\* A part that leaves bus, pin and UART alone.
LEMMA RadioPartInv ==
  ASSUME SetUpInv, LoadConfig \/ SeqCounterBegin \/ HostAp \/ ReaderInitialised
                   \/ LinkInit \/ Join
  PROVE  SetUpInv'
<1>1. UNCHANGED <<bus, sound, polarity, wiring, uart>>
  BY DEF LoadConfig, SeqCounterBegin, HostAp, ReaderInitialised, LinkInit, Join
<1>2. /\ part \in {"config", "seqCounter", "ap", "reader", "link", "join"}
      /\ part' \in {"failed", "seqCounter", "ap", "bus", "link", "join", "up"}
      /\ part' \in {"link", "join", "up"} => part \in {"reader", "link", "join"}
      /\ part' = "failed" /\ bus # "none" => ~ sound
  BY DEF LoadConfig, SeqCounterBegin, HostAp, ReaderInitialised, LinkInit, Join, Outcome
<1>3. WiringTypes' /\ PinChecked' /\ UartSet'
  <2>1. WiringTypes' /\ PinChecked'
    BY <1>1, <1>2 DEF SetUpInv, WiringTypes, PinChecked, Wired, Parts
  <2>2. part' \in {"seqCounter", "ap", "bus"} =>
          part \in {"config", "seqCounter", "ap"}
    BY DEF LoadConfig, SeqCounterBegin, HostAp, ReaderInitialised, LinkInit, Join, Outcome
  <2>3. UartSet'
    BY <1>1, <1>2, <2>2 DEF SetUpInv, UartSet
  <2> QED
    BY <2>1, <2>3
<1>4. IdlesForOwnFaultOnly'
  BY <1>1, <1>2 DEF IdlesForOwnFaultOnly
<1>5. ApStarted' /\ StationStarted'
  <2>1. CASE LoadConfig
    BY <1>1, <2>1 DEF LoadConfig, Outcome, ApStarted, StationStarted
  <2>2. CASE SeqCounterBegin
    BY <1>1, <2>2 DEF SeqCounterBegin, Outcome, ApStarted, StationStarted
  <2>3. CASE HostAp
    BY <1>1, <2>3 DEF HostAp, StartAp, Outcome, ApStarted, StationStarted
  <2>4. CASE ReaderInitialised
    BY <1>1, <2>4 DEF ReaderInitialised, Outcome, ApStarted, StationStarted, radioVars,
        SetUpInv
  <2>5. CASE LinkInit
    <3>1. PICK ok, up, espNow \in BOOLEAN :
            StartStation(Channel, ok, up) /\ Outcome(up /\ espNow, "join")
      BY <2>5 DEF LinkInit
    <3>2. part = "link" /\ apUp' = apUp
      BY <2>5, <3>1 DEF LinkInit, StartStation
    <3>3. CASE up
      <4>1. ChannelAvailable(Channel)
        BY <3>1, <3>3 DEF StartStation
      <4> QED
        BY <1>1, <3>1, <3>2, <3>3, <4>1
           DEF StartStation, Outcome, ApStarted, StationStarted, SetUpInv
    <3>4. CASE ~ up
      <4>1. part' = "failed"
        BY <3>1, <3>4 DEF Outcome
      <4> QED
        BY <4>1 DEF ApStarted, StationStarted
    <3> QED
      BY <3>3, <3>4
  <2>6. CASE Join
    BY <1>1, <2>6 DEF Join, ApStarted, StationStarted, radioVars, SetUpInv
  <2> QED
    BY <2>1, <2>2, <2>3, <2>4, <2>5, <2>6
<1> QED
  BY <1>3, <1>4, <1>5 DEF SetUpInv

\* Buses without a UART of their own.
LEMMA PlainBusInv ==
  ASSUME SetUpInv, TcpBusInit \/ HttpBusInit \/ SimulatedIrHeadInit
  PROVE  SetUpInv'
<1>1. /\ part = "bus" /\ bus \notin WiredBuses
      /\ UNCHANGED <<bus, sound, polarity, wiring, uart, apUp, stationUp, radioChannel>>
  BY DEF TcpBusInit, HttpBusInit, SimulatedIrHeadInit, radioVars, WiredBuses
<1>2. part' = "reader"
  <2>1. HttpBusInit => apUp
    BY <1>1 DEF HttpBusInit, SetUpInv, ApStarted, ApBuses
  <2> QED
    BY <2>1 DEF TcpBusInit, HttpBusInit, SimulatedIrHeadInit, Tolerated
<1>3. Wired({"Noise"})'
  BY <1>1 DEF Wired, WiredBuses
<1> QED
  BY <1>1, <1>2, <1>3 DEF SetUpInv, WiringTypes, ApStarted, PinChecked, UartSet,
      StationStarted, IdlesForOwnFaultOnly, Parts

\* Buses with one: the check of the RX pin.
LEMMA PinCheckInv ==
  ASSUME SetUpInv, Sp3485Probe \/ IrHeadIdleCheck
  PROVE  SetUpInv'
<1>1. /\ part = "bus" /\ part' \in {"uart", "failed"}
      /\ UNCHANGED <<bus, sound, polarity, wiring, uart, apUp, stationUp, radioChannel>>
  BY DEF Sp3485Probe, IrHeadIdleCheck, radioVars
<1>2. wiring.LOW \in Signals /\ wiring.HIGH \in Signals
  BY DEF SetUpInv, WiringTypes
<1>3. /\ part' = "uart" => Wired({"Noise"})
      /\ part' = "failed" => ~ Wired({})
  <2>1. CASE Sp3485Probe
    <3>1. PICK receiving \in ProbePin("LOW"), sending \in ProbePin("HIGH") :
            part' = IF receiving \in {"DrivenHigh", "DrivenLow"} /\ sending = "Floating"
                    THEN "uart" ELSE "failed"
      BY <2>1 DEF Sp3485Probe
    <3>2. bus = "Sp3485"
      BY <2>1 DEF Sp3485Probe
    <3> QED
      BY <1>2, <3>1, <3>2, ProbedDriven DEF Wired
  <2>2. CASE IrHeadIdleCheck
    <3>1. PICK drive \in ProbePin("LOW") :
            part' = IF drive = IdleDrive(polarity.rx) THEN "uart" ELSE "failed"
      BY <2>2 DEF IrHeadIdleCheck
    <3>2. bus = "RealIrHead"
      BY <2>2 DEF IrHeadIdleCheck
    <3> QED
      BY <1>2, <3>1, <3>2, ProbedDriven DEF Wired, IdleDrive
  <2> QED
    BY <2>1, <2>2
<1>4. Wired({"Noise"})' = Wired({"Noise"}) /\ Wired({})' = Wired({})
  BY <1>1 DEF Wired
<1> QED
  BY <1>1, <1>3, <1>4 DEF SetUpInv, WiringTypes, ApStarted, PinChecked, UartSet,
      StationStarted, IdlesForOwnFaultOnly, Parts

LEMMA UartInv ==
  ASSUME SetUpInv, UartStart \/ StartLoopback \/ Echo \/ NoEcho \/ ReadEcho
  PROVE  SetUpInv'
<1>1. /\ part \in {"uart", "loopback", "echo"}
      /\ part' \in {"loopback", "echo", "reader", "failed"}
      /\ UNCHANGED <<bus, sound, polarity, wiring, apUp, stationUp, radioChannel>>
  BY DEF UartStart, StartLoopback, Echo, NoEcho, ReadEcho, Outcome, radioVars
<1>2. /\ polarity.tx \in BOOLEAN /\ polarity.rx \in BOOLEAN
      /\ {"None", "TestByte", "OtherByte", "More"} = Bytes
  BY DEF SetUpInv, WiringTypes, Bytes
<1>3. UartSet'
  <2>1. CASE UartStart
    <3>1. PICK ok \in BOOLEAN, fifo \in {"None", "OtherByte"} :
            /\ Outcome(ok, "loopback")
            /\ uart' = IF ok THEN [uart EXCEPT !.on = TRUE, !.tx = polarity.tx,
                                              !.rx = polarity.rx, !.fifo = fifo]
                             ELSE uart
      BY <2>1 DEF UartStart
    <3>2. /\ uart \in [on : BOOLEAN, tx : BOOLEAN, rx : BOOLEAN,
                       loopBack : BOOLEAN, testing : BOOLEAN, fifo : Bytes]
          /\ part = "uart" /\ ~ uart.on /\ ~ uart.loopBack /\ uart.fifo = "None"
      BY <2>1 DEF UartStart, SetUpInv, UartSet
    <3>3. CASE ok
      <4>1. part' = "loopback"
        BY <3>1, <3>3 DEF Outcome
      <4> QED
        BY <1>1, <1>2, <3>1, <3>2, <3>3, <4>1 DEF UartSet
    <3>4. CASE ~ ok
      <4>1. part' = "failed"
        BY <3>1, <3>4 DEF Outcome
      <4> QED
        BY <1>1, <3>1, <3>2, <3>4, <4>1 DEF UartSet
    <3> QED
      BY <3>3, <3>4
  <2>2. CASE StartLoopback
    BY <1>1, <1>2, <2>2 DEF StartLoopback, SetUpInv, UartSet
  <2>3. CASE Echo
    <3>1. PICK fifo \in {"TestByte", "OtherByte", "More"} :
            /\ sound /\ uart.rx = uart.tx => fifo = "TestByte"
            /\ uart' = [uart EXCEPT !.testing = FALSE, !.fifo = fifo]
      BY <2>3 DEF Echo
    <3>2. /\ uart \in [on : BOOLEAN, tx : BOOLEAN, rx : BOOLEAN,
                       loopBack : BOOLEAN, testing : BOOLEAN, fifo : Bytes]
          /\ part = "echo" /\ part' = "echo" /\ uart.on
          /\ uart.rx = uart.tx /\ uart.tx = polarity.tx
      BY <2>3 DEF Echo, SetUpInv, UartSet
    <3> QED
      BY <1>1, <1>2, <3>1, <3>2 DEF UartSet
  <2>4. CASE NoEcho
    BY <1>1, <1>2, <2>4 DEF NoEcho, EndLoopback, SetUpInv, UartSet
  <2>5. CASE ReadEcho
    BY <1>1, <1>2, <2>5 DEF ReadEcho, EndLoopback, SetUpInv, UartSet
  <2> QED
    BY <2>1, <2>2, <2>3, <2>4, <2>5
<1>4. IdlesForOwnFaultOnly'
  <2>1. part' = "failed" => ~ sound
    <3>1. part = "echo" /\ sound => uart.fifo \in {"None", "TestByte"}
      BY DEF SetUpInv, UartSet
    <3> QED
      BY <3>1 DEF UartStart, StartLoopback, Echo, NoEcho, ReadEcho, Outcome
  <2> QED
    BY <1>1, <2>1 DEF IdlesForOwnFaultOnly
<1>5. Wired({"Noise"})' = Wired({"Noise"})
  BY <1>1 DEF Wired
<1> QED
  BY <1>1, <1>3, <1>4, <1>5 DEF SetUpInv, WiringTypes, ApStarted, PinChecked,
      StationStarted, Parts

LEMMA StepSetUpInv == SetUpInv /\ [Next]_vars => SetUpInv'
<1>1. SetUpInv /\ UNCHANGED setUpVars => SetUpInv'
  BY DEF setUpVars, radioVars, SetUpInv, WiringTypes, ApStarted, PinChecked, UartSet,
         StationStarted, IdlesForOwnFaultOnly, Wired
<1> QED
  BY <1>1, StepSetUp, ForgottenSetUpInv, RadioPartInv, PlainBusInv, PinCheckInv, UartInv
  DEF SetUpNext

-----------------------------------------------------------------------------
(* Theorems *)

\* A node that comes up has its RX pin wired as its bus needs it, noise aside, and
\* its station and access point up on one channel.
THEOREM NodeIsWhole == Spec => []UpIsWhole
<1>1. SetUpInv => UpIsWhole
  BY DEF SetUpInv, PinChecked, StationStarted, ApStarted, UpIsWhole
<1> QED
  BY <1>1, InitSetUpInv, StepSetUpInv, PTL DEF Spec

\* Whatever hosts, substations and meters do, a sound and properly wired node does
\* not end up idle.
THEOREM SoundNodesNeverIdle == Spec => []IdlesForOwnFaultOnly
<1>1. SetUpInv => IdlesForOwnFaultOnly
  BY DEF SetUpInv
<1> QED
  BY <1>1, InitSetUpInv, StepSetUpInv, PTL DEF Spec

\* By whichever way the loopback test is left, the UART listens to the line, at the
\* polarities that were configured and, for a head, found its line idle, and with
\* none of the test's bytes in its buffer.
THEOREM UartIsRestored == Spec => []UartListens
<1>1. SetUpInv => UartListens
  <2> SUFFICES ASSUME SetUpInv, part \notin {"loopback", "echo"}, uart.on
               PROVE  /\ ~ uart.loopBack /\ uart.fifo = "None"
                      /\ uart.tx = polarity.tx /\ uart.rx = polarity.rx
                      /\ part # "failed" /\ bus = "RealIrHead" =>
                           wiring.LOW \in {IF uart.rx THEN "Low" ELSE "High", "Noise"}
    BY DEF UartListens
  <2>1. ~ uart.loopBack /\ uart.fifo = "None" /\ uart.tx = polarity.tx /\ uart.rx = polarity.rx
    BY DEF SetUpInv, UartSet
  <2>2. part # "failed" => Wired({"Noise"})
    BY DEF SetUpInv, UartSet, PinChecked, WiringTypes, Parts
  <2> QED
    BY <2>1, <2>2 DEF Wired
<1> QED
  BY <1>1, InitSetUpInv, StepSetUpInv, PTL DEF Spec

=============================================================================
