---------------------------- MODULE NodeBringUp -----------------------------
(***************************************************************************)
(* A meter node's set-up: the bus its configuration chooses, and then      *)
(* endNodeBringUp (lib/bringup), one part after the other: sequence        *)
(* counter, access point, bus, reader, ESP-NOW, join.  The buses check     *)
(* their own wiring (lib/buses): pins by their pulls, the UART by a byte   *)
(* sent to itself.                                                         *)
(*                                                                         *)
(* What lies outside the node answers as it likes.  A sound node is one    *)
(* whose own flash, configuration, radio and UART work.                    *)
(***************************************************************************)
EXTENDS WifiRadio

VARIABLES
  part,       \* the part that is next; "up" and "failed" at the end
  bus,        \* parts.bus; "none" for a reader type the node has no bus for
  sound,      \* the node's own flash, configuration, radio and UART work
  polarity,   \* txInvert and rxInvert of an IR head's configuration
  wiring,     \* what is on the RX pin, with DE/RE low and with it high
  uart        \* the UART's registers and RX buffer, and whether a test byte is on its way

setUpVars == <<part, bus, sound, polarity, wiring, uart, radioVars>>

Channel == 1   \* espNow.channel

Parts == {"config", "seqCounter", "ap", "bus", "uart", "loopback", "echo", "reader",
          "link", "join", "up", "failed"}

Rs485Buses == {"Sp3485", "TcpBus", "none"}
IrBuses == {"RealIrHead", "TcpIrHead", "SimulatedIrHead"}
CvBuses == {"HttpBus"}

\* The buses with a UART, and those whose host joins the node's access point.
WiredBuses == {"Sp3485", "RealIrHead"}
ApBuses == {"TcpBus", "TcpIrHead", "HttpBus"}

\* BusPolicy::Tolerated
Tolerated == {"TcpBus", "TcpIrHead"}

Signals == {"High", "Low", "Nothing", "Noise"}

Normal == [tx |-> FALSE, rx |-> FALSE]

\* What may be in the UART's RX buffer: one byte, the test's or another, or more.
Bytes == {"None", "TestByte", "OtherByte", "More"}

UartOff == [on |-> FALSE, tx |-> FALSE, rx |-> FALSE, loopBack |-> FALSE, testing |-> FALSE,
            fifo |-> "None"]

Unwired == [LOW |-> "Nothing", HIGH |-> "Nothing"]

SetUpTypeOK ==
  /\ RadioTypeOK
  /\ part \in Parts
  /\ bus \in Rs485Buses \cup IrBuses \cup CvBuses
  /\ sound \in BOOLEAN
  /\ polarity \in [tx : BOOLEAN, rx : BOOLEAN]
  /\ wiring \in [LOW : Signals, HIGH : Signals]
  /\ uart \in [on : BOOLEAN, tx : BOOLEAN, rx : BOOLEAN,
               loopBack : BOOLEAN, testing : BOOLEAN, fifo : Bytes]

SetUpInit(buses) ==
  /\ RadioInit
  /\ part = "config"
  /\ bus \in buses
  /\ sound \in BOOLEAN
  /\ polarity \in IF bus = "RealIrHead" THEN [tx : BOOLEAN, rx : BOOLEAN] ELSE {Normal}
  /\ wiring \in IF bus \in WiredBuses THEN [LOW : Signals, HIGH : Signals] ELSE {Unwired}
  /\ bus = "RealIrHead" => wiring.HIGH = wiring.LOW   \* no DE/RE there
  /\ uart = UartOff

-----------------------------------------------------------------------------
(* The parts *)

\* A step of a part that returns ok: a sound node's own parts always do.
Outcome(ok, next) ==
  /\ sound => ok
  /\ part' = IF ok THEN next ELSE "failed"

LoadConfig ==
  /\ part = "config"
  /\ \E ok \in BOOLEAN : Outcome(ok, IF bus = "none" THEN "failed" ELSE "seqCounter")
  /\ UNCHANGED <<bus, sound, polarity, wiring, uart, radioVars>>

SeqCounterBegin ==
  /\ part = "seqCounter"
  /\ \E ok \in BOOLEAN : Outcome(ok, IF bus \in ApBuses THEN "ap" ELSE "bus")
  /\ UNCHANGED <<bus, sound, polarity, wiring, uart, radioVars>>

HostAp ==
  /\ part = "ap"
  /\ \E ok, up \in BOOLEAN : StartAp(Channel, ok, up) /\ Outcome(up, "bus")
  /\ UNCHANGED <<bus, sound, polarity, wiring, uart>>

ReaderInitialised ==
  /\ part = "reader"
  /\ \E ok \in BOOLEAN : Outcome(ok, "link")
  /\ UNCHANGED <<bus, sound, polarity, wiring, uart, radioVars>>

\* EspNowUplink::init: the station, then ESP-NOW itself.
LinkInit ==
  /\ part = "link"
  /\ \E ok, up, espNow \in BOOLEAN :
       StartStation(Channel, ok, up) /\ Outcome(up /\ espNow, "join")
  /\ UNCHANGED <<bus, sound, polarity, wiring, uart>>

\* A substation answers, or does not.
Join ==
  /\ part = "join"
  /\ part' = "up"
  /\ UNCHANGED <<bus, sound, polarity, wiring, uart, radioVars>>

-----------------------------------------------------------------------------
(* The buses *)

\* A simulator's host has joined the access point, or has not yet.
TcpBusInit ==
  /\ part = "bus"
  /\ bus \in {"TcpBus", "TcpIrHead"}
  /\ \E connected \in BOOLEAN :
       part' = IF connected \/ bus \in Tolerated THEN "reader" ELSE "failed"
  /\ UNCHANGED <<bus, sound, polarity, wiring, uart, radioVars>>

HttpBusInit ==
  /\ part = "bus"
  /\ bus = "HttpBus"
  /\ part' = IF apUp THEN "reader" ELSE "failed"
  /\ UNCHANGED <<bus, sound, polarity, wiring, uart, radioVars>>

SimulatedIrHeadInit ==
  /\ part = "bus"
  /\ bus = "SimulatedIrHead"
  /\ part' = "reader"
  /\ UNCHANGED <<bus, sound, polarity, wiring, uart, radioVars>>

\* readWithPull: a pin that nothing drives follows its pull.
ReadWithPull(signal, pull) ==
  CASE signal = "High" -> {1}
    [] signal = "Low" -> {0}
    [] signal = "Nothing" -> {pull}
    [] signal = "Noise" -> {0, 1}

ClassifyPin(up, down) ==
  CASE up = 1 /\ down = 1 -> "DrivenHigh"
    [] up = 0 /\ down = 0 -> "DrivenLow"
    [] up = 1 /\ down = 0 -> "Floating"
    [] up = 0 /\ down = 1 -> "Unstable"

\* What probePin may find on RX.
ProbePin(level) ==
  {ClassifyPin(up, down) :
     up \in ReadWithPull(wiring[level], 1), down \in ReadWithPull(wiring[level], 0)}

\* Mutant: the probe of RX with DE/RE high is left out.
ProbeReceiving ==
  /\ part = "bus"
  /\ bus = "Sp3485"
  /\ \E receiving \in ProbePin("LOW") :
       part' = IF receiving \in {"DrivenHigh", "DrivenLow"} THEN "uart" ELSE "failed"
  /\ UNCHANGED <<bus, sound, polarity, wiring, uart, radioVars>>

\* Sp3485::probe: the transceiver drives RX while it receives, and lets go of it
\* while it sends.  DE/RE is low again at the end, as init() sets it once more.
Sp3485Probe ==
  /\ part = "bus"
  /\ bus = "Sp3485"
  /\ \E receiving \in ProbePin("LOW"), sending \in ProbePin("HIGH") :
       part' = IF receiving \in {"DrivenHigh", "DrivenLow"} /\ sending = "Floating"
               THEN "uart" ELSE "failed"
  /\ UNCHANGED <<bus, sound, polarity, wiring, uart, radioVars>>

IdleDrive(rxInvert) == IF rxInvert THEN "DrivenLow" ELSE "DrivenHigh"

\* rxIdleCheck
IrHeadIdleCheck ==
  /\ part = "bus"
  /\ bus = "RealIrHead"
  /\ \E drive \in ProbePin("LOW") :
       part' = IF drive = IdleDrive(polarity.rx) THEN "uart" ELSE "failed"
  /\ UNCHANGED <<bus, sound, polarity, wiring, uart, radioVars>>

\* uartStartChecked: begin() sets both polarities to TX's, and a head's RX gets its
\* own after it.  The line may have sent something by then.
UartStart ==
  /\ part = "uart"
  /\ \E ok \in BOOLEAN, fifo \in {"None", "OtherByte"} :
       /\ Outcome(ok, "loopback")
       /\ uart' = IF ok THEN [uart EXCEPT !.on = TRUE, !.tx = polarity.tx, !.rx = polarity.rx,
                                          !.fifo = fifo]
                        ELSE uart
  /\ UNCHANGED <<bus, sound, polarity, wiring, radioVars>>

\* Mutant: RX keeps its own polarity in the test.
LoopbackUnmatched ==
  /\ part = "loopback"
  /\ uart' = [uart EXCEPT !.loopBack = TRUE, !.testing = TRUE, !.fifo = "None"]
  /\ part' = "echo"
  /\ UNCHANGED <<bus, sound, polarity, wiring, radioVars>>

\* uartLoopbackTest: the buffer is drained, RX matched to TX, and a byte written.
\* Both buses are given Serial1, so the test's first exit, for a UART that has no
\* port number (bus_checks.cpp:143), is never taken.
StartLoopback ==
  /\ part = "loopback"
  /\ uart' = [uart EXCEPT !.rx = polarity.tx, !.loopBack = TRUE, !.testing = TRUE,
                          !.fifo = "None"]
  /\ part' = "echo"
  /\ UNCHANGED <<bus, sound, polarity, wiring, radioVars>>

\* What comes back: never the byte if RX has another polarity than TX, and nothing
\* else in a sound UART.
Echo ==
  /\ part = "echo"
  /\ uart.testing
  /\ \E fifo \in {"TestByte", "OtherByte", "More"} :
       /\ fifo = "TestByte" => uart.rx = uart.tx
       /\ sound /\ uart.rx = uart.tx => fifo = "TestByte"
       /\ uart' = [uart EXCEPT !.testing = FALSE, !.fifo = fifo]
  /\ UNCHANGED <<part, bus, sound, polarity, wiring, radioVars>>

\* endLoopback
EndLoopback == [uart EXCEPT !.rx = polarity.rx, !.loopBack = FALSE, !.testing = FALSE,
                            !.fifo = "None"]

\* Mutant: the first way out of the test forgets to undo it.
NoEchoForgets ==
  /\ part = "echo"
  /\ uart.fifo = "None"
  /\ ~ sound
  /\ part' = "failed"
  /\ UNCHANGED <<bus, sound, polarity, wiring, uart, radioVars>>

\* The wait is over and nothing came.
NoEcho ==
  /\ part = "echo"
  /\ uart.fifo = "None"
  /\ ~ sound
  /\ uart' = EndLoopback
  /\ part' = "failed"
  /\ UNCHANGED <<bus, sound, polarity, wiring, radioVars>>

\* Mutant: RX is left as the test had it.
ReadEchoUnmatched ==
  /\ part = "echo"
  /\ uart.fifo # "None"
  /\ uart' = [uart EXCEPT !.loopBack = FALSE, !.testing = FALSE, !.fifo = "None"]
  /\ part' = IF uart.fifo = "TestByte" THEN "reader" ELSE "failed"
  /\ UNCHANGED <<bus, sound, polarity, wiring, radioVars>>

\* Two bytes are read at most, the test is undone, and then judged by them: the
\* byte alone passes, another byte or a second one fails.
ReadEcho ==
  /\ part = "echo"
  /\ uart.fifo # "None"
  /\ uart' = EndLoopback
  /\ part' = IF uart.fifo = "TestByte" THEN "reader" ELSE "failed"
  /\ UNCHANGED <<bus, sound, polarity, wiring, radioVars>>

SetUpNext ==
  \/ LoadConfig
  \/ SeqCounterBegin
  \/ HostAp
  \/ TcpBusInit
  \/ HttpBusInit
  \/ SimulatedIrHeadInit
  \/ Sp3485Probe
  \/ IrHeadIdleCheck
  \/ UartStart
  \/ StartLoopback
  \/ Echo
  \/ NoEcho
  \/ ReadEcho
  \/ ReaderInitialised
  \/ LinkInit
  \/ Join

\* A node that is up has no more use for what set-up worked on.
SetUpForgotten ==
  /\ part' = "config"
  /\ bus' = "none"
  /\ sound' = TRUE
  /\ polarity' = Normal
  /\ wiring' = Unwired
  /\ uart' = UartOff
  /\ apUp' = FALSE /\ stationUp' = FALSE /\ radioChannel' = 0

-----------------------------------------------------------------------------
(* Properties *)

\* What each bus needs on its RX pin, and what a pin that nothing drives firmly
\* may look like.
Wired(chance) ==
  CASE bus = "Sp3485" -> /\ wiring.LOW \in {"High", "Low"} \cup chance
                         /\ wiring.HIGH \in {"Nothing"} \cup chance
    [] bus = "RealIrHead" ->
         wiring.LOW \in {IF polarity.rx THEN "Low" ELSE "High"} \cup chance
    [] OTHER -> TRUE

\* A node idles until it is reset only for a fault of its own: an absent
\* substation, meter, camera or simulator host never keeps a sound board down
\* (end_node_bringup.h:51-52).
IdlesForOwnFaultOnly ==
  part = "failed" /\ bus # "none" => ~ sound \/ ~ Wired({})

\* A node that comes up has proved its board's own peripherals: the RX pin is
\* wired as its bus needs it, noise aside; the station is up, and beside it the
\* access point of a node that hosts one, both on the uplink's channel.
UpIsWhole ==
  part = "up" => /\ Wired({"Noise"})
                 /\ stationUp
                 /\ bus \in ApBuses => apUp
                 /\ radioChannel = Channel

\* Once the loopback test is over, by whichever of its ways out, the UART listens to
\* the line again, and for a head that passed at the polarity at which the check
\* found its line idle: begin(), the head, the test and its end have each set it.
\* Nothing the test sent is left for the reader to take for the meter's.
UartListens ==
  part \notin {"loopback", "echo"} /\ uart.on =>
    /\ ~ uart.loopBack
    /\ uart.fifo = "None"
    /\ uart.tx = polarity.tx
    /\ uart.rx = polarity.rx
    /\ part # "failed" /\ bus = "RealIrHead" =>
         wiring.LOW \in {IF uart.rx THEN "Low" ELSE "High", "Noise"}

=============================================================================
