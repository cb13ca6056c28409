----------------------------- MODULE MeterNode -----------------------------
(***************************************************************************)
(* A meter node: bring-up, the MeterGate that holds off reading until the  *)
(* meter answers, and the loop that reads the meter and sends the reading. *)
(* The RS485 node has a Modbus or a DLMS/COSEM reader, the IR node an      *)
(* IEC 62056-21 reader, and the CV node a camera, with or without a flow   *)
(* for the export.                                                         *)
(*                                                                         *)
(* NodeBringUp sets the node up; once it is up, nothing of it matters to   *)
(* the loops any more, and its variables go back to what they were.        *)
(*                                                                         *)
(* A loop blocks in its reader, so "top" is where the loops of the code    *)
(* return to.  Sending is one step here, and NodeLink's subject.           *)
(***************************************************************************)
EXTENDS MeterReader, NodeBringUp

CONSTANT Kinds   \* the readers checked

\* The readers that each node's set-up chooses from.  The loops see no difference
\* between a bus and its simulator, and the camera may have a flow for the export.
Rs485Readers == {"modbus", "dlms"}
IrReaders == {"iec"}
CvReaders == {"cam", "camExport"}

AllKinds == Rs485Readers \cup IrReaders \cup CvReaders

ASSUME KindsAssumption == Kinds \subseteq AllKinds

READS_BEFORE_LOST == 3

VARIABLES
  kind,          \* the node's reader
  at,            \* "setup", "idle", "top", or in the reader: "probe" or a register
  isReady,       \* MeterGate: a probe passed, and the meter is not lost since
  probeDue,      \* MeterGate: probe at the next ready()
  probeWaits,    \* MeterGate: the retry interval is not over
  failedReads,   \* MeterGate: failed reads in a row
  state,         \* READ, SEND or SLEEP; SLEEP while lastPoll is recent
  importVal,     \* the CV node's import, until the export is read
  payload,       \* the node's reading; NoValue stands for a value of an earlier one
  sent,          \* history: what the reading sent last was like
  vs, vr, scaler, meter,                  \* DlmsCosem
  currentBaud, cachedExport, awaitsAck    \* Iec62056

gateVars == <<isReady, probeDue, probeWaits, failedReads>>
loopVars == <<at, gateVars, state, importVal, payload, sent>>
dlmsState == <<vs, vr, scaler, meter>>
iecState == <<currentBaud, cachedExport, awaitsAck>>
vars == <<busVars, punctual, callVars, timedOut, kind, loopVars, dlmsState, iecState, setUpVars>>

Modbus == INSTANCE ModbusRtu
Dlms == INSTANCE DlmsCosem
Iec == INSTANCE Iec62056
Cam == INSTANCE CamHttp

Rs485 == kind \in Rs485Readers
Ir == kind \in IrReaders
Cv == kind \in CvReaders

NoPayload == [reg \in Registers |-> NoValue]

\* The registers a node sends.
Sends ==
  CASE Rs485 -> Registers
    [] Ir -> {"import", "export"}
    [] kind = "cam" -> {"import"}
    [] kind = "camExport" -> {"import", "export"}

\* Every value of a reading was asked for in it and is in its register's field.
Coherent(reading) == \A reg \in Sends : reading[reg] = Fresh(reg)

NothingSent == [coherent |-> TRUE, late |-> FALSE]

Buses == CASE Rs485 -> Rs485Buses [] Ir -> IrBuses [] Cv -> CvBuses

TypeOK ==
  /\ BusTypeOK
  /\ SetUpTypeOK
  /\ call \in Calls \cup {"none"}
  /\ result.status \in {"Success", "Failure"}
  /\ result.value \in Value
  /\ kind \in Kinds
  /\ at \in {"setup", "idle", "top"} \cup Calls
  /\ state \in {"READ", "SEND", "SLEEP"}
  /\ failedReads \in 0 .. READS_BEFORE_LOST
  /\ ~ isReady \/ failedReads < READS_BEFORE_LOST
  /\ importVal \in Value
  /\ payload \in [Registers -> Value]
  /\ sent \in [coherent : BOOLEAN, late : BOOLEAN]
  /\ Dlms!DlmsTypeOK
  /\ Iec!IecTypeOK

Init ==
  /\ BusInit
  /\ ReaderInit
  /\ Dlms!DlmsInit
  /\ Iec!IecInit
  /\ kind \in Kinds
  /\ SetUpInit(Buses)
  /\ at = "setup"
  /\ isReady = FALSE
  /\ probeDue = TRUE
  /\ probeWaits = FALSE
  /\ failedReads = 0
  \* lastPoll = 0: the first interval of an IR or CV node counts from boot.
  /\ state = IF Rs485 THEN "READ" ELSE "SLEEP"
  /\ importVal = NoValue
  /\ payload = NoPayload
  /\ sent = NothingSent

readerVars == <<busVars, callVars, timedOut, dlmsState, iecState>>

\* Set-up, and the end of it: the node's loop starts.
SetUpStep ==
  /\ at = "setup"
  /\ SetUpNext
  /\ UNCHANGED <<punctual, kind, loopVars, readerVars>>

BringUp ==
  /\ at = "setup"
  /\ part = "up"
  /\ at' = "top"
  /\ SetUpForgotten
  /\ UNCHANGED <<punctual, kind, gateVars, state, importVal, payload, sent, readerVars>>

\* A part failed for good, and the node idles until it is reset.
BringUpFails ==
  /\ at = "setup"
  /\ part = "failed"
  /\ at' = "idle"
  /\ UNCHANGED <<punctual, kind, gateVars, state, importVal, payload, sent, readerVars,
                 setUpVars>>

Idle == at = "idle" /\ UNCHANGED vars

-----------------------------------------------------------------------------
(* Calls of the reader *)

Call(c) ==
  /\ at' = c
  /\ call' = c
  /\ step' = "start"
  /\ UNCHANGED result

ToTop ==
  /\ at' = "top"
  /\ call' = "none"
  /\ step' = "start"
  /\ result' = Failure

Returned(c) == at = c /\ step = "returned"

Succeeded == result.status = "Success"

ReaderStep ==
  /\ at \in Calls
  /\ step # "returned"
  /\ \/ kind = "modbus" /\ Modbus!ModbusNext /\ UNCHANGED <<dlmsState, iecState>>
     \/ kind = "dlms" /\ Dlms!DlmsNext /\ UNCHANGED iecState
     \/ kind = "iec" /\ Iec!IecNext /\ UNCHANGED dlmsState
     \/ Cv /\ Cam!CamNext /\ UNCHANGED <<busVars, timedOut, dlmsState, iecState>>
  /\ UNCHANGED <<punctual, kind, loopVars>>

-----------------------------------------------------------------------------
(* MeterGate *)

\* ready() with a probe due.
Probe ==
  /\ at = "top"
  /\ ~ isReady
  /\ probeDue \/ ~ probeWaits
  /\ probeDue' = FALSE
  /\ probeWaits' = TRUE
  /\ Call("probe")
  /\ UNCHANGED <<punctual, kind, isReady, failedReads, state, importVal, payload, sent,
                 busVars, timedOut, dlmsState, iecState>>

\* An IR or CV node that is not ready moves lastPoll back, to read at once when
\* it is.
NotReady == state' = IF Rs485 THEN state ELSE "READ"

ProbePasses ==
  /\ Returned("probe")
  /\ Succeeded
  /\ isReady' = TRUE
  /\ failedReads' = 0
  /\ ToTop
  /\ UNCHANGED <<punctual, kind, probeDue, probeWaits, state, importVal, payload, sent,
                 busVars, timedOut, dlmsState, iecState>>

ProbeFails ==
  /\ Returned("probe")
  /\ ~ Succeeded
  /\ NotReady
  /\ ToTop
  /\ UNCHANGED <<punctual, kind, gateVars, importVal, payload, sent,
                 busVars, timedOut, dlmsState, iecState>>

\* PROBE_RETRY_MS have passed since the probe began.  It is assumed that an answer still
\* on its way has come by then.
RetryIntervalOver ==
  /\ at = "top"
  /\ ~ isReady
  /\ ~ probeDue
  /\ probeWaits
  /\ Quiet
  /\ probeWaits' = FALSE
  /\ timedOut' = FALSE
  /\ UNCHANGED <<punctual, kind, at, isReady, probeDue, failedReads, state, importVal,
                 payload, sent, busVars, callVars, dlmsState, iecState>>

\* Mutant: a meter that is lost one failure too late.
ReportReadLate(status) ==
  IF status = "Success"
    THEN failedReads' = 0 /\ UNCHANGED <<isReady, probeDue>>
    ELSE /\ failedReads' = failedReads + 1
         /\ isReady' = (failedReads < READS_BEFORE_LOST)
         /\ probeDue' = (failedReads >= READS_BEFORE_LOST)

\* reportRead(), which a node only calls while it is ready.
ReportRead(status) ==
  IF status = "Success"
    THEN failedReads' = 0 /\ UNCHANGED <<isReady, probeDue>>
    ELSE /\ failedReads' = failedReads + 1
         /\ isReady' = (failedReads + 1 < READS_BEFORE_LOST)
         /\ probeDue' = (failedReads + 1 >= READS_BEFORE_LOST)

-----------------------------------------------------------------------------
(* The loops *)

\* A reading begins: what was asked for before it is no longer fresh.
StartRead ==
  /\ at = "top"
  /\ isReady
  /\ state = "READ"
  /\ state' = IF Rs485 THEN "READ" ELSE "SLEEP"
  /\ Call("import")
  /\ coming' = AgedFrames(coming)
  /\ arrived' = AgedFrames(arrived)
  /\ payload' = NoPayload
  /\ cachedExport' = Aged(cachedExport)
  /\ importVal' = NoValue
  /\ UNCHANGED <<punctual, timedOut, kind, gateVars, sent, dlmsState, currentBaud, awaitsAck>>

\* substation->send(), whatever becomes of it, and the wait after it.
SendReading(reading) ==
  /\ payload' = reading
  /\ sent' = [coherent |-> Coherent(reading), late |-> timedOut]
  /\ state' = "SLEEP"
  /\ ToTop
  /\ UNCHANGED <<punctual, timedOut, kind, busVars, dlmsState, iecState>>

Stored == [payload EXCEPT ![call] = result.value]

\* rs485NodeLoop(): the getters fill the payload one by one.
NextRegister == [import |-> "export", export |-> "voltage"]

Rs485Reads ==
  /\ Rs485
  /\ \E reg \in DOMAIN NextRegister :
       /\ Returned(reg)
       /\ Succeeded
       /\ payload' = Stored
       /\ Call(NextRegister[reg])
  /\ UNCHANGED <<punctual, timedOut, kind, gateVars, state, importVal, sent, busVars,
                 dlmsState, iecState>>

Rs485ReadsLast ==
  /\ Rs485
  /\ Returned("voltage")
  /\ Succeeded
  /\ payload' = Stored
  /\ ReportRead("Success")
  /\ state' = "SEND"
  /\ ToTop
  /\ UNCHANGED <<punctual, timedOut, kind, probeWaits, importVal, sent, busVars,
                 dlmsState, iecState>>

Rs485Sends ==
  /\ Rs485
  /\ at = "top"
  /\ isReady
  /\ state = "SEND"
  /\ SendReading(payload)
  /\ UNCHANGED <<gateVars, importVal>>

\* A failed read ends the reading; the RS485 node starts over in its next loop.
ReadFails ==
  /\ \/ Rs485 /\ at \in Registers
     \/ ~ Rs485 /\ at = "import"
     \/ Cv /\ at = "export"
  /\ step = "returned"
  /\ ~ Succeeded
  /\ ReportRead("Failure")
  /\ ToTop
  /\ UNCHANGED <<punctual, timedOut, kind, probeWaits, state, importVal, payload, sent,
                 busVars, dlmsState, iecState>>

\* irNodeLoop(): the import decides, the export is best effort.
IrReads ==
  /\ Ir
  /\ Returned("import")
  /\ Succeeded
  /\ ReportRead("Success")
  /\ payload' = Stored
  /\ Call("export")
  /\ UNCHANGED <<punctual, timedOut, kind, probeWaits, state, importVal, sent, busVars,
                 dlmsState, iecState>>

IrSends ==
  /\ Ir
  /\ Returned("export")
  /\ SendReading(IF Succeeded THEN Stored ELSE payload)
  /\ UNCHANGED <<gateVars, importVal>>

\* cvNodeLoop(): both values, or the import alone if there is no export flow.
CvReads ==
  /\ kind = "camExport"
  /\ Returned("import")
  /\ Succeeded
  /\ importVal' = result.value
  /\ Call("export")
  /\ UNCHANGED <<punctual, timedOut, kind, gateVars, state, payload, sent, busVars,
                 dlmsState, iecState>>

CvSends ==
  /\ \/ kind = "cam" /\ Returned("import")
     \/ kind = "camExport" /\ Returned("export")
  /\ Succeeded
  /\ ReportRead("Success")
  /\ SendReading(IF kind = "cam" THEN Stored ELSE [Stored EXCEPT !["import"] = importVal])
  /\ UNCHANGED <<probeWaits, importVal>>

\* POLL_INTERVAL_MS have passed since the send (RS485), or poll_ms, a minute by default,
\* since the reading began (IR, camera).  It is assumed that an answer still on its way
\* has come by then.
Wake ==
  /\ at = "top"
  /\ isReady
  /\ state = "SLEEP"
  /\ Quiet
  /\ state' = "READ"
  /\ timedOut' = FALSE
  /\ UNCHANGED <<punctual, kind, at, gateVars, importVal, payload, sent, busVars, callVars,
                 dlmsState, iecState>>

-----------------------------------------------------------------------------

Running ==
  \/ ReaderStep
  \/ Probe
  \/ ProbePasses
  \/ ProbeFails
  \/ RetryIntervalOver
  \/ StartRead
  \/ Rs485Reads
  \/ Rs485ReadsLast
  \/ Rs485Sends
  \/ ReadFails
  \/ IrReads
  \/ IrSends
  \/ CvReads
  \/ CvSends
  \/ Wake

Loop ==
  \/ SetUpStep
  \/ BringUp
  \/ BringUpFails
  \/ Running /\ UNCHANGED setUpVars

\* The bus delivers, late, garbled or not at all, while nothing else happens.
BusStep ==
  /\ Arrive \/ ArriveGarbled \/ Lose
  /\ UNCHANGED <<punctual, callVars, timedOut, kind, loopVars, dlmsState, iecState, setUpVars>>

TurnPunctual ==
  /\ ~ punctual
  /\ punctual' = TRUE
  /\ UNCHANGED <<readerVars, kind, loopVars, setUpVars>>

Next ==
  \/ Loop
  \/ Idle
  \/ BusStep
  \/ TurnPunctual

Spec == Init /\ [][Next]_vars

\* The loop runs, and what the meter has sent arrives or is lost.
Fairness == WF_vars(Loop) /\ WF_vars(BusStep)

FairSpec == Spec /\ Fairness

-----------------------------------------------------------------------------
(* Properties *)

\* What a node sends was all asked for in one reading and is in the field of
\* its register, although readings fail half way, are started over and find
\* late replies on the bus.  A Modbus reply does not say what it answers, so
\* there it only holds until a wait has run out, and again after the pause.
SentIsCoherent ==
  sent.coherent \/ (kind = "modbus" /\ sent.late)

\* A successful getter returns the register it is named for: a late reply "from
\* a timed out poll doesn't desync the next frame" (tcp_bus.cpp:40-41).
ReturnsItsRegister ==
  at \in Registers /\ step = "returned" /\ Succeeded => result.value.reg = at

\* "val holds a fresh reading" (reader.h:57): for every reader but Modbus the
\* value returned is the one asked for in this reading.  DLMS/COSEM replies do
\* not name their register either.  The kind of reply that each step of a session
\* expects keeps late ones out while at most three are outstanding; of four, the
\* last one fits.
ReadsAreFresh ==
  at \in Registers /\ step = "returned" /\ Succeeded =>
    result.value = Fresh(at) \/ kind = "modbus"

\* Once the meter answers every request in time, readings are sent again and
\* again: nothing left on the bus, no lost session and no closed gate keeps a
\* node from recovering.
SendsAgain ==
  \/ []<>(~ punctual \/ at = "idle")
  \/ []<><<Rs485Sends \/ IrSends \/ CvSends>>_vars

=============================================================================
