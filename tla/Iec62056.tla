------------------------------ MODULE Iec62056 ------------------------------
(***************************************************************************)
(* Iec6205621Reader, mode C: at 300 baud the node asks the meter to        *)
(* identify itself, acknowledges the rate it offers, changes to that rate  *)
(* and takes a data block with import and export.                          *)
(***************************************************************************)
EXTENDS MeterReader

VARIABLES
  currentBaud,    \* rate of the node's UART: "start" is 300, or what was "offered"
  cachedExport,   \* export of the last block, NoValue while it is not valid
  awaitsAck       \* the meter has identified itself and waits for the ACK

iecState == <<currentBaud, cachedExport, awaitsAck>>
iecVars == <<busVars, callVars, timedOut, iecState>>

IecInit ==
  /\ currentBaud = "start"
  /\ cachedExport = NoValue
  /\ awaitsAck = FALSE

Block(codes) ==
  [kind |-> "block", codes |-> codes, value |-> Fresh("import")]

\* A data block has the values of the registers it names; a meter may leave one
\* out.
Blocks ==
  {Block({"import", "export"})}
    \cup (IF punctual THEN {} ELSE {Block({"import"}), Block({"export"})})

\* The head may see its own LED, so the request may come back first.
Echoes == {<< >>, <<Frame("echo", NoValue)>>}

\* Mutant: a reader that stays at the rate of the last session.
StartBaudKept == currentBaud

\* requestIdentification() goes back to 300 baud, where an idle meter listens.
StartBaud == "start"

\* requestIdentification(): whatever has arrived is thrown away.
RequestId ==
  /\ step = "start"
  /\ call \in {"probe", "import"}
  /\ currentBaud' = StartBaud
  /\ cachedExport' = IF call = "import" THEN NoValue ELSE cachedExport
  /\ \E echo \in Echoes :
       \/ /\ currentBaud' = "start"
          /\ awaitsAck' = TRUE
          /\ \E id \in Answered(Frame("id", NoValue)) : Send(echo \o id)
       \/ /\ punctual => currentBaud' # "start"
          /\ UNCHANGED awaitsAck
          /\ Send(echo)
  /\ Goto("id")
  /\ UNCHANGED timedOut

\* What the UART makes of a frame: blocks come at the offered rate, the rest at
\* 300 baud.
Heard(frame) ==
  IF (frame.kind = "block") = (currentBaud = "offered") THEN frame.kind ELSE "garbled"

SkipEcho ==
  /\ step = "id"
  /\ Take
  /\ Heard(Head(arrived)) = "echo"
  /\ Goto("echoed")
  /\ UNCHANGED <<timedOut, iecState>>

WaitsForId == step \in {"id", "echoed"}

\* An identification with a known rate.  A read acknowledges it and retunes.
TakeId ==
  /\ WaitsForId
  /\ Take
  /\ Heard(Head(arrived)) = "id"
  /\ IF call = "probe" THEN GotoWith(Success(NoValue), "idle") ELSE Goto("ack")
  /\ UNCHANGED <<timedOut, iecState>>

\* Anything else came, or nothing.
NoId ==
  /\ WaitsForId
  /\ \/ /\ Take
        /\ Heard(Head(arrived)) \notin {"id"} \cup (IF step = "id" THEN {"echo"} ELSE {})
        /\ IF call = "probe" THEN GotoWith(Failure, "idle") ELSE Return(Failure)
        /\ UNCHANGED timedOut
     \/ /\ TimedOut
        /\ Return(Failure)
  /\ UNCHANGED iecState

\* The ACK is sent at 300 baud, without clearing what has arrived.
Acknowledge ==
  /\ step = "ack"
  /\ \/ /\ awaitsAck
        /\ \E block \in Blocks : \E replies \in Answered(block) : Transmit(replies)
        /\ awaitsAck' = FALSE
     \/ /\ punctual => ~ awaitsAck
        /\ UNCHANGED <<coming, awaitsAck>>
  /\ currentBaud' = "offered"
  /\ Goto("block")
  /\ UNCHANGED <<arrived, timedOut, cachedExport>>

\* readUntil("!\r\n") reads over what comes before the block.
SkipToBlock ==
  /\ step = "block"
  /\ Take
  /\ Heard(Head(arrived)) # "block"
  /\ UNCHANGED <<callVars, timedOut, iecState>>

\* Mutant: a block with one of the two codes is enough.
IncompleteCodes(codes) == codes # {}

HasCodes(codes) == {"import", "export"} \subseteq codes

Code(frame, reg) ==
  IF reg \in frame.codes THEN [frame.value EXCEPT !.reg = reg] ELSE NoValue

\* Both codes are parsed, and the export is kept for get_export().
TakeBlock ==
  /\ step = "block"
  /\ Take
  /\ LET frame == Head(arrived) IN
     /\ Heard(frame) = "block"
     /\ IF HasCodes(frame.codes)
          THEN /\ cachedExport' = Code(frame, "export")
               /\ Return(Success(Code(frame, "import")))
          ELSE /\ Return(Failure)
               /\ UNCHANGED cachedExport
  /\ UNCHANGED <<currentBaud, awaitsAck, timedOut>>

\* No block, or noise with an end of block or a wrong BCC.
NoBlock ==
  /\ step = "block"
  /\ \/ TimedOut
     \/ Take /\ Heard(Head(arrived)) = "garbled" /\ UNCHANGED timedOut
  /\ Return(Failure)
  /\ UNCHANGED iecState

\* After an answer probe() reads for two more seconds, in which the meter gives
\* up the session.
ProbeIdles ==
  /\ step = "idle"
  /\ Quiet
  /\ arrived' = << >>
  /\ awaitsAck' = FALSE
  /\ Return(result)
  /\ UNCHANGED <<coming, timedOut, currentBaud, cachedExport>>

GetExport ==
  /\ step = "start"
  /\ call = "export"
  /\ Return(IF cachedExport # NoValue THEN Success(cachedExport) ELSE Failure)
  /\ UNCHANGED <<busVars, timedOut, iecState>>

IecNext ==
  \/ RequestId
  \/ SkipEcho
  \/ TakeId
  \/ NoId
  \/ Acknowledge
  \/ SkipToBlock
  \/ TakeBlock
  \/ NoBlock
  \/ ProbeIdles
  \/ GetExport

IecTypeOK ==
  /\ currentBaud \in {"start", "offered"}
  /\ cachedExport \in Value
  /\ awaitsAck \in BOOLEAN

=============================================================================
