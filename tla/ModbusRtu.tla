----------------------------- MODULE ModbusRtu -----------------------------
(***************************************************************************)
(* ModbusRtuReader: one request and one reply per register.  A reply names *)
(* the slave, the function and its length; it does not name the register.  *)
(***************************************************************************)
EXTENDS MeterReader

modbusVars == <<busVars, callVars, timedOut>>

\* The meter: the register asked for, or an exception; and to a diagnostics
\* request its echo, or a refusal if it has no diagnostics.
Answers ==
  IF call = "probe"
    THEN {Frame("echo", NoValue), Frame("refusal", NoValue)}
    ELSE {Frame("registers", Fresh(call))}
           \cup (IF punctual THEN {} ELSE {Frame("exception", NoValue)})

SendRequest ==
  /\ step = "start"
  /\ \E frame \in Answers : \E replies \in Answered(frame) : Send(replies)
  /\ Goto("reply")
  /\ UNCHANGED timedOut

SendRequestFails ==
  /\ step = "start"
  /\ SendFails
  /\ Return(Failure)
  /\ UNCHANGED timedOut

\* read_frame and read_response, or the comparison in probe().
Accepts(frame) ==
  IF call = "probe"
    THEN frame.kind \in {"echo", "refusal"}
    ELSE frame.kind = "registers"

TakeReply ==
  /\ step = "reply"
  /\ Take
  /\ LET frame == Head(arrived)
     IN  Return(IF Accepts(frame) THEN Success(frame.value) ELSE Failure)
  /\ UNCHANGED timedOut

Timeout ==
  /\ step = "reply"
  /\ TimedOut
  /\ Return(Failure)

ModbusNext ==
  \/ SendRequest
  \/ SendRequestFails
  \/ TakeReply
  \/ Timeout

=============================================================================
