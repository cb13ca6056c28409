----------------------------- MODULE DlmsCosem -----------------------------
(***************************************************************************)
(* DlmsCosemReader: every read is an HDLC session of its own, SNRM, AARQ,  *)
(* GET scaler_unit, GET value and DISC.  I-frames are numbered in both     *)
(* directions from 0 in each session; a GET response names neither the     *)
(* register nor the attribute it is for.                                   *)
(***************************************************************************)
EXTENDS MeterReader

VARIABLES
  vs, vr,    \* the client's numbers: next to send, next to receive
  scaler,    \* the register whose scaler_unit was read in this session
  meter      \* the meter's link: up, and its own two numbers

dlmsState == <<vs, vr, scaler, meter>>
dlmsVars == <<busVars, callVars, timedOut, dlmsState>>

LinkDown == [up |-> FALSE, vs |-> 0, vr |-> 0]

DlmsInit ==
  /\ vs = 0
  /\ vr = 0
  /\ scaler = NoValue
  /\ meter = LinkDown

Next8(n) == (n + 1) % 8

Unit(reg) == IF reg = "voltage" THEN "V" ELSE "Wh"

IFrame(ns, nr, apdu, value) ==
  [kind |-> "I", ns |-> ns, nr |-> nr, apdu |-> apdu, value |-> value]

\* A frame goes out on the bus; if it reaches the meter, its link changes to m
\* and it answers with frame, unless that answer is lost.
Reaches(m, frame) ==
  /\ meter' = m
  /\ \E replies \in Answered(frame) : Send(replies)

NotHeard ==
  /\ ~ punctual
  /\ UNCHANGED meter
  /\ Send(<< >>)

SendSnrm ==
  \/ Reaches([up |-> TRUE, vs |-> 0, vr |-> 0], Frame("UA", NoValue))
  \/ ~ punctual /\ Reaches(LinkDown, Frame("DM", NoValue))
  \/ NotHeard

SendDisc ==
  \/ Reaches(LinkDown, Frame(IF meter.up THEN "UA" ELSE "DM", NoValue))
  \/ NotHeard

\* An I-frame: answered if the link is up and it is the one the meter expects,
\* with what was asked for or with an error, and not answered if it is not.
SendI(apdu, value) ==
  \/ /\ meter.up
     /\ vs = meter.vr
     /\ \E body \in {apdu} \cup (IF punctual THEN {} ELSE {"Error"}) :
          Reaches([meter EXCEPT !.vs = Next8(@), !.vr = Next8(@)],
                  IFrame(meter.vs, Next8(meter.vr), body,
                         IF body = "Error" THEN NoValue ELSE value))
  \/ /\ meter.up
     /\ vs # meter.vr
     /\ UNCHANGED meter
     /\ Send(<< >>)
  \/ ~ meter.up /\ Reaches(meter, Frame("DM", NoValue))
  \/ NotHeard

\* connect(): SNRM and its UA.
Connect ==
  /\ step = "start"
  /\ SendSnrm
  /\ Goto("UA")
  /\ UNCHANGED <<vs, vr, scaler, timedOut>>

ConnectFails ==
  /\ \/ step = "start" /\ SendFails /\ UNCHANGED timedOut
     \/ step = "UA" /\ TimedOut
     \/ step = "UA" /\ Take /\ Head(arrived).kind # "UA" /\ UNCHANGED timedOut
  /\ Return(Failure)
  /\ UNCHANGED dlmsState

Connected ==
  /\ step = "UA"
  /\ Take
  /\ Head(arrived).kind = "UA"
  /\ vs' = 0
  /\ vr' = 0
  /\ scaler' = NoValue
  /\ Goto("associate")
  /\ UNCHANGED <<meter, timedOut>>

\* The APDU each step of a session waits for, and what it carries.
Wanted == [associate |-> "AARE", scaler |-> "Scaler", value |-> "Value"]

Asked(s) == IF s = "associate" THEN NoValue ELSE Fresh(call)

\* exchange(): one I-frame and the reply to it.
Request ==
  /\ \E s \in DOMAIN Wanted :
       /\ step = s
       /\ SendI(Wanted[s], Asked(s))
       /\ Goto(Wanted[s])
  /\ UNCHANGED <<vs, vr, scaler, timedOut>>

InSequence(frame) == frame.kind = "I" /\ frame.ns = vr /\ frame.nr = Next8(vs)

\* The reply is a well-formed answer for this step: an accepted AARE, a
\* scaler_unit of the expected unit, or a number.
Answers(frame) ==
  /\ frame.apdu = step
  /\ step = "Scaler" => Unit(frame.value.reg) = Unit(call)

\* Mutant: whatever I-frame comes is the reply.
AcceptsAny(frame) == frame.kind = "I" /\ frame.apdu # "Error"

Accepts(frame) == InSequence(frame) /\ Answers(frame)

\* The number read, scaled: right only with the register's own scaler.
Scaled(v) == IF v.reg = scaler.reg THEN v ELSE NoValue

TakeReply ==
  /\ step \in {"AARE", "Scaler", "Value"}
  /\ Take
  /\ LET frame == Head(arrived) IN
     /\ IF InSequence(frame)
          THEN vs' = Next8(vs) /\ vr' = Next8(vr)
          ELSE UNCHANGED <<vs, vr>>
     /\ IF Accepts(frame)
          THEN /\ scaler' = IF step = "Scaler" THEN frame.value ELSE scaler
               /\ CASE step = "AARE" /\ call = "probe" -> GotoWith(Success(NoValue), "release")
                    [] step = "AARE" /\ call # "probe" -> Goto("scaler")
                    [] step = "Scaler" -> Goto("value")
                    [] step = "Value" -> GotoWith(Success(Scaled(frame.value)), "release")
          ELSE /\ GotoWith(Failure, "release")
               /\ UNCHANGED scaler
  /\ UNCHANGED <<meter, timedOut>>

RequestFails ==
  /\ \/ step \in DOMAIN Wanted /\ SendFails /\ UNCHANGED timedOut
     \/ step \in {"AARE", "Scaler", "Value"} /\ TimedOut
  /\ GotoWith(Failure, "release")
  /\ UNCHANGED dlmsState

\* disconnect(), whose result nobody looks at.
Disconnect ==
  /\ step = "release"
  /\ SendDisc
  /\ Goto("released")
  /\ UNCHANGED <<vs, vr, scaler, timedOut>>

Disconnected ==
  /\ \/ step = "release" /\ SendFails /\ UNCHANGED timedOut
     \/ step = "released" /\ Take /\ UNCHANGED timedOut
     \/ step = "released" /\ TimedOut
  /\ Return(result)
  /\ UNCHANGED dlmsState

DlmsNext ==
  \/ Connect
  \/ ConnectFails
  \/ Connected
  \/ Request
  \/ RequestFails
  \/ TakeReply
  \/ Disconnect
  \/ Disconnected

DlmsTypeOK ==
  /\ vs \in 0 .. 7
  /\ vr \in 0 .. 7
  /\ scaler \in Value
  /\ meter \in [up : BOOLEAN, vs : 0 .. 7, vr : 0 .. 7]

=============================================================================
