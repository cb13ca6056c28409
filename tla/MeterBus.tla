------------------------------ MODULE MeterBus ------------------------------
(***************************************************************************)
(* The bus between a node and its meter (module.h), the same for RS485, a  *)
(* TCP simulator and the optical head.  The meter answers requests in      *)
(* their order, each once or never, and may be late: MaxLag bounds how     *)
(* many answers are still on their way, so an answer comes before the node *)
(* sends its MaxLag-th request after the one it answers.                   *)
(*                                                                         *)
(* A value carries the register it was read from and whether it was asked  *)
(* for in the reading the node is taking now.                              *)
(***************************************************************************)
EXTENDS Naturals, Sequences

CONSTANT MaxLag   \* bound on the answers on their way

ASSUME MaxLagAssumption == MaxLag \in Nat \ {0}

VARIABLES
  coming,    \* frames the meter still sends, in order
  arrived,   \* frames received and not read yet
  punctual   \* from now on the meter answers all, and before the node's timers

busVars == <<coming, arrived>>

Registers == {"import", "export", "voltage"}

NoValue == [reg |-> "none", fresh |-> FALSE]

Fresh(reg) == [reg |-> reg, fresh |-> TRUE]

Value == [reg : Registers, fresh : BOOLEAN] \cup {NoValue}

Aged(v) == [v EXCEPT !.fresh = FALSE]

AgedFrames(frames) ==
  [k \in DOMAIN frames |-> [frames[k] EXCEPT !.value = Aged(@)]]

Frame(kind, value) == [kind |-> kind, value |-> value]

Garbled == Frame("garbled", NoValue)

BusInit ==
  /\ coming = << >>
  /\ arrived = << >>
  /\ punctual = FALSE

\* What becomes of an answer: it is sent, or the request or the answer is lost.
Answered(frame) == IF punctual THEN {<<frame>>} ELSE {<<frame>>, << >>}

Transmit(replies) ==
  /\ Len(coming \o replies) <= MaxLag
  /\ coming' = coming \o replies

\* Mutant: a send that leaves what came since the last reply was read.
SendUndrained(replies) ==
  /\ Transmit(replies)
  /\ UNCHANGED arrived

\* Sp3485 and TcpBus throw away what has arrived, then send.
Send(replies) ==
  /\ Transmit(replies)
  /\ arrived' = << >>

\* The send fails (bus write, TCP connect) after the same clearing.
SendFails ==
  /\ ~ punctual
  /\ arrived' = << >>
  /\ UNCHANGED coming

Take ==
  /\ arrived # << >>
  /\ arrived' = Tail(arrived)
  /\ UNCHANGED coming

\* A wait for a frame runs out.  A punctual meter lets none run out.
MayTimeOut == arrived = << >> /\ (punctual => coming = << >>)

\* Nothing is on its way.  That this is so after a pause is an assumption about the
\* meter: nothing in the code waits for answers that are still to come.
Quiet == coming = << >>

Arrive ==
  /\ coming # << >>
  /\ arrived' = Append(arrived, Head(coming))
  /\ coming' = Tail(coming)

ArriveGarbled ==
  /\ ~ punctual
  /\ coming # << >>
  /\ arrived' = Append(arrived, Garbled)
  /\ coming' = Tail(coming)

Lose ==
  /\ ~ punctual
  /\ coming # << >>
  /\ coming' = Tail(coming)
  /\ UNCHANGED arrived

BusTypeOK ==
  /\ Len(coming) <= MaxLag
  /\ Len(arrived) <= 2 * MaxLag
  /\ \A k \in DOMAIN coming : coming[k].value \in Value
  /\ \A k \in DOMAIN arrived : arrived[k].value \in Value
  /\ punctual \in BOOLEAN

=============================================================================
