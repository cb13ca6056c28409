---------------------------- MODULE MeterReader ----------------------------
(***************************************************************************)
(* The interface of the meter readers (reader.h).  A node has one call of  *)
(* its reader under way, and blocks in it; a reader goes through the steps *)
(* of its protocol and returns a status, with a value if it was a read.    *)
(***************************************************************************)
EXTENDS MeterBus

VARIABLES
  call,      \* "none", "probe" or the register being read
  step,      \* where the reader is in it; "start" and "returned" for all readers
  result,    \* status and value returned
  timedOut   \* history: a wait of a reader ran out since the last pause

callVars == <<call, step, result>>

Calls == Registers \cup {"probe"}

Failure == [status |-> "Failure", value |-> NoValue]

Success(value) == [status |-> "Success", value |-> value]

ReaderInit ==
  /\ call = "none"
  /\ step = "start"
  /\ result = Failure
  /\ timedOut = FALSE

Return(r) ==
  /\ step' = "returned"
  /\ result' = r
  /\ UNCHANGED call

Goto(s) ==
  /\ step' = s
  /\ UNCHANGED <<call, result>>

\* The reader has its result and still has something to do.
GotoWith(r, s) ==
  /\ result' = r
  /\ step' = s
  /\ UNCHANGED call

TimedOut ==
  /\ MayTimeOut
  /\ timedOut' = TRUE
  /\ UNCHANGED busVars

=============================================================================
