------------------------------ MODULE CamHttp ------------------------------
(***************************************************************************)
(* CamHttpReader over HttpBus: each call is one HTTP request on a          *)
(* connection of its own, so an answer always belongs to its request.      *)
(***************************************************************************)
EXTENDS MeterReader

\* The station is there, the GET succeeds, and the flow is in the answer with
\* a value and no error.
Fetched ==
  /\ step = "start"
  /\ Return(Success(IF call = "probe" THEN NoValue ELSE Fresh(call)))

FetchFails ==
  /\ step = "start"
  /\ ~ punctual
  /\ Return(Failure)

CamNext == Fetched \/ FetchFails

=============================================================================
