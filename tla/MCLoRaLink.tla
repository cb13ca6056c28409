----------------------------- MODULE MCLoRaLink -----------------------------
(***************************************************************************)
(* Two nodes' readings in turn over one hop with two attempts: enough for  *)
(* a late ACK of an earlier attempt, of an earlier send, and of another    *)
(* reading to meet a send in flight.                                       *)
(***************************************************************************)
EXTENDS LoRaLink

CONSTANTS n1, n2, r1, r2

MCUids == {n1, n2}
MCReadings == {r1, r2}

=============================================================================
