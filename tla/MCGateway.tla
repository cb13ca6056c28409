----------------------------- MODULE MCGateway ------------------------------
(***************************************************************************)
(* A queue of two and four readings per boot, so the queue fills up, is    *)
(* drained and fills up again; two reboots.                                *)
(***************************************************************************)
EXTENDS Gateway

=============================================================================
