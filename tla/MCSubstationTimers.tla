-------------------------- MODULE MCSubstationTimers ------------------------
(***************************************************************************)
(* A clock of 12 ticks, beacons every 2, a backoff of 3, a pass of up to 2 *)
(* ticks, queues of two frames.  The clock wraps many times over.          *)
(***************************************************************************)
EXTENDS SubstationTimers

=============================================================================
