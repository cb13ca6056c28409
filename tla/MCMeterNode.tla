---------------------------- MODULE MCMeterNode ----------------------------
(***************************************************************************)
(* All readers, with three answers on their way at most, or Modbus alone   *)
(* with two.                                                               *)
(***************************************************************************)
EXTENDS MeterNode

=============================================================================
