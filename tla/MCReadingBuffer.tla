--------------------------- MODULE MCReadingBuffer --------------------------
(***************************************************************************)
(* Two slots of two readings each, offered readings of three nodes: both   *)
(* limits of the buffer are reached, and a slot changes owner.  Two values *)
(* tell apart any two neighbours in a ring.                                *)
(***************************************************************************)
EXTENDS ReadingBuffer

CONSTANTS n1, n2, n3, r1, r2

MCUids == {n1, n2, n3}
MCReadings == {r1, r2}

=============================================================================
