----------------------------- MODULE MCNodeLink -----------------------------
(***************************************************************************)
(* One node, one or two substations, queues of two frames.                 *)
(***************************************************************************)
EXTENDS NodeLink

CONSTANTS s1, s2

MCOneSubstation == {s1}
MCTwoSubstations == {s1, s2}

=============================================================================
