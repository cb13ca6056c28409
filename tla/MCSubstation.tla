---------------------------- MODULE MCSubstation ----------------------------
(***************************************************************************)
(* Instances of the substation, both with room for one node:               *)
(*   MCDevices   two nodes, so the table and the slots can be full         *)
(*   MCSameMac   two nodes that take turns on one MAC, as when a board is  *)
(*               replaced, so a joined node may find no slot               *)
(***************************************************************************)
EXTENDS Substation

CONSTANTS m1, m2, n1, n2

MCDevices == {[mac |-> m1, uid |-> n1], [mac |-> m2, uid |-> n2]}
MCSameMac == {[mac |-> m1, uid |-> n1], [mac |-> m1, uid |-> n2]}

=============================================================================
