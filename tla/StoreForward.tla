---------------------------- MODULE StoreForward ----------------------------
(***************************************************************************)
(* What the reading buffer of lib/buffering/reading_buffer promises to the *)
(* substation's relay, free of slots, rings and indices: one bounded FIFO  *)
(* queue per node, and at most one claim, on the oldest reading of one     *)
(* node, which the relay holds while it transmits that reading.            *)
(*                                                                         *)
(* Remove takes the claimed reading and no other.  A full queue makes room *)
(* by dropping its own oldest reading, and if that was the claimed one the *)
(* claim goes with it, so a later Remove cannot take an unsent reading.    *)
(***************************************************************************)
EXTENDS Naturals, Sequences, FiniteSets

CONSTANTS
  Uids,      \* identities of the meter nodes
  Readings,  \* values of a reading, without its UID
  NoUid,     \* no node
  MaxNodes,  \* nodes that can have readings held at once
  Capacity   \* readings held per node

VARIABLES
  held,      \* held[u]: the readings of node u, oldest first
  claim,     \* the node whose oldest reading is claimed, or NoUid
  out        \* the payload handed to the claim's owner

vars == <<held, claim, out>>

Payload == [uid : Uids, reading : Readings]

Holding == {u \in Uids : held[u] # <<>>}

TypeOK ==
  /\ held \in [Uids -> Seq(Readings)]
  /\ claim \in Uids \cup {NoUid}
  /\ out \in Payload

Init ==
  /\ held = [u \in Uids |-> <<>>]
  /\ claim = NoUid
  /\ out \in Payload

-----------------------------------------------------------------------------

\* A reading joins the end of its node's queue.
Accept(p) ==
  /\ Len(held[p.uid]) < Capacity
  /\ Cardinality(Holding \cup {p.uid}) <= MaxNodes
  /\ held' = [held EXCEPT ![p.uid] = Append(@, p.reading)]
  /\ UNCHANGED <<claim, out>>

\* A full queue loses its oldest reading, and a claim on it is released.
Overwrite(p) ==
  /\ Len(held[p.uid]) = Capacity
  /\ held' = [held EXCEPT ![p.uid] = Append(Tail(@), p.reading)]
  /\ claim' = IF claim = p.uid THEN NoUid ELSE claim
  /\ UNCHANGED out

\* The oldest reading of some node is handed out and claimed.
Claim(u) ==
  /\ held[u] # <<>>
  /\ claim' = u
  /\ out' = [uid |-> u, reading |-> Head(held[u])]
  /\ UNCHANGED held

\* Nothing is held, so nothing can be claimed.
FindNothing ==
  /\ Holding = {}
  /\ claim' = NoUid
  /\ UNCHANGED <<held, out>>

\* The claimed reading, the one handed out, leaves its queue.
Remove ==
  /\ claim # NoUid
  /\ held[claim] # <<>>
  /\ out = [uid |-> claim, reading |-> Head(held[claim])]
  /\ held' = [held EXCEPT ![claim] = Tail(@)]
  /\ claim' = NoUid
  /\ UNCHANGED out

Clear ==
  /\ held' = [u \in Uids |-> <<>>]
  /\ claim' = NoUid
  /\ UNCHANGED out

Next ==
  \/ \E p \in Payload : Accept(p) \/ Overwrite(p)
  \/ \E u \in Uids : Claim(u)
  \/ FindNothing
  \/ Remove
  \/ Clear

Spec == Init /\ [][Next]_vars

=============================================================================
