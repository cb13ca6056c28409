--------------------------- MODULE NodeLinkProofs ---------------------------
(***************************************************************************)
(* Proofs about a node's link, for any substations, queues, attempts and   *)
(* readings.  The node, its counter, the queue of frames to it and the     *)
(* substations have an invariant each, on which what they know of each     *)
(* other is built.                                                         *)
(***************************************************************************)
EXTENDS NodeLink, TLAPS

LEMMA Bounds ==
  /\ MaxQueue \in Nat \ {0} /\ JoinAttempts \in Nat \ {0} /\ SendAttempts \in Nat \ {0}
  /\ MaxReadings \in Nat /\ MaxReboots \in Nat /\ MaxNvsLosses \in Nat
BY LinkAssumption

-----------------------------------------------------------------------------
(* Queues *)

\* A frame taken: every other is one place further.
LEMMA TakenFrame ==
  ASSUME NEW S, NEW q \in Seq(S), q # << >>
  PROVE  /\ Tail(q) \in Seq(S)
         /\ Len(Tail(q)) = Len(q) - 1
         /\ Len(q) \in Nat /\ Len(q) > 0
         /\ Head(q) \in S /\ Head(q) = q[1]
         /\ \A i \in 1 .. Len(Tail(q)) : i + 1 \in 1 .. Len(q) /\ Tail(q)[i] = q[i + 1]
OBVIOUS

LEMMA AppendedFrame ==
  ASSUME NEW S, NEW q \in Seq(S), NEW frame \in S
  PROVE  /\ Append(q, frame) \in Seq(S)
         /\ Len(Append(q, frame)) = Len(q) + 1
         /\ Append(q, frame)[Len(q) + 1] = frame
         /\ \A i \in 1 .. Len(q) : Append(q, frame)[i] = q[i]
OBVIOUS

\* A frame received goes to the end, and may have pushed out the first.
ReceivedInto(q, frame, r) ==
  \E k \in {0, 1} :
    /\ Len(r) = Len(q) + 1 - k
    /\ r[Len(r)] = frame
    /\ \A i \in 1 .. Len(r) - 1 : i + k \in 1 .. Len(q) /\ r[i] = q[i + k]

LEMMA ReceivedFrame ==
  ASSUME NEW S, NEW q \in Seq(S), Len(q) <= MaxQueue, NEW frame \in S
  PROVE  /\ Received(q, frame) \in Seq(S)
         /\ Len(Received(q, frame)) <= MaxQueue
         /\ ReceivedInto(q, frame, Received(q, frame))
<1>1. MaxQueue \in Nat \ {0} /\ Len(q) \in Nat
  BY Bounds
<1> DEFINE r == Received(q, frame)
<1>2. CASE Len(q) < MaxQueue
  <2>1. r = Append(q, frame)
    BY <1>2 DEF Received
  <2> HIDE DEF r
  <2>2. /\ r \in Seq(S) /\ Len(r) = Len(q) + 1 /\ r[Len(q) + 1] = frame
        /\ \A i \in 1 .. Len(q) : r[i] = q[i]
    BY <2>1, AppendedFrame
  <2>3. /\ Len(r) = Len(q) + 1 - 0 /\ r[Len(r)] = frame
        /\ \A i \in 1 .. Len(r) - 1 : i + 0 \in 1 .. Len(q) /\ r[i] = q[i + 0]
    BY <1>1, <2>2
  <2>4. ReceivedInto(q, frame, r)
    BY <2>3 DEF ReceivedInto
  <2> QED
    BY <1>1, <1>2, <2>2, <2>4 DEF r
<1>3. CASE ~ Len(q) < MaxQueue
  <2>1. q # << >> /\ Len(q) = MaxQueue
    BY <1>1, <1>3
  <2> DEFINE t == Tail(q)
  <2>2. /\ t \in Seq(S) /\ Len(t) = Len(q) - 1
        /\ \A i \in 1 .. Len(t) : i + 1 \in 1 .. Len(q) /\ t[i] = q[i + 1]
    BY <2>1, TakenFrame
  <2>3. r = Append(t, frame)
    BY <1>3 DEF Received
  <2> HIDE DEF t, r
  <2>4. /\ r \in Seq(S) /\ Len(r) = Len(t) + 1 /\ r[Len(t) + 1] = frame
        /\ \A i \in 1 .. Len(t) : r[i] = t[i]
    BY <2>2, <2>3, AppendedFrame
  <2>5. /\ Len(r) = Len(q) + 1 - 1 /\ r[Len(r)] = frame
        /\ \A i \in 1 .. Len(r) - 1 : i + 1 \in 1 .. Len(q) /\ r[i] = q[i + 1]
    BY <1>1, <2>2, <2>4
  <2>6. ReceivedInto(q, frame, r)
    BY <2>5 DEF ReceivedInto
  <2> QED
    BY <1>1, <2>1, <2>4, <2>5, <2>6 DEF r
<1> QED
  BY <1>2, <1>3

\* Every frame of the queue was there before, or is the one received.
LEMMA ReceivedFrom ==
  ASSUME NEW q, NEW frame, NEW r, Len(r) \in Nat, ReceivedInto(q, frame, r)
  PROVE  \A i \in 1 .. Len(r) : r[i] = frame \/ \E j \in 1 .. Len(q) : r[i] = q[j]
<1>1. PICK k \in {0, 1} :
        /\ r[Len(r)] = frame
        /\ \A i \in 1 .. Len(r) - 1 : i + k \in 1 .. Len(q) /\ r[i] = q[i + k]
  BY DEF ReceivedInto
<1>2. \A i \in 1 .. Len(r) : i = Len(r) \/ i \in 1 .. Len(r) - 1
  OBVIOUS
<1> QED
  BY <1>1, <1>2

-----------------------------------------------------------------------------
(* Types, and where the node can be *)

NodeTypes ==
  /\ step \in Steps
  /\ sending \in BOOLEAN
  /\ attempt \in 0 .. SendAttempts
  /\ joins \in 0 .. JoinAttempts
  /\ joined \in BOOLEAN
  /\ substation \in Substations
  /\ epoch \in Epochs
  /\ offer \in [from : Substations, epoch : Epochs]
  /\ result \in {"None", "Success", "Failure"}
  /\ startedTimely \in BOOLEAN

\* Readings are sent while joined, and Joins while not.
Flow ==
  /\ step # "Idle" => attempt < SendAttempts
  /\ step \in {"Drain", "Send", "AwaitAck"} => sending
  /\ step \in {"Send", "AwaitAck"} => joined
  /\ step \in {"Discover", "Join", "AwaitJoinAck"} => ~ joined

Numbers ==
  /\ reading \in 0 .. MaxReadings
  /\ seq \in 0 .. reading
  /\ stored \in 0 .. reading
  /\ sending => seq # 0
  /\ nvsLosses \in 0 .. MaxNvsLosses

QueueTypes == rxQueue \in Seq(ToNode) /\ Len(rxQueue) <= MaxQueue

SubstationTypes ==
  /\ boot \in [Substations -> Epochs]
  /\ knows \in [Substations -> BOOLEAN]
  /\ lastSeq \in [Substations -> Seqs \cup {NoSeq}]
  /\ inbox \in [Substations -> Seq(ToSubstation)]
  /\ \A s \in Substations : Len(inbox[s]) <= MaxQueue
  /\ buffered \in [Substations -> Seq(Seqs)]
  /\ taken \subseteq Seqs

WorldTypes == timely \in BOOLEAN /\ reboots \in 0 .. MaxReboots

TypeInv ==
  /\ NodeTypes
  /\ Flow
  /\ PeersInUse
  /\ Numbers
  /\ QueueTypes
  /\ SubstationTypes
  /\ WorldTypes

\* The frame the node takes.
LEMMA NodeTakes ==
  ASSUME QueueTypes, TakeFrame
  PROVE  /\ Head(rxQueue) \in ToNode
         /\ Head(rxQueue).kind = "Beacon" =>
              Head(rxQueue).from \in Substations /\ Head(rxQueue).epoch \in Epochs
<1>1. Head(rxQueue) \in ToNode
  BY TakenFrame DEF QueueTypes, TakeFrame
<1> QED
  BY <1>1 DEF ToNode

\* What SkipFrame, the substations and the world leave alone.
NodeUnchanged == UNCHANGED <<sendVars, joinedVars, seqVars>>

NodeStep ==
  \/ NewReading \/ Drain \/ HearBeacon \/ NoBeacon \/ NoPeer
  \/ \E reported \in BOOLEAN : SendJoin(reported)
  \/ TakeJoinAck \/ JoinAckTimeout \/ JoinGivesUp
  \/ SendReading \/ SendReadingFails \/ TakeAck \/ AckTimeout
  \/ RebootNode

LEMMA NodeSteps == [Next]_vars => NodeStep \/ NodeUnchanged
<1>1. SkipFrame => NodeUnchanged
  BY DEF SkipFrame, NodeUnchanged
<1>2. \A s \in Substations : Beacon(s) \/ RebootSubstation(s) => NodeUnchanged
  BY DEF Beacon, RebootSubstation, NodeUnchanged
<1>3. \A s \in Substations : HandleIncoming(s) => NodeUnchanged
  BY DEF HandleIncoming, AcceptJoin, IgnoreJoin, DropReading, AnswerDuplicate, BufferReading,
         NodeUnchanged
<1>4. BecomeTimely \/ UNCHANGED vars => NodeUnchanged
  BY DEF BecomeTimely, vars, NodeUnchanged
<1> QED
  BY <1>1, <1>2, <1>3, <1>4 DEF Next, Node, NodeStep

LEMMA StepNode ==
  ASSUME TypeInv, [Next]_vars
  PROVE  NodeTypes' /\ Flow' /\ PeersInUse' /\ Numbers'
<1> DEFINE Goal == NodeTypes' /\ Flow' /\ PeersInUse' /\ Numbers'
<1> USE Bounds DEF TypeInv, NodeTypes, Flow, PeersInUse, Numbers
<1>1. CASE NodeUnchanged
  BY <1>1 DEF NodeUnchanged, sendVars, joinedVars, seqVars
<1>2. CASE NewReading
  <2>1. NodeTypes'
    <3>1. attempt' \in 0 .. SendAttempts
      BY <1>2 DEF NewReading
    <3>2. startedTimely' \in BOOLEAN
      BY <1>2 DEF NewReading, WorldTypes
    <3> QED
      BY <1>2, <3>1, <3>2 DEF NewReading, joinedVars, Steps
  <2>4. Flow'
    BY <1>2 DEF NewReading, joinedVars
  <2>5. PeersInUse'
    BY <1>2 DEF NewReading, joinedVars
  <2>2. /\ reading' \in 0 .. MaxReadings /\ seq' \in 0 .. reading' /\ seq' # 0
        /\ stored' \in 0 .. reading'
    BY <1>2 DEF NewReading
  <2>3. nvsLosses' \in 0 .. MaxNvsLosses
    BY <1>2 DEF NewReading
  <2> QED
    BY <2>1, <2>2, <2>3, <2>4, <2>5
<1>3. CASE Drain
  BY <1>3 DEF Drain, PeersOnForget, seqVars, Steps
<1>4. CASE HearBeacon
  BY <1>4, NodeTakes DEF HearBeacon, seqVars, Steps
<1>5. CASE NoBeacon \/ NoPeer
  BY <1>5 DEF NoBeacon, NoPeer, JoinFails, seqVars, Steps
<1>6. ASSUME NEW reported \in BOOLEAN, SendJoin(reported) PROVE Goal
  BY <1>6 DEF SendJoin, JoinSent, joinedVars, seqVars, Steps
<1>7. CASE TakeJoinAck
  BY <1>7 DEF TakeJoinAck, seqVars, Steps
<1>8. CASE JoinAckTimeout
  BY <1>8 DEF JoinAckTimeout, joinedVars, seqVars, Steps
<1>9. CASE JoinGivesUp
  BY <1>9 DEF JoinGivesUp, JoinFails, seqVars, Steps
<1>10. CASE SendReading
  BY <1>10 DEF SendReading, ReadingSent, joinedVars, seqVars, Steps
<1>11. CASE SendReadingFails \/ AckTimeout
  <2>1. /\ AttemptFails
        /\ step \in {"Send", "AwaitAck"}
    BY <1>11 DEF SendReadingFails, ReadingNotSent, AckTimeout
  <2>2. Numbers'
    BY <2>1 DEF AttemptFails, seqVars
  <2>3. attempt + 1 \in 0 .. SendAttempts
    BY <2>1
  <2>4. step' \in {"Discover", "Idle"} /\ joined' = FALSE /\ peers' = {}
    BY <2>1 DEF AttemptFails, PeersOnForget
  <2>5. PeersInUse' /\ Flow'
    BY <2>1, <2>3, <2>4 DEF AttemptFails
  <2>6. NodeTypes'
    BY <2>1, <2>3, <2>4 DEF AttemptFails, Steps
  <2> QED
    BY <2>2, <2>5, <2>6
<1>12. CASE TakeAck
  BY <1>12 DEF TakeAck, joinedVars, seqVars, Steps
<1>13. CASE RebootNode
  <2>1. NodeTypes'
    <3>1. attempt' \in 0 .. SendAttempts
      BY <1>13 DEF RebootNode
    <3> QED
      BY <1>13, <3>1 DEF RebootNode, Steps
  <2>4. Flow'
    BY <1>13 DEF RebootNode
  <2>5. PeersInUse'
    BY <1>13 DEF RebootNode
  <2>2. stored' \in 0 .. reading /\ nvsLosses' \in 0 .. MaxNvsLosses
    BY <1>13 DEF RebootNode
  <2>3. Numbers'
    BY <1>13, <2>2 DEF RebootNode
  <2> QED
    BY <2>1, <2>3, <2>4, <2>5
<1> QED
  BY <1>1, <1>2, <1>3, <1>4, <1>5, <1>6, <1>7, <1>8, <1>9, <1>10, <1>11, <1>12, <1>13,
     NodeSteps DEF NodeStep

\* A frame a substation takes.
LEMMA SubstationTakes ==
  ASSUME SubstationTypes, NEW s \in Substations, NEW kind, Handles(s, kind)
  PROVE  /\ inbox[s] \in Seq(ToSubstation) /\ inbox[s] # << >>
         /\ Head(inbox[s]) \in ToSubstation /\ Head(inbox[s]).kind = kind
         /\ Head(inbox[s]) = inbox[s][1]
         /\ kind = "Payload" => /\ Head(inbox[s]).seq \in Seqs
                                /\ Head(inbox[s]).reading \in Seqs
         /\ inbox' \in [Substations -> Seq(ToSubstation)]
         /\ inbox'[s] = Tail(inbox[s])
         /\ \A t \in Substations : t # s => inbox'[t] = inbox[t]
         /\ \A t \in Substations : Len(inbox'[t]) <= MaxQueue
<1>1. /\ inbox[s] \in Seq(ToSubstation) /\ inbox[s] # << >> /\ Len(inbox[s]) <= MaxQueue
      /\ Head(inbox[s]).kind = kind
      /\ inbox' = [inbox EXCEPT ![s] = Tail(inbox[s])]
  BY DEF SubstationTypes, Handles
<1>2. /\ Tail(inbox[s]) \in Seq(ToSubstation) /\ Len(Tail(inbox[s])) = Len(inbox[s]) - 1
      /\ Head(inbox[s]) \in ToSubstation /\ Head(inbox[s]) = inbox[s][1]
      /\ Len(inbox[s]) \in Nat
  BY <1>1, TakenFrame
<1>3. Head(inbox[s]) \in ToSubstation /\ Head(inbox[s]).kind = "Payload" =>
        Head(inbox[s]).seq \in Seqs /\ Head(inbox[s]).reading \in Seqs
  BY DEF ToSubstation
<1>4. /\ inbox' \in [Substations -> Seq(ToSubstation)]
      /\ inbox'[s] = Tail(inbox[s])
      /\ \A t \in Substations : t # s => inbox'[t] = inbox[t]
  BY <1>1, <1>2 DEF SubstationTypes
<1>5. \A t \in Substations : Len(inbox'[t]) <= MaxQueue
  BY <1>1, <1>2, <1>4, Bounds DEF SubstationTypes
<1> QED
  BY <1>1, <1>2, <1>3, <1>4, <1>5

\* A frame that reaches the node.
BeaconOf(s) == [kind |-> "Beacon", from |-> s, epoch |-> boot[s]]

JoinAckOf(s) == [kind |-> "JoinAck", from |-> s, epoch |-> boot[s]]

Answers(s, frame) ==
  \/ Beacon(s) /\ frame = BeaconOf(s)
  \/ AcceptJoin(s) /\ frame = JoinAckOf(s)
  \/ (AnswerDuplicate(s) \/ BufferReading(s)) /\ frame = AckOf(s)

LEMMA AnswerTypes ==
  ASSUME SubstationTypes, NEW s \in Substations, NEW frame, Answers(s, frame)
  PROVE  frame \in ToNode /\ frame.from = s
<1>1. boot[s] \in Epochs
  BY DEF SubstationTypes
<1>2. CASE Beacon(s) /\ frame = BeaconOf(s)
  BY <1>1, <1>2 DEF BeaconOf, ToNode
<1>3. CASE AcceptJoin(s) /\ frame = JoinAckOf(s)
  BY <1>1, <1>3 DEF JoinAckOf, ToNode
<1>4. CASE (AnswerDuplicate(s) \/ BufferReading(s)) /\ frame = AckOf(s)
  <2>1. Head(inbox[s]).seq \in Seqs
    BY <1>4, SubstationTakes DEF AnswerDuplicate, BufferReading
  <2> QED
    BY <1>4, <2>1 DEF AckOf, ToNode
<1> QED
  BY <1>2, <1>3, <1>4 DEF Answers

LEMMA QueueSteps ==
  ASSUME [Next]_vars
  PROVE  \/ rxQueue' \in {rxQueue, << >>}
         \/ TakeFrame
         \/ \E s \in Substations : \E frame :
              Answers(s, frame) /\ rxQueue' = Received(rxQueue, frame)
<1>1. CASE Node
  BY <1>1 DEF Node, NewReading, Drain, HearBeacon, NoBeacon, NoPeer, SendJoin, JoinSent,
     TakeJoinAck, JoinAckTimeout, JoinGivesUp, SendReading, ReadingSent, SendReadingFails,
     ReadingNotSent, AttemptFails, TakeAck, AckTimeout, SkipFrame
<1>2. ASSUME NEW s \in Substations, Beacon(s) \/ HandleIncoming(s) \/ RebootSubstation(s)
      PROVE  \/ rxQueue' = rxQueue
             \/ \E frame : Answers(s, frame) /\ rxQueue' = Received(rxQueue, frame)
  <2>1. CASE Beacon(s)
    <3>1. rxQueue' = rxQueue \/ rxQueue' = Received(rxQueue, BeaconOf(s))
      BY <2>1 DEF Beacon, SubstationSends, BeaconOf
    <3> QED
      BY <2>1, <3>1 DEF Answers
  <2>2. CASE AcceptJoin(s)
    <3>1. rxQueue' = rxQueue \/ rxQueue' = Received(rxQueue, JoinAckOf(s))
      BY <2>2 DEF AcceptJoin, SubstationSends, JoinAckOf
    <3> QED
      BY <2>2, <3>1 DEF Answers
  <2>3. CASE AnswerDuplicate(s) \/ BufferReading(s)
    <3>1. rxQueue' = rxQueue \/ rxQueue' = Received(rxQueue, AckOf(s))
      BY <2>3 DEF AnswerDuplicate, BufferReading, SubstationSends
    <3> QED
      BY <2>3, <3>1 DEF Answers
  <2>4. CASE IgnoreJoin(s) \/ DropReading(s) \/ RebootSubstation(s)
    BY <2>4 DEF IgnoreJoin, DropReading, RebootSubstation
  <2> QED
    BY <1>2, <2>1, <2>2, <2>3, <2>4 DEF HandleIncoming
<1>3. CASE RebootNode \/ BecomeTimely \/ UNCHANGED vars
  BY <1>3 DEF RebootNode, BecomeTimely, vars
<1> QED
  BY <1>1, <1>2, <1>3 DEF Next

LEMMA StepQueue ==
  ASSUME TypeInv, [Next]_vars
  PROVE  QueueTypes'
<1>1. rxQueue \in Seq(ToNode) /\ Len(rxQueue) <= MaxQueue /\ Len(rxQueue) \in Nat
  BY DEF TypeInv, QueueTypes
<1>2. CASE rxQueue' \in {rxQueue, << >>}
  <2>1. << >> \in Seq(ToNode) /\ Len(<< >>) = 0
    OBVIOUS
  <2>2. CASE rxQueue' = rxQueue
    BY <1>1, <2>2 DEF QueueTypes
  <2>3. CASE rxQueue' = << >>
    <3>1. Len(rxQueue') = 0
      BY <2>1, <2>3
    <3>2. rxQueue' \in Seq(ToNode)
      BY <2>1, <2>3
    <3> QED
      BY <3>1, <3>2, Bounds DEF QueueTypes
  <2> QED
    BY <1>2, <2>2, <2>3
<1>3. CASE TakeFrame
  <2>1. rxQueue' \in Seq(ToNode) /\ Len(rxQueue') = Len(rxQueue) - 1
    BY <1>1, <1>3, TakenFrame DEF TakeFrame
  <2> QED
    BY <1>1, <2>1, Bounds DEF QueueTypes
<1>4. ASSUME NEW s \in Substations, NEW frame, Answers(s, frame),
             rxQueue' = Received(rxQueue, frame)
      PROVE  QueueTypes'
  <2>1. frame \in ToNode
    BY <1>4, AnswerTypes DEF TypeInv
  <2> QED
    BY <1>1, <1>4, <2>1, ReceivedFrame DEF QueueTypes
<1> QED
  BY <1>2, <1>3, <1>4, QueueSteps

\* Every frame in the node's queue was there before, or is an answer of this step.
LEMMA QueueFrom ==
  ASSUME TypeInv, [Next]_vars
  PROVE  \A i \in 1 .. Len(rxQueue') :
           \/ \E j \in 1 .. Len(rxQueue) : rxQueue'[i] = rxQueue[j]
           \/ \E s \in Substations : Answers(s, rxQueue'[i])
<1>1. rxQueue \in Seq(ToNode) /\ Len(rxQueue) <= MaxQueue /\ Len(rxQueue) \in Nat
  BY DEF TypeInv, QueueTypes
<1>2. CASE rxQueue' \in {rxQueue, << >>}
  BY <1>1, <1>2
<1>3. CASE TakeFrame
  <2>1. \A i \in 1 .. Len(rxQueue') : i + 1 \in 1 .. Len(rxQueue) /\ rxQueue'[i] = rxQueue[i + 1]
    BY <1>1, <1>3, TakenFrame DEF TakeFrame
  <2> QED
    BY <2>1
<1>4. ASSUME NEW s \in Substations, NEW frame, Answers(s, frame),
             rxQueue' = Received(rxQueue, frame)
      PROVE  \A i \in 1 .. Len(rxQueue') :
               rxQueue'[i] = frame \/ \E j \in 1 .. Len(rxQueue) : rxQueue'[i] = rxQueue[j]
  <2>1. frame \in ToNode
    BY <1>4, AnswerTypes DEF TypeInv
  <2>2. rxQueue' \in Seq(ToNode) /\ ReceivedInto(rxQueue, frame, rxQueue')
    BY <1>1, <1>4, <2>1, ReceivedFrame
  <2> QED
    BY <2>2, ReceivedFrom
<1> QED
  BY <1>2, <1>3, <1>4, QueueSteps

-----------------------------------------------------------------------------
(* The substations' side *)

\* The node's frame to a substation.
NodeAsks(s, frame) ==
  \/ /\ \E reported \in BOOLEAN : SendJoin(reported)
     /\ s = offer.from /\ frame = JoinFrame
  \/ /\ SendReading \/ SendReadingFails
     /\ s = substation /\ frame = PayloadFrame

LEMMA SubstationSteps ==
  ASSUME [Next]_vars
  PROVE  \/ UNCHANGED subVars
         \/ \E s, frame :
              /\ NodeAsks(s, frame)
              /\ UNCHANGED <<boot, knows, lastSeq, buffered, taken>>
              /\ inbox' \in {inbox, [inbox EXCEPT ![s] = Received(@, frame)]}
         \/ \E s \in Substations : HandleIncoming(s) \/ RebootSubstation(s)
<1>1. CASE Node
  <2>1. ASSUME NEW reported \in BOOLEAN, SendJoin(reported)
        PROVE  /\ NodeAsks(offer.from, JoinFrame)
               /\ UNCHANGED <<boot, knows, lastSeq, buffered, taken>>
               /\ inbox' \in {inbox, [inbox EXCEPT ![offer.from] = Received(@, JoinFrame)]}
    BY <2>1 DEF SendJoin, NodeSends, NodeAsks
  <2>2. CASE SendReading \/ SendReadingFails
    <3>1. /\ NodeAsks(substation, PayloadFrame)
          /\ UNCHANGED <<boot, knows, lastSeq, buffered, taken>>
          /\ inbox' \in {inbox, [inbox EXCEPT ![substation] = Received(@, PayloadFrame)]}
      BY <2>2 DEF SendReading, SendReadingFails, NodeSends, NodeAsks
    <3> QED
      BY <3>1
  <2>3. CASE \/ NewReading \/ Drain \/ HearBeacon \/ NoBeacon \/ NoPeer
             \/ TakeJoinAck \/ JoinAckTimeout \/ JoinGivesUp \/ TakeAck \/ AckTimeout
             \/ SkipFrame
    BY <2>3 DEF NewReading, Drain, HearBeacon, NoBeacon, NoPeer, JoinFails, TakeJoinAck,
       JoinAckTimeout, JoinGivesUp, TakeAck, AckTimeout, SkipFrame
  <2> QED
    BY <1>1, <2>1, <2>2, <2>3 DEF Node
<1>2. CASE \/ \E s \in Substations : Beacon(s)
           \/ RebootNode \/ BecomeTimely \/ UNCHANGED vars
  BY <1>2 DEF Beacon, RebootNode, BecomeTimely, vars
<1> QED
  BY <1>1, <1>2 DEF Next

LEMMA AskTypes ==
  ASSUME TypeInv, NEW s, NEW frame, NodeAsks(s, frame)
  PROVE  s \in Substations /\ frame \in ToSubstation
<1>1. CASE s = offer.from /\ frame = JoinFrame
  BY <1>1 DEF TypeInv, NodeTypes, JoinFrame, ToSubstation
<1>2. CASE (SendReading \/ SendReadingFails) /\ s = substation /\ frame = PayloadFrame
  <2>1. sending
    BY <1>2 DEF TypeInv, Flow, SendReading, SendReadingFails, ReadingSent, ReadingNotSent
  <2>2. seq \in Seqs /\ reading \in Seqs
    BY <2>1, Bounds DEF TypeInv, Numbers, Seqs
  <2> QED
    BY <1>2, <2>2 DEF TypeInv, NodeTypes, PayloadFrame, ToSubstation
<1> QED
  BY <1>1, <1>2 DEF NodeAsks

\* What asking does to the inboxes.
LEMMA AskedInbox ==
  ASSUME TypeInv, NEW s, NEW frame, NodeAsks(s, frame),
         inbox' = [inbox EXCEPT ![s] = Received(@, frame)]
  PROVE  /\ inbox' \in [Substations -> Seq(ToSubstation)]
         /\ \A t \in Substations : Len(inbox'[t]) <= MaxQueue
         /\ ReceivedInto(inbox[s], frame, inbox'[s])
         /\ \A t \in Substations : t # s => inbox'[t] = inbox[t]
<1>1. s \in Substations /\ frame \in ToSubstation
  BY AskTypes
<1>2. /\ inbox \in [Substations -> Seq(ToSubstation)]
      /\ \A t \in Substations : Len(inbox[t]) <= MaxQueue
  BY DEF TypeInv, SubstationTypes
<1> DEFINE r == Received(inbox[s], frame)
<1>3. r \in Seq(ToSubstation) /\ Len(r) <= MaxQueue /\ ReceivedInto(inbox[s], frame, r)
  BY <1>1, <1>2, ReceivedFrame
<1>4. inbox' = [inbox EXCEPT ![s] = r]
  OBVIOUS
<1> HIDE DEF r
<1> QED
  BY <1>1, <1>2, <1>3, <1>4

LEMMA StepSubstations ==
  ASSUME TypeInv, [Next]_vars
  PROVE  SubstationTypes'
<1>1. SubstationTypes
  BY DEF TypeInv
<1>2. CASE UNCHANGED subVars
  BY <1>1, <1>2 DEF SubstationTypes, subVars
<1>3. ASSUME NEW s, NEW frame, NodeAsks(s, frame),
             UNCHANGED <<boot, knows, lastSeq, buffered, taken>>,
             inbox' \in {inbox, [inbox EXCEPT ![s] = Received(@, frame)]}
      PROVE  SubstationTypes'
  <2>1. /\ inbox' \in [Substations -> Seq(ToSubstation)]
        /\ \A t \in Substations : Len(inbox'[t]) <= MaxQueue
    BY <1>1, <1>3, AskedInbox DEF SubstationTypes
  <2> QED
    BY <1>1, <1>3, <2>1 DEF SubstationTypes
<1>4. ASSUME NEW s \in Substations, HandleIncoming(s)
      PROVE  SubstationTypes'
  <2>1. \E kind : Handles(s, kind)
    BY <1>4 DEF HandleIncoming, AcceptJoin, IgnoreJoin, DropReading, AnswerDuplicate,
       BufferReading
  <2>2. /\ inbox' \in [Substations -> Seq(ToSubstation)]
        /\ \A t \in Substations : Len(inbox'[t]) <= MaxQueue
    BY <1>1, <2>1, SubstationTakes
  <2>3. CASE IgnoreJoin(s) \/ DropReading(s) \/ AnswerDuplicate(s)
    BY <1>1, <2>2, <2>3 DEF SubstationTypes, IgnoreJoin, DropReading, AnswerDuplicate
  <2>4. CASE AcceptJoin(s)
    BY <1>1, <2>2, <2>4 DEF SubstationTypes, AcceptJoin
  <2>5. CASE BufferReading(s)
    <3>1. Head(inbox[s]).seq \in Seqs /\ Head(inbox[s]).reading \in Seqs
      BY <1>1, <2>5, SubstationTakes DEF BufferReading
    <3>2. buffered' \in [Substations -> Seq(Seqs)]
      <4>1. Append(buffered[s], Head(inbox[s]).reading) \in Seq(Seqs)
        BY <1>1, <3>1, AppendedFrame DEF SubstationTypes
      <4> QED
        BY <1>1, <2>5, <4>1 DEF SubstationTypes, BufferReading
    <3> QED
      BY <1>1, <2>2, <2>5, <3>1, <3>2 DEF SubstationTypes, BufferReading
  <2> QED
    BY <1>4, <2>3, <2>4, <2>5 DEF HandleIncoming
<1>5. ASSUME NEW s \in Substations, RebootSubstation(s)
      PROVE  SubstationTypes'
  <2>1. reboots + 1 \in Epochs
    BY <1>5, Bounds DEF RebootSubstation, Reboots, TypeInv, WorldTypes, Epochs
  <2>2. /\ boot' \in [Substations -> Epochs]
        /\ knows' \in [Substations -> BOOLEAN]
        /\ lastSeq' \in [Substations -> Seqs \cup {NoSeq}]
        /\ inbox' \in [Substations -> Seq(ToSubstation)]
        /\ buffered' \in [Substations -> Seq(Seqs)]
        /\ taken' \subseteq Seqs
    BY <1>1, <1>5, <2>1 DEF SubstationTypes, RebootSubstation
  <2>3. \A t \in Substations : Len(inbox'[t]) <= MaxQueue
    BY <1>1, <1>5, Bounds DEF SubstationTypes, RebootSubstation
  <2> QED
    BY <2>2, <2>3 DEF SubstationTypes
<1> QED
  BY <1>2, <1>3, <1>4, <1>5, SubstationSteps

LEMMA StepWorld ==
  ASSUME TypeInv, [Next]_vars
  PROVE  /\ WorldTypes'
         /\ reboots' \in {reboots, reboots + 1}
<1>1. CASE Node \/ UNCHANGED vars
  <2>1. UNCHANGED worldVars
    BY <1>1 DEF Node, NewReading, Drain, HearBeacon, NoBeacon, NoPeer, JoinFails, SendJoin,
       JoinSent, TakeJoinAck, JoinAckTimeout, JoinGivesUp, SendReading, ReadingSent,
       SendReadingFails, ReadingNotSent, AttemptFails, TakeAck, AckTimeout, SkipFrame, vars
  <2> QED
    BY <2>1 DEF worldVars, TypeInv, WorldTypes
<1>2. ASSUME NEW s \in Substations, Beacon(s) \/ HandleIncoming(s)
      PROVE  UNCHANGED worldVars
  BY <1>2 DEF Beacon, HandleIncoming, AcceptJoin, IgnoreJoin, DropReading, AnswerDuplicate,
     BufferReading
<1>3. ASSUME NEW s \in Substations, RebootSubstation(s) \/ RebootNode
      PROVE  /\ reboots' = reboots + 1 /\ reboots' \in 0 .. MaxReboots
             /\ timely' = timely
  BY <1>3, Bounds DEF RebootSubstation, RebootNode, Reboots, TypeInv, WorldTypes
<1>4. CASE BecomeTimely
  BY <1>4 DEF BecomeTimely, TypeInv, WorldTypes
<1>5. \E s : s \in Substations
  BY LinkAssumption
<1> QED
  BY <1>1, <1>2, <1>3, <1>4, <1>5 DEF Next, worldVars, TypeInv, WorldTypes

LEMMA InitTypes == Init => TypeInv
<1> SUFFICES ASSUME Init PROVE TypeInv
  OBVIOUS
<1> USE Bounds DEF Init
<1>1. NodeTypes
  <2>1. 0 \in Epochs /\ 0 \in 0 .. SendAttempts /\ 0 \in 0 .. JoinAttempts
    BY DEF Epochs
  <2>2. offer \in [from : Substations, epoch : Epochs]
    BY <2>1
  <2>3. sending \in BOOLEAN /\ joined \in BOOLEAN /\ startedTimely \in BOOLEAN
    OBVIOUS
  <2> QED
    BY <2>1, <2>2, <2>3 DEF NodeTypes, Steps
<1>2. Flow /\ PeersInUse /\ Numbers
  BY DEF Flow, PeersInUse, Numbers
<1>3. QueueTypes
  BY DEF QueueTypes
<1>4. SubstationTypes
  BY DEF SubstationTypes, Epochs
<1>5. WorldTypes
  <2>1. timely \in BOOLEAN
    OBVIOUS
  <2>2. reboots \in 0 .. MaxReboots
    OBVIOUS
  <2> QED
    BY <2>1, <2>2 DEF WorldTypes
<1> QED
  BY <1>1, <1>2, <1>3, <1>4, <1>5 DEF TypeInv

LEMMA StepTypes == TypeInv /\ [Next]_vars => TypeInv'
  BY StepNode, StepQueue, StepSubstations, StepWorld DEF TypeInv

LEMMA SpecTypes == Spec => []TypeInv
  BY InitTypes, StepTypes, PTL DEF Spec

-----------------------------------------------------------------------------
(* What the node and its substation know of each other *)

\* No epoch that anybody knows is of a boot to come.
EpochsPast ==
  /\ epoch <= reboots
  /\ offer.epoch <= reboots
  /\ \A s \in Substations : boot[s] <= reboots
  /\ \A i \in 1 .. Len(rxQueue) : rxQueue[i].kind # "Ack" => rxQueue[i].epoch <= reboots

\* A JoinAck of a substation's boot on its way means that it has the node.
JoinAcksTrue ==
  \A i \in 1 .. Len(rxQueue) :
    rxQueue[i].kind = "JoinAck" /\ boot[rxQueue[i].from] = rxQueue[i].epoch =>
      knows[rxQueue[i].from]

AgreementInv == EpochsPast /\ JoinAcksTrue /\ JoinedAgreement

LEMMA InitAgreement == Init => AgreementInv
BY DEF Init, AgreementInv, EpochsPast, JoinAcksTrue, JoinedAgreement

\* A substation forgets the node only with a new boot.
LEMMA KnowsStays ==
  ASSUME TypeInv, [Next]_vars, NEW s \in Substations
  PROVE  \/ boot'[s] = boot[s] /\ (knows[s] => knows'[s])
         \/ boot'[s] = reboots + 1 /\ reboots' = reboots + 1
<1>1. boot \in [Substations -> Epochs] /\ knows \in [Substations -> BOOLEAN]
  BY DEF TypeInv, SubstationTypes
<1>2. CASE boot' = boot /\ knows' = knows
  BY <1>2
<1>3. ASSUME NEW t \in Substations, HandleIncoming(t)
      PROVE  boot' = boot /\ knows' \in {knows, [knows EXCEPT ![t] = TRUE]}
  BY <1>3 DEF HandleIncoming, AcceptJoin, IgnoreJoin, DropReading, AnswerDuplicate, BufferReading
<1>4. ASSUME NEW t \in Substations, RebootSubstation(t)
      PROVE  \/ boot'[s] = boot[s] /\ (knows[s] => knows'[s])
             \/ boot'[s] = reboots + 1 /\ reboots' = reboots + 1
  BY <1>1, <1>4 DEF RebootSubstation, Reboots
<1>5. UNCHANGED subVars => boot' = boot /\ knows' = knows
  BY DEF subVars
<1>6. ASSUME NEW t \in Substations, HandleIncoming(t)
      PROVE  boot'[s] = boot[s] /\ (knows[s] => knows'[s])
  BY <1>1, <1>3, <1>6
<1> QED
  BY <1>2, <1>4, <1>5, <1>6, SubstationSteps

\* The node joins by an answer to its Join.
LEMMA JoinedBy ==
  ASSUME [Next]_vars
  PROVE  \/ TakeJoinAck
         \/ UNCHANGED <<substation, epoch>> /\ (joined' => joined)
<1>1. CASE NodeUnchanged
  BY <1>1 DEF NodeUnchanged, joinedVars
<1>2. CASE NodeStep
  BY <1>2 DEF NodeStep, NewReading, Drain, HearBeacon, NoBeacon, NoPeer, JoinFails, SendJoin,
     JoinSent, JoinAckTimeout, JoinGivesUp, SendReading, ReadingSent, SendReadingFails,
     ReadingNotSent, AttemptFails, TakeAck, AckTimeout, RebootNode, joinedVars
<1> QED
  BY <1>1, <1>2, NodeSteps

LEMMA OfferedBy ==
  ASSUME [Next]_vars
  PROVE  HearBeacon \/ offer' = offer
<1>1. CASE NodeUnchanged
  BY <1>1 DEF NodeUnchanged, sendVars
<1>2. CASE NodeStep
  BY <1>2 DEF NodeStep, NewReading, Drain, NoBeacon, NoPeer, JoinFails, SendJoin,
     JoinSent, TakeJoinAck, JoinAckTimeout, JoinGivesUp, SendReading, ReadingSent,
     SendReadingFails, ReadingNotSent, AttemptFails, TakeAck, AckTimeout, RebootNode
<1> QED
  BY <1>1, <1>2, NodeSteps

\* The frame the node takes is in its queue.
LEMMA TakenIsQueued ==
  ASSUME QueueTypes, TakeFrame
  PROVE  1 \in 1 .. Len(rxQueue) /\ Head(rxQueue) = rxQueue[1] /\ rxQueue[1] \in ToNode
<1>1. rxQueue \in Seq(ToNode) /\ rxQueue # << >>
  BY DEF QueueTypes, TakeFrame
<1> QED
  BY <1>1, TakenFrame

LEMMA StepEpochsPast ==
  ASSUME TypeInv, EpochsPast, [Next]_vars
  PROVE  EpochsPast'
<1>1. reboots \in Nat /\ reboots' \in Nat /\ reboots <= reboots'
  BY StepWorld, Bounds DEF TypeInv, WorldTypes
<1>2. offer.epoch \in Nat /\ epoch \in Nat /\ \A s \in Substations : boot[s] \in Nat
  BY Bounds DEF TypeInv, NodeTypes, SubstationTypes, Epochs
<1>3. \A s \in Substations : boot'[s] <= reboots'
  BY <1>1, <1>2, KnowsStays DEF EpochsPast
<1>4. epoch' <= reboots'
  <2>1. CASE TakeJoinAck
    BY <1>1, <1>2, <2>1 DEF TakeJoinAck, EpochsPast
  <2>2. CASE epoch' = epoch
    BY <1>1, <1>2, <2>2 DEF EpochsPast
  <2> QED
    BY <2>1, <2>2, JoinedBy
<1>5. offer'.epoch <= reboots'
  <2>1. CASE HearBeacon
    <3>1. /\ rxQueue[1].kind = "Beacon" /\ offer'.epoch = rxQueue[1].epoch
          /\ 1 \in 1 .. Len(rxQueue) /\ rxQueue[1].epoch \in Epochs
      BY <2>1, TakenIsQueued, NodeTakes DEF HearBeacon, TypeInv
    <3>2. offer'.epoch <= reboots /\ offer'.epoch \in Nat
      BY <3>1, Bounds DEF EpochsPast, Epochs
    <3> QED
      BY <1>1, <3>2
  <2>2. CASE offer' = offer
    BY <1>1, <1>2, <2>2 DEF EpochsPast
  <2> QED
    BY <2>1, <2>2, OfferedBy
<1>6. ASSUME NEW i \in 1 .. Len(rxQueue'), rxQueue'[i].kind # "Ack"
      PROVE  rxQueue'[i].epoch <= reboots'
  <2>1. ASSUME NEW j \in 1 .. Len(rxQueue), rxQueue'[i] = rxQueue[j]
        PROVE  rxQueue'[i].epoch <= reboots'
    <3>1. rxQueue[j] \in ToNode /\ rxQueue[j].kind # "Ack"
      BY <1>6, <2>1 DEF TypeInv, QueueTypes
    <3>2. rxQueue[j].epoch \in Nat
      BY <3>1, Bounds DEF ToNode, Epochs
    <3> QED
      BY <1>1, <2>1, <3>1, <3>2 DEF EpochsPast
  <2>2. ASSUME NEW s \in Substations, Answers(s, rxQueue'[i])
        PROVE  rxQueue'[i].epoch <= reboots'
    <3>1. rxQueue'[i] = BeaconOf(s) \/ rxQueue'[i] = JoinAckOf(s)
      BY <1>6, <2>2 DEF Answers, AckOf
    <3>2. rxQueue'[i].epoch = boot[s]
      BY <3>1 DEF BeaconOf, JoinAckOf
    <3> QED
      BY <1>1, <1>2, <3>2 DEF EpochsPast
  <2> QED
    BY <2>1, <2>2, QueueFrom
<1> QED
  BY <1>3, <1>4, <1>5, <1>6 DEF EpochsPast

LEMMA StepAgreement ==
  ASSUME TypeInv, AgreementInv, [Next]_vars
  PROVE  AgreementInv'
<1>1. EpochsPast'
  BY StepEpochsPast DEF AgreementInv
<1>2. ASSUME NEW s \in Substations, NEW e, e <= reboots, e \in Nat,
             boot[s] = e => knows[s], boot'[s] = e
      PROVE  knows'[s]
  <2>1. reboots \in Nat
    BY DEF TypeInv, WorldTypes
  <2>2. CASE boot'[s] = boot[s] /\ (knows[s] => knows'[s])
    BY <1>2, <2>2
  <2>3. CASE boot'[s] = reboots + 1
    BY <1>2, <2>1, <2>3
  <2> QED
    BY <2>2, <2>3, KnowsStays
<1>3. JoinedAgreement'
  <2>1. CASE TakeJoinAck
    <3>1. /\ substation' = offer.from /\ epoch' = offer.epoch
          /\ boot' = boot /\ knows' = knows
          /\ rxQueue[1] = OurJoinAck /\ 1 \in 1 .. Len(rxQueue)
      BY <2>1, TakenIsQueued DEF TakeJoinAck, IsJoinAck, subVars, TypeInv
    <3>2. boot[offer.from] = offer.epoch => knows[offer.from]
      BY <3>1 DEF AgreementInv, JoinAcksTrue, OurJoinAck
    <3> QED
      BY <3>1, <3>2 DEF JoinedAgreement
  <2>2. CASE UNCHANGED <<substation, epoch>> /\ (joined' => joined)
    <3>1. SUFFICES ASSUME joined', boot'[substation] = epoch PROVE knows'[substation]
      BY <2>2 DEF JoinedAgreement
    <3>2. substation \in Substations /\ epoch \in Nat /\ epoch <= reboots
      BY Bounds DEF TypeInv, NodeTypes, Epochs, AgreementInv, EpochsPast
    <3>3. boot[substation] = epoch => knows[substation]
      BY <2>2, <3>1 DEF AgreementInv, JoinedAgreement
    <3> QED
      BY <1>2, <3>1, <3>2, <3>3
  <2> QED
    BY <2>1, <2>2, JoinedBy
<1>4. JoinAcksTrue'
  <2>1. SUFFICES ASSUME NEW i \in 1 .. Len(rxQueue'), rxQueue'[i].kind = "JoinAck",
                        boot'[rxQueue'[i].from] = rxQueue'[i].epoch
                 PROVE  knows'[rxQueue'[i].from]
    BY DEF JoinAcksTrue
  <2>2. ASSUME NEW j \in 1 .. Len(rxQueue), rxQueue'[i] = rxQueue[j]
        PROVE  knows'[rxQueue'[i].from]
    <3>1. rxQueue[j] \in ToNode /\ rxQueue[j].kind = "JoinAck"
      BY <2>1, <2>2 DEF TypeInv, QueueTypes
    <3>2. /\ rxQueue[j].from \in Substations /\ rxQueue[j].epoch \in Nat
          /\ rxQueue[j].epoch <= reboots
      BY <3>1, Bounds DEF ToNode, Epochs, AgreementInv, EpochsPast
    <3>3. boot[rxQueue[j].from] = rxQueue[j].epoch => knows[rxQueue[j].from]
      BY <3>1 DEF AgreementInv, JoinAcksTrue
    <3> QED
      BY <1>2, <2>1, <2>2, <3>2, <3>3
  <2>3. ASSUME NEW s \in Substations, Answers(s, rxQueue'[i])
        PROVE  knows'[rxQueue'[i].from]
    <3>1. AcceptJoin(s) /\ rxQueue'[i] = JoinAckOf(s)
      BY <2>1, <2>3 DEF Answers, AckOf, BeaconOf
    <3>2. knows'[s]
      BY <3>1 DEF AcceptJoin, TypeInv, SubstationTypes
    <3> QED
      BY <3>1, <3>2 DEF JoinAckOf
  <2> QED
    BY <2>2, <2>3, QueueFrom
<1> QED
  BY <1>1, <1>3, <1>4 DEF AgreementInv

-----------------------------------------------------------------------------
(* What the substations buffer *)

Payloads(s) == {i \in 1 .. Len(inbox[s]) : inbox[s][i].kind = "Payload"}

\* The readings in a substation's queue come in order, and one reading has one
\* number while it is there, whatever the counter does between readings.
InboxOrdered(s) ==
  /\ \A i \in Payloads(s) :
       /\ inbox[s][i].reading <= reading
       /\ sending /\ inbox[s][i].reading = reading => inbox[s][i].seq = seq
  /\ \A i, j \in Payloads(s) :
       /\ i < j => inbox[s][i].reading <= inbox[s][j].reading
       /\ inbox[s][i].reading = inbox[s][j].reading => inbox[s][i].seq = inbox[s][j].seq

\* What is buffered is in order and older than what is to come; a resend of the
\* newest has the number of which the substation keeps a note.
BufferOrdered(s) ==
  /\ \A k, m \in 1 .. Len(buffered[s]) : k < m => buffered[s][k] < buffered[s][m]
  /\ \A k \in 1 .. Len(buffered[s]) :
       /\ buffered[s][k] <= reading
       /\ sending /\ buffered[s][k] = reading => lastSeq[s] = seq
       /\ \A i \in Payloads(s) :
            /\ buffered[s][k] <= inbox[s][i].reading
            /\ buffered[s][k] = inbox[s][i].reading => lastSeq[s] = inbox[s][i].seq

OrderInv == \A s \in Substations : InboxOrdered(s) /\ BufferOrdered(s)

\* The types the order is about.
LEMMA OrderTypes ==
  ASSUME TypeInv, NEW s \in Substations
  PROVE  /\ reading \in Nat /\ seq \in Nat
         /\ inbox[s] \in Seq(ToSubstation) /\ Len(inbox[s]) \in Nat
         /\ Len(inbox[s]) <= MaxQueue
         /\ buffered[s] \in Seq(Seqs) /\ Len(buffered[s]) \in Nat
         /\ \A k \in 1 .. Len(buffered[s]) : buffered[s][k] \in Nat
         /\ \A i \in Payloads(s) :
              /\ i \in 1 .. Len(inbox[s]) /\ inbox[s][i].kind = "Payload"
              /\ inbox[s][i].seq \in Nat /\ inbox[s][i].reading \in Nat
<1>1. reading \in Nat /\ seq \in Nat
  BY Bounds DEF TypeInv, Numbers
<1>2. /\ inbox[s] \in Seq(ToSubstation) /\ Len(inbox[s]) \in Nat
      /\ Len(inbox[s]) <= MaxQueue
      /\ buffered[s] \in Seq(Seqs) /\ Len(buffered[s]) \in Nat
  BY DEF TypeInv, SubstationTypes
<1>3. Seqs \subseteq Nat
  BY Bounds DEF Seqs
<1>4. ASSUME NEW k \in 1 .. Len(buffered[s])
      PROVE  buffered[s][k] \in Nat
  <2>1. buffered[s][k] \in Seqs
    BY <1>2
  <2> QED
    BY <1>3, <2>1
<1>5. ASSUME NEW i \in Payloads(s)
      PROVE  /\ i \in 1 .. Len(inbox[s]) /\ inbox[s][i].kind = "Payload"
             /\ inbox[s][i].seq \in Nat /\ inbox[s][i].reading \in Nat
  <2>1. i \in 1 .. Len(inbox[s]) /\ inbox[s][i].kind = "Payload"
    BY <1>5 DEF Payloads
  <2>2. inbox[s][i] \in ToSubstation
    BY <1>2, <2>1
  <2> QED
    BY <1>3, <2>1, <2>2 DEF ToSubstation
<1> QED
  BY <1>1, <1>2, <1>4, <1>5

\* What a step does to the numbers.
LEMMA NumberSteps ==
  ASSUME [Next]_vars
  PROVE  \/ UNCHANGED <<reading, seq, sending>>
         \/ reading' = reading + 1 /\ UNCHANGED subVars
         \/ sending' = FALSE /\ reading' = reading /\ UNCHANGED subVars
<1>1. CASE NodeUnchanged
  BY <1>1 DEF NodeUnchanged, sendVars, seqVars
<1>2. CASE NewReading
  BY <1>2 DEF NewReading
<1>3. CASE RebootNode
  BY <1>3 DEF RebootNode
<1>4. CASE NodeStep /\ ~ NewReading /\ ~ RebootNode
  BY <1>4 DEF NodeStep, Drain, HearBeacon, NoBeacon, NoPeer, JoinFails, SendJoin,
     JoinSent, TakeJoinAck, JoinAckTimeout, JoinGivesUp, SendReading, ReadingSent,
     SendReadingFails, ReadingNotSent, AttemptFails, TakeAck, AckTimeout, seqVars
<1> QED
  BY <1>1, <1>2, <1>3, <1>4, NodeSteps

\* A step at which the substation neither gets nor handles a frame.
LEMMA OrderKept ==
  ASSUME TypeInv, NEW s \in Substations, InboxOrdered(s), BufferOrdered(s),
         inbox'[s] = inbox[s], buffered'[s] = buffered[s], lastSeq'[s] = lastSeq[s],
         \/ UNCHANGED <<reading, seq, sending>>
         \/ reading' = reading + 1
         \/ sending' = FALSE /\ reading' = reading
  PROVE  InboxOrdered(s)' /\ BufferOrdered(s)'
<1>1. Payloads(s)' = Payloads(s)
  BY DEF Payloads
<1>2. InboxOrdered(s)'
  <2>1. ASSUME NEW i \in Payloads(s)
        PROVE  /\ inbox'[s][i].reading <= reading'
               /\ sending' /\ inbox'[s][i].reading = reading' => inbox'[s][i].seq = seq'
    BY <2>1, OrderTypes DEF InboxOrdered
  <2> QED
    BY <1>1, <2>1 DEF InboxOrdered
<1>3. BufferOrdered(s)'
  <2>1. ASSUME NEW k \in 1 .. Len(buffered[s])
        PROVE  /\ buffered'[s][k] <= reading'
               /\ sending' /\ buffered'[s][k] = reading' => lastSeq'[s] = seq'
    BY <2>1, OrderTypes DEF BufferOrdered
  <2> QED
    BY <1>1, <2>1 DEF BufferOrdered
<1> QED
  BY <1>2, <1>3

\* Frames that move up one place are in order still.
LEMMA OrderTail ==
  ASSUME TypeInv, NEW s \in Substations, InboxOrdered(s), BufferOrdered(s),
         UNCHANGED <<reading, seq, sending>>,
         Len(inbox'[s]) \in Nat,
         \A i \in 1 .. Len(inbox'[s]) :
           i + 1 \in 1 .. Len(inbox[s]) /\ inbox'[s][i] = inbox[s][i + 1],
         buffered'[s] = buffered[s], lastSeq'[s] = lastSeq[s]
  PROVE  InboxOrdered(s)' /\ BufferOrdered(s)'
<1>1. \A i \in Payloads(s)' : /\ i \in Nat /\ i + 1 \in Payloads(s)
                              /\ inbox'[s][i] = inbox[s][i + 1]
  BY DEF Payloads
<1>2. InboxOrdered(s)'
  <2>1. ASSUME NEW i \in Payloads(s)'
        PROVE  /\ inbox'[s][i].reading <= reading'
               /\ sending' /\ inbox'[s][i].reading = reading' => inbox'[s][i].seq = seq'
    BY <1>1, <2>1 DEF InboxOrdered
  <2>2. ASSUME NEW i \in Payloads(s)', NEW j \in Payloads(s)'
        PROVE  /\ i < j => inbox'[s][i].reading <= inbox'[s][j].reading
               /\ inbox'[s][i].reading = inbox'[s][j].reading =>
                    inbox'[s][i].seq = inbox'[s][j].seq
    <3>1. i < j => i + 1 < j + 1
      BY <1>1
    <3> QED
      BY <1>1, <3>1 DEF InboxOrdered
  <2> QED
    BY <2>1, <2>2 DEF InboxOrdered
<1>3. BufferOrdered(s)'
  BY <1>1 DEF BufferOrdered
<1> QED
  BY <1>2, <1>3

\* A reading that arrives is as new as any there, and has its number.
LEMMA OrderAppend ==
  ASSUME TypeInv, NEW s \in Substations, InboxOrdered(s), BufferOrdered(s),
         UNCHANGED <<reading, seq, sending>>,
         NEW frame, frame.kind = "Payload" => sending /\ frame = PayloadFrame,
         ReceivedInto(inbox[s], frame, inbox'[s]), Len(inbox'[s]) \in Nat,
         buffered'[s] = buffered[s], lastSeq'[s] = lastSeq[s]
  PROVE  InboxOrdered(s)' /\ BufferOrdered(s)'
<1> DEFINE n == Len(inbox'[s])
<1>1. PICK k \in {0, 1} :
        /\ inbox'[s][n] = frame
        /\ \A i \in 1 .. n - 1 : i + k \in 1 .. Len(inbox[s]) /\ inbox'[s][i] = inbox[s][i + k]
  BY DEF ReceivedInto
<1>2. ASSUME NEW i \in Payloads(s)'
      PROVE  /\ i \in Nat /\ i <= n
             /\ i = n => /\ sending /\ inbox'[s][i].reading = reading
                         /\ inbox'[s][i].seq = seq
             /\ i # n => /\ i < n /\ i + k \in Payloads(s)
                         /\ inbox'[s][i] = inbox[s][i + k]
  <2>1. i \in 1 .. n /\ inbox'[s][i].kind = "Payload"
    BY <1>2 DEF Payloads
  <2>2. CASE i = n
    <3>1. sending /\ inbox'[s][i] = PayloadFrame
      BY <1>1, <2>1, <2>2
    <3> QED
      BY <2>1, <2>2, <3>1 DEF PayloadFrame
  <2>3. CASE i # n
    <3>1. i \in 1 .. n - 1
      BY <2>1, <2>3
    <3> QED
      BY <1>1, <2>1, <2>3, <3>1 DEF Payloads
  <2> QED
    BY <2>1, <2>2, <2>3
<1> HIDE DEF n
<1>3. InboxOrdered(s)'
  <2>1. ASSUME NEW i \in Payloads(s)'
        PROVE  /\ inbox'[s][i].reading <= reading'
               /\ sending' /\ inbox'[s][i].reading = reading' => inbox'[s][i].seq = seq'
    BY <1>2, <2>1, OrderTypes DEF InboxOrdered
  <2>2. ASSUME NEW i \in Payloads(s)', NEW j \in Payloads(s)'
        PROVE  /\ i < j => inbox'[s][i].reading <= inbox'[s][j].reading
               /\ inbox'[s][i].reading = inbox'[s][j].reading =>
                    inbox'[s][i].seq = inbox'[s][j].seq
    <3>1. CASE i = n
      BY <1>2, <2>1, <2>2, <3>1, OrderTypes
    <3>2. CASE i # n /\ j = n
      BY <1>2, <2>1, <2>2, <3>2, OrderTypes
    <3>3. CASE i # n /\ j # n
      <4>1. /\ i + k \in Payloads(s) /\ j + k \in Payloads(s)
            /\ i < j => i + k < j + k
            /\ inbox'[s][i] = inbox[s][i + k] /\ inbox'[s][j] = inbox[s][j + k]
        BY <1>2, <2>2, <3>3
      <4> QED
        BY <4>1 DEF InboxOrdered
    <3> QED
      BY <3>1, <3>2, <3>3
  <2> QED
    BY <2>1, <2>2 DEF InboxOrdered
<1>4. BufferOrdered(s)'
  <2>1. ASSUME NEW i \in Payloads(s)', NEW m \in 1 .. Len(buffered[s])
        PROVE  /\ buffered[s][m] <= inbox'[s][i].reading
               /\ buffered[s][m] = inbox'[s][i].reading => lastSeq[s] = inbox'[s][i].seq
    <3>1. CASE i = n
      BY <1>2, <2>1, <3>1 DEF BufferOrdered
    <3>2. CASE i # n
      BY <1>2, <2>1, <3>2 DEF BufferOrdered
    <3> QED
      BY <3>1, <3>2
  <2> QED
    BY <2>1 DEF BufferOrdered
<1> QED
  BY <1>3, <1>4

\* A substation buffers only what is newer than all it has.
LEMMA OrderBuffer ==
  ASSUME TypeInv, NEW s \in Substations, InboxOrdered(s), BufferOrdered(s),
         UNCHANGED <<reading, seq, sending>>, BufferReading(s)
  PROVE  InboxOrdered(s)' /\ BufferOrdered(s)'
<1>0. SubstationTypes
  BY DEF TypeInv
<1> DEFINE h == Head(inbox[s])
<1>1. /\ inbox[s] # << >> /\ inbox[s] \in Seq(ToSubstation)
      /\ h = inbox[s][1] /\ h.kind = "Payload" /\ h.reading \in Seqs /\ h.seq \in Seqs
      /\ inbox'[s] = Tail(inbox[s])
  BY <1>0, SubstationTakes DEF BufferReading
<1>2. lastSeq[s] # h.seq /\ lastSeq'[s] = h.seq
      /\ buffered'[s] = Append(buffered[s], h.reading)
  BY <1>0 DEF BufferReading, IsDuplicate, SubstationTypes
<1> HIDE DEF h
<1>3. /\ Len(inbox[s]) \in Nat /\ Len(inbox[s]) > 0 /\ Len(inbox'[s]) \in Nat
      /\ \A i \in 1 .. Len(inbox'[s]) :
           i + 1 \in 1 .. Len(inbox[s]) /\ inbox'[s][i] = inbox[s][i + 1]
  BY <1>1, TakenFrame
<1>4. 1 \in Payloads(s)
  BY <1>1, <1>3 DEF Payloads
<1>5. \A i \in Payloads(s)' : /\ i + 1 \in Payloads(s) /\ 1 < i + 1
                              /\ inbox'[s][i] = inbox[s][i + 1]
  BY <1>3 DEF Payloads
<1>6. InboxOrdered(s)'
  <2>1. ASSUME NEW i \in Payloads(s)'
        PROVE  /\ inbox'[s][i].reading <= reading'
               /\ sending' /\ inbox'[s][i].reading = reading' => inbox'[s][i].seq = seq'
    BY <1>5, <2>1 DEF InboxOrdered
  <2>2. ASSUME NEW i \in Payloads(s)', NEW j \in Payloads(s)'
        PROVE  /\ i < j => inbox'[s][i].reading <= inbox'[s][j].reading
               /\ inbox'[s][i].reading = inbox'[s][j].reading =>
                    inbox'[s][i].seq = inbox'[s][j].seq
    <3>1. i < j => i + 1 < j + 1
      BY <1>3 DEF Payloads
    <3> QED
      BY <1>5, <3>1 DEF InboxOrdered
  <2> QED
    BY <2>1, <2>2 DEF InboxOrdered
<1>7. ASSUME NEW m \in 1 .. Len(buffered[s])
      PROVE  buffered[s][m] < h.reading
  <2>1. /\ buffered[s][m] <= h.reading
        /\ buffered[s][m] = h.reading => lastSeq[s] = h.seq
    BY <1>1, <1>4, <1>7 DEF BufferOrdered
  <2>2. buffered[s][m] \in Nat /\ h.reading \in Nat
    BY <1>1, <1>4, <1>7, OrderTypes
  <2> QED
    BY <1>2, <2>1, <2>2
<1> DEFINE N == Len(buffered[s])
           b == Append(buffered[s], h.reading)
<1>8. /\ N \in Nat /\ Len(b) = N + 1 /\ b[N + 1] = h.reading
      /\ \A m \in 1 .. N : b[m] = buffered[s][m]
  BY <1>1, OrderTypes, AppendedFrame
<1>9. \A m \in 1 .. Len(b) : m \in 1 .. N \/ m = N + 1
  BY <1>8
<1>10. \A m \in 1 .. N : buffered[s][m] \in Nat
  BY OrderTypes
<1>11. buffered'[s] = b
  BY <1>2
<1>12. h.reading \in Nat /\ reading \in Nat
  BY <1>1, <1>4, OrderTypes
<1> HIDE DEF N, b
<1>13. ASSUME NEW m \in 1 .. Len(b), NEW o \in 1 .. Len(b), m < o
       PROVE  b[m] < b[o]
  <2>1. m \in 1 .. N
    BY <1>8, <1>13
  <2>2. CASE o \in 1 .. N
    BY <1>8, <1>13, <2>1, <2>2 DEF BufferOrdered, N
  <2>3. CASE o = N + 1
    BY <1>7, <1>8, <2>1, <2>3 DEF N
  <2> QED
    BY <1>9, <1>13, <2>2, <2>3
<1>14. ASSUME NEW m \in 1 .. Len(b)
       PROVE  b[m] <= h.reading /\ b[m] \in Nat
  BY <1>7, <1>8, <1>9, <1>10, <1>12, <1>14 DEF N
<1>15. /\ h.reading <= reading
       /\ sending /\ h.reading = reading => h.seq = seq
  BY <1>1, <1>4 DEF InboxOrdered
<1>16. ASSUME NEW i \in Payloads(s)'
       PROVE  /\ h.reading <= inbox'[s][i].reading
              /\ h.reading = inbox'[s][i].reading => h.seq = inbox'[s][i].seq
              /\ inbox'[s][i].reading \in Nat
  BY <1>1, <1>4, <1>5, <1>16, OrderTypes DEF InboxOrdered
<1>17. ASSUME NEW m \in 1 .. Len(b)
       PROVE  /\ b[m] <= reading
              /\ sending /\ b[m] = reading => h.seq = seq
  BY <1>12, <1>14, <1>15, <1>17
<1>18. ASSUME NEW m \in 1 .. Len(b), NEW i \in Payloads(s)'
       PROVE  /\ b[m] <= inbox'[s][i].reading
              /\ b[m] = inbox'[s][i].reading => h.seq = inbox'[s][i].seq
  BY <1>12, <1>14, <1>16, <1>18
<1>19. BufferOrdered(s)'
  BY <1>2, <1>11, <1>13, <1>17, <1>18 DEF BufferOrdered
<1> QED
  BY <1>6, <1>19

LEMMA StepOrder == TypeInv /\ OrderInv /\ [Next]_vars => OrderInv'
<1> SUFFICES ASSUME TypeInv, OrderInv, [Next]_vars, NEW t \in Substations
             PROVE  InboxOrdered(t)' /\ BufferOrdered(t)'
  BY DEF OrderInv
<1>1. TypeInv' /\ SubstationTypes /\ SubstationTypes'
  BY StepTypes DEF TypeInv
<1>2. InboxOrdered(t) /\ BufferOrdered(t)
  BY DEF OrderInv
<1>3. Len(inbox'[t]) \in Nat
  BY <1>1 DEF SubstationTypes
<1>4. \/ UNCHANGED <<reading, seq, sending>>
      \/ reading' = reading + 1 /\ UNCHANGED subVars
      \/ sending' = FALSE /\ reading' = reading /\ UNCHANGED subVars
  BY NumberSteps
<1>5. CASE UNCHANGED subVars
  BY <1>2, <1>4, <1>5, OrderKept DEF subVars
<1>6. CASE UNCHANGED <<reading, seq, sending>>
  <2>1. CASE inbox'[t] = inbox[t] /\ buffered'[t] = buffered[t] /\ lastSeq'[t] = lastSeq[t]
    BY <1>2, <1>6, <2>1, OrderKept
  <2>2. ASSUME NEW s, NEW frame, NodeAsks(s, frame),
               UNCHANGED <<boot, knows, lastSeq, buffered, taken>>,
               inbox' \in {inbox, [inbox EXCEPT ![s] = Received(@, frame)]}
        PROVE  InboxOrdered(t)' /\ BufferOrdered(t)'
    <3>1. CASE inbox' = inbox
      BY <2>1, <2>2, <3>1
    <3>2. CASE inbox' = [inbox EXCEPT ![s] = Received(@, frame)]
      <4>1. /\ ReceivedInto(inbox[s], frame, inbox'[s])
            /\ \A u \in Substations : u # s => inbox'[u] = inbox[u]
        BY <2>2, <3>2, AskedInbox
      <4>2. frame.kind = "Payload" => sending /\ frame = PayloadFrame
        <5>1. SendReading \/ SendReadingFails => sending
          BY DEF TypeInv, Flow, SendReading, SendReadingFails, ReadingSent, ReadingNotSent
        <5>2. JoinFrame.kind # "Payload"
          BY DEF JoinFrame
        <5> QED
          BY <2>2, <5>1, <5>2 DEF NodeAsks
      <4>3. CASE t = s
        BY <1>2, <1>3, <1>6, <2>2, <4>1, <4>2, <4>3, OrderAppend
      <4>4. CASE t # s
        BY <2>1, <2>2, <4>1, <4>4
      <4> QED
        BY <4>3, <4>4
    <3> QED
      BY <2>2, <3>1, <3>2
  <2>3. ASSUME NEW s \in Substations, HandleIncoming(s)
        PROVE  InboxOrdered(t)' /\ BufferOrdered(t)'
    <3>1. CASE t = s /\ BufferReading(s)
      BY <1>2, <1>6, <3>1, OrderBuffer
    <3>2. PICK kind : Handles(s, kind)
      BY <2>3 DEF HandleIncoming, AcceptJoin, IgnoreJoin, DropReading, AnswerDuplicate,
         BufferReading
    <3>3. /\ inbox[s] \in Seq(ToSubstation) /\ inbox[s] # << >>
          /\ inbox'[s] = Tail(inbox[s])
          /\ \A u \in Substations : u # s => inbox'[u] = inbox[u]
      BY <1>1, <3>2, SubstationTakes
    <3>4. CASE t = s /\ ~ BufferReading(s)
      <4>1. UNCHANGED <<lastSeq, buffered>>
        BY <2>3, <3>4 DEF HandleIncoming, AcceptJoin, IgnoreJoin, DropReading,
           AnswerDuplicate
      <4>2. \A i \in 1 .. Len(inbox'[s]) :
              i + 1 \in 1 .. Len(inbox[s]) /\ inbox'[s][i] = inbox[s][i + 1]
        BY <3>3, TakenFrame
      <4> QED
        BY <1>2, <1>3, <1>6, <3>4, <4>1, <4>2, OrderTail
    <3>5. CASE t # s
      <4>1. lastSeq'[t] = lastSeq[t] /\ buffered'[t] = buffered[t]
        BY <1>1, <2>3, <3>5 DEF SubstationTypes, HandleIncoming, AcceptJoin, IgnoreJoin,
           DropReading, AnswerDuplicate, BufferReading
      <4> QED
        BY <2>1, <3>3, <3>5, <4>1
    <3> QED
      BY <3>1, <3>4, <3>5
  <2>4. ASSUME NEW s \in Substations, RebootSubstation(s)
        PROVE  InboxOrdered(t)' /\ BufferOrdered(t)'
    <3>1. CASE t = s
      <4>1. inbox'[t] = << >> /\ buffered'[t] = << >>
        BY <1>1, <2>4, <3>1 DEF SubstationTypes, RebootSubstation
      <4>2. Payloads(t)' = {} /\ Len(buffered'[t]) = 0
        BY <4>1 DEF Payloads
      <4> QED
        BY <4>2 DEF InboxOrdered, BufferOrdered
    <3>2. CASE t # s
      <4>1. inbox'[t] = inbox[t] /\ lastSeq'[t] = lastSeq[t] /\ buffered'[t] = buffered[t]
        BY <1>1, <2>4, <3>2 DEF SubstationTypes, RebootSubstation
      <4> QED
        BY <2>1, <4>1
    <3> QED
      BY <3>1, <3>2
  <2> QED
    BY <1>5, <2>2, <2>3, <2>4, SubstationSteps
<1> QED
  BY <1>4, <1>5, <1>6

LEMMA InitOrder == Init => OrderInv
<1> SUFFICES ASSUME Init, NEW s \in Substations
             PROVE  InboxOrdered(s) /\ BufferOrdered(s)
  BY DEF OrderInv
<1>1. inbox[s] = << >> /\ buffered[s] = << >>
  BY DEF Init
<1>2. Payloads(s) = {} /\ Len(buffered[s]) = 0
  BY <1>1 DEF Payloads
<1> QED
  BY <1>2 DEF InboxOrdered, BufferOrdered

-----------------------------------------------------------------------------
(* What counts as delivered, while NVS loses no number *)

\* Every frame in a substation's queue was there before, or is the node's.
LEMMA InboxFrom ==
  ASSUME TypeInv, [Next]_vars, NEW t \in Substations
  PROVE  \A i \in 1 .. Len(inbox'[t]) :
           \/ inbox'[t][i] \in {JoinFrame, PayloadFrame}
           \/ \E j \in 1 .. Len(inbox[t]) : inbox'[t][i] = inbox[t][j]
<1>1. SubstationTypes /\ SubstationTypes'
  BY StepSubstations DEF TypeInv
<1>2. Len(inbox'[t]) \in Nat
  BY <1>1 DEF SubstationTypes
<1>3. CASE inbox'[t] = inbox[t]
  BY <1>3
<1>4. ASSUME NEW s \in Substations, HandleIncoming(s)
      PROVE  \A i \in 1 .. Len(inbox'[t]) :
               \E j \in 1 .. Len(inbox[t]) : inbox'[t][i] = inbox[t][j]
  <2>1. PICK kind : Handles(s, kind)
    BY <1>4 DEF HandleIncoming, AcceptJoin, IgnoreJoin, DropReading, AnswerDuplicate,
       BufferReading
  <2>2. /\ inbox[s] \in Seq(ToSubstation) /\ inbox[s] # << >>
        /\ inbox'[s] = Tail(inbox[s])
        /\ \A u \in Substations : u # s => inbox'[u] = inbox[u]
    BY <1>1, <2>1, SubstationTakes
  <2>3. \A i \in 1 .. Len(inbox'[s]) :
          i + 1 \in 1 .. Len(inbox[s]) /\ inbox'[s][i] = inbox[s][i + 1]
    BY <2>2, TakenFrame
  <2> QED
    BY <2>2, <2>3
<1>5. ASSUME NEW s \in Substations, RebootSubstation(s)
      PROVE  inbox'[t] \in {inbox[t], << >>}
  BY <1>1, <1>5 DEF RebootSubstation, SubstationTypes
<1>6. CASE inbox'[t] = << >>
  BY <1>6
<1>7. ASSUME NEW s, NEW frame, NodeAsks(s, frame),
             inbox' \in {inbox, [inbox EXCEPT ![s] = Received(@, frame)]}
      PROVE  \A i \in 1 .. Len(inbox'[t]) :
               \/ inbox'[t][i] \in {JoinFrame, PayloadFrame}
               \/ \E j \in 1 .. Len(inbox[t]) : inbox'[t][i] = inbox[t][j]
  <2>1. frame \in {JoinFrame, PayloadFrame}
    BY <1>7 DEF NodeAsks
  <2>2. CASE inbox' = inbox
    BY <1>3, <2>2
  <2>3. CASE inbox' = [inbox EXCEPT ![s] = Received(@, frame)]
    <3>1. /\ ReceivedInto(inbox[s], frame, inbox'[s])
          /\ \A u \in Substations : u # s => inbox'[u] = inbox[u]
      BY <1>7, <2>3, AskedInbox
    <3>2. CASE t = s
      <4>1. \A i \in 1 .. Len(inbox'[t]) :
              inbox'[t][i] = frame \/ \E j \in 1 .. Len(inbox[t]) : inbox'[t][i] = inbox[t][j]
        BY <1>2, <3>1, <3>2, ReceivedFrom
      <4> QED
        BY <2>1, <4>1
    <3>3. CASE t # s
      BY <1>3, <3>1, <3>3
    <3> QED
      BY <3>2, <3>3
  <2> QED
    BY <1>7, <2>2, <2>3
<1>8. CASE UNCHANGED subVars
  BY <1>3, <1>8 DEF subVars
<1>9. CASE \E s \in Substations : HandleIncoming(s) \/ RebootSubstation(s)
  BY <1>3, <1>4, <1>5, <1>6, <1>9
<1> QED
  BY <1>7, <1>8, <1>9, SubstationSteps

\* A reading and its number are the same, and what is acknowledged is taken.
DeliveryInv ==
  /\ seq = reading /\ stored = reading
  /\ \A s \in Substations : \A i \in Payloads(s) : inbox[s][i].seq = inbox[s][i].reading
  /\ \A s \in Substations : lastSeq[s] # NoSeq => lastSeq[s] \in taken
  /\ \A i \in 1 .. Len(rxQueue) : rxQueue[i].kind = "Ack" => rxQueue[i].seq \in taken
  /\ DeliveredWasBuffered

LEMMA InitDelivery == Init => DeliveryInv
  BY DEF Init, DeliveryInv, DeliveredWasBuffered, Payloads

LEMMA StepDelivery ==
  ASSUME MaxNvsLosses = 0, TypeInv, DeliveryInv, [Next]_vars
  PROVE  DeliveryInv'
<1>1. SubstationTypes /\ TypeInv'
  BY StepTypes DEF TypeInv
<1>2. seq' = reading' /\ stored' = reading'
  <2>1. nvsLosses = 0 /\ reading \in Nat
    BY Bounds DEF TypeInv, Numbers
  <2>2. CASE NodeUnchanged
    BY <2>2 DEF NodeUnchanged, seqVars, DeliveryInv
  <2>3. CASE NewReading
    BY <2>1, <2>3 DEF NewReading, DeliveryInv
  <2>4. CASE RebootNode
    BY <2>1, <2>4 DEF RebootNode, DeliveryInv
  <2>5. CASE NodeStep /\ ~ NewReading /\ ~ RebootNode
    <3>1. UNCHANGED seqVars
      BY <2>5 DEF NodeStep, Drain, HearBeacon, NoBeacon, NoPeer, JoinFails, SendJoin,
         JoinSent, TakeJoinAck, JoinAckTimeout, JoinGivesUp, SendReading, ReadingSent,
         SendReadingFails, ReadingNotSent, AttemptFails, TakeAck, AckTimeout
    <3> QED
      BY <3>1 DEF seqVars, DeliveryInv
  <2> QED
    BY <2>2, <2>3, <2>4, <2>5, NodeSteps
\* What is taken stays so, and a substation's answer is of what it took.
<1>3. taken \subseteq taken'
  <2>1. ASSUME NEW s \in Substations, HandleIncoming(s) \/ RebootSubstation(s)
        PROVE  taken \subseteq taken'
    BY <2>1 DEF HandleIncoming, AcceptJoin, IgnoreJoin, DropReading, AnswerDuplicate,
       BufferReading, RebootSubstation
  <2> QED
    BY <2>1, SubstationSteps DEF subVars
<1>4. ASSUME NEW s \in Substations, Handles(s, "Payload")
      PROVE  Head(inbox[s]).seq = Head(inbox[s]).reading /\ Head(inbox[s]).seq # NoSeq
  <2>1. /\ inbox[s] \in Seq(ToSubstation) /\ inbox[s] # << >>
        /\ Head(inbox[s]).kind = "Payload"
        /\ Head(inbox[s]) = inbox[s][1] /\ Head(inbox[s]).seq \in Seqs
    BY <1>1, <1>4, SubstationTakes
  <2>2. Len(inbox[s]) \in Nat /\ Len(inbox[s]) > 0
    BY <2>1, TakenFrame
  <2>3. 1 \in Payloads(s)
    BY <2>1, <2>2 DEF Payloads
  <2>4. Head(inbox[s]).seq # NoSeq
    BY <2>1, Bounds DEF Seqs, NoSeq
  <2> QED
    BY <2>1, <2>3, <2>4 DEF DeliveryInv
<1>5. ASSUME NEW s \in Substations, NEW i \in Payloads(s)'
      PROVE  inbox'[s][i].seq = inbox'[s][i].reading
  <2>1. i \in 1 .. Len(inbox'[s]) /\ inbox'[s][i].kind = "Payload"
    BY <1>5 DEF Payloads
  <2>2. inbox'[s][i] = PayloadFrame \/ \E j \in Payloads(s) : inbox'[s][i] = inbox[s][j]
    BY <2>1, InboxFrom DEF Payloads, JoinFrame
  <2> QED
    BY <2>2 DEF DeliveryInv, PayloadFrame
<1>6. ASSUME NEW s \in Substations, lastSeq'[s] # NoSeq
      PROVE  lastSeq'[s] \in taken'
  <2>1. CASE lastSeq'[s] = lastSeq[s]
    BY <1>3, <1>6, <2>1 DEF DeliveryInv
  <2>2. ASSUME NEW t \in Substations, HandleIncoming(t)
        PROVE  lastSeq'[s] \in taken'
    <3>1. CASE t = s /\ BufferReading(t)
      <4>1. /\ lastSeq'[s] = Head(inbox[s]).seq
            /\ Head(inbox[s]).reading \in taken'
        BY <1>1, <3>1 DEF BufferReading, SubstationTypes
      <4> QED
        BY <1>4, <3>1, <4>1 DEF BufferReading
    <3>2. CASE ~ (t = s /\ BufferReading(t))
      <4>1. lastSeq'[s] = lastSeq[s]
        BY <1>1, <2>2, <3>2 DEF HandleIncoming, AcceptJoin, IgnoreJoin, DropReading,
           AnswerDuplicate, BufferReading, SubstationTypes
      <4> QED
        BY <2>1, <4>1
    <3> QED
      BY <3>1, <3>2
  <2>3. ASSUME NEW t \in Substations, RebootSubstation(t)
        PROVE  lastSeq'[s] \in {lastSeq[s], NoSeq}
    BY <1>1, <2>3 DEF RebootSubstation, SubstationTypes
  <2> QED
    BY <1>6, <2>1, <2>2, <2>3, SubstationSteps DEF subVars
<1>7. ASSUME NEW i \in 1 .. Len(rxQueue'), rxQueue'[i].kind = "Ack"
      PROVE  rxQueue'[i].seq \in taken'
  <2>1. ASSUME NEW j \in 1 .. Len(rxQueue), rxQueue'[i] = rxQueue[j]
        PROVE  rxQueue'[i].seq \in taken'
    BY <1>3, <1>7, <2>1 DEF DeliveryInv
  <2>2. ASSUME NEW s \in Substations, Answers(s, rxQueue'[i])
        PROVE  rxQueue'[i].seq \in taken'
    <3>1. (AnswerDuplicate(s) \/ BufferReading(s)) /\ rxQueue'[i] = AckOf(s)
      BY <1>7, <2>2 DEF Answers, BeaconOf, JoinAckOf
    <3>2. CASE AnswerDuplicate(s)
      BY <1>3, <1>4, <3>1, <3>2 DEF AnswerDuplicate, IsDuplicate, AckOf, DeliveryInv
    <3>3. CASE BufferReading(s)
      BY <1>4, <3>1, <3>3 DEF BufferReading, AckOf
    <3> QED
      BY <3>1, <3>2, <3>3
  <2> QED
    BY <1>7, <2>1, <2>2, QueueFrom
<1>8. DeliveredWasBuffered'
  <2>1. CASE UNCHANGED <<result, reading>>
    BY <1>3, <2>1 DEF DeliveryInv, DeliveredWasBuffered
  <2>2. CASE TakeAck
    <3>1. /\ rxQueue \in Seq(ToNode) /\ rxQueue # << >>
          /\ Head(rxQueue).kind = "Ack" /\ Head(rxQueue).seq = seq
      BY <2>2 DEF TypeInv, QueueTypes, TakeAck, TakeFrame, IsAck, OurAck
    <3>2. Head(rxQueue) = rxQueue[1] /\ 1 \in 1 .. Len(rxQueue)
      BY <3>1, TakenFrame
    <3>3. reading \in taken /\ reading' = reading
      BY <2>2, <3>1, <3>2 DEF DeliveryInv, TakeAck, seqVars
    <3> QED
      BY <1>3, <3>3 DEF DeliveredWasBuffered
  <2>3. CASE result' # "Success"
    BY <2>3 DEF DeliveredWasBuffered
  <2>4. CASE NodeStep /\ ~ TakeAck
    <3>1. UNCHANGED <<result, reading>> \/ result' # "Success"
      <4>1. CASE NewReading \/ RebootNode
        BY <4>1 DEF NewReading, RebootNode
      <4>2. CASE NoBeacon \/ NoPeer \/ JoinGivesUp
        BY <4>2 DEF NoBeacon, NoPeer, JoinGivesUp, JoinFails, seqVars
      <4>3. CASE SendReadingFails \/ AckTimeout
        BY <4>3 DEF SendReadingFails, ReadingNotSent, AckTimeout, AttemptFails, seqVars
      <4>4. CASE \/ Drain \/ HearBeacon \/ (\E reported \in BOOLEAN : SendJoin(reported))
                 \/ TakeJoinAck \/ JoinAckTimeout \/ SendReading
        BY <4>4 DEF Drain, HearBeacon, SendJoin, JoinSent, TakeJoinAck, JoinAckTimeout,
           SendReading, ReadingSent, seqVars
      <4> QED
        BY <2>4, <4>1, <4>2, <4>3, <4>4 DEF NodeStep
    <3> QED
      BY <2>1, <2>3, <3>1
  <2>5. CASE NodeUnchanged
    BY <2>1, <2>5 DEF NodeUnchanged, sendVars, seqVars
  <2> QED
    BY <2>2, <2>4, <2>5, NodeSteps
<1> QED
  BY <1>2, <1>5, <1>6, <1>7, <1>8 DEF DeliveryInv

-----------------------------------------------------------------------------
(* A send in a timely world *)

IsIn(frame, q) == \E i \in 1 .. Len(q) : q[i] = frame

\* No beacon of an earlier boot is left in the node's queue.
BeaconsCurrent ==
  \A i \in 1 .. Len(rxQueue) :
    rxQueue[i].kind = "Beacon" => rxQueue[i].epoch = boot[rxQueue[i].from]

\* The node's last frame is to be handled yet, or its answer is there.
JoinOnItsWay == IsIn(JoinFrame, inbox[offer.from]) \/ IsIn(OurJoinAck, rxQueue)

ReadingOnItsWay == IsIn(PayloadFrame, inbox[substation]) \/ IsIn(OurAck, rxQueue)

\* Whatever the node drained, from then on it hears the present only: a join it
\* begins works, and the second attempt is made at a substation that knows it.
TimelySend ==
  /\ timely
  /\ result # "Failure"
  /\ step # "Idle" => attempt \in {0, 1}
  /\ step = "Drain" => attempt = 0
  /\ step \notin {"Idle", "Drain"} => BeaconsCurrent
  /\ step \in {"Join", "AwaitJoinAck"} => offer.epoch = boot[offer.from]
  /\ step = "Join" => joins = 0
  /\ step = "AwaitJoinAck" => JoinOnItsWay
  /\ step \in {"Send", "AwaitAck"} /\ attempt = 1 => knows[substation]
  /\ step = "AwaitAck" /\ attempt = 1 => ReadingOnItsWay

TimelyInv == startedTimely => TimelySend

LEMMA StillIn ==
  ASSUME NEW S, NEW q \in Seq(S), NEW frame, IsIn(frame, q), q # << >>, Head(q) # frame
  PROVE  IsIn(frame, Tail(q))
<1>1. PICK i \in 1 .. Len(q) : q[i] = frame
  BY DEF IsIn
<1>2. /\ Len(Tail(q)) = Len(q) - 1 /\ Len(q) \in Nat /\ Head(q) = q[1]
      /\ \A j \in 1 .. Len(Tail(q)) : Tail(q)[j] = q[j + 1]
  BY TakenFrame
<1>3. i # 1 /\ i - 1 \in 1 .. Len(Tail(q)) /\ (i - 1) + 1 = i
  BY <1>1, <1>2
<1>4. Tail(q)[i - 1] = frame
  BY <1>1, <1>2, <1>3
<1> QED
  BY <1>3, <1>4 DEF IsIn

LEMMA InAppended ==
  ASSUME NEW S, NEW q \in Seq(S), NEW frame \in S
  PROVE  /\ IsIn(frame, Append(q, frame))
         /\ \A other : IsIn(other, q) => IsIn(other, Append(q, frame))
<1>1. Len(q) \in Nat /\ Len(Append(q, frame)) = Len(q) + 1
  BY AppendedFrame
<1> QED
  BY <1>1, AppendedFrame DEF IsIn

LEMMA InReceived ==
  ASSUME NEW S, NEW q \in Seq(S), Len(q) <= MaxQueue, NEW frame \in S
  PROVE  IsIn(frame, Received(q, frame))
<1>1. CASE Len(q) < MaxQueue
  BY <1>1, InAppended DEF Received
<1>2. CASE ~ Len(q) < MaxQueue
  <2>1. q # << >>
    BY <1>2, Bounds
  <2>2. Tail(q) \in Seq(S)
    BY <2>1, TakenFrame
  <2> QED
    BY <1>2, <2>2, InAppended DEF Received
<1> QED
  BY <1>1, <1>2

LEMMA BeaconsStay ==
  ASSUME TypeInv, [Next]_vars, BeaconsCurrent, boot' = boot
  PROVE  BeaconsCurrent'
<1>1. SUFFICES ASSUME NEW i \in 1 .. Len(rxQueue'), rxQueue'[i].kind = "Beacon"
               PROVE  rxQueue'[i].epoch = boot[rxQueue'[i].from]
  BY DEF BeaconsCurrent
<1>2. CASE \E j \in 1 .. Len(rxQueue) : rxQueue'[i] = rxQueue[j]
  BY <1>1, <1>2 DEF BeaconsCurrent
<1>3. ASSUME NEW s \in Substations, Answers(s, rxQueue'[i])
      PROVE  rxQueue'[i].epoch = boot[rxQueue'[i].from]
  BY <1>1, <1>3 DEF Answers, BeaconOf, JoinAckOf, AckOf
<1> QED
  BY <1>1, <1>2, <1>3, QueueFrom

\* What a substation answers in a timely world arrives.
LEMMA AnswerArrives ==
  ASSUME TypeInv, timely, step # "Idle", NEW frame \in ToNode, SubstationSends(frame)
  PROVE  /\ IsIn(frame, rxQueue')
         /\ \A other : IsIn(other, rxQueue) => IsIn(other, rxQueue')
<1>1. rxQueue' = Append(rxQueue, frame)
  BY DEF SubstationSends, Received
<1> QED
  BY <1>1, InAppended DEF TypeInv, QueueTypes

LEMMA AnswersStay ==
  ASSUME TypeInv, timely, step # "Idle", NEW s \in Substations,
         Beacon(s) \/ HandleIncoming(s), NEW other, IsIn(other, rxQueue)
  PROVE  IsIn(other, rxQueue')
<1>1. CASE rxQueue' = rxQueue
  BY <1>1
<1>2. ASSUME NEW frame, Answers(s, frame), SubstationSends(frame)
      PROVE  IsIn(other, rxQueue')
  BY <1>2, AnswerTypes, AnswerArrives DEF TypeInv
<1>3. CASE Beacon(s)
  BY <1>2, <1>3 DEF Beacon, Answers, BeaconOf
<1>4. CASE AcceptJoin(s)
  BY <1>2, <1>4 DEF AcceptJoin, Answers, JoinAckOf
<1>5. CASE AnswerDuplicate(s) \/ BufferReading(s)
  BY <1>2, <1>5 DEF AnswerDuplicate, BufferReading, Answers
<1>6. CASE IgnoreJoin(s) \/ DropReading(s)
  BY <1>1, <1>6 DEF IgnoreJoin, DropReading
<1> QED
  BY <1>3, <1>4, <1>5, <1>6 DEF HandleIncoming

\* A substation that handles a frame leaves the others in its queue.
LEMMA OthersWait ==
  ASSUME TypeInv, NEW s \in Substations, HandleIncoming(s),
         NEW t \in Substations, NEW frame, IsIn(frame, inbox[t])
  PROVE  IsIn(frame, inbox'[t]) \/ (t = s /\ frame = Head(inbox[s]))
<1>1. PICK kind : Handles(s, kind)
  BY DEF HandleIncoming, AcceptJoin, IgnoreJoin, DropReading, AnswerDuplicate, BufferReading
<1>2. /\ inbox[s] \in Seq(ToSubstation) /\ inbox[s] # << >>
      /\ inbox'[s] = Tail(inbox[s])
      /\ \A u \in Substations : u # s => inbox'[u] = inbox[u]
  BY <1>1, SubstationTakes DEF TypeInv
<1>3. CASE t = s /\ frame # Head(inbox[s])
  BY <1>2, <1>3, StillIn
<1> QED
  BY <1>2, <1>3

LEMMA JoinIsAnswered ==
  ASSUME TypeInv, timely, step = "AwaitJoinAck", offer.epoch = boot[offer.from],
         NEW s \in Substations, Beacon(s) \/ HandleIncoming(s), JoinOnItsWay
  PROVE  JoinOnItsWay'
<1>1. offer' = offer /\ offer.from \in Substations
  BY DEF TypeInv, NodeTypes, Beacon, HandleIncoming, AcceptJoin, IgnoreJoin, DropReading,
     AnswerDuplicate, BufferReading, sendVars
<1>2. JoinFrame' = JoinFrame /\ OurJoinAck' = OurJoinAck
  BY <1>1 DEF JoinFrame, OurJoinAck
<1>3. CASE IsIn(OurJoinAck, rxQueue)
  BY <1>1, <1>2, <1>3, AnswersStay DEF JoinOnItsWay
<1>4. CASE IsIn(JoinFrame, inbox[offer.from]) /\ Beacon(s)
  <2>1. inbox' = inbox
    BY <1>4 DEF Beacon, subVars
  <2> QED
    BY <1>1, <1>2, <1>4, <2>1 DEF JoinOnItsWay
<1>5. CASE IsIn(JoinFrame, inbox[offer.from]) /\ HandleIncoming(s)
  <2>1. CASE IsIn(JoinFrame, inbox'[offer.from])
    BY <1>1, <1>2, <2>1 DEF JoinOnItsWay
  <2>2. CASE offer.from = s /\ JoinFrame = Head(inbox[s])
    <3>1. Head(inbox[s]).kind = "Join" /\ Head(inbox[s]).epoch = boot[s]
      BY <2>2 DEF JoinFrame
    <3>2. AcceptJoin(s)
      BY <1>5, <3>1 DEF HandleIncoming, IgnoreJoin, DropReading, AnswerDuplicate,
         BufferReading, Handles
    <3>3. Answers(s, OurJoinAck) /\ SubstationSends(OurJoinAck)
      BY <2>2, <3>2 DEF AcceptJoin, Answers, JoinAckOf, OurJoinAck
    <3>4. IsIn(OurJoinAck, rxQueue')
      BY <3>3, AnswerTypes, AnswerArrives DEF TypeInv
    <3> QED
      BY <1>2, <3>4 DEF JoinOnItsWay
  <2> QED
    BY <1>1, <1>5, <2>1, <2>2, OthersWait
<1> QED
  BY <1>3, <1>4, <1>5 DEF JoinOnItsWay

LEMMA ReadingIsAnswered ==
  ASSUME TypeInv, timely, step = "AwaitAck", knows[substation],
         NEW s \in Substations, Beacon(s) \/ HandleIncoming(s), ReadingOnItsWay
  PROVE  ReadingOnItsWay'
<1>1. /\ substation' = substation /\ seq' = seq /\ reading' = reading
      /\ substation \in Substations
  BY DEF TypeInv, NodeTypes, Beacon, HandleIncoming, AcceptJoin, IgnoreJoin, DropReading,
     AnswerDuplicate, BufferReading, joinedVars, seqVars
<1>2. PayloadFrame' = PayloadFrame /\ OurAck' = OurAck
  BY <1>1 DEF PayloadFrame, OurAck
<1>3. CASE IsIn(OurAck, rxQueue)
  BY <1>1, <1>2, <1>3, AnswersStay DEF ReadingOnItsWay
<1>4. CASE IsIn(PayloadFrame, inbox[substation]) /\ Beacon(s)
  <2>1. inbox' = inbox
    BY <1>4 DEF Beacon, subVars
  <2> QED
    BY <1>1, <1>2, <1>4, <2>1 DEF ReadingOnItsWay
<1>5. CASE IsIn(PayloadFrame, inbox[substation]) /\ HandleIncoming(s)
  <2>1. CASE IsIn(PayloadFrame, inbox'[substation])
    BY <1>1, <1>2, <2>1 DEF ReadingOnItsWay
  <2>2. CASE substation = s /\ PayloadFrame = Head(inbox[s])
    <3>1. Head(inbox[s]).kind = "Payload" /\ Head(inbox[s]).seq = seq
      BY <2>2 DEF PayloadFrame
    <3>2. AnswerDuplicate(s) \/ BufferReading(s)
      BY <1>5, <2>2, <3>1 DEF HandleIncoming, AcceptJoin, IgnoreJoin, DropReading, Handles
    <3>3. Answers(s, OurAck) /\ SubstationSends(OurAck)
      BY <2>2, <3>1, <3>2 DEF AnswerDuplicate, BufferReading, Answers, AckOf, OurAck
    <3>4. IsIn(OurAck, rxQueue')
      BY <3>3, AnswerTypes, AnswerArrives DEF TypeInv
    <3> QED
      BY <1>2, <3>4 DEF ReadingOnItsWay
  <2> QED
    BY <1>1, <1>5, <2>1, <2>2, OthersWait
<1> QED
  BY <1>3, <1>4, <1>5 DEF ReadingOnItsWay

\* The node's steps in a timely world.
LEMMA TimelyNode ==
  ASSUME SendAttempts >= 2, TypeInv, AgreementInv, TimelySend, [Next]_vars, NodeStep,
         ~ NewReading, ~ RebootNode
  PROVE  TimelySend'
<1>1. /\ timely' = timely /\ boot' = boot /\ knows' = knows
  BY DEF NodeStep, NewReading, RebootNode, Drain, HearBeacon, NoBeacon, NoPeer, JoinFails,
     SendJoin, JoinSent, NodeSends, TakeJoinAck, JoinAckTimeout, JoinGivesUp, SendReading,
     ReadingSent, SendReadingFails, ReadingNotSent, AttemptFails, TakeAck, AckTimeout,
     worldVars, subVars
<1>2. timely /\ result # "Failure" /\ (step # "Idle" => attempt \in {0, 1})
  BY DEF TimelySend
<1>3. step \notin {"Idle", "Drain"} => BeaconsCurrent'
  BY <1>1, BeaconsStay DEF TimelySend
<1>4. CASE Drain
  <2>1. rxQueue' = << >> /\ attempt = 0 /\ attempt' = attempt /\ result' = result
    BY <1>4 DEF Drain, TimelySend
  <2>2. BeaconsCurrent'
    BY <2>1 DEF BeaconsCurrent
  <2>3. step' \in {"Send", "Discover"}
    BY <1>4 DEF Drain
  <2> QED
    BY <1>1, <1>2, <2>1, <2>2, <2>3 DEF TimelySend
<1>5. CASE HearBeacon
  <2>1. /\ rxQueue \in Seq(ToNode) /\ rxQueue # << >>
        /\ Head(rxQueue).kind = "Beacon"
    BY <1>5 DEF TypeInv, QueueTypes, HearBeacon, TakeFrame
  <2>2. Head(rxQueue) = rxQueue[1] /\ 1 \in 1 .. Len(rxQueue)
    BY <2>1, TakenFrame
  <2>3. Head(rxQueue).epoch = boot[Head(rxQueue).from]
    BY <1>5, <2>1, <2>2 DEF TimelySend, BeaconsCurrent, HearBeacon
  <2>4. /\ offer'.epoch = boot'[offer'.from] /\ joins' = 0 /\ step' = "Join"
        /\ attempt' = attempt /\ result' = result /\ step = "Discover"
    BY <1>1, <1>5, <2>3 DEF HearBeacon
  <2> QED
    BY <1>1, <1>2, <1>3, <2>4 DEF TimelySend
<1>6. CASE NoBeacon \/ NoPeer
  BY <1>2, <1>6 DEF NoBeacon, NoPeer
<1>7. ASSUME NEW reported \in BOOLEAN, SendJoin(reported)
      PROVE  TimelySend'
  <2>1. /\ step = "Join" /\ offer' = offer /\ attempt' = attempt /\ result' = result
        /\ offer.from \in Substations /\ offer.from \in peers
        /\ offer.epoch = boot[offer.from]
        /\ JoinFrame \in ToSubstation
    <3>1. step = "Join" /\ offer' = offer /\ attempt' = attempt /\ result' = result
      BY <1>7 DEF SendJoin, JoinSent
    <3>2. ~ joined
      BY <3>1 DEF TypeInv, Flow
    <3>3. offer.from \in peers
      BY <3>1, <3>2 DEF TypeInv, PeersInUse
    <3> QED
      BY <3>1, <3>3 DEF TypeInv, NodeTypes, TimelySend, JoinFrame, ToSubstation
  <2>2. reported /\ inbox' = [inbox EXCEPT ![offer.from] = Received(@, JoinFrame)]
    BY <1>2, <1>7, <2>1 DEF SendJoin, NodeSends
  <2>3. step' = "AwaitJoinAck"
    BY <1>7, <2>2 DEF SendJoin, JoinSent
  <2>4. JoinOnItsWay'
    <3>1. inbox'[offer.from] = Received(inbox[offer.from], JoinFrame)
      BY <2>1, <2>2 DEF TypeInv, SubstationTypes
    <3>2. IsIn(JoinFrame, inbox'[offer.from])
      BY <2>1, <3>1, InReceived DEF TypeInv, SubstationTypes
    <3> QED
      BY <2>1, <3>2 DEF JoinOnItsWay, JoinFrame
  <2> QED
    BY <1>1, <1>2, <1>3, <2>1, <2>3, <2>4 DEF TimelySend
<1>8. CASE TakeJoinAck
  <2>1. /\ step = "AwaitJoinAck" /\ substation' = offer.from /\ step' \in {"Send", "Idle"}
        /\ rxQueue # << >> /\ Head(rxQueue) = OurJoinAck
        /\ attempt' = attempt /\ result' = result
    BY <1>8 DEF TakeJoinAck, TakeFrame, IsJoinAck
  <2>2. Head(rxQueue) = rxQueue[1] /\ 1 \in 1 .. Len(rxQueue)
    BY <2>1, TakenFrame DEF TypeInv, QueueTypes
  <2>3. knows[offer.from]
    BY <2>1, <2>2 DEF AgreementInv, JoinAcksTrue, OurJoinAck, TimelySend
  <2> QED
    BY <1>1, <1>2, <1>3, <2>1, <2>3 DEF TimelySend
<1>9. CASE JoinAckTimeout
  <2>1. ~ AnswerComing(offer.from, OurJoinAck) /\ JoinOnItsWay
    BY <1>2, <1>9 DEF JoinAckTimeout, TimelySend
  <2>2. inbox[offer.from] = << >>
    BY <2>1 DEF AnswerComing
  <2>3. Len(inbox[offer.from]) = 0
    BY <2>2
  <2> QED
    BY <2>1, <2>3 DEF AnswerComing, JoinOnItsWay, IsIn
<1>10. CASE JoinGivesUp
  BY <1>10, Bounds DEF JoinGivesUp, TimelySend
<1>11. CASE SendReading
  <2>1. /\ step = "Send" /\ step' = "AwaitAck" /\ substation' = substation
        /\ attempt' = attempt /\ result' = result /\ seq' = seq /\ reading' = reading
    BY <1>11 DEF SendReading, ReadingSent, joinedVars, seqVars
  <2>2. substation \in Substations /\ substation \in peers
    <3>1. joined
      BY <2>1 DEF TypeInv, Flow
    <3> QED
      BY <3>1 DEF TypeInv, NodeTypes, PeersInUse
  <2>3. PayloadFrame \in ToSubstation
    <3>1. NodeAsks(substation, PayloadFrame)
      BY <1>11 DEF NodeAsks
    <3> QED
      BY <3>1, AskTypes
  <2>4. inbox' = [inbox EXCEPT ![substation] = Received(@, PayloadFrame)]
    BY <1>2, <1>11, <2>2 DEF SendReading, NodeSends
  <2>5. ReadingOnItsWay'
    <3>1. inbox'[substation] = Received(inbox[substation], PayloadFrame)
      BY <2>2, <2>4 DEF TypeInv, SubstationTypes
    <3>2. IsIn(PayloadFrame, inbox'[substation])
      BY <2>2, <2>3, <3>1, InReceived DEF TypeInv, SubstationTypes
    <3> QED
      BY <2>1, <3>2 DEF ReadingOnItsWay, PayloadFrame
  <2> QED
    BY <1>1, <1>2, <1>3, <2>1, <2>5 DEF TimelySend
<1>12. CASE SendReadingFails
  <2>1. step = "Send" /\ substation \notin peers
    BY <1>2, <1>12 DEF SendReadingFails, ReadingNotSent, NodeSends
  <2>2. joined
    BY <2>1 DEF TypeInv, Flow
  <2> QED
    BY <2>1, <2>2 DEF TypeInv, PeersInUse
<1>13. CASE AckTimeout
  <2>1. ~ AnswerComing(substation, OurAck) /\ step = "AwaitAck" /\ AttemptFails
    BY <1>2, <1>13 DEF AckTimeout
  <2>2. inbox[substation] = << >>
    BY <2>1 DEF AnswerComing
  <2>3. Len(inbox[substation]) = 0
    BY <2>2
  <2>4. ~ ReadingOnItsWay
    BY <2>1, <2>3 DEF AnswerComing, ReadingOnItsWay, IsIn
  <2>5. attempt = 0
    BY <2>1, <2>4 DEF TimelySend
  <2>6. attempt' = 1 /\ step' = "Discover" /\ result' = result
    BY <2>1, <2>5, Bounds DEF AttemptFails
  <2> QED
    BY <1>1, <1>2, <1>3, <2>1, <2>6 DEF TimelySend
<1>14. CASE TakeAck
  <2>1. step' = "Idle" /\ result' = "Success"
    BY <1>14 DEF TakeAck
  <2> QED
    BY <1>1, <1>2, <2>1 DEF TimelySend
<1> QED
  BY <1>4, <1>5, <1>6, <1>7, <1>8, <1>9, <1>10, <1>11, <1>12, <1>13, <1>14 DEF NodeStep

\* The steps around it.
LEMMA TimelyRest ==
  ASSUME TypeInv, TimelySend, [Next]_vars, ~ NodeStep
  PROVE  TimelySend'
<1>0. NodeUnchanged
  BY NodeSteps
<1>1. /\ UNCHANGED <<step, attempt, joins, offer, result, substation, seq, reading>>
      /\ timely
  BY <1>0 DEF NodeUnchanged, sendVars, joinedVars, seqVars, TimelySend
<1>2. /\ JoinFrame' = JoinFrame /\ OurJoinAck' = OurJoinAck
      /\ PayloadFrame' = PayloadFrame /\ OurAck' = OurAck
  BY <1>1 DEF JoinFrame, OurJoinAck, PayloadFrame, OurAck
<1>3. substation \in Substations /\ offer.from \in Substations
  BY DEF TypeInv, NodeTypes
<1>4. ASSUME NEW s \in Substations, Beacon(s) \/ HandleIncoming(s)
      PROVE  TimelySend'
  <2>1. timely' = timely /\ boot' = boot
    BY <1>4 DEF Beacon, HandleIncoming, AcceptJoin, IgnoreJoin, DropReading,
       AnswerDuplicate, BufferReading, subVars, worldVars
  <2>2. knows[substation] => knows'[substation]
    BY <1>3, <1>4 DEF Beacon, HandleIncoming, AcceptJoin, IgnoreJoin, DropReading,
       AnswerDuplicate, BufferReading, subVars, TypeInv, SubstationTypes
  <2>3. step \notin {"Idle", "Drain"} => BeaconsCurrent'
    BY <2>1, BeaconsStay DEF TimelySend
  <2>4. step = "AwaitJoinAck" => JoinOnItsWay'
    BY <1>4, JoinIsAnswered DEF TimelySend
  <2>5. step = "AwaitAck" /\ attempt = 1 => ReadingOnItsWay'
    BY <1>4, ReadingIsAnswered DEF TimelySend
  <2> QED
    BY <1>1, <2>1, <2>2, <2>3, <2>4, <2>5 DEF TimelySend
<1>5. CASE SkipFrame
  <2>1. /\ rxQueue \in Seq(ToNode) /\ rxQueue # << >> /\ rxQueue' = Tail(rxQueue)
        /\ step = "AwaitJoinAck" => Head(rxQueue) # OurJoinAck
        /\ step = "AwaitAck" => Head(rxQueue) # OurAck
        /\ timely' = timely /\ boot' = boot /\ knows' = knows /\ inbox' = inbox
    BY <1>5 DEF TypeInv, QueueTypes, SkipFrame, TakeFrame, IsJoinAck, IsAck, subVars,
       worldVars
  <2>2. step = "AwaitJoinAck" => JoinOnItsWay'
    BY <1>1, <1>2, <2>1, StillIn DEF TimelySend, JoinOnItsWay
  <2>3. step = "AwaitAck" /\ attempt = 1 => ReadingOnItsWay'
    BY <1>1, <1>2, <2>1, StillIn DEF TimelySend, ReadingOnItsWay
  <2>4. step \notin {"Idle", "Drain"} => BeaconsCurrent'
    BY <2>1, BeaconsStay DEF TimelySend
  <2> QED
    BY <1>1, <2>1, <2>2, <2>3, <2>4 DEF TimelySend
<1>6. CASE UNCHANGED vars
  BY <1>6 DEF vars, sendVars, joinedVars, seqVars, subVars, worldVars, TimelySend,
     BeaconsCurrent, JoinOnItsWay, ReadingOnItsWay, JoinFrame, OurJoinAck, PayloadFrame,
     OurAck
<1>7. CASE BecomeTimely \/ (\E s \in Substations : RebootSubstation(s))
  BY <1>1, <1>7 DEF BecomeTimely, RebootSubstation, Reboots
<1> QED
  BY <1>4, <1>5, <1>6, <1>7 DEF Next, Node, NodeStep

LEMMA StepTimely ==
  ASSUME SendAttempts >= 2, TypeInv, AgreementInv, TimelyInv, [Next]_vars
  PROVE  TimelyInv'
<1>1. CASE NewReading
  <2>1. /\ startedTimely' = timely /\ timely' = timely
        /\ result' = "None" /\ attempt' = 0 /\ step' = "Drain"
    BY <1>1 DEF NewReading, worldVars
  <2> QED
    BY <2>1 DEF TimelyInv, TimelySend
<1>2. CASE ~ NewReading
  <2>1. startedTimely' = startedTimely
    <3>1. CASE NodeUnchanged
      BY <3>1 DEF NodeUnchanged, sendVars
    <3>2. CASE NodeStep
      BY <1>2, <3>2 DEF NodeStep, RebootNode, Drain, HearBeacon, NoBeacon, NoPeer, JoinFails,
         SendJoin, JoinSent, TakeJoinAck, JoinAckTimeout, JoinGivesUp, SendReading,
         ReadingSent, SendReadingFails, ReadingNotSent, AttemptFails, TakeAck, AckTimeout
    <3> QED
      BY <3>1, <3>2, NodeSteps
  <2>2. CASE RebootNode
    BY <2>1, <2>2 DEF RebootNode, Reboots, TimelyInv, TimelySend
  <2> QED
    BY <1>2, <2>1, <2>2, TimelyNode, TimelyRest DEF TimelyInv
<1> QED
  BY <1>1, <1>2

-----------------------------------------------------------------------------
(* Theorems *)

\* Type correctness: queues, attempts and counters stay within their bounds.
THEOREM NodeLinkTypes == Spec => []TypeOK
<1>1. TypeInv => TypeOK
  <2> HAVE TypeInv
  <2>1. peers \subseteq Substations
    <3>1. CASE joined
      BY <3>1 DEF TypeInv, PeersInUse, NodeTypes
    <3>2. CASE ~ joined
      BY <3>2 DEF TypeInv, PeersInUse, NodeTypes
    <3> QED
      BY <3>1, <3>2
  <2>2. {reading, seq, stored} \subseteq Seqs \cup {NoSeq}
    BY Bounds DEF TypeInv, Numbers, Seqs, NoSeq
  <2>3. /\ boot \in [Substations -> Epochs]
        /\ knows \in [Substations -> BOOLEAN]
        /\ lastSeq \in [Substations -> Seqs \cup {NoSeq}]
        /\ \A s \in Substations : inbox[s] \in Seq(ToSubstation) /\ Len(inbox[s]) <= MaxQueue
        /\ \A s \in Substations : buffered[s] \in Seq(Seqs)
        /\ taken \subseteq Seqs
    BY DEF TypeInv, SubstationTypes
  <2>4. /\ step \in Steps /\ sending \in BOOLEAN
        /\ attempt \in 0 .. SendAttempts /\ joins \in 0 .. JoinAttempts
        /\ joined \in BOOLEAN /\ substation \in Substations /\ epoch \in Epochs
        /\ offer \in [from : Substations, epoch : Epochs]
        /\ result \in {"None", "Success", "Failure"}
        /\ startedTimely \in BOOLEAN
    BY DEF TypeInv, NodeTypes
  <2>5. /\ rxQueue \in Seq(ToNode) /\ Len(rxQueue) <= MaxQueue
        /\ timely \in BOOLEAN
        /\ reboots \in 0 .. MaxReboots
        /\ nvsLosses \in 0 .. MaxNvsLosses
    BY DEF TypeInv, QueueTypes, WorldTypes, Numbers
  <2> QED
    BY <2>1, <2>2, <2>3, <2>4, <2>5, Zenon DEF TypeOK
<1> QED
  BY <1>1, SpecTypes, PTL

\* No join, failed or not, and no reboot leaves a peer behind, and none in use
\* goes: for any number of substations and attempts.
THEOREM PeersStayInUse == Spec => []PeersInUse
<1>1. TypeInv => PeersInUse
  BY DEF TypeInv
<1> QED
  BY <1>1, SpecTypes, PTL

\* A node that believes it is joined is in its substation's table, unless the
\* substation rebooted: for any substations, queues and attempts.
THEOREM JoinedMeansKnown == Spec => []JoinedAgreement
<1>1. AgreementInv => JoinedAgreement
  BY DEF AgreementInv
<1>2. TypeInv /\ AgreementInv /\ [Next]_vars => AgreementInv'
  BY StepAgreement
<1> QED
  BY <1>1, <1>2, SpecTypes, InitAgreement, PTL DEF Spec

\* A substation buffers a reading once per boot, in the order the node took them:
\* for any queues, attempts, reboots and numbers that NVS loses.
THEOREM LinkKeepsOrder == Spec => []BufferedOnceInOrder
<1>1. OrderInv => BufferedOnceInOrder
  BY DEF OrderInv, BufferOrdered, BufferedOnceInOrder
<1> QED
  BY <1>1, SpecTypes, InitOrder, StepOrder, PTL DEF Spec

\* While NVS loses no number, what counts as delivered was buffered.
THEOREM DeliveredMeansBuffered ==
  ASSUME MaxNvsLosses = 0
  PROVE  Spec => []DeliveredWasBuffered
<1>1. DeliveryInv => DeliveredWasBuffered
  BY DEF DeliveryInv
<1>2. TypeInv /\ DeliveryInv /\ [Next]_vars => DeliveryInv'
  BY StepDelivery
<1> QED
  BY <1>1, <1>2, SpecTypes, InitDelivery, PTL DEF Spec

\* A send that begins in a timely world works if there are two attempts: for any
\* queues, any number of Joins and whatever earlier boots left behind.
THEOREM SecondAttemptWorks ==
  ASSUME SendAttempts >= 2
  PROVE  Spec => []TimelySendWorks
<1>1. TimelyInv => TimelySendWorks
  BY DEF TimelyInv, TimelySend, TimelySendWorks
<1>2. TypeInv /\ AgreementInv /\ [Next]_vars => AgreementInv'
  BY StepAgreement
<1>3. TypeInv /\ AgreementInv /\ TimelyInv /\ [Next]_vars => TimelyInv'
  BY StepTimely
<1>4. Init => TimelyInv
  BY DEF Init, TimelyInv
<1> QED
  BY <1>1, <1>2, <1>3, <1>4, SpecTypes, InitAgreement, PTL DEF Spec

=============================================================================
