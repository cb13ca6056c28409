--------------------------- MODULE LoRaLinkProofs ---------------------------
(***************************************************************************)
(* Proofs about LoRaLink, for any nodes, readings and number of retries:   *)
(* an ACK is believed only for a reading the gateway has.                  *)
(*                                                                         *)
(* AckNamesReceived is inductive with the type invariant: the only step    *)
(* that puts an ACK into the sender's radio is Receive, which has taken in *)
(* the payload it names, and received never shrinks.  AttemptLeft keeps    *)
(* attempt within its type: Transmit counts an attempt that Retry or       *)
(* BeginSend left room for.                                                *)
(***************************************************************************)
EXTENDS LoRaLink, TLAPS

AttemptLeft == phase = "Transmit" => attempt < Attempts

IInv == TypeOK /\ AckNamesReceived /\ AttemptLeft

LEMMA InitIInv == Init => IInv
  BY RetriesAssumption, PacketAssumption
  DEF Init, IInv, TypeOK, AckNamesReceived, AttemptLeft, Packet, Payload, Attempts

LEMMA StepIInv == IInv /\ [Next]_vars => IInv'
<1> SUFFICES ASSUME IInv, [Next]_vars PROVE IInv'
  OBVIOUS
<1> USE RetriesAssumption, PacketAssumption
    DEF IInv, TypeOK, AckNamesReceived, AttemptLeft, Packet, Payload
<1>1. ASSUME NEW p \in Payload, BeginSend(p) PROVE IInv'
  BY <1>1 DEF BeginSend, Attempts
<1>2. CASE BeginRefused
  BY <1>2 DEF BeginRefused, vars, Attempts
<1>3. CASE Transmit
  BY <1>3 DEF Transmit, Attempts
<1>4. CASE TransmitFails
  <2>1. attempt' \in 0 .. Attempts
    <3>1. Attempts \in Nat /\ attempt \in 0 .. Attempts /\ attempt < Attempts
      BY <1>4 DEF TransmitFails, Attempts
    <3>2. attempt' = attempt + 1
      BY <1>4 DEF TransmitFails
    <3> QED
      BY <3>1, <3>2
  <2>2. phase' = "Backoff" /\ UNCHANGED <<pending, heard, air, received>>
    BY <1>4 DEF TransmitFails
  <2> QED
    BY <2>1, <2>2
<1>5. CASE KeepWaiting
  BY <1>5 DEF KeepWaiting, Attempts
<1>6. CASE AckTimeout
  BY <1>6 DEF AckTimeout, Attempts
<1>7. CASE BackoffWait
  BY <1>7 DEF BackoffWait, vars, Attempts
<1>8. CASE Retry
  BY <1>8 DEF Retry, Attempts
<1>9. CASE Acked
  BY <1>9 DEF Acked, Attempts
<1>10. CASE Failed
  BY <1>10 DEF Failed, Attempts
<1>11. CASE Receive
  BY <1>11 DEF Receive, senderVars, Attempts
<1>12. CASE ReceiveOther
  BY <1>12 DEF ReceiveOther, Attempts
<1>13. CASE Overhear
  BY <1>13 DEF Overhear, Attempts
<1>14. CASE UNCHANGED vars
  BY <1>14 DEF vars, Attempts
<1> QED
  BY <1>1, <1>2, <1>3, <1>4, <1>5, <1>6, <1>7, <1>8, <1>9, <1>10, <1>11, <1>12,
     <1>13, <1>14 DEF Next, Pending

-----------------------------------------------------------------------------

\* Acked is enabled by the ACK that names pending, which AckNamesReceived puts
\* among the received.
LEMMA AckedStep == IInv => (Acked => pending \in received)
  BY DEF IInv, TypeOK, AckNamesReceived, Acked

\* For every number of retries, the phases and the attempt counter of pollSend
\* stay in their ranges.
THEOREM AttemptsAreBounded == Spec => []TypeOK
<1>1. IInv => TypeOK
  BY DEF IInv
<1> QED
  BY <1>1, InitIInv, StepIInv, PTL DEF Spec

\* Whatever the radio loses, an ACK in the sender's radio names a payload the
\* gateway has taken in.
THEOREM AckIsHonest == Spec => []AckNamesReceived
<1>1. IInv => AckNamesReceived
  BY DEF IInv
<1> QED
  BY <1>1, InitIInv, StepIInv, PTL DEF Spec

\* pollSend reports Acked only for a reading that receivePacket has returned at
\* the gateway, so the pop that follows never gives up the last copy.
THEOREM AckedMeansReceived == Spec => AckedIsReceived
<1>1. IInv /\ [Next]_vars => [Acked => pending \in received]_vars
  BY AckedStep
<1> QED
  BY <1>1, InitIInv, StepIInv, PTL DEF Spec, AckedIsReceived

=============================================================================
