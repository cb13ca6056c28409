-------------------------- MODULE MeterNodeProofs ---------------------------
(***************************************************************************)
(* Proofs about what a meter node reads and sends, for every reader.  They *)
(* follow the frames on the line: which ones may still arrive in a step of *)
(* the reader, and how far from the front.                                 *)
(***************************************************************************)
EXTENDS NodeBringUpProofs, SequenceTheorems

-----------------------------------------------------------------------------
(* Frames, and where they are in a sequence *)

PlainKinds == {"registers", "exception", "echo", "refusal", "id", "UA", "DM", "garbled"}

PlainFrames == [kind : PlainKinds, value : Value]

IFrames == [kind : {"I"}, ns : 0 .. 7, nr : 0 .. 7,
            apdu : {"AARE", "Scaler", "Value", "Error"}, value : Value]

BlockFrames == [kind : {"block"}, codes : SUBSET Registers, value : Value]

Frames == PlainFrames \cup IFrames \cup BlockFrames

\* Readings, those not asked for in this reading of r, and scalers of other registers.
ValueFrames == {f \in IFrames : f.apdu = "Value"}

StaleValues(r) == {f \in ValueFrames : f.value # Fresh(r)}

OtherScalers(r) == {f \in IFrames : f.apdu = "Scaler" /\ f.value.reg # r}

StaleBlocks == {f \in BlockFrames : f.value # Fresh("import")}

StaleRegisters(r) == {f \in PlainFrames : f.kind = "registers" /\ f.value # Fresh(r)}

\* Frames of S are among the first n, or there is none but the last.
Within(q, S, n) == \A k \in 1 .. Len(q) : q[k] \in S => k <= n

LastOnly(q, S) == \A k \in 1 .. Len(q) : q[k] \in S => k = Len(q)

\* Frames are lost from old, or garbled.
Thinned(new, old) ==
  /\ Len(new) <= Len(old)
  /\ \A k \in 1 .. Len(new) :
       \/ new[k] = Garbled
       \/ \E j \in 1 .. Len(old) :
            new[k] = old[j] /\ k <= j /\ Len(new) - k <= Len(old) - j

LEMMA ThinnedSelf == \A q \in Seq(Frames) : Thinned(q, q)
<1> SUFFICES ASSUME NEW q \in Seq(Frames) PROVE Thinned(q, q)
  OBVIOUS
<1>1. Len(q) \in Nat
  OBVIOUS
<1> QED
  BY <1>1 DEF Thinned

LEMMA ThinnedWithin ==
  ASSUME NEW new \in Seq(Frames), NEW old \in Seq(Frames), Thinned(new, old),
         NEW S, Garbled \notin S, NEW n \in Nat, Within(old, S, n)
  PROVE  Within(new, S, n)
<1> SUFFICES ASSUME NEW k \in 1 .. Len(new), new[k] \in S PROVE k <= n
  BY DEF Within
<1>1. PICK j \in 1 .. Len(old) : new[k] = old[j] /\ k <= j
  BY DEF Thinned
<1>2. j <= n
  BY <1>1 DEF Within
<1>3. Len(old) \in Nat /\ Len(new) \in Nat
  OBVIOUS
<1> QED
  BY <1>1, <1>2, <1>3

LEMMA ThinnedLast ==
  ASSUME NEW new \in Seq(Frames), NEW old \in Seq(Frames), Thinned(new, old),
         NEW S, Garbled \notin S, LastOnly(old, S)
  PROVE  LastOnly(new, S)
<1> SUFFICES ASSUME NEW k \in 1 .. Len(new), new[k] \in S PROVE k = Len(new)
  BY DEF LastOnly
<1>1. PICK j \in 1 .. Len(old) : new[k] = old[j] /\ Len(new) - k <= Len(old) - j
  BY DEF Thinned
<1>2. j = Len(old)
  BY <1>1 DEF LastOnly
<1>3. Len(old) \in Nat /\ Len(new) \in Nat
  OBVIOUS
<1> QED
  BY <1>1, <1>2, <1>3

LEMMA TailAt ==
  ASSUME NEW q \in Seq(Frames), q # << >>
  PROVE  /\ Tail(q) \in Seq(Frames) /\ Len(q) \in Nat \ {0} /\ Len(Tail(q)) = Len(q) - 1
         /\ Head(q) = q[1]
         /\ \A k \in 1 .. Len(Tail(q)) : Tail(q)[k] = q[k + 1]
BY HeadTailProperties

LEMMA TailWithin ==
  ASSUME NEW q \in Seq(Frames), q # << >>, NEW S, NEW n \in Nat, Within(q, S, n)
  PROVE  /\ Within(Tail(q), S, n)
         /\ n > 0 => Within(Tail(q), S, n - 1)
         /\ n = 0 => q[1] \notin S
<1>1. ASSUME NEW k \in 1 .. Len(Tail(q)), Tail(q)[k] \in S PROVE k <= n - 1
  <2>1. k + 1 \in 1 .. Len(q) /\ q[k + 1] \in S
    BY <1>1, TailAt
  <2>2. k + 1 <= n
    BY <2>1 DEF Within
  <2> QED
    BY <2>2, TailAt
<1>2. 1 \in 1 .. Len(q)
  BY TailAt
<1>3. \A k \in 1 .. Len(Tail(q)) : k \in Int
  OBVIOUS
<1> QED
  BY <1>1, <1>2, <1>3 DEF Within

LEMMA TailLast ==
  ASSUME NEW q \in Seq(Frames), q # << >>, NEW S, LastOnly(q, S)
  PROVE  /\ LastOnly(Tail(q), S)
         /\ q[1] \in S => Len(Tail(q)) = 0
<1>1. ASSUME NEW k \in 1 .. Len(Tail(q)), Tail(q)[k] \in S PROVE k = Len(Tail(q))
  <2>1. k + 1 \in 1 .. Len(q) /\ q[k + 1] \in S
    BY <1>1, TailAt
  <2>2. k + 1 = Len(q)
    BY <2>1 DEF LastOnly
  <2> QED
    BY <2>2, TailAt
<1>2. q[1] \in S => 1 = Len(q)
  <2>1. 1 \in 1 .. Len(q)
    BY TailAt
  <2> QED
    BY <2>1 DEF LastOnly
<1>3. LastOnly(Tail(q), S)
  BY <1>1 DEF LastOnly
<1> QED
  BY <1>2, <1>3, TailAt

LEMMA AppendWithin ==
  ASSUME NEW q \in Seq(Frames), NEW f \in Frames, NEW S, NEW n \in Nat, Within(q, S, n),
         f \notin S \/ Len(q) < n
  PROVE  Within(Append(q, f), S, n)
<1> SUFFICES ASSUME NEW k \in 1 .. Len(Append(q, f)), Append(q, f)[k] \in S PROVE k <= n
  BY DEF Within
<1>1. Len(q) \in Nat /\ Len(Append(q, f)) = Len(q) + 1
  OBVIOUS
<1>2. CASE k \in 1 .. Len(q)
  BY <1>2 DEF Within
<1>3. CASE k = Len(q) + 1
  BY <1>1, <1>3
<1> QED
  BY <1>1, <1>2, <1>3

LEMMA AppendLast ==
  ASSUME NEW q \in Seq(Frames), NEW f \in Frames, NEW S, Within(q, S, 0)
  PROVE  LastOnly(Append(q, f), S)
<1> SUFFICES ASSUME NEW k \in 1 .. Len(Append(q, f)), Append(q, f)[k] \in S
             PROVE  k = Len(Append(q, f))
  BY DEF LastOnly
<1>1. Len(q) \in Nat /\ Len(Append(q, f)) = Len(q) + 1
  OBVIOUS
<1>2. CASE k \in 1 .. Len(q)
  BY <1>2 DEF Within
<1> QED
  BY <1>1, <1>2

-----------------------------------------------------------------------------
(* The line *)

\* What the node may still read, in order.
Line == arrived \o coming

LineOk == arrived \in Seq(Frames) /\ coming \in Seq(Frames)

LEMMA ConcatAt ==
  ASSUME NEW a \in Seq(Frames), NEW c \in Seq(Frames)
  PROVE  /\ a \o c \in Seq(Frames)
         /\ Len(a) \in Nat /\ Len(c) \in Nat
         /\ Len(a \o c) = Len(a) + Len(c)
         /\ \A k \in 1 .. Len(a) + Len(c) :
              (a \o c)[k] = IF k <= Len(a) THEN a[k] ELSE c[k - Len(a)]
BY ConcatProperties

LEMMA GarbledIsPlain == Garbled \in PlainFrames /\ Garbled \in Frames
BY DEF Garbled, Frame, PlainFrames, PlainKinds, Frames, Value

LEMMA LineTypeHolds == LineOk => Line \in Seq(Frames)
BY ConcatAt DEF LineOk, Line

LEMMA LineAt ==
  LineOk => /\ Line \in Seq(Frames) /\ Len(Line) = Len(arrived) + Len(coming)
            /\ \A k \in 1 .. Len(arrived) + Len(coming) :
                 Line[k] = IF k <= Len(arrived) THEN arrived[k] ELSE coming[k - Len(arrived)]
BY ConcatAt DEF LineOk, Line

LEMMA LineAtNext ==
  LineOk' => /\ Line' \in Seq(Frames) /\ Len(Line') = Len(arrived') + Len(coming')
             /\ \A k \in 1 .. Len(arrived') + Len(coming') :
                  Line'[k] = IF k <= Len(arrived') THEN arrived'[k]
                                                   ELSE coming'[k - Len(arrived')]
BY ConcatAt DEF LineOk, Line

LEMMA LineLengths ==
  LineOk => Len(Line) \in Nat /\ Len(arrived) \in Nat /\ Len(coming) \in Nat
<1> SUFFICES ASSUME LineOk
             PROVE  Len(Line) \in Nat /\ Len(arrived) \in Nat /\ Len(coming) \in Nat
  OBVIOUS
<1>1. Len(arrived) \in Nat /\ Len(coming) \in Nat
  BY DEF LineOk
<1> QED
  BY <1>1, LineAt

LEMMA LineLengthsNext ==
  LineOk' => Len(Line') \in Nat /\ Len(arrived') \in Nat /\ Len(coming') \in Nat
<1> SUFFICES ASSUME LineOk'
             PROVE  Len(Line') \in Nat /\ Len(arrived') \in Nat /\ Len(coming') \in Nat
  OBVIOUS
<1>1. Len(arrived') \in Nat /\ Len(coming') \in Nat
  BY DEF LineOk
<1> QED
  BY <1>1, LineAtNext

\* What comes after what has arrived.
LEMMA ComingThins == LineOk => Thinned(coming, Line)
<1> SUFFICES ASSUME LineOk PROVE Thinned(coming, Line)
  OBVIOUS
<1>1. ASSUME NEW k \in 1 .. Len(coming)
      PROVE  \E j \in 1 .. Len(Line) :
               coming[k] = Line[j] /\ k <= j /\ Len(coming) - k <= Len(Line) - j
  <2>1. Len(arrived) + k \in 1 .. Len(arrived) + Len(coming)
    BY <1>1, ConcatAt DEF LineOk
  <2>2. ~ (Len(arrived) + k <= Len(arrived)) /\ (Len(arrived) + k) - Len(arrived) = k
    BY <1>1, ConcatAt DEF LineOk
  <2>3. coming[k] = Line[Len(arrived) + k]
    BY <2>1, <2>2, ConcatAt DEF LineOk, Line
  <2> QED
    BY <2>1, <2>3, ConcatAt DEF LineOk, Line
<1> QED
  BY <1>1, ConcatAt DEF Thinned, Line, LineOk

\* A bus step only loses and garbles frames.
LEMMA BusThins ==
  LineOk /\ (Arrive \/ ArriveGarbled \/ Lose) => LineOk' /\ Thinned(Line', Line)
<1> SUFFICES ASSUME LineOk, Arrive \/ ArriveGarbled \/ Lose
             PROVE  LineOk' /\ Thinned(Line', Line)
  OBVIOUS
<1> DEFINE a == Len(arrived)
           c == Len(coming)
<1>1. coming # << >> /\ coming' = Tail(coming)
  BY DEF Arrive, ArriveGarbled, Lose
<1>2. /\ coming' \in Seq(Frames) /\ Len(coming') = c - 1
      /\ Head(coming) = coming[1] /\ coming[1] \in Frames
      /\ \A k \in 1 .. c - 1 : coming'[k] = coming[k + 1]
      /\ c \in Nat \ {0} /\ a \in Nat
  <2>1. 1 \in 1 .. Len(coming)
    BY <1>1, TailAt DEF LineOk
  <2> QED
    BY <1>1, <2>1, TailAt DEF LineOk
<1>3. /\ Len(Line) = a + c
      /\ \A k \in 1 .. a + c : Line[k] = IF k <= a THEN arrived[k] ELSE coming[k - a]
  BY ConcatAt DEF LineOk, Line
<1>4. Line[a + 1] = coming[1]
  <2>1. a + 1 \in 1 .. a + c /\ ~ (a + 1 <= a) /\ (a + 1) - a = 1
    BY <1>2
  <2> QED
    BY <1>3, <2>1
<1>5. CASE Lose
  <2>1. arrived' = arrived
    BY <1>5 DEF Lose
  <2>2. LineOk'
    BY <1>2, <2>1 DEF LineOk
  <2>3. /\ Len(Line') = a + (c - 1)
        /\ \A k \in 1 .. a + (c - 1) :
             Line'[k] = IF k <= a THEN arrived[k] ELSE coming'[k - a]
    BY <1>2, <2>1, <2>2, LineAtNext
  <2>4. ASSUME NEW k \in 1 .. Len(Line')
        PROVE  \E j \in 1 .. Len(Line) :
                 Line'[k] = Line[j] /\ k <= j /\ Len(Line') - k <= Len(Line) - j
    <3>1. CASE k <= a
      <4>1. k \in 1 .. Len(Line) /\ Line'[k] = Line[k]
        BY <1>2, <1>3, <2>3, <2>4, <3>1
      <4> QED
        BY <1>2, <1>3, <2>3, <4>1
    <3>2. CASE ~ (k <= a)
      <4>1. Line'[k] = coming'[k - a] /\ k - a \in 1 .. c - 1
        BY <1>2, <2>3, <2>4, <3>2
      <4>2. Line'[k] = coming[(k - a) + 1]
        BY <1>2, <4>1
      <4>3. k + 1 \in 1 .. Len(Line) /\ ~ (k + 1 <= a) /\ (k + 1) - a = (k - a) + 1
        BY <1>2, <1>3, <2>3, <2>4, <3>2
      <4>4. Line'[k] = Line[k + 1]
        BY <1>3, <4>2, <4>3
      <4> QED
        BY <1>2, <1>3, <2>3, <2>4, <4>3, <4>4
    <3> QED
      BY <3>1, <3>2
  <2> QED
    BY <1>2, <1>3, <2>2, <2>3, <2>4 DEF Thinned
<1>6. ASSUME NEW f \in Frames, arrived' = Append(arrived, f), f \in {Garbled, coming[1]}
      PROVE  LineOk' /\ Thinned(Line', Line)
  <2>1. LineOk'
    BY <1>2, <1>6 DEF LineOk
  <2>2. /\ Len(arrived') = a + 1
        /\ \A k \in 1 .. a + 1 : arrived'[k] = IF k = a + 1 THEN f ELSE arrived[k]
    BY <1>2, <1>6, AppendProperties DEF LineOk
  <2>3. /\ Len(Line') = a + c
        /\ \A k \in 1 .. a + c :
             Line'[k] = IF k <= a + 1 THEN arrived'[k] ELSE coming'[k - (a + 1)]
    <3>1. Len(arrived') + Len(coming') = a + c
      BY <1>2, <2>2
    <3> QED
      BY <2>1, <2>2, <3>1, LineAtNext
  <2>4. ASSUME NEW k \in 1 .. Len(Line')
        PROVE  Line'[k] = Garbled \/ Line'[k] = Line[k]
    <3>1. CASE k <= a
      BY <1>2, <1>3, <2>2, <2>3, <2>4, <3>1
    <3>2. CASE k = a + 1
      BY <1>2, <1>4, <1>6, <2>2, <2>3, <3>2
    <3>3. CASE k > a + 1
      <4>1. Line'[k] = coming'[k - (a + 1)] /\ k - (a + 1) \in 1 .. c - 1
        BY <1>2, <2>3, <2>4, <3>3
      <4>2. Line'[k] = coming[(k - (a + 1)) + 1]
        BY <1>2, <4>1
      <4>3. k \in 1 .. Len(Line) /\ ~ (k <= a) /\ k - a = (k - (a + 1)) + 1
        BY <1>2, <1>3, <2>3, <2>4, <3>3
      <4> QED
        BY <1>3, <4>2, <4>3
    <3> QED
      BY <1>2, <2>3, <2>4, <3>1, <3>2, <3>3
  <2>5. Len(Line') = Len(Line) /\ Len(Line) \in Nat
    BY <1>2, <1>3, <2>3
  <2> QED
    BY <2>1, <2>4, <2>5 DEF Thinned
<1>7. CASE Arrive
  BY <1>2, <1>6, <1>7 DEF Arrive
<1>8. CASE ArriveGarbled
  BY <1>6, <1>8, GarbledIsPlain DEF ArriveGarbled
<1> QED
  BY <1>5, <1>7, <1>8

\* The reader takes the first frame of the line.
LEMMA TakeTails ==
  LineOk /\ Take =>
    /\ LineOk' /\ Line # << >> /\ Line' = Tail(Line) /\ Head(arrived) = Line[1]
    /\ Thinned(Line', Line)
<1> SUFFICES ASSUME LineOk, Take
             PROVE  /\ LineOk' /\ Line # << >> /\ Line' = Tail(Line)
                    /\ Head(arrived) = Line[1] /\ Thinned(Line', Line)
  OBVIOUS
<1> DEFINE a == Len(arrived)
           c == Len(coming)
<1>1. arrived # << >> /\ arrived' = Tail(arrived) /\ coming' = coming
  BY DEF Take
<1>2. /\ arrived' \in Seq(Frames) /\ Len(arrived') = a - 1
      /\ Head(arrived) = arrived[1]
      /\ \A k \in 1 .. a - 1 : arrived'[k] = arrived[k + 1]
      /\ a \in Nat \ {0} /\ c \in Nat
  BY <1>1, TailAt DEF LineOk
<1>3. /\ Line \in Seq(Frames) /\ Len(Line) = a + c
      /\ \A k \in 1 .. a + c : Line[k] = IF k <= a THEN arrived[k] ELSE coming[k - a]
  BY ConcatAt DEF LineOk, Line
<1>4. LineOk'
  BY <1>1, <1>2 DEF LineOk
<1>5. /\ Line' \in Seq(Frames) /\ Len(Line') = (a - 1) + c
      /\ \A k \in 1 .. (a - 1) + c :
           Line'[k] = IF k <= a - 1 THEN arrived'[k] ELSE coming[k - (a - 1)]
  BY <1>1, <1>2, <1>4, ConcatAt DEF LineOk, Line
<1>6. Line # << >>
  <2>1. Len(Line) # 0
    BY <1>2, <1>3
  <2> QED
    BY <2>1
<1>7. ASSUME NEW k \in 1 .. Len(Line') PROVE Line'[k] = Line[k + 1]
  <2>1. k + 1 \in 1 .. a + c
    BY <1>2, <1>5, <1>7
  <2>2. CASE k <= a - 1
    BY <1>2, <1>3, <1>5, <1>7, <2>1, <2>2
  <2>3. CASE ~ (k <= a - 1)
    <3>1. ~ (k + 1 <= a) /\ (k + 1) - a = k - (a - 1)
      BY <1>2, <2>3, <1>7, <1>5
    <3> QED
      BY <1>3, <1>5, <1>7, <2>1, <2>3, <3>1
  <2> QED
    BY <2>2, <2>3
<1>8. Line' = Tail(Line)
  <2>1. /\ Tail(Line) \in Seq(Frames) /\ Len(Tail(Line)) = Len(Line) - 1
        /\ \A k \in 1 .. Len(Tail(Line)) : Tail(Line)[k] = Line[k + 1]
    BY <1>3, <1>6, TailAt
  <2>2. Len(Line') = Len(Tail(Line))
    BY <1>2, <1>3, <1>5, <2>1
  <2>3. \A k \in 1 .. Len(Line') : Line'[k] = Tail(Line)[k]
    BY <1>7, <2>1, <2>2
  <2> QED
    BY <1>5, <2>1, <2>2, <2>3, SeqEqual
<1>9. Head(arrived) = Line[1]
  BY <1>2, <1>3
<1>10. Thinned(Line', Line)
  <2>1. ASSUME NEW k \in 1 .. Len(Line')
        PROVE  \E j \in 1 .. Len(Line) :
                 Line'[k] = Line[j] /\ k <= j /\ Len(Line') - k <= Len(Line) - j
    <3>1. k + 1 \in 1 .. Len(Line) /\ Line'[k] = Line[k + 1]
      BY <1>2, <1>3, <1>5, <1>7, <2>1
    <3> QED
      BY <1>2, <1>3, <1>5, <2>1, <3>1
  <2>2. Len(Line') <= Len(Line)
    BY <1>2, <1>3, <1>5
  <2> QED
    BY <2>1, <2>2 DEF Thinned
<1> QED
  BY <1>4, <1>6, <1>8, <1>9, <1>10

\* A send throws away what has arrived, and the answer comes last.
SendOf(F) ==
  \/ Send(<< >>)
  \/ SendFails
  \/ \E f \in F : Send(<<f>>)

LEMMA SendLine ==
  ASSUME LineOk, NEW replies \in Seq(Frames), Send(replies)
  PROVE  /\ LineOk' /\ Line' = coming \o replies
         /\ Len(Line') <= MaxLag /\ Len(Line') = Len(coming) + Len(replies)
<1>1. arrived' = << >> /\ coming' = coming \o replies /\ Len(coming \o replies) <= MaxLag
  BY DEF Send, Transmit
<1>2. LineOk'
  BY <1>1, ConcatAt DEF LineOk
<1>3. Line' = coming \o replies
  BY <1>1, <1>2, ConcatEmptySeq DEF Line, LineOk
<1> QED
  BY <1>1, <1>2, <1>3, ConcatAt DEF LineOk

LEMMA SendFailsLine ==
  LineOk /\ SendFails => LineOk' /\ Line' = coming
BY ConcatEmptySeq DEF LineOk, Line, SendFails

LEMMA SendOfLine ==
  ASSUME LineOk, NEW F, F \subseteq Frames, SendOf(F), Len(coming) <= MaxLag
  PROVE  /\ LineOk' /\ Len(Line') <= MaxLag
         /\ \/ Thinned(Line', Line)
            \/ \E f \in F : Line' = Append(coming, f)
<1>1. CASE SendFails \/ Send(<< >>)
  <2>1. LineOk' /\ Line' = coming
    <3>1. CASE Send(<< >>)
      <4>1. << >> \in Seq(Frames) /\ coming \o << >> = coming
        BY ConcatEmptySeq DEF LineOk
      <4> QED
        BY <3>1, <4>1, SendLine
    <3> QED
      BY <1>1, <3>1, SendFailsLine
  <2> QED
    BY <2>1, ComingThins
<1>2. ASSUME NEW f \in F, Send(<<f>>)
      PROVE  LineOk' /\ Len(Line') <= MaxLag /\ Line' = Append(coming, f)
  <2>1. f \in Frames /\ <<f>> \in Seq(Frames)
    OBVIOUS
  <2>2. LineOk' /\ Line' = coming \o <<f>> /\ Len(Line') <= MaxLag
    BY <1>2, <2>1, SendLine
  <2>3. Append(coming, f) = coming \o <<f>>
    BY <2>1, AppendIsConcat DEF LineOk
  <2> QED
    BY <2>2, <2>3
<1> QED
  BY <1>1, <1>2 DEF SendOf

LEMMA AgedValue ==
  ASSUME NEW v \in Value
  PROVE  Aged(v) \in Value /\ Aged(v).reg = v.reg
<1>1. CASE v \in [reg : Registers, fresh : BOOLEAN]
  BY <1>1 DEF Aged, Value
<1>2. Aged(NoValue) = NoValue
  <2>1. /\ NoValue \in [reg : {"none"}, fresh : BOOLEAN]
        /\ Aged(NoValue) \in [reg : {"none"}, fresh : BOOLEAN]
        /\ Aged(NoValue).fresh = NoValue.fresh
    BY DEF NoValue, Aged
  <2>2. \A u, w \in [reg : {"none"}, fresh : BOOLEAN] : u.fresh = w.fresh => u = w
    OBVIOUS
  <2> QED
    BY <2>1, <2>2
<1> QED
  BY <1>1, <1>2 DEF Value

LEMMA AgedFrame ==
  ASSUME NEW f \in Frames
  PROVE  LET g == [f EXCEPT !.value = Aged(@)]
         IN  /\ g \in Frames /\ g.kind = f.kind /\ g.value.reg = f.value.reg
             /\ g \in IFrames => f \in IFrames /\ g.apdu = f.apdu
<1>1. Aged(f.value) \in Value /\ Aged(f.value).reg = f.value.reg
  <2>1. f.value \in Value
    BY DEF Frames, PlainFrames, IFrames, BlockFrames
  <2> QED
    BY <2>1, AgedValue
<1>2. CASE f \in PlainFrames
  BY <1>1, <1>2 DEF Frames, PlainFrames, IFrames, PlainKinds
<1>3. CASE f \in IFrames
  BY <1>1, <1>3 DEF Frames, IFrames
<1>4. CASE f \in BlockFrames
  BY <1>1, <1>4 DEF Frames, BlockFrames, IFrames
<1> QED
  BY <1>2, <1>3, <1>4 DEF Frames

LEMMA AgedFramesAt ==
  ASSUME NEW q \in Seq(Frames)
  PROVE  /\ AgedFrames(q) \in Seq(Frames) /\ Len(AgedFrames(q)) = Len(q)
         /\ \A k \in 1 .. Len(q) : AgedFrames(q)[k] = [q[k] EXCEPT !.value = Aged(@)]
<1>1. Len(q) \in Nat /\ DOMAIN q = 1 .. Len(q)
  OBVIOUS
<1>2. \A k \in 1 .. Len(q) : [q[k] EXCEPT !.value = Aged(@)] \in Frames
  BY AgedFrame
<1>3. AgedFrames(q) \in [1 .. Len(q) -> Frames]
  BY <1>1, <1>2 DEF AgedFrames
<1>4. AgedFrames(q) \in Seq(Frames) /\ DOMAIN AgedFrames(q) = 1 .. Len(q)
  BY <1>1, <1>3, IsASeq
<1>5. Len(AgedFrames(q)) = Len(q)
  BY <1>1, <1>4, LenProperties
<1> QED
  BY <1>1, <1>4, <1>5 DEF AgedFrames

\* A line ages, and nothing on it moves.
LEMMA AgedLine ==
  ASSUME LineOk, coming' = AgedFrames(coming), arrived' = AgedFrames(arrived)
  PROVE  /\ LineOk' /\ Len(Line') = Len(Line) /\ Len(coming') = Len(coming)
         /\ \A k \in 1 .. Len(Line) : Line'[k] = [Line[k] EXCEPT !.value = Aged(@)]
<1>1. /\ LineOk' /\ Len(coming') = Len(coming) /\ Len(arrived') = Len(arrived)
      /\ \A k \in 1 .. Len(coming) : coming'[k] = [coming[k] EXCEPT !.value = Aged(@)]
      /\ \A k \in 1 .. Len(arrived) : arrived'[k] = [arrived[k] EXCEPT !.value = Aged(@)]
  BY AgedFramesAt DEF LineOk
<1>2. Len(coming) \in Nat /\ Len(arrived) \in Nat
  BY DEF LineOk
<1>3. Len(Line') = Len(Line)
  BY <1>1, LineAt, LineAtNext
<1>4. ASSUME NEW k \in 1 .. Len(Line)
      PROVE  Line'[k] = [Line[k] EXCEPT !.value = Aged(@)]
  <2>1. k \in 1 .. Len(arrived) + Len(coming) /\ k \in 1 .. Len(arrived') + Len(coming')
    BY <1>1, <1>4, LineAt
  <2>2. CASE k <= Len(arrived)
    <3>1. k \in 1 .. Len(arrived) /\ Line[k] = arrived[k] /\ Line'[k] = arrived'[k]
      BY <1>1, <1>2, <2>1, <2>2, LineAt, LineAtNext
    <3> QED
      BY <1>1, <3>1
  <2>3. CASE ~ (k <= Len(arrived))
    <3>1. /\ k - Len(arrived) \in 1 .. Len(coming)
          /\ Line[k] = coming[k - Len(arrived)] /\ Line'[k] = coming'[k - Len(arrived)]
      BY <1>1, <1>2, <2>1, <2>3, LineAt, LineAtNext
    <3> QED
      BY <1>1, <3>1
  <2> QED
    BY <2>2, <2>3
<1> QED
  BY <1>1, <1>3, <1>4

-----------------------------------------------------------------------------
(* What the readers do, in this module's terms *)

\* What a reader may do to the bus where it does not send.
Reads == SendFails \/ Take \/ UNCHANGED busVars

Keeps == UNCHANGED <<call, result, timedOut>>

Ends(s, r) == step' = s /\ result' = r /\ call' = call

\* DLMS/COSEM replies to a request: a DM, an error, or what was asked for.
Replies(apdu, r) ==
  PlainFrames \cup {f \in IFrames : \/ f.apdu = "Error"
                                    \/ f.apdu = apdu /\ (apdu # "AARE" => f.value = Fresh(r))}

DlmsConnect ==
  /\ step = "start" /\ SendOf(PlainFrames)
  /\ step' = "UA" /\ Keeps /\ UNCHANGED scaler

DlmsConnectFails ==
  /\ step \in {"start", "UA"} /\ Reads
  /\ Ends("returned", Failure) /\ UNCHANGED scaler

DlmsConnected ==
  /\ step = "UA" /\ Take
  /\ step' = "associate" /\ Keeps /\ scaler' = NoValue

DlmsRequest(s) ==
  /\ step = s /\ SendOf(Replies(Dlms!Wanted[s], call))
  /\ step' = Dlms!Wanted[s] /\ Keeps /\ UNCHANGED scaler

\* The reply that a step waits for.
DlmsReply(apdu) ==
  /\ step = apdu /\ Take
  /\ Head(arrived).kind = "I" /\ Head(arrived).apdu = apdu
  /\ UNCHANGED timedOut

DlmsAssociated ==
  /\ DlmsReply("AARE")
  /\ IF call = "probe" THEN Ends("release", Success(NoValue))
                       ELSE Ends("scaler", result)
  /\ UNCHANGED scaler

DlmsScaler ==
  /\ DlmsReply("Scaler")
  /\ Ends("value", result)
  /\ scaler' = Head(arrived).value

DlmsValue ==
  /\ DlmsReply("Value")
  /\ Ends("release", Success(Dlms!Scaled(Head(arrived).value)))
  /\ UNCHANGED scaler

DlmsFails ==
  /\ step \in {"associate", "scaler", "value", "AARE", "Scaler", "Value"} /\ Reads
  /\ Ends("release", Failure) /\ UNCHANGED scaler

DlmsDisconnect ==
  /\ step = "release" /\ SendOf(PlainFrames)
  /\ step' = "released" /\ Keeps /\ UNCHANGED scaler

DlmsReturns ==
  /\ step \in {"release", "released"} /\ Reads
  /\ Ends("returned", result) /\ UNCHANGED scaler

DlmsSteps ==
  \/ DlmsConnect
  \/ DlmsConnectFails
  \/ DlmsConnected
  \/ \E s \in {"associate", "scaler", "value"} : DlmsRequest(s)
  \/ DlmsAssociated
  \/ DlmsScaler
  \/ DlmsValue
  \/ DlmsFails
  \/ DlmsDisconnect
  \/ DlmsReturns

LEMMA DlmsSends == \A replies : Dlms!Send(replies) <=> Send(replies)
BY DEF Dlms!Send, Dlms!Transmit, Send, Transmit

LEMMA DlmsBus ==
  /\ Dlms!SendFails <=> SendFails
  /\ Dlms!Take <=> Take
  /\ Dlms!TimedOut => UNCHANGED busVars /\ timedOut' = TRUE
BY DEF Dlms!SendFails, Dlms!Take, Dlms!TimedOut, Dlms!busVars, SendFails, Take, busVars

LEMMA DlmsReaches ==
  ASSUME NEW m, NEW f, NEW F, f \in F, Dlms!Reaches(m, f)
  PROVE  SendOf(F)
<1>1. PICK replies \in Dlms!Answered(f) : Send(replies)
  BY DlmsSends DEF Dlms!Reaches
<1>2. replies \in {<<f>>, << >>}
  BY <1>1 DEF Dlms!Answered
<1> QED
  BY <1>1, <1>2 DEF SendOf

LEMMA DlmsFramesOk ==
  /\ \A s \in {"UA", "DM"} : Dlms!Frame(s, Dlms!NoValue) \in PlainFrames
  /\ Dlms!NoValue = NoValue /\ \A r : Dlms!Fresh(r) = Fresh(r)
BY DEF Dlms!Frame, Dlms!NoValue, Dlms!Fresh, NoValue, Fresh, PlainFrames, PlainKinds, Value

LEMMA DlmsSnrm == Dlms!SendSnrm \/ Dlms!SendDisc => SendOf(PlainFrames)
<1>1. CASE Dlms!NotHeard
  BY <1>1, DlmsSends DEF Dlms!NotHeard, SendOf
<1>2. CASE \E m : \E f \in PlainFrames : Dlms!Reaches(m, f)
  BY <1>2, DlmsReaches
<1> QED
  BY <1>1, <1>2, DlmsFramesOk DEF Dlms!SendSnrm, Dlms!SendDisc

LEMMA Next8Type == \A n \in 0 .. 7 : Dlms!Next8(n) \in 0 .. 7
<1> SUFFICES ASSUME NEW n \in 0 .. 7 PROVE Dlms!Next8(n) \in 0 .. 7
  OBVIOUS
<1>1. CASE n = 7
  BY <1>1, SMT DEF Dlms!Next8
<1>2. CASE n < 7
  BY <1>2, SMT DEF Dlms!Next8
<1> QED
  BY <1>1, <1>2

LEMMA DlmsSendI ==
  ASSUME Dlms!DlmsTypeOK, NEW apdu \in {"AARE", "Scaler", "Value"}, NEW value \in Value,
         NEW r, apdu # "AARE" => value = Fresh(r), Dlms!SendI(apdu, value)
  PROVE  SendOf(Replies(apdu, r))
<1>1. CASE Dlms!NotHeard \/ Send(<< >>)
  BY <1>1, DlmsSends DEF Dlms!NotHeard, SendOf
<1>2. CASE Dlms!Reaches(meter, Dlms!Frame("DM", Dlms!NoValue))
  BY <1>2, DlmsFramesOk, DlmsReaches DEF Replies
<1>3. ASSUME NEW body \in {apdu, "Error"}, NEW m,
             Dlms!Reaches(m, Dlms!IFrame(meter.vs, Dlms!Next8(meter.vr), body,
                                         IF body = "Error" THEN Dlms!NoValue ELSE value))
      PROVE  SendOf(Replies(apdu, r))
  <2> DEFINE f == Dlms!IFrame(meter.vs, Dlms!Next8(meter.vr), body,
                              IF body = "Error" THEN Dlms!NoValue ELSE value)
  <2>1. meter.vs \in 0 .. 7 /\ Dlms!Next8(meter.vr) \in 0 .. 7
    BY Next8Type DEF Dlms!DlmsTypeOK
  <2>2. NoValue \in Value
    BY DEF Value
  <2>3. f \in IFrames /\ f.apdu = body /\ (body # "Error" => f.value = value)
    BY <2>1, <2>2, DlmsFramesOk DEF Dlms!IFrame, IFrames
  <2>4. f \in Replies(apdu, r)
    BY <2>3 DEF Replies
  <2> QED
    BY <1>3, <2>4, DlmsReaches
<1> QED
  BY <1>1, <1>2, <1>3, DlmsSends DEF Dlms!SendI

LEMMA DlmsIsSteps ==
  ASSUME Dlms!DlmsTypeOK, call \in Calls, step \in {"scaler", "value"} => call # "probe",
         Dlms!DlmsNext
  PROVE  DlmsSteps
<1>1. CASE Dlms!Connect
  BY <1>1, DlmsSnrm DEF Dlms!Connect, Dlms!Goto, DlmsConnect, Keeps, DlmsSteps
<1>2. CASE Dlms!ConnectFails
  BY <1>2, DlmsBus
  DEF Dlms!ConnectFails, Dlms!Return, Dlms!Failure, Dlms!NoValue, Dlms!dlmsState,
      DlmsConnectFails, Ends, Reads, Failure, NoValue, DlmsSteps
<1>3. CASE Dlms!Connected
  BY <1>3, DlmsBus, DlmsFramesOk
  DEF Dlms!Connected, Dlms!Goto, DlmsConnected, Keeps, DlmsSteps
<1>4. CASE Dlms!Request
  <2>1. PICK s \in DOMAIN Dlms!Wanted :
          /\ step = s /\ Dlms!SendI(Dlms!Wanted[s], Dlms!Asked(s))
          /\ Dlms!Goto(Dlms!Wanted[s])
    BY <1>4 DEF Dlms!Request
  <2>2. s \in {"associate", "scaler", "value"}
    BY DEF Dlms!Wanted
  <2>3. /\ Dlms!Wanted[s] \in {"AARE", "Scaler", "Value"}
        /\ Dlms!Wanted[s] # "AARE" => s # "associate"
    BY <2>2 DEF Dlms!Wanted
  <2>4. /\ Dlms!Asked(s) \in Value
        /\ Dlms!Wanted[s] # "AARE" => Dlms!Asked(s) = Fresh(call)
    BY <2>1, <2>2, <2>3, DlmsFramesOk DEF Dlms!Asked, Value, Fresh, Calls
  <2>5. SendOf(Replies(Dlms!Wanted[s], call))
    BY <2>1, <2>3, <2>4, DlmsSendI
  <2> QED
    BY <1>4, <2>1, <2>2, <2>5 DEF Dlms!Request, Dlms!Goto, DlmsRequest, Keeps, DlmsSteps
<1>5. CASE Dlms!RequestFails
  BY <1>5, DlmsBus
  DEF Dlms!RequestFails, Dlms!GotoWith, Dlms!Failure, Dlms!NoValue, Dlms!dlmsState,
      Dlms!Wanted, DlmsFails, Ends, Reads, Failure, NoValue, DlmsSteps
<1>6. CASE Dlms!TakeReply
  <2>1. Take /\ step \in {"AARE", "Scaler", "Value"} /\ timedOut' = timedOut
    BY <1>6, DlmsBus DEF Dlms!TakeReply
  <2>2. CASE Dlms!Accepts(Head(arrived))
    <3>1. DlmsReply(step)
      BY <2>1, <2>2 DEF Dlms!Accepts, Dlms!InSequence, Dlms!Answers, DlmsReply
    <3>2. CASE step = "AARE"
      BY <1>6, <2>2, <3>1, <3>2
      DEF Dlms!TakeReply, Dlms!GotoWith, Dlms!Goto, Dlms!Success, Dlms!NoValue, Success,
          NoValue, DlmsAssociated, Ends, DlmsSteps
    <3>3. CASE step = "Scaler"
      BY <1>6, <2>2, <3>1, <3>3
      DEF Dlms!TakeReply, Dlms!Goto, DlmsScaler, Ends, DlmsSteps
    <3>4. CASE step = "Value"
      BY <1>6, <2>2, <3>1, <3>4
      DEF Dlms!TakeReply, Dlms!GotoWith, Dlms!Success, Success, DlmsValue, Ends, DlmsSteps
    <3> QED
      BY <2>1, <3>2, <3>3, <3>4
  <2>3. CASE ~ Dlms!Accepts(Head(arrived))
    BY <1>6, <2>1, <2>3
    DEF Dlms!TakeReply, Dlms!GotoWith, Dlms!Failure, Dlms!NoValue, DlmsFails, Ends, Reads,
        Failure, NoValue, DlmsSteps
  <2> QED
    BY <2>2, <2>3
<1>7. CASE Dlms!Disconnect
  BY <1>7, DlmsSnrm DEF Dlms!Disconnect, Dlms!Goto, DlmsDisconnect, Keeps, DlmsSteps
<1>8. CASE Dlms!Disconnected
  BY <1>8, DlmsBus
  DEF Dlms!Disconnected, Dlms!Return, Dlms!dlmsState, DlmsReturns, Ends, Reads, DlmsSteps
<1> QED
  BY <1>1, <1>2, <1>3, <1>4, <1>5, <1>6, <1>7, <1>8 DEF Dlms!DlmsNext

\* IEC 62056-21: the request, with an echo and an identification perhaps, and what
\* follows it.
IecRequest ==
  /\ step = "start" /\ call \in {"probe", "import"}
  /\ \E replies \in Seq(PlainFrames) : Send(replies)
  /\ step' = "id" /\ Keeps
  /\ cachedExport' \in {NoValue, cachedExport}

IecSkipsEcho ==
  /\ step = "id" /\ Take
  /\ step' = "echoed" /\ Keeps /\ UNCHANGED cachedExport

IecIdentified ==
  /\ step \in {"id", "echoed"} /\ Take
  /\ IF call = "probe" THEN Ends("idle", Success(NoValue)) ELSE Ends("ack", result)
  /\ UNCHANGED <<timedOut, cachedExport>>

IecNotIdentified ==
  /\ step \in {"id", "echoed"} /\ Reads
  /\ \/ Ends("returned", Failure)
     \/ call = "probe" /\ Ends("idle", Failure)
  /\ UNCHANGED cachedExport

\* Blocks that are sent now hold fresh values.
FreshBlocks == {f \in BlockFrames : f.value = Fresh("import")}

IecAcknowledge ==
  /\ step = "ack" /\ UNCHANGED arrived
  /\ \/ UNCHANGED coming
     \/ \E f \in FreshBlocks : Len(Append(coming, f)) <= MaxLag /\ coming' = Append(coming, f)
  /\ step' = "block" /\ Keeps /\ UNCHANGED cachedExport

IecSkipsToBlock ==
  /\ step = "block" /\ Take
  /\ UNCHANGED <<callVars, timedOut, cachedExport>>

IecBlock ==
  /\ step = "block" /\ Take
  /\ Head(arrived).kind = "block"
  /\ {"import", "export"} \subseteq Head(arrived).codes
  /\ Ends("returned", Success([Head(arrived).value EXCEPT !.reg = "import"]))
  /\ cachedExport' = [Head(arrived).value EXCEPT !.reg = "export"]
  /\ UNCHANGED timedOut

IecNoBlock ==
  /\ step = "block" /\ Reads
  /\ Ends("returned", Failure) /\ UNCHANGED cachedExport

IecIdles ==
  /\ step = "idle" /\ coming = << >>
  /\ arrived' = << >> /\ UNCHANGED coming
  /\ Ends("returned", result) /\ UNCHANGED <<timedOut, cachedExport>>

IecExport ==
  /\ step = "start" /\ call = "export" /\ UNCHANGED busVars
  /\ Ends("returned", IF cachedExport # NoValue THEN Success(cachedExport) ELSE Failure)
  /\ UNCHANGED <<timedOut, cachedExport>>

IecSteps ==
  \/ IecRequest
  \/ IecSkipsEcho
  \/ IecIdentified
  \/ IecNotIdentified
  \/ IecAcknowledge
  \/ IecSkipsToBlock
  \/ IecBlock
  \/ IecNoBlock
  \/ IecIdles
  \/ IecExport

LEMMA IecBus ==
  /\ Iec!Take <=> Take
  /\ Iec!TimedOut => UNCHANGED busVars /\ timedOut' = TRUE
  /\ \A replies : Iec!Send(replies) <=> Send(replies)
  /\ Iec!Failure = Failure /\ Iec!NoValue = NoValue
  /\ \A v : Iec!Success(v) = Success(v)
BY DEF Iec!Take, Iec!TimedOut, Iec!busVars, Take, busVars, Iec!Send, Iec!Transmit, Send,
       Transmit, Iec!Failure, Failure, Iec!NoValue, NoValue, Iec!Success, Success

LEMMA IecEchoAndId ==
  ASSUME NEW echo \in Iec!Echoes, NEW id \in {<<Iec!Frame("id", NoValue)>>, << >>}
  PROVE  echo \in Seq(PlainFrames) /\ echo \o id \in Seq(PlainFrames)
<1>1. Iec!Frame("id", NoValue) \in PlainFrames /\ Iec!Frame("echo", NoValue) \in PlainFrames
  BY DEF Iec!Frame, PlainFrames, PlainKinds, Value
<1>2. echo \in {<< >>, <<Iec!Frame("echo", NoValue)>>}
  BY IecBus DEF Iec!Echoes
<1>3. echo \in Seq(PlainFrames) /\ id \in Seq(PlainFrames)
  <2>1. \A f \in PlainFrames : << >> \in Seq(PlainFrames) /\ <<f>> \in Seq(PlainFrames)
    OBVIOUS
  <2> QED
    BY <1>1, <1>2, <2>1
<1> QED
  BY <1>3, ConcatProperties

LEMMA IecBlocksFresh == Iec!Blocks \subseteq FreshBlocks
<1>1. \A codes \in SUBSET Registers : Iec!Block(codes) \in FreshBlocks
  BY DEF Iec!Block, Iec!Fresh, Fresh, FreshBlocks, BlockFrames, Value, Registers
<1> QED
  BY <1>1 DEF Iec!Blocks, Registers

LEMMA IecIsSteps == LineOk /\ Iec!IecNext => IecSteps
<1> SUFFICES ASSUME LineOk, Iec!IecNext PROVE IecSteps
  OBVIOUS
<1>1. CASE Iec!RequestId
  <2>1. PICK echo \in Iec!Echoes :
          \/ \E id \in Iec!Answered(Iec!Frame("id", Iec!NoValue)) : Iec!Send(echo \o id)
          \/ Iec!Send(echo)
    BY <1>1 DEF Iec!RequestId
  <2>2. \E replies \in Seq(PlainFrames) : Send(replies)
    <3>1. CASE Iec!Send(echo)
      <4>1. echo \in Seq(PlainFrames)
        BY IecEchoAndId
      <4> QED
        BY <3>1, <4>1, IecBus
    <3>2. ASSUME NEW id \in Iec!Answered(Iec!Frame("id", Iec!NoValue)), Iec!Send(echo \o id)
          PROVE  \E replies \in Seq(PlainFrames) : Send(replies)
      <4>1. id \in {<<Iec!Frame("id", NoValue)>>, << >>}
        BY <3>2, IecBus DEF Iec!Answered
      <4>2. echo \o id \in Seq(PlainFrames)
        BY <4>1, IecEchoAndId
      <4> QED
        BY <3>2, <4>2, IecBus
    <3> QED
      BY <2>1, <3>1, <3>2
  <2> QED
    BY <1>1, <2>2, IecBus DEF Iec!RequestId, Iec!Goto, IecRequest, Keeps, IecSteps
<1>2. CASE Iec!SkipEcho
  BY <1>2, IecBus DEF Iec!SkipEcho, Iec!Goto, Iec!iecState, IecSkipsEcho, Keeps, IecSteps
<1>3. CASE Iec!TakeId
  BY <1>3, IecBus
  DEF Iec!TakeId, Iec!WaitsForId, Iec!GotoWith, Iec!Goto, Iec!iecState, IecIdentified, Ends,
      IecSteps
<1>4. CASE Iec!NoId
  BY <1>4, IecBus
  DEF Iec!NoId, Iec!WaitsForId, Iec!GotoWith, Iec!Return, Iec!iecState, IecNotIdentified,
      Reads, Ends, IecSteps
<1>5. CASE Iec!Acknowledge
  <2>1. \/ UNCHANGED coming
        \/ \E f \in FreshBlocks : Len(Append(coming, f)) <= MaxLag /\ coming' = Append(coming, f)
    <3>1. ASSUME NEW f \in Iec!Blocks, NEW replies \in Iec!Answered(f),
                 Iec!Transmit(replies), ~ UNCHANGED coming
          PROVE  Len(Append(coming, f)) <= MaxLag /\ coming' = Append(coming, f)
      <4>1. replies \in {<<f>>, << >>}
        BY <3>1 DEF Iec!Answered
      <4>2. coming \o << >> = coming /\ coming \o <<f>> = Append(coming, f)
        <5>1. coming \in Seq(Frames) /\ f \in Frames
          BY IecBlocksFresh DEF LineOk, FreshBlocks, Frames
        <5> QED
          BY <5>1, ConcatEmptySeq, AppendIsConcat
      <4> QED
        BY <3>1, <4>1, <4>2 DEF Iec!Transmit
    <3> QED
      BY <1>5, <3>1, IecBlocksFresh DEF Iec!Acknowledge
  <2> QED
    BY <1>5, <2>1 DEF Iec!Acknowledge, Iec!Goto, IecAcknowledge, Keeps, IecSteps
<1>6. CASE Iec!SkipToBlock
  BY <1>6, IecBus
  DEF Iec!SkipToBlock, Iec!callVars, callVars, Iec!iecState, IecSkipsToBlock, IecSteps
<1>7. CASE Iec!TakeBlock
  <2>1. /\ step = "block" /\ Take /\ Head(arrived).kind = "block"
        /\ UNCHANGED timedOut
    BY <1>7, IecBus DEF Iec!TakeBlock, Iec!Heard
  <2>2. CASE Iec!HasCodes(Head(arrived).codes)
    <3>1. /\ cachedExport' = Iec!Code(Head(arrived), "export")
          /\ Iec!Return(Iec!Success(Iec!Code(Head(arrived), "import")))
      BY <1>7, <2>2 DEF Iec!TakeBlock
    <3> QED
      BY <2>1, <2>2, <3>1, IecBus
      DEF Iec!HasCodes, Iec!Code, Iec!Return, IecBlock, Ends, IecSteps
  <2>3. CASE ~ Iec!HasCodes(Head(arrived).codes)
    BY <1>7, <2>1, <2>3, IecBus DEF Iec!TakeBlock, Iec!Return, IecNoBlock, Reads, Ends, IecSteps
  <2> QED
    BY <2>2, <2>3
<1>8. CASE Iec!NoBlock
  BY <1>8, IecBus DEF Iec!NoBlock, Iec!Return, Iec!iecState, IecNoBlock, Reads, Ends, IecSteps
<1>9. CASE Iec!ProbeIdles
  BY <1>9 DEF Iec!ProbeIdles, Iec!Quiet, Iec!Return, IecIdles, Ends, IecSteps
<1>10. CASE Iec!GetExport
  BY <1>10, IecBus
  DEF Iec!GetExport, Iec!Return, Iec!iecState, Iec!busVars, busVars, IecExport, Ends, IecSteps
<1> QED
  BY <1>1, <1>2, <1>3, <1>4, <1>5, <1>6, <1>7, <1>8, <1>9, <1>10 DEF Iec!IecNext

\* Modbus: one request, and one reply to it.
RegisterReplies(r) ==
  {f \in PlainFrames : f.kind = "registers" => r # "probe" /\ f.value = Fresh(r)}

ModbusRequest ==
  /\ step = "start"
  /\ Send(<< >>) \/ \E f \in RegisterReplies(call) : Send(<<f>>)
  /\ step' = "reply" /\ Keeps

ModbusRequestFails ==
  /\ step = "start" /\ SendFails
  /\ Ends("returned", Failure) /\ UNCHANGED timedOut

ModbusReply ==
  /\ step = "reply" /\ Take
  /\ \/ Ends("returned", Failure)
     \/ /\ call # "probe" => Head(arrived).kind = "registers"
        /\ Ends("returned", Success(Head(arrived).value))
  /\ UNCHANGED timedOut

ModbusTimeout ==
  /\ step = "reply" /\ UNCHANGED busVars
  /\ Ends("returned", Failure) /\ timedOut' = TRUE

ModbusSteps ==
  \/ ModbusRequest
  \/ ModbusRequestFails
  \/ ModbusReply
  \/ ModbusTimeout

LEMMA ModbusAnswersOk == call \in Calls => Modbus!Answers \subseteq RegisterReplies(call)
<1> SUFFICES ASSUME call \in Calls, NEW f \in Modbus!Answers
             PROVE  f \in RegisterReplies(call)
  OBVIOUS
<1>1. CASE call = "probe"
  BY <1>1 DEF Modbus!Answers, Modbus!Frame, Modbus!NoValue, RegisterReplies, PlainFrames,
              PlainKinds, Value, NoValue
<1>2. CASE call # "probe"
  <2>1. \/ f = [kind |-> "registers", value |-> Fresh(call)]
        \/ f = [kind |-> "exception", value |-> NoValue]
    BY <1>2 DEF Modbus!Answers, Modbus!Frame, Modbus!NoValue, NoValue, Modbus!Fresh, Fresh
  <2>2. Fresh(call) \in Value /\ NoValue \in Value
    BY <1>2 DEF Calls, Fresh, Value
  <2> QED
    BY <1>2, <2>1, <2>2 DEF RegisterReplies, PlainFrames, PlainKinds
<1> QED
  BY <1>1, <1>2

LEMMA ModbusIsSteps == call \in Calls /\ Modbus!ModbusNext => ModbusSteps
<1> SUFFICES ASSUME call \in Calls, Modbus!ModbusNext PROVE ModbusSteps
  OBVIOUS
<1>1. /\ \A replies : Modbus!Send(replies) <=> Send(replies)
      /\ Modbus!Failure = Failure /\ \A v : Modbus!Success(v) = Success(v)
      /\ Modbus!Take <=> Take
      /\ Modbus!SendFails <=> SendFails
  BY DEF Modbus!Send, Modbus!Transmit, Send, Transmit, Modbus!Failure, Failure,
         Modbus!NoValue, NoValue, Modbus!Success, Success, Modbus!Take, Take,
         Modbus!SendFails, SendFails
<1>2. CASE Modbus!SendRequest
  <2>1. PICK f \in Modbus!Answers : \E replies \in Modbus!Answered(f) : Send(replies)
    BY <1>1, <1>2 DEF Modbus!SendRequest
  <2>2. Send(<<f>>) \/ Send(<< >>)
    BY <2>1 DEF Modbus!Answered
  <2>3. Send(<< >>) \/ \E g \in RegisterReplies(call) : Send(<<g>>)
    BY <2>2, ModbusAnswersOk
  <2> QED
    BY <1>2, <2>3 DEF Modbus!SendRequest, Modbus!Goto, ModbusRequest, Keeps, ModbusSteps
<1>3. CASE Modbus!SendRequestFails
  BY <1>1, <1>3 DEF Modbus!SendRequestFails, Modbus!Return, ModbusRequestFails, Ends, ModbusSteps
<1>4. CASE Modbus!TakeReply
  BY <1>1, <1>4
  DEF Modbus!TakeReply, Modbus!Accepts, Modbus!Return, ModbusReply, Ends, ModbusSteps
<1>5. CASE Modbus!Timeout
  BY <1>1, <1>5
  DEF Modbus!Timeout, Modbus!TimedOut, Modbus!busVars, Modbus!Return, ModbusTimeout, Ends,
      busVars, ModbusSteps
<1> QED
  BY <1>2, <1>3, <1>4, <1>5 DEF Modbus!ModbusNext

\* The camera: a value of its own request, or none.
CamSteps ==
  /\ step = "start"
  /\ \/ Ends("returned", Success(IF call = "probe" THEN NoValue ELSE Fresh(call)))
     \/ Ends("returned", Failure)

LEMMA CamIsSteps == Cam!CamNext => CamSteps
BY DEF Cam!CamNext, Cam!Fetched, Cam!FetchFails, Cam!Return, Cam!Success, Cam!Failure,
       Cam!NoValue, Cam!Fresh, Success, Failure, NoValue, Fresh, CamSteps, Ends

-----------------------------------------------------------------------------
(* Types, and where the reader and the loop are *)

LineBounds ==
  /\ LineOk
  /\ Len(coming) <= MaxLag
  /\ Len(Line) <= 2 * MaxLag
  /\ kind # "iec" \/ step \in {"id", "echoed", "ack"} => Len(Line) <= MaxLag

Results == [status : {"Success", "Failure"}, value : Value]

ReaderTypes ==
  /\ result \in Results
  /\ timedOut \in BOOLEAN
  /\ Dlms!DlmsTypeOK
  /\ Iec!IecTypeOK

LoopTypes ==
  /\ punctual \in BOOLEAN
  /\ kind \in Kinds
  /\ at \in {"setup", "idle", "top"} \cup Calls
  /\ state \in {"READ", "SEND", "SLEEP"}
  /\ isReady \in BOOLEAN
  /\ failedReads \in 0 .. READS_BEFORE_LOST
  /\ ~ isReady \/ failedReads < READS_BEFORE_LOST
  /\ importVal \in Value
  /\ payload \in [Registers -> Value]
  /\ sent \in [coherent : BOOLEAN, late : BOOLEAN]

StepsOf(k) ==
  CASE k = "modbus" -> {"start", "reply", "returned"}
    [] k = "dlms" -> {"start", "UA", "associate", "AARE", "scaler", "Scaler", "value",
                      "Value", "release", "released", "returned"}
    [] k = "iec" -> {"start", "id", "echoed", "ack", "block", "idle", "returned"}
    [] OTHER -> {"start", "returned"}

\* A call is only under way while the loop waits for it, registers are only read
\* from a meter that is ready, and a reading to send is not kept.
Flow ==
  /\ step \in StepsOf(kind)
  /\ call = IF at \in Calls THEN at ELSE "none"
  /\ at \notin Calls => step = "start"
  /\ at = "setup" => ~ isReady
  /\ at \in Registers => isReady /\ at \in Sends
  /\ state = "SEND" => Rs485 /\ isReady /\ at = "top"
  /\ call = "probe" => step \notin {"scaler", "Scaler", "value", "Value"}

BoardTypes ==
  /\ RadioTypeOK
  /\ bus \in Rs485Buses \cup IrBuses \cup CvBuses
  /\ sound \in BOOLEAN

TypeInv == LineBounds /\ ReaderTypes /\ LoopTypes /\ Flow /\ BoardTypes

LEMMA Values == NoValue \in Value /\ \A r \in Registers : Fresh(r) \in Value /\ Fresh(r) # NoValue
<1>1. \A r \in Registers : r # "none"
  BY DEF Registers
<1>2. ASSUME NEW r \in Registers PROVE Fresh(r) # NoValue
  <2>1. Fresh(r).reg = r /\ NoValue.reg = "none"
    BY DEF Fresh, NoValue
  <2> QED
    BY <1>1, <2>1
<1> QED
  BY <1>2 DEF Value, Fresh

LEMMA FrameValues == \A f \in Frames : f.value \in Value
BY DEF Frames, PlainFrames, IFrames, BlockFrames

LEMMA ResultTypes == Failure \in Results /\ \A v \in Value : Success(v) \in Results
BY Values DEF Failure, Success, Results

LEMMA FrameSets ==
  /\ PlainFrames \subseteq Frames /\ FreshBlocks \subseteq Frames
  /\ \A apdu, r : Replies(apdu, r) \subseteq Frames
  /\ \A r : RegisterReplies(r) \subseteq Frames
BY DEF Frames, FreshBlocks, Replies, RegisterReplies

LEMMA HeadOk == LineOk /\ Take => Head(arrived) \in Frames
<1> SUFFICES ASSUME LineOk, Take PROVE Head(arrived) \in Frames
  OBVIOUS
<1>1. Head(arrived) = arrived[1] /\ Len(arrived) \in Nat \ {0}
  BY TailAt DEF LineOk, Take
<1>2. 1 \in 1 .. Len(arrived)
  BY <1>1
<1> QED
  BY <1>1, <1>2, ElementOfSeq DEF LineOk

\* The step only loses frames of the line, or garbles them.
LineThins == Thinned(Line', Line)

LEMMA ReadsLine ==
  LineOk /\ Reads => LineOk' /\ LineThins /\ Len(coming') = Len(coming)
<1> SUFFICES ASSUME LineOk, Reads
             PROVE  LineOk' /\ LineThins /\ Len(coming') = Len(coming)
  OBVIOUS
<1>1. CASE SendFails
  BY <1>1, SendFailsLine, ComingThins DEF SendFails, LineThins
<1>2. CASE Take
  BY <1>2, TakeTails DEF Take, LineThins
<1>3. CASE UNCHANGED busVars
  BY <1>3, ThinnedSelf, LineTypeHolds DEF busVars, LineOk, Line, LineThins
<1> QED
  BY <1>1, <1>2, <1>3 DEF Reads

LEMMA ThinBounds ==
  ASSUME LineBounds, LineOk', LineThins, Len(coming') <= Len(coming),
         kind' = kind,
         step' \in {"id", "echoed", "ack"} => step \in {"id", "echoed", "ack"}
  PROVE  LineBounds'
<1>1. Len(Line') <= Len(Line)
  BY DEF LineThins, Thinned
<1>2. /\ LineOk /\ Len(coming) <= MaxLag /\ Len(Line) <= 2 * MaxLag
      /\ kind # "iec" \/ step \in {"id", "echoed", "ack"} => Len(Line) <= MaxLag
  BY DEF LineBounds
<1>3. /\ Len(Line') \in Nat /\ Len(Line) \in Nat /\ MaxLag \in Nat
      /\ Len(coming') \in Nat /\ Len(coming) \in Nat
  BY <1>2, LineLengths, LineLengthsNext, MaxLagAssumption
<1>4. /\ Len(coming') <= MaxLag /\ Len(Line') <= 2 * MaxLag
      /\ Len(Line) <= MaxLag => Len(Line') <= MaxLag
  <2>1. Len(coming') <= MaxLag
    BY <1>2, <1>3
  <2>2. Len(Line') <= 2 * MaxLag
    BY <1>1, <1>2, <1>3
  <2>3. Len(Line) <= MaxLag => Len(Line') <= MaxLag
    BY <1>1, <1>3
  <2> QED
    BY <2>1, <2>2, <2>3
<1> QED
  BY <1>2, <1>4 DEF LineBounds

LEMMA SentBounds ==
  ASSUME LineOk', Len(Line') <= MaxLag
  PROVE  LineBounds'
<1>1. /\ Len(coming') \in Nat /\ Len(arrived') \in Nat /\ MaxLag \in Nat
      /\ Len(Line') = Len(arrived') + Len(coming')
  BY LineLengthsNext, LineAtNext, MaxLagAssumption
<1>2. Len(coming') <= MaxLag /\ Len(Line') <= 2 * MaxLag
  BY <1>1
<1> QED
  BY <1>2 DEF LineBounds

LEMMA UntouchedLine ==
  ASSUME LineBounds, UNCHANGED <<busVars, kind>>, step' \in {step, "start"}
  PROVE  LineBounds'
BY DEF LineBounds, LineOk, Line, busVars

\* A step of a reader in its calls.
ReaderFrame == UNCHANGED <<punctual, kind, loopVars>>

LEMMA DlmsTypes ==
  ASSUME TypeInv, kind = "dlms", at \in Calls, ReaderFrame, DlmsSteps
  PROVE  LineBounds' /\ result' \in Results /\ Flow'
<1>1. /\ LineOk /\ Len(coming) <= MaxLag /\ call = at /\ call \in Calls /\ kind' = kind
      /\ result \in Results /\ scaler \in Value
      /\ UNCHANGED <<at, isReady, state>>
  BY DEF TypeInv, LineBounds, Flow, ReaderFrame, loopVars, gateVars, ReaderTypes,
         Dlms!DlmsTypeOK, Dlms!Value, Value, Dlms!Registers, Registers, Dlms!NoValue, NoValue
<1>2. call' = call /\ step' \in StepsOf("dlms")
      /\ (call = "probe" => step' \notin {"scaler", "Scaler", "value", "Value"})
  BY DEF DlmsSteps, DlmsConnect, DlmsConnectFails, DlmsConnected, DlmsRequest, Dlms!Wanted,
         DlmsAssociated, DlmsScaler, DlmsValue, DlmsFails, DlmsDisconnect, DlmsReturns,
         DlmsReply, Keeps, Ends, StepsOf, TypeInv, Flow
<1>3. Flow'
  BY <1>1, <1>2 DEF TypeInv, Flow, Rs485, Sends, Ir
<1>4. (\E F \in SUBSET Frames : SendOf(F)) => LineBounds'
  BY <1>1, SendOfLine, SentBounds
<1>5. ASSUME Reads PROVE LineBounds'
  <2>1. LineOk' /\ LineThins /\ Len(coming') <= Len(coming)
    BY <1>1, <1>5, ReadsLine, LineLengths
  <2>2. step' \notin {"id", "echoed", "ack"}
    BY <1>2 DEF StepsOf
  <2> QED
    BY <1>1, <2>1, <2>2, ThinBounds DEF TypeInv
<1>6. (\E F \in SUBSET Frames : SendOf(F)) \/ Reads
  BY FrameSets DEF DlmsSteps, DlmsConnect, DlmsConnectFails, DlmsConnected, DlmsRequest,
     DlmsAssociated, DlmsScaler, DlmsValue, DlmsFails, DlmsDisconnect, DlmsReturns,
     DlmsReply, Reads
<1>7. result' \in Results
  <2>1. CASE DlmsValue
    <3>1. Head(arrived).value \in Value
      BY <1>1, <2>1, HeadOk, FrameValues DEF DlmsValue, DlmsReply
    <3>2. Dlms!Scaled(Head(arrived).value) \in Value
      BY <3>1, Values DEF Dlms!Scaled, Dlms!NoValue, NoValue
    <3> QED
      BY <2>1, <3>2, ResultTypes DEF DlmsValue, Ends
  <2>2. CASE ~ DlmsValue
    BY <1>1, <2>2, ResultTypes, Values
    DEF DlmsSteps, DlmsConnect, DlmsConnectFails, DlmsConnected, DlmsRequest,
        DlmsAssociated, DlmsScaler, DlmsFails, DlmsDisconnect, DlmsReturns, Keeps, Ends
  <2> QED
    BY <2>1, <2>2
<1> QED
  BY <1>3, <1>4, <1>5, <1>6, <1>7

LEMMA IecTypes ==
  ASSUME TypeInv, kind = "iec", at \in Calls, ReaderFrame, IecSteps
  PROVE  LineBounds' /\ result' \in Results /\ cachedExport' \in Value /\ Flow'
<1>1. /\ LineOk /\ Len(coming) <= MaxLag /\ call = at /\ call \in Calls /\ kind' = kind
      /\ result \in Results /\ cachedExport \in Value
      /\ UNCHANGED <<at, isReady, state>>
  BY DEF TypeInv, LineBounds, Flow, ReaderFrame, loopVars, gateVars, ReaderTypes,
         Iec!IecTypeOK, Iec!Value, Value, Iec!Registers, Registers, Iec!NoValue, NoValue
<1>2. call' = call /\ step' \in StepsOf("iec")
  BY <1>1 DEF IecSteps, IecRequest, IecSkipsEcho, IecIdentified, IecNotIdentified,
     IecAcknowledge, IecSkipsToBlock, IecBlock, IecNoBlock, IecIdles, IecExport, Keeps, Ends,
     callVars, StepsOf
<1>3. Flow'
  BY <1>1, <1>2 DEF TypeInv, Flow, StepsOf, Rs485, Sends, Ir
<1>4. CASE IecRequest
  <2>1. PICK replies \in Seq(PlainFrames) : Send(replies)
    BY <1>4 DEF IecRequest
  <2>2. replies \in Seq(Frames)
    <3>1. Seq(PlainFrames) \subseteq Seq(Frames)
      BY FrameSets, SeqMonotonic
    <3> QED
      BY <3>1
  <2>3. LineBounds'
    BY <1>1, <2>1, <2>2, SendLine, SentBounds
  <2> QED
    BY <1>1, <1>3, <1>4, <2>3, Values DEF IecRequest, Keeps
<1>5. CASE IecAcknowledge
  <2>1. arrived' = arrived /\ step = "ack" /\ step' = "block" /\ result' = result
        /\ cachedExport' = cachedExport
    BY <1>5 DEF IecAcknowledge, Keeps
  <2>2. coming' \in Seq(Frames) /\ Len(coming') <= MaxLag
    <3>1. ASSUME NEW f \in FreshBlocks, coming' = Append(coming, f),
                 Len(Append(coming, f)) <= MaxLag
          PROVE  coming' \in Seq(Frames) /\ Len(coming') <= MaxLag
      <4>1. f \in Frames
        BY FrameSets
      <4> QED
        BY <1>1, <3>1, <4>1 DEF LineOk
    <3> QED
      BY <1>1, <1>5, <3>1 DEF IecAcknowledge, LineOk
  <2>3. LineOk'
    BY <1>1, <2>1, <2>2 DEF LineOk
  <2>4. Len(Line') <= 2 * MaxLag
    <3>1. Len(Line) <= MaxLag
      BY <2>1 DEF TypeInv, LineBounds
    <3>2. Len(arrived) <= MaxLag
      BY <1>1, <3>1, LineAt, LineLengths, MaxLagAssumption
    <3>3. Len(Line') = Len(arrived) + Len(coming')
      BY <2>1, <2>3, LineAtNext
    <3> QED
      BY <1>1, <2>2, <2>3, <3>2, <3>3, LineLengths, LineLengthsNext, MaxLagAssumption
  <2>5. LineBounds'
    BY <1>1, <2>1, <2>2, <2>3, <2>4 DEF LineBounds
  <2> QED
    BY <1>1, <1>3, <2>1, <2>5
<1>6. CASE IecIdles
  <2>1. /\ coming = << >> /\ arrived' = << >> /\ coming' = << >>
        /\ result' = result /\ cachedExport' = cachedExport
    BY <1>6 DEF IecIdles, Ends
  <2>2. LineOk' /\ Len(Line') = 0
    <3>1. LineOk' /\ Len(arrived') = 0 /\ Len(coming') = 0
      BY <2>1 DEF LineOk
    <3> QED
      BY <3>1, LineAtNext
  <2>3. LineBounds'
    BY <2>2, SentBounds, MaxLagAssumption
  <2> QED
    BY <1>1, <1>3, <2>1, <2>3
<1>7. ASSUME Reads, step' \in {"id", "echoed", "ack"} => step \in {"id", "echoed", "ack"}
      PROVE  LineBounds'
  <2>1. LineOk' /\ LineThins /\ Len(coming') <= Len(coming)
    BY <1>1, <1>7, ReadsLine, LineLengths
  <2> QED
    BY <1>1, <1>7, <2>1, ThinBounds DEF TypeInv
<1>8. ASSUME Take PROVE Head(arrived).value \in Value
  BY <1>1, <1>8, HeadOk, FrameValues
<1>9. CASE IecBlock
  <2>1. Head(arrived) \in Frames /\ Head(arrived).kind = "block"
    BY <1>1, <1>9, HeadOk DEF IecBlock
  <2>2. Head(arrived).value \in Value
    BY <2>1, FrameValues
  <2>3. \A r \in Registers : [Head(arrived).value EXCEPT !.reg = r] \in Value
    <3>1. Head(arrived).value \in [reg : Registers \cup {"none"}, fresh : BOOLEAN]
      <4>1. NoValue \in [reg : Registers \cup {"none"}, fresh : BOOLEAN]
        BY DEF NoValue
      <4>2. \A v \in [reg : Registers, fresh : BOOLEAN] :
              v \in [reg : Registers \cup {"none"}, fresh : BOOLEAN]
        OBVIOUS
      <4> QED
        BY <2>2, <4>1, <4>2 DEF Value
    <3> QED
      BY <3>1 DEF Value
  <2>4. "import" \in Registers /\ "export" \in Registers
    BY DEF Registers
  <2>5. LineBounds'
    BY <1>7, <1>9 DEF IecBlock, Reads, Ends
  <2> QED
    BY <1>3, <1>9, <2>3, <2>4, <2>5, ResultTypes DEF IecBlock, Ends
<1>10. CASE IecSkipsEcho \/ IecIdentified \/ IecNotIdentified \/ IecSkipsToBlock \/ IecNoBlock
            \/ IecExport
  <2>1. LineBounds'
    BY <1>7, <1>10
    DEF IecSkipsEcho, IecIdentified, IecNotIdentified, IecSkipsToBlock, IecNoBlock, IecExport,
        Reads, Ends, callVars
  <2>2. result' \in Results
    BY <1>1, <1>10, ResultTypes, Values
    DEF IecSkipsEcho, IecIdentified, IecNotIdentified, IecSkipsToBlock, IecNoBlock, IecExport,
        Ends, Keeps, callVars
  <2>3. cachedExport' \in Value
    BY <1>1, <1>10
    DEF IecSkipsEcho, IecIdentified, IecNotIdentified, IecSkipsToBlock, IecNoBlock, IecExport
  <2> QED
    BY <1>3, <2>1, <2>2, <2>3
<1> QED
  BY <1>4, <1>5, <1>6, <1>9, <1>10 DEF IecSteps

LEMMA ModbusTypes ==
  ASSUME TypeInv, kind = "modbus", at \in Calls, ReaderFrame, ModbusSteps
  PROVE  LineBounds' /\ result' \in Results /\ timedOut' \in BOOLEAN /\ Flow'
<1>1. /\ LineOk /\ Len(coming) <= MaxLag /\ call = at /\ call \in Calls /\ kind' = kind
      /\ result \in Results /\ timedOut \in BOOLEAN
      /\ UNCHANGED <<at, isReady, state>>
  BY DEF TypeInv, LineBounds, Flow, ReaderFrame, loopVars, gateVars, ReaderTypes
<1>2. call' = call /\ step' \in StepsOf("modbus") /\ timedOut' \in {timedOut, TRUE}
  BY DEF ModbusSteps, ModbusRequest, ModbusRequestFails, ModbusReply, ModbusTimeout, Keeps,
         Ends, StepsOf
<1>3. Flow'
  BY <1>1, <1>2 DEF TypeInv, Flow, StepsOf, Rs485, Sends, Ir
<1>4. LineBounds'
  <2>1. (\E F \in SUBSET Frames : SendOf(F)) => LineBounds'
    BY <1>1, SendOfLine, SentBounds
  <2>2. ASSUME Reads PROVE LineBounds'
    <3>1. LineOk' /\ LineThins /\ Len(coming') <= Len(coming)
      BY <1>1, <2>2, ReadsLine, LineLengths
    <3>2. step' \notin {"id", "echoed", "ack"}
      BY <1>2 DEF StepsOf
    <3> QED
      BY <1>1, <3>1, <3>2, ThinBounds DEF TypeInv
  <2>3. ModbusRequest => SendOf(RegisterReplies(call))
    BY DEF ModbusRequest, SendOf
  <2>4. ModbusRequestFails \/ ModbusReply \/ ModbusTimeout => Reads
    BY DEF ModbusRequestFails, ModbusReply, ModbusTimeout, Reads
  <2> QED
    BY <2>1, <2>2, <2>3, <2>4, FrameSets DEF ModbusSteps
<1>5. result' \in Results
  <2>1. CASE ModbusReply
    <3>1. Head(arrived).value \in Value
      BY <1>1, <2>1, HeadOk, FrameValues DEF ModbusReply
    <3> QED
      BY <2>1, <3>1, ResultTypes DEF ModbusReply, Ends
  <2> QED
    BY <1>1, <2>1, ResultTypes
    DEF ModbusSteps, ModbusRequest, ModbusRequestFails, ModbusTimeout, Keeps, Ends
<1>6. timedOut' \in BOOLEAN
  BY <1>1, <1>2
<1> QED
  BY <1>3, <1>4, <1>5, <1>6

LEMMA CamTypes ==
  ASSUME TypeInv, Cv, at \in Calls, ReaderFrame, UNCHANGED busVars, CamSteps
  PROVE  LineBounds' /\ result' \in Results /\ Flow'
<1>1. /\ call = at /\ call \in Calls /\ kind' = kind /\ UNCHANGED <<at, isReady, state>>
      /\ kind \in {"cam", "camExport"}
  BY DEF TypeInv, Flow, ReaderFrame, loopVars, gateVars, Cv, CvReaders
<1>2. call' = call /\ step' = "returned"
  BY DEF CamSteps, Ends
<1>3. Flow'
  BY <1>1, <1>2 DEF TypeInv, Flow, StepsOf, Rs485, Sends, Ir
<1>4. LineBounds'
  <2>1. LineOk' /\ Line' = Line /\ coming' = coming
    BY DEF TypeInv, LineBounds, LineOk, Line, busVars
  <2> QED
    BY <1>1, <1>2, <2>1 DEF TypeInv, LineBounds
<1>5. result' \in Results
  <2>1. call # "probe" => call \in Registers
    BY <1>1 DEF Calls
  <2> QED
    BY <2>1, ResultTypes, Values DEF CamSteps, Ends
<1> QED
  BY <1>3, <1>4, <1>5

\* A session's numbers, and the meter's.
LEMMA DlmsVarsTyped ==
  ASSUME TypeInv, kind = "dlms", at \in Calls, Dlms!DlmsNext
  PROVE  Dlms!DlmsTypeOK' /\ timedOut' \in BOOLEAN
<1>1. /\ Dlms!DlmsTypeOK /\ timedOut \in BOOLEAN /\ LineOk /\ call \in Calls
      /\ step \in {"scaler", "value"} => call # "probe"
  BY DEF TypeInv, ReaderTypes, LineBounds, Flow
<1>2. DlmsSteps
  BY <1>1, DlmsIsSteps
<1>3. scaler' \in Dlms!Value
  <2>1. Dlms!Value = Value /\ scaler \in Value /\ NoValue \in Value
    BY <1>1, Values
    DEF Dlms!DlmsTypeOK, Dlms!Value, Dlms!Registers, Dlms!NoValue, Value, Registers, NoValue
  <2>2. CASE DlmsScaler
    BY <1>1, <2>1, <2>2, HeadOk, FrameValues DEF DlmsScaler, DlmsReply
  <2> QED
    BY <1>2, <2>1, <2>2
    DEF DlmsSteps, DlmsConnect, DlmsConnectFails, DlmsConnected, DlmsRequest,
        DlmsAssociated, DlmsValue, DlmsFails, DlmsDisconnect, DlmsReturns
<1>4. vs' \in {vs, 0, Dlms!Next8(vs)} /\ vr' \in {vr, 0, Dlms!Next8(vr)}
  BY DEF Dlms!DlmsNext, Dlms!Connect, Dlms!ConnectFails, Dlms!Connected, Dlms!Request,
         Dlms!RequestFails, Dlms!TakeReply, Dlms!Disconnect, Dlms!Disconnected,
         Dlms!dlmsState
<1>5. vs' \in 0 .. 7 /\ vr' \in 0 .. 7
  <2>1. /\ vs \in 0 .. 7 /\ vr \in 0 .. 7 /\ 0 \in 0 .. 7
        /\ Dlms!Next8(vs) \in 0 .. 7 /\ Dlms!Next8(vr) \in 0 .. 7
    BY <1>1, Next8Type DEF Dlms!DlmsTypeOK
  <2> QED
    BY <1>4, <2>1
<1>6. meter' \in [up : BOOLEAN, vs : 0 .. 7, vr : 0 .. 7]
  <2> DEFINE Meters == [up : BOOLEAN, vs : 0 .. 7, vr : 0 .. 7]
  <2>1. /\ meter \in Meters /\ Dlms!LinkDown \in Meters
        /\ [up |-> TRUE, vs |-> 0, vr |-> 0] \in Meters
    BY <1>1 DEF Dlms!DlmsTypeOK, Dlms!LinkDown
  <2>2. [meter EXCEPT !.vs = Dlms!Next8(@), !.vr = Dlms!Next8(@)] \in Meters
    <3>1. Dlms!Next8(meter.vs) \in 0 .. 7 /\ Dlms!Next8(meter.vr) \in 0 .. 7
      BY <2>1, Next8Type
    <3> QED
      BY <2>1, <3>1
  <2> HIDE DEF Meters
  <2>3. ASSUME Dlms!SendSnrm \/ Dlms!SendDisc PROVE meter' \in Meters
    BY <2>1, <2>3 DEF Dlms!SendSnrm, Dlms!SendDisc, Dlms!Reaches, Dlms!NotHeard
  <2>4. ASSUME NEW apdu, NEW value, Dlms!SendI(apdu, value) PROVE meter' \in Meters
    BY <2>1, <2>2, <2>4 DEF Dlms!SendI, Dlms!Reaches, Dlms!NotHeard
  <2>5. CASE Dlms!Connect \/ Dlms!Disconnect
    BY <2>3, <2>5 DEF Dlms!Connect, Dlms!Disconnect, Meters
  <2>6. CASE Dlms!Request
    BY <2>4, <2>6 DEF Dlms!Request, Meters
  <2>7. CASE ~ (Dlms!Connect \/ Dlms!Disconnect \/ Dlms!Request)
    BY <2>1, <2>7
    DEF Dlms!DlmsNext, Dlms!ConnectFails, Dlms!Connected, Dlms!RequestFails,
        Dlms!TakeReply, Dlms!Disconnected, Dlms!dlmsState, Meters
  <2> QED
    BY <2>5, <2>6, <2>7
<1>7. timedOut' \in BOOLEAN
  <2>1. timedOut' \in {timedOut, TRUE}
    BY DlmsBus
    DEF Dlms!DlmsNext, Dlms!Connect, Dlms!ConnectFails, Dlms!Connected, Dlms!Request,
        Dlms!RequestFails, Dlms!TakeReply, Dlms!Disconnect, Dlms!Disconnected
  <2> QED
    BY <1>1, <2>1
<1> QED
  BY <1>3, <1>5, <1>6, <1>7 DEF Dlms!DlmsTypeOK

LEMMA IecVarsTyped ==
  ASSUME TypeInv, Iec!IecNext, cachedExport' \in Value
  PROVE  Iec!IecTypeOK' /\ timedOut' \in BOOLEAN
<1>1. Iec!IecTypeOK /\ timedOut \in BOOLEAN
  BY DEF TypeInv, ReaderTypes
<1>2. Iec!Value = Value
  BY DEF Iec!Value, Value, Iec!Registers, Registers, Iec!NoValue, NoValue
<1>3. currentBaud' \in {currentBaud, "start", "offered"}
  BY DEF Iec!IecNext, Iec!RequestId, Iec!StartBaud, Iec!SkipEcho, Iec!TakeId, Iec!NoId,
         Iec!Acknowledge, Iec!SkipToBlock, Iec!TakeBlock, Iec!NoBlock, Iec!ProbeIdles,
         Iec!GetExport, Iec!iecState
<1>4. awaitsAck' \in {awaitsAck, TRUE, FALSE}
  BY DEF Iec!IecNext, Iec!RequestId, Iec!SkipEcho, Iec!TakeId, Iec!NoId,
         Iec!Acknowledge, Iec!SkipToBlock, Iec!TakeBlock, Iec!NoBlock, Iec!ProbeIdles,
         Iec!GetExport, Iec!iecState
<1>5. timedOut' \in {timedOut, TRUE}
  BY IecBus
     DEF Iec!IecNext, Iec!RequestId, Iec!SkipEcho, Iec!TakeId, Iec!NoId,
         Iec!Acknowledge, Iec!SkipToBlock, Iec!TakeBlock, Iec!NoBlock, Iec!ProbeIdles,
         Iec!GetExport
<1>6. currentBaud' \in {"start", "offered"}
  BY <1>1, <1>3 DEF Iec!IecTypeOK
<1>7. awaitsAck' \in BOOLEAN
  BY <1>1, <1>4 DEF Iec!IecTypeOK
<1>8. timedOut' \in BOOLEAN
  BY <1>1, <1>5
<1> QED
  BY <1>2, <1>6, <1>7, <1>8 DEF Iec!IecTypeOK

LEMMA ReaderStepTypes ==
  TypeInv /\ ReaderStep => LineBounds' /\ ReaderTypes' /\ LoopTypes' /\ Flow'
<1> SUFFICES ASSUME TypeInv, ReaderStep
             PROVE  LineBounds' /\ ReaderTypes' /\ LoopTypes' /\ Flow'
  OBVIOUS
<1>1. at \in Calls /\ ReaderFrame /\ call \in Calls /\ LineOk /\ kind' = kind
  BY DEF ReaderStep, ReaderFrame, TypeInv, Flow, LineBounds
<1>2. LoopTypes'
  BY <1>1 DEF TypeInv, LoopTypes, ReaderFrame, loopVars, gateVars
<1>3. CASE kind = "modbus" /\ Modbus!ModbusNext /\ UNCHANGED <<dlmsState, iecState>>
  <2>1. ModbusSteps
    BY <1>1, <1>3, ModbusIsSteps
  <2>2. LineBounds' /\ result' \in Results /\ timedOut' \in BOOLEAN /\ Flow'
    BY <1>1, <1>3, <2>1, ModbusTypes
  <2>3. Dlms!DlmsTypeOK' /\ Iec!IecTypeOK'
    BY <1>3 DEF TypeInv, ReaderTypes, Dlms!DlmsTypeOK, Iec!IecTypeOK, dlmsState, iecState
  <2> QED
    BY <1>2, <2>2, <2>3 DEF ReaderTypes
<1>4. CASE kind = "dlms" /\ Dlms!DlmsNext /\ UNCHANGED iecState
  <2>1. DlmsSteps
    BY <1>1, <1>4, DlmsIsSteps DEF TypeInv, ReaderTypes, Flow
  <2>2. LineBounds' /\ result' \in Results /\ Flow'
    BY <1>1, <1>4, <2>1, DlmsTypes
  <2>3. Iec!IecTypeOK'
    BY <1>4 DEF TypeInv, ReaderTypes, Iec!IecTypeOK, iecState
  <2> QED
    BY <1>1, <1>2, <1>4, <2>2, <2>3, DlmsVarsTyped DEF ReaderTypes
<1>5. CASE kind = "iec" /\ Iec!IecNext /\ UNCHANGED dlmsState
  <2>1. IecSteps
    BY <1>1, <1>5, IecIsSteps
  <2>2. LineBounds' /\ result' \in Results /\ cachedExport' \in Value /\ Flow'
    BY <1>1, <1>5, <2>1, IecTypes
  <2>3. Dlms!DlmsTypeOK'
    BY <1>5 DEF TypeInv, ReaderTypes, Dlms!DlmsTypeOK, dlmsState
  <2> QED
    BY <1>2, <1>5, <2>2, <2>3, IecVarsTyped DEF ReaderTypes
<1>6. CASE Cv /\ Cam!CamNext /\ UNCHANGED <<busVars, timedOut, dlmsState, iecState>>
  <2>1. LineBounds' /\ result' \in Results /\ Flow'
    BY <1>1, <1>6, CamIsSteps, CamTypes
  <2>2. Dlms!DlmsTypeOK' /\ Iec!IecTypeOK' /\ timedOut' \in BOOLEAN
    BY <1>6 DEF TypeInv, ReaderTypes, Dlms!DlmsTypeOK, Iec!IecTypeOK, dlmsState, iecState
  <2> QED
    BY <1>2, <2>1, <2>2 DEF ReaderTypes
<1> QED
  BY <1>3, <1>4, <1>5, <1>6 DEF ReaderStep

\* The steps of the loop that leave the line and the readers' variables alone.
LoopStep ==
  \/ Probe \/ ProbePasses \/ ProbeFails \/ RetryIntervalOver
  \/ Rs485Reads \/ Rs485ReadsLast \/ Rs485Sends \/ ReadFails
  \/ IrReads \/ IrSends \/ CvReads \/ CvSends \/ Wake

LEMMA LoopStepQuiet ==
  LoopStep => /\ UNCHANGED <<busVars, punctual, kind, dlmsState, iecState>>
              /\ step' \in {step, "start"} /\ result' \in {result, Failure}
              /\ timedOut' \in {timedOut, FALSE}
BY DEF LoopStep, Probe, ProbePasses, ProbeFails, RetryIntervalOver, Rs485Reads,
       Rs485ReadsLast, Rs485Sends, ReadFails, IrReads, IrSends, CvReads, CvSends, Wake,
       SendReading, Call, ToTop, callVars

LEMMA QuietTypes ==
  ASSUME TypeInv, UNCHANGED <<busVars, kind, dlmsState, iecState>>,
         step' \in {step, "start"}, result' \in {result, Failure},
         timedOut' \in {timedOut, FALSE}
  PROVE  LineBounds' /\ ReaderTypes'
<1>1. LineBounds'
  BY UntouchedLine DEF TypeInv
<1>2. result' \in Results
  BY ResultTypes DEF TypeInv, ReaderTypes
<1>3. timedOut' \in BOOLEAN
  <2>1. timedOut \in BOOLEAN
    BY DEF TypeInv, ReaderTypes
  <2> QED
    BY <2>1
<1>4. Dlms!DlmsTypeOK' /\ Iec!IecTypeOK'
  BY DEF TypeInv, ReaderTypes, Dlms!DlmsTypeOK, Iec!IecTypeOK, dlmsState, iecState
<1> QED
  BY <1>1, <1>2, <1>3, <1>4 DEF ReaderTypes

LEMMA ReportTypes ==
  ASSUME isReady \in BOOLEAN, failedReads \in 0 .. READS_BEFORE_LOST,
         ~ isReady \/ failedReads < READS_BEFORE_LOST, isReady,
         NEW status, ReportRead(status)
  PROVE  /\ isReady' \in BOOLEAN /\ failedReads' \in 0 .. READS_BEFORE_LOST
         /\ ~ isReady' \/ failedReads' < READS_BEFORE_LOST
         /\ status = "Success" => isReady'
<1>1. CASE status = "Success"
  BY <1>1 DEF ReportRead, READS_BEFORE_LOST
<1>2. CASE status # "Success"
  <2>1. /\ failedReads' = failedReads + 1 /\ failedReads \in 0 .. 2
        /\ isReady' = (failedReads + 1 < 3)
    BY <1>2 DEF ReportRead, READS_BEFORE_LOST
  <2>2. isReady' \in BOOLEAN
    BY <2>1
  <2>3. ~ isReady' \/ failedReads' < 3
    BY <2>1
  <2> QED
    BY <1>2, <2>1, <2>2, <2>3 DEF READS_BEFORE_LOST
<1> QED
  BY <1>1, <1>2

LEMMA LoopStepTypes ==
  ASSUME TypeInv, LoopStep
  PROVE  LoopTypes' /\ Flow'
<1>0. /\ LoopTypes /\ Flow /\ punctual' = punctual /\ kind' = kind
      /\ result.value \in Value /\ timedOut \in BOOLEAN
  BY LoopStepQuiet DEF TypeInv, ReaderTypes, Results
<1>1. call \in Registers => Stored \in [Registers -> Value]
  BY <1>0 DEF Stored, LoopTypes
<1>2. \A s \in Calls : s \notin {"setup", "idle", "top"}
  BY DEF Calls, Registers
<1>3. "start" \in StepsOf(kind) /\ "returned" # "start"
  BY DEF StepsOf
<1>4. \A reading : Coherent(reading) \in BOOLEAN
  BY DEF Coherent
<1>5. at \in Registers => isReady /\ call = at /\ at \in Sends
  BY <1>0 DEF Flow, Calls
<1>6. Sends' = Sends
  BY <1>0 DEF Sends, Rs485, Ir
<1>7. CASE Probe
  BY <1>0, <1>2, <1>3, <1>7 DEF Probe, Call, LoopTypes, Flow, Calls, Registers, Rs485
<1>8. CASE ProbePasses
  BY <1>0, <1>2, <1>3, <1>8
  DEF ProbePasses, ToTop, Returned, LoopTypes, Flow, Calls, Registers, READS_BEFORE_LOST, Rs485
<1>9. CASE ProbeFails
  BY <1>0, <1>2, <1>3, <1>9
  DEF ProbeFails, NotReady, ToTop, Returned, gateVars, LoopTypes, Flow, Calls, Registers, Rs485
<1>10. CASE RetryIntervalOver
  BY <1>0, <1>6, <1>10 DEF RetryIntervalOver, callVars, LoopTypes, Flow, Rs485
<1>11. CASE Rs485Reads
  <2>1. PICK reg \in DOMAIN NextRegister :
          Returned(reg) /\ payload' = Stored /\ Call(NextRegister[reg])
    BY <1>11 DEF Rs485Reads
  <2>2. reg \in Registers /\ NextRegister[reg] \in Registers
    BY DEF NextRegister, Registers
  <2>3. UNCHANGED <<gateVars, state, importVal, sent>> /\ Rs485
    BY <1>11 DEF Rs485Reads
  <2>4. /\ at = reg /\ isReady /\ call \in Registers /\ state # "SEND"
    BY <1>0, <1>2, <1>5, <2>1, <2>2 DEF Returned, Flow, Calls
  <2>5. LoopTypes'
    BY <1>0, <1>1, <2>1, <2>2, <2>3, <2>4 DEF LoopTypes, Call, Calls, gateVars
  <2>6. Sends = Registers
    BY <2>3 DEF Sends, Rs485, Ir, Rs485Readers, IrReaders
  <2>7. Flow'
    BY <1>0, <1>2, <1>3, <1>6, <2>1, <2>2, <2>3, <2>4, <2>6
    DEF Flow, Call, Calls, gateVars
  <2> QED
    BY <2>5, <2>7
<1>12. CASE Rs485ReadsLast
  <2>1. /\ Rs485 /\ at = "voltage" /\ payload' = Stored /\ ReportRead("Success")
        /\ state' = "SEND" /\ ToTop /\ UNCHANGED <<importVal, sent>>
    BY <1>12 DEF Rs485ReadsLast, Returned
  <2>2. isReady /\ call \in Registers
    BY <1>5, <2>1 DEF Registers
  <2>3. /\ isReady' \in BOOLEAN /\ failedReads' \in 0 .. READS_BEFORE_LOST
        /\ ~ isReady' \/ failedReads' < READS_BEFORE_LOST
        /\ isReady'
    BY <1>0, <2>1, <2>2, ReportTypes DEF LoopTypes
  <2>4. LoopTypes'
    BY <1>0, <1>1, <2>1, <2>2, <2>3 DEF LoopTypes, ToTop
  <2>5. Flow'
    BY <1>0, <1>2, <1>3, <2>1, <2>3 DEF Flow, ToTop, Calls, Rs485
  <2> QED
    BY <2>4, <2>5
<1>13. ASSUME NEW reading \in [Registers -> Value], SendReading(reading),
              isReady' \in BOOLEAN, failedReads' \in 0 .. READS_BEFORE_LOST,
              ~ isReady' \/ failedReads' < READS_BEFORE_LOST, importVal' = importVal
       PROVE  LoopTypes' /\ Flow'
  <2>1. sent' \in [coherent : BOOLEAN, late : BOOLEAN]
    BY <1>0, <1>4, <1>13 DEF SendReading
  <2>2. /\ payload' \in [Registers -> Value] /\ state' = "SLEEP" /\ at' = "top"
        /\ call' = "none" /\ step' = "start"
    BY <1>13 DEF SendReading, ToTop
  <2>3. LoopTypes'
    BY <1>0, <1>13, <2>1, <2>2 DEF LoopTypes
  <2>4. Flow'
    BY <1>0, <1>2, <1>3, <2>2 DEF Flow, Calls
  <2> QED
    BY <2>3, <2>4
<1>14. CASE Rs485Sends
  BY <1>0, <1>13, <1>14 DEF Rs485Sends, LoopTypes, gateVars
<1>15. CASE ReadFails
  <2>1. /\ ReportRead("Failure") /\ ToTop /\ at \in Registers
        /\ UNCHANGED <<state, importVal, payload, sent>>
    BY <1>15 DEF ReadFails, Registers
  <2>2. isReady /\ state # "SEND"
    BY <1>0, <1>2, <1>5, <2>1 DEF Flow, Calls
  <2>3. /\ isReady' \in BOOLEAN /\ failedReads' \in 0 .. READS_BEFORE_LOST
        /\ ~ isReady' \/ failedReads' < READS_BEFORE_LOST
    BY <1>0, <2>1, <2>2, ReportTypes DEF LoopTypes
  <2>4. LoopTypes'
    BY <1>0, <2>1, <2>3 DEF LoopTypes, ToTop
  <2>5. Flow'
    BY <1>0, <1>2, <1>3, <2>1, <2>2 DEF Flow, ToTop, Calls
  <2> QED
    BY <2>4, <2>5
<1>16. CASE IrReads
  <2>1. /\ Ir /\ at = "import" /\ ReportRead("Success") /\ payload' = Stored
        /\ Call("export") /\ UNCHANGED <<state, importVal, sent>>
    BY <1>16 DEF IrReads, Returned
  <2>2. isReady /\ call \in Registers /\ state # "SEND"
    BY <1>0, <1>2, <1>5, <2>1 DEF Registers, Flow, Calls
  <2>3. /\ isReady' \in BOOLEAN /\ failedReads' \in 0 .. READS_BEFORE_LOST
        /\ ~ isReady' \/ failedReads' < READS_BEFORE_LOST
        /\ isReady'
    BY <1>0, <2>1, <2>2, ReportTypes DEF LoopTypes
  <2>4. "export" \in Sends /\ "export" \in Registers
    BY <2>1 DEF Sends, Rs485, Ir, Rs485Readers, IrReaders, Registers
  <2>5. LoopTypes'
    BY <1>0, <1>1, <2>1, <2>2, <2>3, <2>4 DEF LoopTypes, Call, Calls
  <2>6. Flow'
    BY <1>0, <1>2, <1>3, <1>6, <2>1, <2>2, <2>3, <2>4 DEF Flow, Call, Calls
  <2> QED
    BY <2>5, <2>6
<1>17. CASE IrSends
  <2>1. at = "export" /\ UNCHANGED <<gateVars, importVal>>
    BY <1>17 DEF IrSends, Returned
  <2>2. call \in Registers
    BY <1>5, <2>1 DEF Registers
  <2> QED
    BY <1>0, <1>1, <1>13, <1>17, <2>1, <2>2 DEF IrSends, LoopTypes, gateVars
<1>18. CASE CvReads
  <2>1. /\ kind = "camExport" /\ at = "import" /\ importVal' = result.value
        /\ Call("export") /\ UNCHANGED <<gateVars, state, payload, sent>>
    BY <1>18 DEF CvReads, Returned
  <2>2. isReady /\ state # "SEND"
    BY <1>0, <1>2, <1>5, <2>1 DEF Registers, Flow, Calls
  <2>3. "export" \in Sends /\ "export" \in Registers
    BY <2>1 DEF Sends, Rs485, Ir, Rs485Readers, IrReaders, Registers
  <2>4. LoopTypes'
    BY <1>0, <2>1, <2>3 DEF LoopTypes, Call, Calls, gateVars
  <2>5. Flow'
    BY <1>0, <1>2, <1>3, <1>6, <2>1, <2>2, <2>3 DEF Flow, Call, Calls, gateVars
  <2> QED
    BY <2>4, <2>5
<1>19. CASE CvSends
  <2>1. at \in {"import", "export"} /\ ReportRead("Success") /\ importVal' = importVal
    BY <1>19 DEF CvSends, Returned
  <2>2. isReady /\ call \in Registers
    BY <1>5, <2>1 DEF Registers
  <2>3. /\ isReady' \in BOOLEAN /\ failedReads' \in 0 .. READS_BEFORE_LOST
        /\ ~ isReady' \/ failedReads' < READS_BEFORE_LOST
    BY <1>0, <2>1, <2>2, ReportTypes DEF LoopTypes
  <2>4. /\ Stored \in [Registers -> Value]
        /\ [Stored EXCEPT !["import"] = importVal] \in [Registers -> Value]
    BY <1>0, <1>1, <2>2 DEF LoopTypes
  <2> QED
    BY <1>13, <1>19, <2>1, <2>3, <2>4 DEF CvSends
<1>20. CASE Wake
  BY <1>0, <1>6, <1>20 DEF Wake, callVars, gateVars, LoopTypes, Flow, Rs485
<1> QED
  BY <1>7, <1>8, <1>9, <1>10, <1>11, <1>12, <1>14, <1>15, <1>16, <1>17, <1>18, <1>19, <1>20
  DEF LoopStep

LEMMA StartReadTypes ==
  ASSUME TypeInv, StartRead
  PROVE  LineBounds' /\ ReaderTypes' /\ LoopTypes' /\ Flow'
<1>1. /\ at = "top" /\ isReady /\ state = "READ" /\ kind' = kind
      /\ state' \in {"READ", "SLEEP"} /\ Call("import")
      /\ coming' = AgedFrames(coming) /\ arrived' = AgedFrames(arrived)
      /\ payload' = NoPayload /\ importVal' = NoValue /\ cachedExport' = Aged(cachedExport)
      /\ UNCHANGED <<punctual, timedOut, gateVars, sent, dlmsState, currentBaud, awaitsAck>>
  BY DEF StartRead
<1>2. LineBounds'
  <2>1. /\ LineOk /\ Len(coming) <= MaxLag /\ Len(Line) <= 2 * MaxLag
        /\ kind # "iec" => Len(Line) <= MaxLag
    BY DEF TypeInv, LineBounds
  <2>2. LineOk' /\ Len(Line') = Len(Line) /\ Len(coming') = Len(coming)
    BY <1>1, <2>1, AgedLine
  <2>3. step' = "start"
    BY <1>1 DEF Call
  <2> QED
    BY <1>1, <2>1, <2>2, <2>3 DEF LineBounds
<1>3. ReaderTypes'
  <2>1. cachedExport \in Value /\ Iec!Value = Value
    BY DEF TypeInv, ReaderTypes, Iec!IecTypeOK, Iec!Value, Value, Iec!Registers, Registers,
           Iec!NoValue, NoValue
  <2>2. cachedExport' \in Value
    BY <1>1, <2>1, AgedValue
  <2>3. result' \in Results /\ timedOut' \in BOOLEAN
    BY <1>1 DEF Call, TypeInv, ReaderTypes
  <2>4. Dlms!DlmsTypeOK'
    BY <1>1 DEF TypeInv, ReaderTypes, Dlms!DlmsTypeOK, dlmsState
  <2>5. Iec!IecTypeOK'
    BY <1>1, <2>1, <2>2 DEF TypeInv, ReaderTypes, Iec!IecTypeOK
  <2> QED
    BY <2>3, <2>4, <2>5 DEF ReaderTypes
<1>4. LoopTypes'
  <2>1. NoPayload \in [Registers -> Value] /\ NoValue \in Value
    BY Values DEF NoPayload
  <2> QED
    BY <1>1, <2>1 DEF TypeInv, LoopTypes, Call, Calls, Registers, gateVars
<1>5. Flow'
  <2>1. "import" \in Sends /\ Sends' = Sends
    <3>1. kind \in AllKinds
      BY KindsAssumption DEF TypeInv, LoopTypes
    <3>2. Sends' = Sends
      BY <1>1 DEF Sends, Rs485, Ir
    <3>3. CASE Rs485
      BY <3>2, <3>3 DEF Sends, Rs485, Ir, Rs485Readers, IrReaders, Registers
    <3>4. CASE Ir
      BY <3>2, <3>4 DEF Sends, Rs485, Ir, Rs485Readers, IrReaders, Registers
    <3>5. CASE kind = "cam"
      BY <3>2, <3>5 DEF Sends, Rs485, Ir, Rs485Readers, IrReaders, Registers
    <3>6. CASE kind = "camExport"
      BY <3>2, <3>6 DEF Sends, Rs485, Ir, Rs485Readers, IrReaders, Registers
    <3> QED
      BY <3>1, <3>3, <3>4, <3>5, <3>6 DEF AllKinds, Rs485, Ir, CvReaders
  <2>2. "start" \in StepsOf(kind) /\ "import" \in Registers
    BY DEF StepsOf, Registers
  <2> QED
    BY <1>1, <2>1, <2>2 DEF Flow, Call, Calls, gateVars, Registers
<1> QED
  BY <1>2, <1>3, <1>4, <1>5

LEMMA SetUpStepTypes ==
  ASSUME TypeInv, SetUpStep \/ BringUp \/ BringUpFails
  PROVE  LineBounds' /\ ReaderTypes' /\ LoopTypes' /\ Flow'
<1>1. /\ at = "setup" /\ at' \in {"setup", "top", "idle"}
      /\ UNCHANGED <<punctual, kind, gateVars, state, importVal, payload, sent, readerVars>>
  BY DEF SetUpStep, BringUp, BringUpFails, loopVars
<1>2. UNCHANGED <<busVars, kind, dlmsState, iecState, callVars, timedOut>>
  BY <1>1 DEF readerVars
<1>3. LineBounds' /\ ReaderTypes'
  BY <1>2, QuietTypes DEF callVars
<1>4. at \notin Calls /\ at' \notin Calls
  BY <1>1 DEF Calls, Registers
<1>5. LoopTypes'
  BY <1>1 DEF TypeInv, LoopTypes, gateVars
<1>6. Flow'
  BY <1>1, <1>2, <1>4 DEF TypeInv, Flow, gateVars, callVars, Calls, Registers
<1> QED
  BY <1>3, <1>5, <1>6

LEMMA BusStepTypes ==
  ASSUME TypeInv, BusStep
  PROVE  LineBounds' /\ ReaderTypes' /\ LoopTypes' /\ Flow'
<1>1. /\ Arrive \/ ArriveGarbled \/ Lose
      /\ UNCHANGED <<punctual, callVars, timedOut, kind, loopVars, dlmsState, iecState>>
  BY DEF BusStep
<1>2. LineOk' /\ LineThins
  BY <1>1, BusThins DEF TypeInv, LineBounds, LineThins
<1>3. Len(coming') <= Len(coming)
  <2>1. coming \in Seq(Frames) /\ coming # << >> /\ coming' = Tail(coming)
    BY <1>1 DEF Arrive, ArriveGarbled, Lose, TypeInv, LineBounds, LineOk
  <2> QED
    BY <2>1, TailAt
<1>4. LineBounds'
  BY <1>1, <1>2, <1>3, ThinBounds DEF TypeInv, callVars
<1>5. ReaderTypes'
  BY <1>1
  DEF TypeInv, ReaderTypes, callVars, Dlms!DlmsTypeOK, Iec!IecTypeOK, dlmsState, iecState
<1>6. LoopTypes' /\ Flow'
  BY <1>1 DEF TypeInv, LoopTypes, Flow, loopVars, gateVars, callVars, Sends, Rs485, Ir
<1> QED
  BY <1>4, <1>5, <1>6

LEMMA IdleTypes ==
  ASSUME TypeInv, UNCHANGED vars \/ TurnPunctual
  PROVE  LineBounds' /\ ReaderTypes' /\ LoopTypes' /\ Flow'
<1>1. /\ UNCHANGED <<readerVars, kind, loopVars>>
      /\ punctual' \in {punctual, TRUE}
  BY DEF TurnPunctual, vars, readerVars
<1>2. LineBounds' /\ ReaderTypes'
  BY <1>1, QuietTypes DEF readerVars, callVars
<1>3. LoopTypes' /\ Flow'
  <2>1. punctual' \in BOOLEAN
    <3>1. punctual \in BOOLEAN
      BY DEF TypeInv, LoopTypes
    <3> QED
      BY <1>1, <3>1
  <2> QED
    BY <1>1, <2>1
    DEF TypeInv, LoopTypes, Flow, readerVars, callVars, loopVars, gateVars, Sends, Rs485, Ir
<1> QED
  BY <1>2, <1>3

\* What each part of the set-up leaves of the board.
LEMMA StepBoard == BoardTypes /\ [Next]_vars => BoardTypes'
<1> SUFFICES ASSUME BoardTypes, [Next]_vars PROVE BoardTypes'
  OBVIOUS
<1>1. CASE SetUpForgotten
  <2>1. /\ apUp' = FALSE /\ stationUp' = FALSE /\ radioChannel' = 0
        /\ bus' = "none" /\ sound' = TRUE
    BY <1>1 DEF SetUpForgotten
  <2> QED
    BY <2>1 DEF BoardTypes, RadioTypeOK, Rs485Buses
<1>2. CASE UNCHANGED setUpVars
  BY <1>2 DEF setUpVars, radioVars, BoardTypes, RadioTypeOK
<1>3. CASE SetUpNext
  <2>1. UNCHANGED <<bus, sound>>
    BY <1>3 DEF SetUpNext, LoadConfig, SeqCounterBegin, HostAp, TcpBusInit, HttpBusInit,
       SimulatedIrHeadInit, Sp3485Probe, IrHeadIdleCheck, UartStart, StartLoopback, Echo, NoEcho, ReadEcho,
       ReaderInitialised, LinkInit, Join
  <2>2. CASE HostAp
    <3>1. PICK ok \in BOOLEAN, up \in BOOLEAN : StartAp(Channel, ok, up)
      BY <2>2 DEF HostAp
    <3>2. apUp' \in BOOLEAN /\ stationUp' \in BOOLEAN /\ radioChannel' \in Nat
      BY <3>1 DEF StartAp, Channel, BoardTypes, RadioTypeOK
    <3> QED
      BY <2>1, <3>2 DEF BoardTypes, RadioTypeOK
  <2>3. CASE LinkInit
    <3>1. PICK ok \in BOOLEAN, up \in BOOLEAN : StartStation(Channel, ok, up)
      BY <2>3 DEF LinkInit
    <3>2. apUp' \in BOOLEAN /\ stationUp' \in BOOLEAN /\ radioChannel' \in Nat
      BY <3>1 DEF StartStation, Channel, BoardTypes, RadioTypeOK
    <3> QED
      BY <2>1, <3>2 DEF BoardTypes, RadioTypeOK
  <2>4. CASE ~ HostAp /\ ~ LinkInit
    <3>1. UNCHANGED radioVars
      BY <1>3, <2>4 DEF SetUpNext, LoadConfig, SeqCounterBegin, TcpBusInit, HttpBusInit,
         SimulatedIrHeadInit, Sp3485Probe, IrHeadIdleCheck, UartStart, StartLoopback, Echo, NoEcho, ReadEcho,
         ReaderInitialised, Join
    <3> QED
      BY <2>1, <3>1 DEF radioVars, BoardTypes, RadioTypeOK
  <2> QED
    BY <2>2, <2>3, <2>4
<1> QED
  BY <1>1, <1>2, <1>3, StepSetUp

\* Every step is one of the set-up, the reader, the loop or the bus.
LEMMA NodeSteps ==
  [Next]_vars => \/ SetUpStep \/ BringUp \/ BringUpFails
                 \/ ReaderStep
                 \/ StartRead
                 \/ LoopStep
                 \/ BusStep
                 \/ TurnPunctual
                 \/ UNCHANGED vars
BY DEF Next, Loop, Running, LoopStep, Idle

LEMMA StepTypes == TypeInv /\ [Next]_vars => TypeInv'
<1> SUFFICES ASSUME TypeInv, [Next]_vars PROVE TypeInv'
  OBVIOUS
<1>1. LineBounds' /\ ReaderTypes' /\ LoopTypes' /\ Flow'
  <2>1. CASE LoopStep
    BY <2>1, LoopStepQuiet, QuietTypes, LoopStepTypes
  <2> QED
    BY <2>1, NodeSteps, SetUpStepTypes, ReaderStepTypes, StartReadTypes, BusStepTypes, IdleTypes
<1>2. BoardTypes'
  BY StepBoard DEF TypeInv
<1> QED
  BY <1>1, <1>2 DEF TypeInv

LEMMA InitTypes == Init => TypeInv
<1> SUFFICES ASSUME Init PROVE TypeInv
  OBVIOUS
<1>1. LineBounds
  <2>1. coming = << >> /\ arrived = << >>
    BY DEF Init, BusInit
  <2>2. LineOk /\ Len(coming) = 0 /\ Len(Line) = 0
    <3>1. LineOk /\ Len(coming) = 0 /\ Len(arrived) = 0
      BY <2>1 DEF LineOk
    <3> QED
      BY <3>1, LineAt
  <2> QED
    BY <2>2, MaxLagAssumption DEF LineBounds
<1>2. ReaderTypes
  <2>1. result = Failure /\ timedOut = FALSE
    BY DEF Init, ReaderInit
  <2>2. Dlms!DlmsTypeOK
    BY DEF Init, Dlms!DlmsInit, Dlms!DlmsTypeOK, Dlms!Value, Dlms!NoValue, NoValue,
           Dlms!LinkDown
  <2>3. Iec!IecTypeOK
    BY DEF Init, Iec!IecInit, Iec!IecTypeOK, Iec!Value, Iec!NoValue, NoValue
  <2> QED
    BY <2>1, <2>2, <2>3, ResultTypes DEF ReaderTypes
<1>3. LoopTypes
  <2>1. /\ punctual = FALSE /\ kind \in Kinds /\ at = "setup" /\ isReady = FALSE
        /\ failedReads = 0 /\ state \in {"READ", "SLEEP"} /\ importVal = NoValue
        /\ payload = NoPayload /\ sent = NothingSent
    BY DEF Init, BusInit
  <2>2. NoPayload \in [Registers -> Value] /\ NoValue \in Value
    BY Values DEF NoPayload
  <2>3. NothingSent \in [coherent : BOOLEAN, late : BOOLEAN]
    BY DEF NothingSent
  <2>4. failedReads \in 0 .. READS_BEFORE_LOST
    BY <2>1 DEF READS_BEFORE_LOST
  <2> QED
    BY <2>1, <2>2, <2>3, <2>4 DEF LoopTypes
<1>4. Flow
  <2>1. /\ at = "setup" /\ isReady = FALSE /\ state # "SEND" /\ call = "none" /\ step = "start"
    BY DEF Init, ReaderInit
  <2> QED
    BY <2>1 DEF Flow, StepsOf, Calls, Registers
<1>5. BoardTypes
  <2>1. bus \in Rs485Buses \cup IrBuses \cup CvBuses /\ sound \in BOOLEAN
    <3>1. kind \in Rs485Readers \cup IrReaders \cup CvReaders
      BY KindsAssumption DEF Init, AllKinds
    <3>2. Buses \subseteq Rs485Buses \cup IrBuses \cup CvBuses
      <4>1. CASE Rs485
        BY <4>1 DEF Buses, Rs485, Ir, Cv, Rs485Readers, IrReaders, CvReaders
      <4>2. CASE Ir
        BY <4>2 DEF Buses, Rs485, Ir, Cv, Rs485Readers, IrReaders, CvReaders
      <4>3. CASE Cv
        BY <4>3 DEF Buses, Rs485, Ir, Cv, Rs485Readers, IrReaders, CvReaders
      <4> QED
        BY <3>1, <4>1, <4>2, <4>3 DEF Rs485, Ir, Cv
    <3> QED
      BY <3>2 DEF Init, SetUpInit
  <2>2. RadioTypeOK
    BY DEF Init, SetUpInit, RadioInit, RadioTypeOK
  <2> QED
    BY <2>1, <2>2 DEF BoardTypes
<1> QED
  BY <1>1, <1>2, <1>3, <1>4, <1>5 DEF TypeInv

LEMMA TypesImplied == TypeInv /\ SetUpInv => TypeOK
<1> SUFFICES ASSUME TypeInv, SetUpInv PROVE TypeOK
  OBVIOUS
<1>1. BusTypeOK
  <2>1. \A k \in DOMAIN coming : coming[k].value \in Value
    BY FrameValues DEF TypeInv, LineBounds, LineOk
  <2>2. \A k \in DOMAIN arrived : arrived[k].value \in Value
    BY FrameValues DEF TypeInv, LineBounds, LineOk
  <2>3. Len(arrived) <= 2 * MaxLag
    BY LineAt, LineLengths, MaxLagAssumption DEF TypeInv, LineBounds
  <2> QED
    BY <2>1, <2>2, <2>3 DEF TypeInv, LineBounds, LoopTypes, BusTypeOK
<1>2. SetUpTypeOK
  BY DEF TypeInv, BoardTypes, SetUpInv, WiringTypes, UartSet, SetUpTypeOK
<1>3. call \in Calls \cup {"none"}
  BY DEF TypeInv, Flow
<1>4. result.status \in {"Success", "Failure"} /\ result.value \in Value
  BY DEF TypeInv, ReaderTypes, Results
<1> QED
  BY <1>1, <1>2, <1>3, <1>4 DEF TypeInv, ReaderTypes, LoopTypes, TypeOK

-----------------------------------------------------------------------------
(* Which frames are where *)

LEMMA WithinSubset ==
  \A q, S, T : \A n \in Nat : S \subseteq T /\ Within(q, T, n) => Within(q, S, n)
BY DEF Within

LEMMA ShortIsWithin == \A q \in Seq(Frames) : \A S : \A n \in Nat : Len(q) <= n => Within(q, S, n)
<1> SUFFICES ASSUME NEW q \in Seq(Frames), NEW n \in Nat, Len(q) <= n, NEW S
             PROVE  Within(q, S, n)
  OBVIOUS
<1>1. Len(q) \in Nat
  OBVIOUS
<1> QED
  BY <1>1 DEF Within

LEMMA NoneIsLast == \A q, S : Within(q, S, 0) => LastOnly(q, S)
<1> SUFFICES ASSUME NEW q, NEW S, Within(q, S, 0) PROVE LastOnly(q, S)
  OBVIOUS
<1>1. \A k \in 1 .. Len(q) : ~ (k <= 0)
  OBVIOUS
<1> QED
  BY <1>1 DEF Within, LastOnly

LEMMA GarbledIsNoIFrame == Garbled \notin IFrames /\ PlainFrames \cap IFrames = {}
                           /\ Garbled \notin BlockFrames /\ PlainFrames \cap BlockFrames = {}
<1>1. \A f \in PlainFrames : f.kind # "I" /\ f.kind # "block"
  BY DEF PlainFrames, PlainKinds
<1>2. \A f \in IFrames : f.kind = "I"
  BY DEF IFrames
<1>3. \A f \in BlockFrames : f.kind = "block"
  BY DEF BlockFrames
<1> QED
  BY <1>1, <1>2, <1>3, GarbledIsPlain

\* A step that loses frames.
LEMMA ThinsWithin ==
  ASSUME LineOk, LineOk', LineThins, NEW S, Garbled \notin S
  PROVE  /\ \A n \in Nat : Within(Line, S, n) => Within(Line', S, n)
         /\ LastOnly(Line, S) => LastOnly(Line', S)
         /\ Len(Line') <= Len(Line)
<1>1. Line \in Seq(Frames) /\ Line' \in Seq(Frames) /\ Thinned(Line', Line)
  BY LineTypeHolds, LineAtNext DEF LineThins
<1> QED
  BY <1>1, ThinnedWithin, ThinnedLast DEF Thinned

\* A send of one of F.
LEMMA SendWithin ==
  ASSUME LineOk, Len(coming) <= MaxLag, NEW F, F \subseteq Frames, SendOf(F),
         NEW S, Garbled \notin S
  PROVE  /\ \A n \in Nat : Within(Line, S, n) /\ (F \cap S = {} \/ Len(Line) < n)
                             => Within(Line', S, n)
         /\ Within(Line, S, 0) => LastOnly(Line', S)
         /\ LineOk' /\ Len(Line') <= Len(Line) + 1
<1>1. Line \in Seq(Frames) /\ Line' \in Seq(Frames) /\ LineOk'
      /\ coming \in Seq(Frames) /\ Thinned(coming, Line)
  BY SendOfLine, LineTypeHolds, LineAtNext, ComingThins DEF LineOk
<1>2. Len(coming) <= Len(Line) /\ Len(coming) \in Nat /\ Len(Line) \in Nat
  BY <1>1 DEF Thinned
<1>3. \A n \in Nat : Within(Line, S, n) => Within(coming, S, n)
  BY <1>1, ThinnedWithin
<1>4. CASE Thinned(Line', Line)
  <2>1. \A n \in Nat : Within(Line, S, n) => Within(Line', S, n)
    BY <1>1, <1>4, ThinnedWithin
  <2>2. Within(Line, S, 0) => LastOnly(Line', S)
    BY <2>1, NoneIsLast
  <2>3. Len(Line') <= Len(Line) + 1
    BY <1>1, <1>2, <1>4 DEF Thinned
  <2> QED
    BY <1>1, <2>1, <2>2, <2>3
<1>5. ASSUME NEW f \in F, Line' = Append(coming, f)
      PROVE  /\ \A n \in Nat : Within(Line, S, n) /\ (F \cap S = {} \/ Len(Line) < n)
                                 => Within(Line', S, n)
             /\ Within(Line, S, 0) => LastOnly(Line', S)
             /\ Len(Line') <= Len(Line) + 1
  <2>1. ASSUME NEW n \in Nat, Within(Line, S, n), F \cap S = {} \/ Len(Line) < n
        PROVE  Within(Line', S, n)
    <3>1. Within(coming, S, n) /\ (f \notin S \/ Len(coming) < n)
      BY <1>2, <1>3, <2>1
    <3> QED
      BY <1>1, <1>5, <3>1, AppendWithin
  <2>2. Within(Line, S, 0) => LastOnly(Line', S)
    BY <1>1, <1>3, <1>5, AppendLast
  <2>3. Len(Line') <= Len(Line) + 1
    <3>1. Len(Append(coming, f)) = Len(coming) + 1
      BY <1>1
    <3> QED
      BY <1>2, <1>5, <3>1
  <2> QED
    BY <2>1, <2>2, <2>3
<1> QED
  BY <1>1, <1>4, <1>5, SendOfLine

\* The reader takes a frame.
LEMMA TakeWithin ==
  ASSUME LineOk, Take, NEW S
  PROVE  /\ \A n \in Nat : Within(Line, S, n) =>
              /\ Within(Line', S, n)
              /\ n > 0 => Within(Line', S, n - 1)
              /\ n = 0 => Head(arrived) \notin S
         /\ LastOnly(Line, S) => /\ LastOnly(Line', S)
                                 /\ Head(arrived) \in S => Len(Line') = 0
         /\ Len(Line') = Len(Line) - 1
<1>1. /\ Line \in Seq(Frames) /\ Line # << >> /\ Line' = Tail(Line)
      /\ Head(arrived) = Line[1]
  BY TakeTails, LineTypeHolds
<1> QED
  BY <1>1, TailWithin, TailLast, TailAt

\* A line ages where it is.
LEMMA AgedWithin ==
  ASSUME LineOk, coming' = AgedFrames(coming), arrived' = AgedFrames(arrived),
         NEW n \in Nat, NEW r, Within(Line, OtherScalers(r), n)
  PROVE  Within(Line', OtherScalers(r), n)
<1>1. /\ Len(Line') = Len(Line) /\ Line \in Seq(Frames)
      /\ \A k \in 1 .. Len(Line) : Line'[k] = [Line[k] EXCEPT !.value = Aged(@)]
  BY AgedLine, LineTypeHolds
<1>2. ASSUME NEW k \in 1 .. Len(Line'), Line'[k] \in OtherScalers(r)
      PROVE  k <= n
  <2>1. k \in 1 .. Len(Line) /\ Line[k] \in Frames
    BY <1>1
  <2>2. Line'[k] = [Line[k] EXCEPT !.value = Aged(@)]
    BY <1>1, <2>1
  <2> DEFINE g == [Line[k] EXCEPT !.value = Aged(@)]
  <2>3. /\ g.value.reg = Line[k].value.reg
        /\ g \in IFrames => Line[k] \in IFrames /\ g.apdu = Line[k].apdu
    BY <2>1, AgedFrame
  <2>4. g \in IFrames /\ g.apdu = "Scaler" /\ g.value.reg # r
    BY <1>2, <2>2 DEF OtherScalers
  <2>5. Line[k] \in OtherScalers(r)
    <3> HIDE DEF g
    <3> QED
      BY <2>3, <2>4 DEF OtherScalers
  <2> QED
    BY <2>1, <2>5 DEF Within
<1> QED
  BY <1>2 DEF Within

-----------------------------------------------------------------------------
(* DLMS/COSEM: late replies fall short of the step they would fit *)

\* The readings still coming in a session are fewer than the replies it takes
\* before it takes its own.
DlmsBacklog ==
  /\ step \in {"associate", "scaler"} => Len(Line) <= 2
  /\ step = "AARE" => Within(Line, ValueFrames, 2)
  /\ step \in {"scaler", "Scaler"} => Within(Line, ValueFrames, 1)
  /\ step = "value" => Within(Line, ValueFrames, 0)
  /\ step = "Value" => LastOnly(Line, ValueFrames) /\ Within(Line, StaleValues(call), 0)

\* The scaler is the one of the register.
DlmsScalers ==
  /\ step \in {"associate", "AARE", "scaler", "Scaler"} => Within(Line, OtherScalers(call), 0)
  /\ step \in {"value", "Value"} => scaler.reg = call

\* A session that succeeded leaves no reply to one of its requests, and its value
\* is the one asked for.
DlmsResults ==
  step \in {"release", "released", "returned"} /\ Succeeded =>
    Within(Line, IFrames, 0) /\ result.value = Fresh(call)

\* So the sessions after it begin with none.
DlmsFollows ==
  /\ step \in {"start", "UA", "associate"} => Within(Line, IFrames, 0)
  /\ step = "AARE" => LastOnly(Line, IFrames)
  /\ step = "scaler" => Len(Line) = 0
  /\ step = "Scaler" => Len(Line) <= 1

\* Reads of import come after an unknown past, the others after a session that
\* succeeded; only they ask for a scaler of another register.
DlmsInv ==
  /\ Within(Line, OtherScalers("import"), 1)
  /\ call \in Registers => DlmsBacklog /\ DlmsScalers /\ DlmsResults
  /\ call \in {"export", "voltage"} => DlmsFollows

LEMMA DlmsSets ==
  /\ \A r : /\ OtherScalers(r) \subseteq IFrames /\ StaleValues(r) \subseteq ValueFrames
            /\ Replies("AARE", r) \cap ValueFrames = {}
            /\ Replies("Scaler", r) \cap ValueFrames = {}
            /\ Replies("Value", r) \cap StaleValues(r) = {}
            /\ Replies("AARE", r) \cap OtherScalers(r) = {}
            /\ Replies("AARE", r) \cap OtherScalers("import") = {}
            /\ Replies("Value", r) \cap OtherScalers("import") = {}
            /\ Replies("Scaler", r) \cap OtherScalers(r) = {}
            /\ PlainFrames \cap OtherScalers(r) = {}
            /\ Garbled \notin OtherScalers(r) /\ Garbled \notin StaleValues(r)
  /\ ValueFrames \subseteq IFrames /\ Garbled \notin ValueFrames
<1>1. PlainFrames \cap IFrames = {} /\ Garbled \notin IFrames
  BY GarbledIsNoIFrame
<1>2. ValueFrames \subseteq IFrames /\ \A f \in ValueFrames : f.apdu = "Value"
  BY DEF ValueFrames
<1>3. \A r : /\ OtherScalers(r) \subseteq IFrames
             /\ \A f \in OtherScalers(r) : f.apdu = "Scaler" /\ f.value.reg # r
  BY DEF OtherScalers
<1>4. \A r : /\ StaleValues(r) \subseteq ValueFrames
             /\ \A f \in StaleValues(r) : f.value # Fresh(r)
  BY DEF StaleValues
<1>5. \A apdu, r : \A f \in Replies(apdu, r) :
        \/ f \in PlainFrames
        \/ f.apdu = "Error"
        \/ f.apdu = apdu /\ (apdu # "AARE" => f.value = Fresh(r))
  BY DEF Replies
<1>6. \A r : Fresh(r).reg = r
  BY DEF Fresh
<1> QED
  BY <1>1, <1>2, <1>3, <1>4, <1>5, <1>6

\* A step that loses frames and leaves the call where it is, or fails it.
LEMMA DlmsThins ==
  ASSUME LineOk, LineOk', LineThins, DlmsInv, UNCHANGED <<call, scaler>>,
         \/ UNCHANGED <<step, result>>
         \/ step' \in {"release", "returned"} /\ result' = Failure
         \/ step \in {"release", "released"} /\ step' = "returned" /\ result' = result
  PROVE  DlmsInv'
<1>1. \A S : Garbled \notin S => /\ \A n \in Nat : Within(Line, S, n) => Within(Line', S, n)
                                 /\ LastOnly(Line, S) => LastOnly(Line', S)
  BY ThinsWithin
<1>2. Len(Line') <= Len(Line) /\ Len(Line') \in Nat /\ Len(Line) \in Nat
  BY LineLengths, LineLengthsNext, GarbledIsNoIFrame, ThinsWithin
<1>3. Within(Line', OtherScalers("import"), 1)
  BY <1>1, DlmsSets DEF DlmsInv
<1>4. Garbled \notin IFrames
  BY GarbledIsNoIFrame
<1>5. CASE UNCHANGED <<step, result>>
  <2>1. DlmsBacklog => DlmsBacklog'
    <3>1. \A n \in {0, 1, 2} : Within(Line, ValueFrames, n) => Within(Line', ValueFrames, n)
      BY <1>1, DlmsSets
    <3>2. /\ LastOnly(Line, ValueFrames) => LastOnly(Line', ValueFrames)
          /\ Within(Line, StaleValues(call), 0) => Within(Line', StaleValues(call), 0)
      BY <1>1, DlmsSets
    <3>3. Len(Line) <= 2 => Len(Line') <= 2
      BY <1>2
    <3> QED
      BY <1>5, <3>1, <3>2, <3>3 DEF DlmsBacklog
  <2>2. DlmsScalers => DlmsScalers'
    BY <1>1, <1>5, DlmsSets DEF DlmsScalers
  <2>3. DlmsResults => DlmsResults'
    BY <1>1, <1>4, <1>5 DEF DlmsResults, Succeeded
  <2>4. DlmsFollows => DlmsFollows'
    <3>1. (Len(Line) = 0 => Len(Line') = 0) /\ (Len(Line) <= 1 => Len(Line') <= 1)
      BY <1>2
    <3> QED
      BY <1>1, <1>4, <1>5, <3>1 DEF DlmsFollows
  <2> QED
    BY <1>3, <2>1, <2>2, <2>3, <2>4 DEF DlmsInv
<1>6. CASE step' \in {"release", "returned"} /\ result' = Failure
  <2>1. ~ Succeeded'
    BY <1>6 DEF Succeeded, Failure
  <2> QED
    BY <1>3, <1>6, <2>1 DEF DlmsInv, DlmsBacklog, DlmsScalers, DlmsResults, DlmsFollows
<1>7. CASE step \in {"release", "released"} /\ step' = "returned" /\ result' = result
  <2>1. DlmsResults => DlmsResults'
    BY <1>1, <1>4, <1>7 DEF DlmsResults, Succeeded
  <2> QED
    BY <1>3, <1>7, <2>1 DEF DlmsInv, DlmsBacklog, DlmsScalers, DlmsFollows
<1> QED
  BY <1>5, <1>6, <1>7

LEMMA DlmsSendsPlain ==
  ASSUME LineOk, Len(coming) <= MaxLag, SendOf(PlainFrames)
  PROVE  /\ LineOk'
         /\ Within(Line, IFrames, 0) => Within(Line', IFrames, 0)
         /\ \A r : \A n \in {0, 1} : Within(Line, OtherScalers(r), n)
                                        => Within(Line', OtherScalers(r), n)
BY SendWithin, FrameSets, GarbledIsNoIFrame, DlmsSets

\* A request sent in step s, in a session whose next reply is still to come.
LEMMA DlmsRequestInv ==
  ASSUME LineOk, Len(coming) <= MaxLag, call \in Calls, DlmsInv,
         call = "probe" => step = "associate",
         NEW s \in {"associate", "scaler", "value"}, DlmsRequest(s)
  PROVE  DlmsInv'
<1> DEFINE F == Replies(Dlms!Wanted[s], call)
<1>1. /\ step = s /\ step' = Dlms!Wanted[s] /\ SendOf(F) /\ F \subseteq Frames
      /\ UNCHANGED <<call, result, scaler>>
  BY FrameSets DEF DlmsRequest, Keeps
<1>2. /\ \A S : Garbled \notin S =>
           /\ \A n \in Nat : Within(Line, S, n) /\ (F \cap S = {} \/ Len(Line) < n)
                               => Within(Line', S, n)
           /\ Within(Line, S, 0) => LastOnly(Line', S)
      /\ LineOk' /\ Len(Line') <= Len(Line) + 1
  BY <1>1, SendWithin, GarbledIsNoIFrame
<1>3. /\ Line \in Seq(Frames) /\ Len(Line) \in Nat /\ Len(Line') \in Nat
  BY <1>2, LineTypeHolds, LineLengths, LineLengthsNext
<1>4. CASE s = "associate"
  <2>1. F = Replies("AARE", call) /\ step' = "AARE" /\ step = "associate"
    BY <1>1, <1>4 DEF Dlms!Wanted
  <2>2. Within(Line', OtherScalers("import"), 1)
    BY <1>2, <2>1, DlmsSets DEF DlmsInv
  <2>3. ASSUME call \in Registers PROVE DlmsBacklog' /\ DlmsScalers' /\ DlmsResults'
    <3>1. Len(Line) <= 2 /\ Within(Line, OtherScalers(call), 0)
      BY <2>1, <2>3 DEF DlmsInv, DlmsBacklog, DlmsScalers
    <3>2. Within(Line, ValueFrames, 2)
      BY <1>3, <3>1, ShortIsWithin
    <3>3. Within(Line', ValueFrames, 2) /\ Within(Line', OtherScalers(call), 0)
      BY <1>2, <2>1, <3>1, <3>2, DlmsSets
    <3> QED
      BY <1>1, <2>1, <3>3 DEF DlmsBacklog, DlmsScalers, DlmsResults
  <2>4. ASSUME call \in {"export", "voltage"} PROVE DlmsFollows'
    <3>1. LastOnly(Line', IFrames)
      BY <1>2, <2>1, <2>4, GarbledIsNoIFrame DEF DlmsInv, DlmsFollows
    <3> QED
      BY <1>1, <2>1, <3>1 DEF DlmsFollows
  <2> QED
    BY <1>1, <2>2, <2>3, <2>4 DEF DlmsInv
<1>5. CASE s = "scaler"
  <2>1. F = Replies("Scaler", call) /\ step' = "Scaler" /\ step = "scaler"
    BY <1>1, <1>5 DEF Dlms!Wanted
  <2>2. call \in Registers
    BY <2>1 DEF Calls
  <2>3. Within(Line', ValueFrames, 1) /\ Within(Line', OtherScalers(call), 0)
    BY <1>2, <2>1, <2>2, DlmsSets DEF DlmsInv, DlmsBacklog, DlmsScalers
  <2>4. CASE call = "import"
    <3>1. Within(Line', OtherScalers("import"), 1)
      BY <1>2, <2>1, <2>4, DlmsSets DEF DlmsInv
    <3> QED
      BY <1>1, <2>1, <2>3, <2>4, <3>1
      DEF DlmsInv, DlmsBacklog, DlmsScalers, DlmsResults
  <2>5. CASE call \in {"export", "voltage"}
    <3>1. Len(Line) = 0
      BY <2>1, <2>5 DEF DlmsInv, DlmsFollows
    <3>2. Within(Line', OtherScalers("import"), 1) /\ Len(Line') <= 1
      BY <1>2, <1>3, <3>1, DlmsSets DEF DlmsInv
    <3> QED
      BY <1>1, <2>1, <2>3, <3>2
      DEF DlmsInv, DlmsBacklog, DlmsScalers, DlmsResults, DlmsFollows
  <2> QED
    BY <2>2, <2>4, <2>5 DEF Registers
<1>6. CASE s = "value"
  <2>1. F = Replies("Value", call) /\ step' = "Value" /\ step = "value"
    BY <1>1, <1>6 DEF Dlms!Wanted
  <2>2. call \in Registers
    BY <2>1 DEF Calls
  <2>3. Within(Line', OtherScalers("import"), 1)
    BY <1>2, <2>1, DlmsSets DEF DlmsInv
  <2>4. Within(Line, ValueFrames, 0) /\ scaler.reg = call
    BY <2>1, <2>2 DEF DlmsInv, DlmsBacklog, DlmsScalers
  <2>5. Within(Line, StaleValues(call), 0)
    BY <2>4, WithinSubset, DlmsSets
  <2>6. LastOnly(Line', ValueFrames) /\ Within(Line', StaleValues(call), 0)
    BY <1>2, <2>1, <2>4, <2>5, DlmsSets
  <2> QED
    BY <1>1, <2>1, <2>3, <2>4, <2>6
    DEF DlmsInv, DlmsBacklog, DlmsScalers, DlmsResults, DlmsFollows
<1> QED
  BY <1>4, <1>5, <1>6

\* The reply that a step waits for, in a session that goes on.
LEMMA DlmsReplyInv ==
  ASSUME LineOk, Len(Line) <= 3, call \in Calls, DlmsInv, call = "probe" => step = "AARE",
         DlmsAssociated \/ DlmsScaler \/ DlmsValue
  PROVE  DlmsInv'
<1>1. Take /\ Head(arrived).kind = "I" /\ call' = call
  BY DEF DlmsAssociated, DlmsScaler, DlmsValue, DlmsReply, Ends
<1>2. LineOk' /\ Head(arrived) \in Frames
  BY <1>1, TakeTails, HeadOk
<1>3. /\ \A S : /\ \A n \in Nat : Within(Line, S, n) =>
                     /\ Within(Line', S, n)
                     /\ n > 0 => Within(Line', S, n - 1)
                     /\ n = 0 => Head(arrived) \notin S
                /\ LastOnly(Line, S) => (Head(arrived) \in S => Len(Line') = 0)
      /\ Len(Line') = Len(Line) - 1
  BY <1>1, TakeWithin
<1>4. Len(Line) \in Nat /\ Len(Line') \in Nat
  BY <1>2, LineLengths, LineLengthsNext
<1>5. Head(arrived) \in IFrames
  BY <1>1, <1>2 DEF Frames, PlainFrames, PlainKinds, BlockFrames
<1>6. Within(Line', OtherScalers("import"), 1)
  BY <1>3 DEF DlmsInv
<1>7. CASE DlmsAssociated
  <2>1. step = "AARE"
    BY <1>7 DEF DlmsAssociated, DlmsReply
  <2>2. CASE call = "probe"
    BY <1>1, <1>6, <2>2 DEF DlmsInv, Registers
  <2>3. CASE call # "probe"
    <3>1. call \in Registers /\ step' = "scaler" /\ UNCHANGED <<result, scaler>>
      BY <1>7, <2>3 DEF DlmsAssociated, Ends, Calls
    <3>2. Within(Line', ValueFrames, 1) /\ Within(Line', OtherScalers(call), 0)
      <4>1. Within(Line, ValueFrames, 2) /\ Within(Line, OtherScalers(call), 0)
        BY <2>1, <3>1 DEF DlmsInv, DlmsBacklog, DlmsScalers
      <4>2. Within(Line', ValueFrames, 2 - 1)
        BY <1>3, <4>1
      <4> QED
        BY <1>3, <4>1, <4>2
    <3>3. Len(Line') <= 2
      BY <1>3, <1>4
    <3>4. call \in {"export", "voltage"} => Len(Line') = 0
      BY <1>3, <1>5, <2>1 DEF DlmsInv, DlmsFollows
    <3> QED
      BY <1>1, <1>6, <3>1, <3>2, <3>3, <3>4
      DEF DlmsInv, DlmsBacklog, DlmsScalers, DlmsResults, DlmsFollows
  <2> QED
    BY <2>2, <2>3
<1>8. CASE DlmsScaler
  <2>1. step = "Scaler" /\ step' = "value" /\ scaler' = Head(arrived).value
        /\ Head(arrived).apdu = "Scaler"
    BY <1>8 DEF DlmsScaler, DlmsReply, Ends
  <2>2. call \in Registers
    BY <2>1 DEF Calls
  <2>3. Within(Line, ValueFrames, 1) /\ Within(Line, OtherScalers(call), 0)
    BY <2>1, <2>2 DEF DlmsInv, DlmsBacklog, DlmsScalers
  <2>4. Within(Line', ValueFrames, 0)
    <3>1. 1 \in Nat /\ 1 > 0 /\ 1 - 1 = 0
      OBVIOUS
    <3>2. \A n \in Nat : Within(Line, ValueFrames, n) /\ n > 0 => Within(Line', ValueFrames, n - 1)
      BY <1>3
    <3> QED
      BY <2>3, <3>1, <3>2
  <2>5. scaler'.reg = call
    BY <1>3, <1>5, <2>1, <2>3 DEF OtherScalers
  <2> QED
    BY <1>1, <1>6, <2>1, <2>4, <2>5
    DEF DlmsInv, DlmsBacklog, DlmsScalers, DlmsResults, DlmsFollows
<1>9. CASE DlmsValue
  <2>1. step = "Value" /\ step' = "release" /\ Head(arrived).apdu = "Value"
        /\ result' = Success(Dlms!Scaled(Head(arrived).value))
    BY <1>9 DEF DlmsValue, DlmsReply, Ends
  <2>2. call \in Registers
    BY <2>1 DEF Calls
  <2>3. /\ LastOnly(Line, ValueFrames) /\ Within(Line, StaleValues(call), 0)
        /\ scaler.reg = call
    BY <2>1, <2>2 DEF DlmsInv, DlmsBacklog, DlmsScalers
  <2>4. Head(arrived) \in ValueFrames
    BY <1>5, <2>1 DEF ValueFrames
  <2>5. Head(arrived).value = Fresh(call)
    BY <1>3, <2>3, <2>4 DEF StaleValues
  <2>6. result'.value = Fresh(call)
    BY <2>1, <2>3, <2>5 DEF Dlms!Scaled, Success, Fresh
  <2>7. Within(Line', IFrames, 0)
    <3>1. Len(Line') = 0
      BY <1>3, <2>3, <2>4
    <3>2. Line' \in Seq(Frames)
      BY <1>2, LineAtNext
    <3> QED
      BY <3>1, <3>2 DEF Within
  <2> QED
    BY <1>1, <1>6, <2>1, <2>6, <2>7
    DEF DlmsInv, DlmsBacklog, DlmsScalers, DlmsResults, DlmsFollows
<1> QED
  BY <1>7, <1>8, <1>9

\* Every step of the reader.
LEMMA DlmsStepInv ==
  ASSUME LineOk, Len(coming) <= MaxLag, Len(Line) <= 3, call \in Calls, DlmsInv,
         call = "probe" => step \notin {"scaler", "Scaler", "value", "Value"}, DlmsSteps
  PROVE  DlmsInv'
<1>1. CASE DlmsConnect
  <2>1. /\ step = "start" /\ step' = "UA" /\ SendOf(PlainFrames)
        /\ UNCHANGED <<call, result, scaler>>
    BY <1>1 DEF DlmsConnect, Keeps
  <2>2. /\ Within(Line, IFrames, 0) => Within(Line', IFrames, 0)
        /\ Within(Line', OtherScalers("import"), 1)
    BY <2>1, DlmsSendsPlain DEF DlmsInv
  <2> QED
    BY <2>1, <2>2 DEF DlmsInv, DlmsBacklog, DlmsScalers, DlmsResults, DlmsFollows
<1>2. CASE DlmsDisconnect
  <2>1. /\ step = "release" /\ step' = "released" /\ SendOf(PlainFrames)
        /\ UNCHANGED <<call, result, scaler>>
    BY <1>2 DEF DlmsDisconnect, Keeps
  <2>2. /\ Within(Line, IFrames, 0) => Within(Line', IFrames, 0)
        /\ Within(Line', OtherScalers("import"), 1)
    BY <2>1, DlmsSendsPlain DEF DlmsInv
  <2> QED
    BY <2>1, <2>2
    DEF DlmsInv, DlmsBacklog, DlmsScalers, DlmsResults, DlmsFollows, Succeeded
<1>3. CASE DlmsConnected
  <2>1. /\ step = "UA" /\ step' = "associate" /\ Take
        /\ UNCHANGED <<call, result>>
    BY <1>3 DEF DlmsConnected, Keeps
  <2>2. /\ \A S : \A n \in Nat : Within(Line, S, n) =>
             Within(Line', S, n) /\ (n > 0 => Within(Line', S, n - 1))
        /\ Len(Line') = Len(Line) - 1
    BY <2>1, TakeWithin
  <2>3. Within(Line', OtherScalers("import"), 1) /\ Within(Line', OtherScalers("import"), 0)
    <3>1. Within(Line', OtherScalers("import"), 1 - 1)
      BY <2>2 DEF DlmsInv
    <3> QED
      BY <2>2, <3>1 DEF DlmsInv
  <2>4. Len(Line') <= 2
    BY <2>2, LineLengths
  <2>5. call \in {"export", "voltage"} =>
          Within(Line', IFrames, 0) /\ Within(Line', OtherScalers(call), 0)
    <3>1. ASSUME call \in {"export", "voltage"} PROVE Within(Line', IFrames, 0)
      BY <2>1, <2>2, <3>1 DEF DlmsInv, DlmsFollows
    <3> QED
      BY <3>1, WithinSubset, DlmsSets
  <2>6. call \in Registers => Within(Line', OtherScalers(call), 0)
    BY <2>3, <2>5 DEF Registers
  <2> QED
    BY <2>1, <2>3, <2>4, <2>5, <2>6
    DEF DlmsInv, DlmsBacklog, DlmsScalers, DlmsResults, DlmsFollows
<1>4. CASE \E s \in {"associate", "scaler", "value"} : DlmsRequest(s)
  <2>1. PICK s \in {"associate", "scaler", "value"} : DlmsRequest(s)
    BY <1>4
  <2>2. call = "probe" => step = "associate"
    BY <2>1 DEF DlmsRequest
  <2> QED
    BY <2>1, <2>2, DlmsRequestInv
<1>5. CASE DlmsAssociated \/ DlmsScaler \/ DlmsValue
  <2>1. call = "probe" => step = "AARE"
    BY <1>5 DEF DlmsAssociated, DlmsScaler, DlmsValue, DlmsReply
  <2> QED
    BY <1>5, <2>1, DlmsReplyInv
<1>6. CASE DlmsConnectFails \/ DlmsFails \/ DlmsReturns
  <2>1. Reads /\ UNCHANGED <<call, scaler>>
    BY <1>6 DEF DlmsConnectFails, DlmsFails, DlmsReturns, Ends
  <2>2. LineOk' /\ LineThins
    BY <2>1, ReadsLine
  <2>3. \/ step' \in {"release", "returned"} /\ result' = Failure
        \/ step \in {"release", "released"} /\ step' = "returned" /\ result' = result
    BY <1>6 DEF DlmsConnectFails, DlmsFails, DlmsReturns, Ends
  <2> QED
    BY <2>1, <2>2, <2>3, DlmsThins
<1> QED
  BY <1>1, <1>2, <1>3, <1>4, <1>5, <1>6 DEF DlmsSteps


LEMMA UntouchedThins ==
  LineOk /\ UNCHANGED busVars => LineOk' /\ LineThins /\ Line' = Line /\ coming' = coming
<1> SUFFICES ASSUME LineOk, UNCHANGED busVars
             PROVE  LineOk' /\ LineThins /\ Line' = Line /\ coming' = coming
  OBVIOUS
<1>1. Line' = Line /\ LineOk' /\ coming' = coming
  BY DEF busVars, LineOk, Line
<1> QED
  BY <1>1, LineTypeHolds, ThinnedSelf DEF LineThins

\* The steps that leave the loop and the reader where they are.
Elsewhere ==
  \/ SetUpStep \/ BringUp \/ BringUpFails
  \/ TurnPunctual
  \/ UNCHANGED vars

LEMMA ElsewhereKeeps ==
  Elsewhere => /\ UNCHANGED <<busVars, callVars, timedOut, kind, dlmsState, iecState>>
               /\ UNCHANGED <<gateVars, state, importVal, payload, sent>>
               /\ at' = at \/ (at = "setup" /\ at' \in {"top", "idle"})
BY DEF Elsewhere, SetUpStep, BringUp, BringUpFails, TurnPunctual, vars, readerVars, loopVars

\* What a step of the loop calls.
LEMMA LoopCalls ==
  ASSUME TypeInv, LoopStep
  PROVE  \/ /\ at' = "top" /\ call' = "none" /\ step' = "start" /\ result' = Failure
            /\ step = "returned" \/ at = "top"
         \/ Probe
         \/ /\ RetryIntervalOver \/ Wake
            /\ at = "top" /\ at' = "top" /\ UNCHANGED callVars
         \/ /\ Rs485Reads \/ IrReads \/ CvReads
            /\ at \in Registers /\ call = at /\ step = "returned" /\ Succeeded
            /\ at' \in Registers \ {"import"} /\ call' = at' /\ step' = "start"
            /\ UNCHANGED timedOut
<1>1. at \in Registers => call = at
  BY DEF TypeInv, Flow, Calls
<1>2. CASE ProbePasses \/ ProbeFails \/ Rs485ReadsLast \/ Rs485Sends \/ ReadFails
           \/ IrSends \/ CvSends
  BY <1>2 DEF ProbePasses, ProbeFails, Rs485ReadsLast, Rs485Sends, ReadFails, IrSends, CvSends,
              SendReading, ToTop, Returned
<1>3. CASE RetryIntervalOver \/ Wake
  BY <1>3 DEF RetryIntervalOver, Wake
<1>4. CASE Rs485Reads
  BY <1>1, <1>4 DEF Rs485Reads, NextRegister, Returned, Call, Registers
<1>5. CASE IrReads \/ CvReads
  BY <1>1, <1>5 DEF IrReads, CvReads, Returned, Call, Registers
<1> QED
  BY <1>2, <1>3, <1>4, <1>5 DEF LoopStep

LEMMA DlmsHeld ==
  ASSUME TypeInv, kind = "dlms", MaxLag <= 3, DlmsInv, [Next]_vars
  PROVE  DlmsInv'
<1>1. /\ LineOk /\ Len(coming) <= MaxLag /\ Len(Line) <= 3
      /\ call = IF at \in Calls THEN at ELSE "none"
      /\ call = "probe" => step \notin {"scaler", "Scaler", "value", "Value"}
  <2>1. LineOk /\ Len(coming) <= MaxLag /\ Len(Line) <= MaxLag
    BY DEF TypeInv, LineBounds
  <2>2. Len(Line) <= 3
    BY <2>1, LineLengths, MaxLagAssumption
  <2> QED
    BY <2>1, <2>2 DEF TypeInv, Flow
<1>2. CASE Elsewhere
  <2>1. UNCHANGED <<busVars, call, step, result, scaler>>
    BY <1>2, ElsewhereKeeps DEF callVars, dlmsState
  <2> QED
    BY <1>1, <2>1, UntouchedThins, DlmsThins
<1>3. CASE BusStep
  <2>1. LineOk' /\ LineThins /\ UNCHANGED <<call, step, result, scaler>>
    BY <1>1, <1>3, BusThins DEF BusStep, callVars, dlmsState, LineThins
  <2> QED
    BY <1>1, <2>1, DlmsThins
<1>4. CASE ReaderStep
  <2>1. Dlms!DlmsNext /\ call \in Calls
    BY <1>1, <1>4 DEF ReaderStep, Cv, CvReaders
  <2>2. DlmsSteps
    BY <1>1, <2>1, DlmsIsSteps DEF TypeInv, ReaderTypes
  <2> QED
    BY <1>1, <2>1, <2>2, DlmsStepInv
<1>5. CASE StartRead
  <2>1. /\ coming' = AgedFrames(coming) /\ arrived' = AgedFrames(arrived)
        /\ call' = "import" /\ step' = "start"
    BY <1>5 DEF StartRead, Call
  <2>2. Within(Line', OtherScalers("import"), 1)
    BY <1>1, <2>1, AgedWithin DEF DlmsInv
  <2> QED
    BY <2>1, <2>2 DEF DlmsInv, DlmsBacklog, DlmsScalers, DlmsResults
<1>6. CASE LoopStep
  <2>1. UNCHANGED busVars /\ UNCHANGED dlmsState
    BY <1>6, LoopStepQuiet
  <2>2. Line' = Line /\ LineOk' /\ LineThins
    BY <1>1, <2>1, UntouchedThins
  <2>3. Within(Line', OtherScalers("import"), 1)
    BY <2>2 DEF DlmsInv
  <2>4. CASE call' \notin Registers
    BY <2>3, <2>4 DEF DlmsInv, Registers
  <2>5. CASE UNCHANGED callVars
    BY <1>1, <2>1, <2>2, <2>5, DlmsThins DEF callVars, dlmsState
  <2>6. CASE /\ at \in Registers /\ call = at /\ step = "returned" /\ Succeeded
             /\ call' \in Registers /\ step' = "start"
    <3>1. Within(Line', IFrames, 0)
      BY <2>2, <2>6 DEF DlmsInv, DlmsResults
    <3> QED
      BY <2>3, <2>6, <3>1
      DEF DlmsInv, DlmsBacklog, DlmsScalers, DlmsResults, DlmsFollows
  <2>7. Probe => call' = "probe"
    BY DEF Probe, Call
  <2>8. "none" \notin Registers /\ "probe" \notin Registers
    BY DEF Registers
  <2> QED
    BY <1>6, <2>4, <2>5, <2>6, <2>7, <2>8, LoopCalls
<1> QED
  BY <1>2, <1>3, <1>4, <1>5, <1>6, NodeSteps DEF Elsewhere


-----------------------------------------------------------------------------
(* Modbus: until a wait runs out, a reply answers the request before it *)

ModbusInv ==
  ~ timedOut =>
    /\ step = "reply" => /\ Len(Line) <= 1
                         /\ call # "probe" => Within(Line, StaleRegisters(call), 0)
    /\ step # "reply" => coming = << >>
    /\ at \in Registers /\ step = "returned" /\ Succeeded => result.value = Fresh(at)

LEMMA NothingComes == LineOk => (coming = << >> <=> Len(coming) = 0)
BY DEF LineOk

LEMMA ModbusStepInv ==
  ASSUME LineOk, call = at, at \in Calls, at' = at, ModbusInv, ModbusSteps
  PROVE  ModbusInv'
<1>1. CASE ModbusRequest
  <2>1. /\ step = "start" /\ step' = "reply" /\ UNCHANGED <<call, timedOut>>
        /\ Send(<< >>) \/ \E f \in RegisterReplies(call) : Send(<<f>>)
    BY <1>1 DEF ModbusRequest, Keeps
  <2>2. ASSUME ~ timedOut
        PROVE  /\ Len(Line') <= 1
               /\ call # "probe" => Within(Line', StaleRegisters(call), 0)
    <3>1. Len(coming) = 0 /\ coming = << >>
      BY <2>1, <2>2, NothingComes DEF ModbusInv
    <3>2. CASE Send(<< >>)
      <4>1. << >> \in Seq(Frames) /\ Len(<< >>) = 0
        OBVIOUS
      <4>2. LineOk' /\ Len(Line') = 0 + 0
        BY <3>1, <3>2, <4>1, SendLine
      <4> QED
        BY <4>2 DEF Within
    <3>3. ASSUME NEW f \in RegisterReplies(call), Send(<<f>>)
          PROVE  /\ Len(Line') <= 1
                 /\ call # "probe" => Within(Line', StaleRegisters(call), 0)
      <4>1. f \in Frames /\ <<f>> \in Seq(Frames) /\ Len(<<f>>) = 1 /\ <<f>>[1] = f
        BY FrameSets
      <4>2. Line' = << >> \o <<f>> /\ Len(Line') = 0 + 1
        BY <3>1, <3>3, <4>1, SendLine
      <4>3. Line' = <<f>>
        BY <4>1, <4>2, ConcatEmptySeq
      <4>4. f \notin StaleRegisters(call)
        BY DEF RegisterReplies, StaleRegisters
      <4>5. \A k \in 1 .. 1 : k = 1
        OBVIOUS
      <4> QED
        BY <4>1, <4>2, <4>3, <4>4, <4>5 DEF Within
    <3> QED
      BY <2>1, <3>2, <3>3
  <2> QED
    BY <2>1, <2>2 DEF ModbusInv
<1>2. CASE ModbusRequestFails
  BY <1>2 DEF ModbusRequestFails, Ends, SendFails, ModbusInv, Succeeded, Failure
<1>3. CASE ModbusReply
  <2>1. /\ step = "reply" /\ Take /\ step' = "returned" /\ UNCHANGED <<call, timedOut>>
        /\ \/ result' = Failure
           \/ /\ call # "probe" => Head(arrived).kind = "registers"
              /\ result' = Success(Head(arrived).value)
    BY <1>3 DEF ModbusReply, Ends
  <2>2. ASSUME ~ timedOut PROVE coming' = << >>
    <3>1. LineOk' /\ Len(Line') = Len(Line) - 1 /\ Len(Line) <= 1
      BY <2>1, <2>2, TakeTails, TakeWithin DEF ModbusInv
    <3>2. Len(coming') = 0
      BY <3>1, LineLengths, LineLengthsNext, LineAtNext
    <3> QED
      BY <3>1, <3>2 DEF LineOk
  <2>3. ASSUME ~ timedOut, at \in Registers, Succeeded'
        PROVE  result'.value = Fresh(at)
    <3>1. /\ call # "probe" /\ result' = Success(Head(arrived).value)
          /\ Head(arrived).kind = "registers"
      BY <2>1, <2>3 DEF Registers, Succeeded, Failure
    <3>2. Within(Line, StaleRegisters(call), 0) /\ Head(arrived) \in Frames
      BY <2>1, <2>3, <3>1, HeadOk DEF ModbusInv
    <3>3. Head(arrived) \notin StaleRegisters(call)
      BY <2>1, <3>2, TakeWithin
    <3>4. Head(arrived) \in PlainFrames
      BY <2>1, <3>1, <3>2 DEF Frames, IFrames, BlockFrames
    <3> QED
      BY <2>1, <3>1, <3>3, <3>4 DEF StaleRegisters, Success
  <2> QED
    BY <2>1, <2>2, <2>3 DEF ModbusInv
<1>4. CASE ModbusTimeout
  BY <1>4 DEF ModbusTimeout, ModbusInv
<1> QED
  BY <1>1, <1>2, <1>3, <1>4 DEF ModbusSteps

LEMMA ModbusHeld ==
  ASSUME TypeInv, kind = "modbus", ModbusInv, [Next]_vars
  PROVE  ModbusInv'
<1>1. /\ LineOk /\ call = IF at \in Calls THEN at ELSE "none"
      /\ at \notin Calls => step = "start"
  BY DEF TypeInv, LineBounds, Flow
<1>2. \A s \in {"setup", "idle", "top", "probe"} : s \notin Registers
  BY DEF Registers
<1>3. CASE Elsewhere
  BY <1>2, <1>3, ElsewhereKeeps, UntouchedThins, <1>1
  DEF busVars, callVars, ModbusInv, Succeeded
<1>4. CASE BusStep
  <2>1. LineOk' /\ LineThins /\ UNCHANGED <<at, call, step, result, timedOut>> /\ coming # << >>
    BY <1>1, <1>4, BusThins
    DEF BusStep, Arrive, ArriveGarbled, Lose, callVars, loopVars, LineThins
  <2>2. Garbled \notin StaleRegisters(call)
    BY DEF StaleRegisters, Garbled, Frame
  <2>3. ASSUME ~ timedOut
        PROVE  /\ step = "reply" /\ Len(Line') <= 1
               /\ call # "probe" => Within(Line', StaleRegisters(call), 0)
    <3>1. /\ step = "reply" /\ Len(Line) <= 1
          /\ call # "probe" => Within(Line, StaleRegisters(call), 0)
      BY <2>1, <2>3 DEF ModbusInv
    <3>2. Len(Line') <= Len(Line)
      BY <1>1, <2>1, <2>2, ThinsWithin
    <3>3. Len(Line') <= 1
      BY <1>1, <2>1, <3>1, <3>2, LineLengths, LineLengthsNext
    <3>4. call # "probe" => Within(Line', StaleRegisters(call), 0)
      BY <1>1, <2>1, <2>2, <3>1, ThinsWithin
    <3> QED
      BY <3>1, <3>3, <3>4
  <2> QED
    BY <2>1, <2>3 DEF ModbusInv
<1>5. CASE ReaderStep
  <2>1. Modbus!ModbusNext /\ call = at /\ at \in Calls /\ at' = at
    BY <1>1, <1>5 DEF ReaderStep, Cv, CvReaders, loopVars
  <2> QED
    BY <1>1, <2>1, ModbusIsSteps, ModbusStepInv
<1>6. CASE StartRead
  <2>1. /\ coming' = AgedFrames(coming) /\ step' = "start" /\ timedOut' = timedOut
        /\ at = "top" /\ coming \in Seq(Frames)
    BY <1>1, <1>6 DEF StartRead, Call, LineOk
  <2>2. coming = << >> => coming' = << >>
    <3>1. coming' \in Seq(Frames) /\ Len(coming') = Len(coming)
      BY <2>1, AgedFramesAt
    <3> QED
      BY <3>1
  <2>3. step = "start"
    BY <1>1, <2>1 DEF Calls, Registers
  <2> QED
    BY <2>1, <2>2, <2>3 DEF ModbusInv
<1>7. CASE LoopStep
  <2>1. coming' = coming
    BY <1>7, LoopStepQuiet DEF busVars
  <2>2. step' = "start" /\ step \in {"start", "returned"}
    <3>1. at = "top" => step = "start"
      BY <1>1 DEF Calls, Registers
    <3>2. CASE Probe
      BY <3>1, <3>2 DEF Probe, Call
    <3> QED
      BY <1>7, <3>1, <3>2, LoopCalls DEF callVars
  <2>3. timedOut' = timedOut \/ coming = << >>
    BY <1>7
    DEF LoopStep, Probe, ProbePasses, ProbeFails, RetryIntervalOver, Rs485Reads,
        Rs485ReadsLast, Rs485Sends, ReadFails, IrReads, IrSends, CvReads, CvSends, Wake,
        SendReading, Quiet
  <2> QED
    BY <2>1, <2>2, <2>3 DEF ModbusInv
<1> QED
  BY <1>3, <1>4, <1>5, <1>6, <1>7, NodeSteps DEF Elsewhere


-----------------------------------------------------------------------------
(* IEC 62056-21: the block that comes was asked for in this reading *)

\* A reading of import begins with nothing on its way, for the meter was probed or
\* the node slept before it, and leaves the export that was in the same block.
IecInv ==
  /\ at = "probe" => ~ isReady
  /\ at = "probe" /\ step = "returned" /\ Succeeded => coming = << >>
  /\ at = "top" /\ isReady /\ state = "READ" => coming = << >>
  /\ step = "idle" => at = "probe"
  /\ step \in {"ack", "block"} => at = "import"
  /\ at = "import" =>
       /\ state = "SLEEP"
       /\ step = "start" => coming = << >>
       /\ step # "start" => Within(Line, StaleBlocks, 0)
       /\ step = "returned" /\ Succeeded =>
            result.value = Fresh("import") /\ cachedExport = Fresh("export")
  /\ at = "export" =>
       /\ cachedExport = Fresh("export")
       /\ step \in {"start", "returned"}
       /\ step = "returned" => result = Success(Fresh("export"))

LEMMA BlockSets == Garbled \notin StaleBlocks /\ PlainFrames \cap StaleBlocks = {}
                   /\ FreshBlocks \cap StaleBlocks = {}
BY GarbledIsNoIFrame DEF StaleBlocks, FreshBlocks

\* A block that is sent now.
LEMMA AcknowledgeWithin ==
  ASSUME LineOk, NEW f \in FreshBlocks, UNCHANGED arrived, coming' = Append(coming, f),
         Within(Line, StaleBlocks, 0)
  PROVE  Within(Line', StaleBlocks, 0)
<1> DEFINE a == Len(arrived)
           c == Len(coming)
<1>1. /\ f \in Frames /\ f \notin StaleBlocks
      /\ arrived \in Seq(Frames) /\ coming \in Seq(Frames)
  BY FrameSets, BlockSets DEF LineOk
<1>2. a \in Nat /\ c \in Nat
  BY <1>1
<1>3. /\ coming' \in Seq(Frames) /\ Len(coming') = c + 1
      /\ \A k \in 1 .. c + 1 : coming'[k] = IF k = c + 1 THEN f ELSE coming[k]
  BY <1>1, AppendProperties
<1>4. LineOk' /\ arrived' = arrived
  BY <1>1, <1>3 DEF LineOk
<1>5. /\ Len(Line') = a + (c + 1)
      /\ \A k \in 1 .. a + (c + 1) :
           Line'[k] = IF k <= a THEN arrived[k] ELSE coming'[k - a]
  BY <1>3, <1>4, LineAtNext
<1>6. /\ Len(Line) = a + c
      /\ \A k \in 1 .. a + c : Line[k] = IF k <= a THEN arrived[k] ELSE coming[k - a]
  BY LineAt
<1>7. ASSUME NEW k \in 1 .. a + (c + 1) PROVE Line'[k] \notin StaleBlocks
  <2>1. CASE k = a + (c + 1)
    <3>1. ~ (k <= a) /\ k - a = c + 1 /\ k - a \in 1 .. c + 1
      BY <1>2, <2>1
    <3> QED
      BY <1>1, <1>3, <1>5, <3>1
  <2>2. CASE k # a + (c + 1)
    <3>1. k \in 1 .. a + c
      BY <1>2, <2>2
    <3>2. Line'[k] = Line[k]
      <4>1. CASE k <= a
        BY <1>5, <1>6, <3>1, <4>1
      <4>2. CASE ~ (k <= a)
        <5>1. k - a \in 1 .. c + 1 /\ k - a # c + 1
          BY <1>2, <3>1, <4>2
        <5> QED
          BY <1>3, <1>5, <1>6, <3>1, <4>2, <5>1
      <4> QED
        BY <4>1, <4>2
    <3>3. ~ (k <= 0)
      BY <3>1
    <3> QED
      BY <1>6, <3>1, <3>2, <3>3 DEF Within
  <2> QED
    BY <2>1, <2>2
<1> QED
  BY <1>5, <1>7 DEF Within

LEMMA FreshRenamed == \A r \in Registers : [Fresh("import") EXCEPT !.reg = r] = Fresh(r)
<1> SUFFICES ASSUME NEW r \in Registers
             PROVE  [Fresh("import") EXCEPT !.reg = r] = Fresh(r)
  OBVIOUS
<1> DEFINE Vs == [reg : Registers, fresh : BOOLEAN]
           v == [Fresh("import") EXCEPT !.reg = r]
<1>1. Fresh("import") \in Vs /\ Fresh(r) \in Vs
  BY DEF Fresh, Registers
<1>2. v \in Vs /\ v.reg = r /\ v.fresh = Fresh("import").fresh
  BY <1>1
<1>3. Fresh(r).reg = r /\ Fresh(r).fresh = Fresh("import").fresh
  BY DEF Fresh
<1>4. \A u, w \in Vs : u.reg = w.reg /\ u.fresh = w.fresh => u = w
  OBVIOUS
<1> HIDE DEF Vs, v
<1>5. v = Fresh(r)
  BY <1>1, <1>2, <1>3, <1>4
<1> QED
  BY <1>5 DEF v

LEMMA IecStepInv ==
  ASSUME LineOk, call = at, at \in {"probe", "import", "export"},
         UNCHANGED <<at, isReady, state>>, IecInv, IecSteps
  PROVE  IecInv'
<1>1. /\ at' = at /\ isReady' = isReady /\ state' = state
      /\ at = "probe" => ~ isReady
      /\ step = "idle" => at = "probe"
      /\ step \in {"ack", "block"} => at = "import"
      /\ at = "import" => /\ state = "SLEEP" /\ (step = "start" => coming = << >>)
                          /\ (step # "start" => Within(Line, StaleBlocks, 0))
      /\ at = "export" => cachedExport = Fresh("export") /\ step \in {"start", "returned"}
  BY DEF IecInv
<1>2. ~ Succeeded' \/ result' # Failure
  BY DEF Succeeded, Failure
<1>3. CASE IecRequest
  <2>1. PICK replies \in Seq(PlainFrames) : Send(replies)
    BY <1>3 DEF IecRequest
  <2>2. replies \in Seq(Frames)
    <3>1. Seq(PlainFrames) \subseteq Seq(Frames)
      BY FrameSets, SeqMonotonic
    <3> QED
      BY <3>1
  <2>3. at \in {"probe", "import"} /\ step = "start" /\ step' = "id"
    BY <1>3 DEF IecRequest
  <2>4. ASSUME at = "import" PROVE Within(Line', StaleBlocks, 0)
    <3>1. Line' = << >> \o replies
      BY <1>1, <2>1, <2>2, <2>3, <2>4, SendLine
    <3>2. Line' = replies
      BY <2>2, <3>1, ConcatEmptySeq
    <3>3. \A k \in 1 .. Len(replies) : replies[k] \notin StaleBlocks
      BY BlockSets
    <3> QED
      BY <3>2, <3>3 DEF Within
  <2> QED
    BY <1>1, <2>3, <2>4 DEF IecInv
<1>4. CASE IecAcknowledge
  <2>1. /\ step = "ack" /\ step' = "block" /\ arrived' = arrived
        /\ coming' = coming \/ \E f \in FreshBlocks : coming' = Append(coming, f)
    BY <1>4 DEF IecAcknowledge
  <2>2. ASSUME at = "import" PROVE Within(Line', StaleBlocks, 0)
    <3>1. Within(Line, StaleBlocks, 0)
      BY <1>1, <2>1, <2>2
    <3>2. CASE coming' = coming
      BY <2>1, <3>1, <3>2 DEF Line
    <3> QED
      BY <2>1, <3>1, <3>2, AcknowledgeWithin
  <2> QED
    BY <1>1, <2>1, <2>2 DEF IecInv
<1>5. CASE IecIdles
  BY <1>1, <1>5 DEF IecIdles, Ends, IecInv
<1>6. CASE IecExport
  BY <1>1, <1>5, <1>6, Values DEF IecExport, Ends, IecInv, Registers
<1>7. ASSUME Reads, at = "import", step # "start" PROVE Within(Line', StaleBlocks, 0)
  <2>1. LineOk' /\ LineThins
    BY <1>7, ReadsLine
  <2> QED
    BY <1>1, <1>7, <2>1, BlockSets, ThinsWithin
<1>8. CASE IecBlock
  <2>1. /\ step = "block" /\ step' = "returned" /\ Take /\ Reads
        /\ Head(arrived).kind = "block"
        /\ result' = Success([Head(arrived).value EXCEPT !.reg = "import"])
        /\ cachedExport' = [Head(arrived).value EXCEPT !.reg = "export"]
    BY <1>8 DEF IecBlock, Ends, Reads
  <2>2. at = "import"
    BY <1>1, <2>1
  <2>3. result'.value = Fresh("import") /\ cachedExport' = Fresh("export")
    <3>1. Within(Line, StaleBlocks, 0) /\ Head(arrived) \in Frames
      BY <1>1, <2>1, <2>2, HeadOk
    <3>2. Head(arrived) \notin StaleBlocks
      BY <2>1, <3>1, TakeWithin
    <3>3. Head(arrived) \in BlockFrames
      BY <2>1, <3>1 DEF Frames, IFrames, PlainFrames, PlainKinds
    <3>4. Head(arrived).value = Fresh("import")
      BY <3>2, <3>3 DEF StaleBlocks
    <3>5. \A r \in Registers : [Fresh("import") EXCEPT !.reg = r] = Fresh(r)
      BY FreshRenamed
    <3>6. "import" \in Registers /\ "export" \in Registers
      BY DEF Registers
    <3> QED
      BY <2>1, <3>4, <3>5, <3>6 DEF Success
  <2>4. Within(Line', StaleBlocks, 0)
    BY <1>7, <2>1, <2>2
  <2>5. at' = "import" /\ step' = "returned" /\ state' = "SLEEP"
    BY <1>1, <2>1, <2>2
  <2> QED
    BY <2>3, <2>4, <2>5 DEF IecInv
<1>9. CASE IecSkipsEcho \/ IecSkipsToBlock
  <2>1. /\ Reads
        /\ \/ step = "id" /\ step' = "echoed"
           \/ step = "block" /\ step' = "block"
    BY <1>9 DEF IecSkipsEcho, IecSkipsToBlock, Reads, callVars
  <2> QED
    BY <1>1, <1>7, <2>1 DEF IecInv
<1>10. CASE IecIdentified
  <2>1. /\ Reads /\ step \in {"id", "echoed"}
        /\ step' = IF call = "probe" THEN "idle" ELSE "ack"
    BY <1>10 DEF IecIdentified, Ends, Reads
  <2> QED
    BY <1>1, <1>7, <2>1 DEF IecInv
<1>11. CASE IecNotIdentified \/ IecNoBlock
  <2>1. /\ Reads /\ step \in {"id", "echoed", "block"} /\ ~ Succeeded'
        /\ step' = "returned" \/ (call = "probe" /\ step' = "idle")
    BY <1>2, <1>11 DEF IecNotIdentified, IecNoBlock, Ends
  <2> QED
    BY <1>1, <1>7, <2>1 DEF IecInv
<1> QED
  BY <1>3, <1>4, <1>5, <1>6, <1>8, <1>9, <1>10, <1>11 DEF IecSteps

LEMMA IecHeld ==
  ASSUME TypeInv, kind = "iec", IecInv, [Next]_vars
  PROVE  IecInv'
<1>1. /\ LineOk /\ call = IF at \in Calls THEN at ELSE "none"
      /\ at \notin Calls => step = "start"
      /\ at \in Registers => isReady /\ at \in {"import", "export"}
      /\ at = "setup" => ~ isReady
      /\ ~ Rs485 /\ ~ Cv
  <2>1. Ir /\ ~ Rs485 /\ ~ Cv
    BY DEF Rs485, Ir, Cv, Rs485Readers, IrReaders, CvReaders
  <2> QED
    BY <2>1 DEF TypeInv, LineBounds, Flow, Sends
<1>2. \A s \in {"setup", "idle", "top", "none"} : s \notin Calls
  BY DEF Calls, Registers
<1>3. CASE Elsewhere
  <2>1. /\ UNCHANGED <<busVars, call, step, result, cachedExport, isReady, state>>
        /\ at' = at \/ (at = "setup" /\ at' \in {"top", "idle"})
    BY <1>3, ElsewhereKeeps DEF callVars, iecState, gateVars
  <2>2. Line' = Line /\ coming' = coming
    BY <1>1, <2>1, UntouchedThins
  <2>3. CASE at' = at
    BY <2>1, <2>2, <2>3 DEF IecInv, Succeeded
  <2>4. CASE at = "setup" /\ at' \in {"top", "idle"}
    <3>1. step = "start" /\ ~ isReady
      BY <1>1, <1>2, <2>4
    <3> QED
      BY <2>1, <2>4, <3>1 DEF IecInv
  <2> QED
    BY <2>1, <2>3, <2>4
<1>4. CASE BusStep
  <2>1. /\ LineOk' /\ LineThins /\ coming # << >>
        /\ UNCHANGED <<at, call, step, result, isReady, state, cachedExport>>
    BY <1>1, <1>4, BusThins
    DEF BusStep, Arrive, ArriveGarbled, Lose, callVars, loopVars, gateVars, iecState, LineThins
  <2>2. Within(Line, StaleBlocks, 0) => Within(Line', StaleBlocks, 0)
    BY <1>1, <2>1, BlockSets, ThinsWithin
  <2> QED
    BY <2>1, <2>2 DEF IecInv, Succeeded
<1>5. CASE ReaderStep
  <2>1. /\ Iec!IecNext /\ call = at /\ at \in {"probe", "import", "export"}
        /\ UNCHANGED <<at, isReady, state>>
    BY <1>1, <1>5 DEF ReaderStep, loopVars, gateVars, Calls
  <2>2. IecSteps
    BY <1>1, <2>1, IecIsSteps
  <2> QED
    BY <1>1, <2>1, <2>2, IecStepInv
<1>6. CASE StartRead
  <2>1. /\ coming' = AgedFrames(coming) /\ step' = "start" /\ at' = "import"
        /\ state' = "SLEEP" /\ at = "top" /\ isReady /\ state = "READ"
    BY <1>1, <1>6 DEF StartRead, Call
  <2>2. coming' = << >>
    <3>1. coming = << >> /\ coming \in Seq(Frames)
      BY <1>1, <2>1 DEF IecInv, LineOk
    <3>2. coming' \in Seq(Frames) /\ Len(coming') = 0
      BY <2>1, <3>1, AgedFramesAt
    <3> QED
      BY <3>2
  <2> QED
    BY <2>1, <2>2 DEF IecInv
<1>7. CASE LoopStep
  <2>1. /\ coming' = coming /\ cachedExport' = cachedExport /\ Line' = Line
    BY <1>7, LoopStepQuiet DEF busVars, iecState, Line
  <2>2. at = "top" => step = "start"
    BY <1>1, <1>2
  <2>3. CASE Probe
    BY <2>3 DEF Probe, Call, IecInv
  <2>4. CASE ProbePasses
    BY <2>1, <2>4 DEF ProbePasses, Returned, ToTop, IecInv
  <2>5. CASE ProbeFails
    BY <2>5 DEF ProbeFails, Returned, ToTop, gateVars, IecInv
  <2>6. CASE RetryIntervalOver
    BY <2>2, <2>6 DEF RetryIntervalOver, callVars, IecInv
  <2>7. CASE Wake
    BY <2>1, <2>2, <2>7 DEF Wake, Quiet, callVars, IecInv
  <2>8. CASE ReadFails
    BY <1>1, <2>8 DEF ReadFails, ToTop, IecInv
  <2>9. CASE IrReads
    BY <2>1, <2>9 DEF IrReads, Returned, Call, IecInv
  <2>10. CASE IrSends
    BY <2>10 DEF IrSends, SendReading, ToTop, IecInv
  <2>11. ~ (Rs485Reads \/ Rs485ReadsLast \/ Rs485Sends \/ CvReads \/ CvSends)
    BY <1>1 DEF Rs485Reads, Rs485ReadsLast, Rs485Sends, CvReads, CvSends, Cv, CvReaders
  <2> QED
    BY <1>7, <2>3, <2>4, <2>5, <2>6, <2>7, <2>8, <2>9, <2>10, <2>11 DEF LoopStep
<1> QED
  BY <1>3, <1>4, <1>5, <1>6, <1>7, NodeSteps DEF Elsewhere


-----------------------------------------------------------------------------
(* What is read, and what is sent *)

\* A Modbus reply does not say what it answers, so a wait that ran out excuses it.
Excused == kind = "modbus" /\ timedOut

CamInv == at \in Registers /\ step = "returned" /\ Succeeded => result.value = Fresh(at)

ReaderInv ==
  /\ kind = "dlms" => DlmsInv
  /\ kind = "modbus" => ModbusInv
  /\ kind = "iec" => IecInv
  /\ Cv => CamInv

\* What a reading holds so far is fresh, and so is a reading to send.
ReadingInv ==
  /\ Rs485 \/ Ir =>
       /\ at \in {"export", "voltage"} \/ state = "SEND" =>
            payload["import"] = Fresh("import") \/ Excused
       /\ at = "voltage" \/ state = "SEND" =>
            payload["export"] = Fresh("export") \/ Excused
       /\ state = "SEND" => payload["voltage"] = Fresh("voltage") \/ Excused
  /\ kind = "camExport" /\ at = "export" => importVal = Fresh("import")

FreshInv == ReaderInv /\ ReadingInv /\ SentIsCoherent

LEMMA InitFresh == Init => FreshInv
<1> SUFFICES ASSUME Init PROVE FreshInv
  OBVIOUS
<1>1. /\ coming = << >> /\ arrived = << >> /\ at = "setup" /\ call = "none" /\ step = "start"
      /\ ~ isReady /\ state # "SEND" /\ sent.coherent
  BY DEF Init, BusInit, ReaderInit, NothingSent
<1>2. "none" \notin Registers /\ "setup" \notin Registers
  BY DEF Registers
<1>3. Len(Line) = 0 /\ Line \in Seq(Frames)
  <2>1. LineOk /\ Len(coming) = 0 /\ Len(arrived) = 0
    BY <1>1 DEF LineOk
  <2> QED
    BY <2>1, LineAt
<1>4. DlmsInv
  <2>1. Within(Line, OtherScalers("import"), 1)
    BY <1>3 DEF Within
  <2> QED
    BY <1>1, <1>2, <2>1 DEF DlmsInv, Registers
<1> QED
  BY <1>1, <1>2, <1>4
  DEF FreshInv, ReaderInv, ModbusInv, IecInv, CamInv, ReadingInv, SentIsCoherent

\* Every reader delivers what it was asked for.
LEMMA Delivers ==
  ASSUME TypeInv, ReaderInv, at \in Registers, step = "returned", Succeeded
  PROVE  result.value = Fresh(at) \/ Excused
<1>1. call = at /\ kind \in AllKinds /\ at \in Sends
  BY KindsAssumption DEF TypeInv, LoopTypes, Flow, Calls
<1>2. CASE kind = "dlms"
  BY <1>1, <1>2 DEF ReaderInv, DlmsInv, DlmsResults
<1>3. CASE kind = "modbus"
  BY <1>3 DEF ReaderInv, ModbusInv, Excused
<1>4. CASE kind = "iec"
  <2>1. at \in {"import", "export"}
    BY <1>1, <1>4 DEF Sends, Rs485, Ir, Rs485Readers, IrReaders
  <2> QED
    BY <1>4, <2>1 DEF ReaderInv, IecInv, Success
<1>5. CASE Cv
  BY <1>5 DEF ReaderInv, CamInv
<1> QED
  BY <1>1, <1>2, <1>3, <1>4, <1>5 DEF AllKinds, Rs485Readers, IrReaders, Cv

LEMMA CamHeld ==
  ASSUME TypeInv, Cv, CamInv, [Next]_vars
  PROVE  CamInv'
<1>1. /\ call = IF at \in Calls THEN at ELSE "none"
      /\ at \notin Calls => step = "start"
  BY DEF TypeInv, Flow
<1>2. "start" # "returned" /\ \A s \in {"setup", "idle", "top"} : s \notin Registers
  BY DEF Registers
<1>3. CASE Elsewhere
  BY <1>2, <1>3, ElsewhereKeeps DEF callVars, CamInv, Succeeded
<1>4. CASE BusStep
  BY <1>4 DEF BusStep, callVars, loopVars, CamInv, Succeeded
<1>5. CASE ReaderStep
  <2>1. CamSteps /\ call = at /\ at' = at
    BY <1>1, <1>5, CamIsSteps
    DEF ReaderStep, Cv, CvReaders, loopVars
  <2>2. at \in Registers => at # "probe"
    BY DEF Registers
  <2> QED
    BY <2>1, <2>2 DEF CamSteps, Ends, CamInv, Succeeded, Success, Failure
<1>6. CASE StartRead
  BY <1>6 DEF StartRead, Call, CamInv
<1>7. CASE LoopStep
  <2>1. step' = "start"
    <3>1. at = "top" => step = "start"
      BY <1>1 DEF Calls, Registers
    <3>2. CASE Probe
      BY <3>2 DEF Probe, Call
    <3> QED
      BY <1>7, <3>1, <3>2, LoopCalls DEF callVars
  <2> QED
    BY <2>1 DEF CamInv
<1> QED
  BY <1>3, <1>4, <1>5, <1>6, <1>7, NodeSteps DEF Elsewhere

LEMMA KindStays == [Next]_vars => kind' = kind
<1>1. LoopStep => kind' = kind
  BY LoopStepQuiet
<1>2. Elsewhere => kind' = kind
  BY ElsewhereKeeps
<1> QED
  BY <1>1, <1>2, NodeSteps DEF Elsewhere, ReaderStep, StartRead, BusStep

LEMMA ReadersHeld ==
  ASSUME "dlms" \in Kinds => MaxLag <= 3, TypeInv, ReaderInv, [Next]_vars
  PROVE  ReaderInv'
<1>1. kind' = kind /\ kind \in Kinds
  BY KindStays DEF TypeInv, LoopTypes
<1>2. kind = "dlms" => DlmsInv'
  BY <1>1, DlmsHeld DEF ReaderInv
<1>3. kind = "modbus" => ModbusInv'
  BY ModbusHeld DEF ReaderInv
<1>4. kind = "iec" => IecInv'
  BY IecHeld DEF ReaderInv
<1>5. Cv => CamInv'
  BY CamHeld DEF ReaderInv
<1> QED
  BY <1>1, <1>2, <1>3, <1>4, <1>5 DEF ReaderInv, Cv


\* A value just read is stored in its register's field.
LEMMA StoredAt ==
  ASSUME TypeInv, at \in Registers
  PROVE  /\ Stored[at] = result.value
         /\ \A reg \in Registers : reg # at => Stored[reg] = payload[reg]
<1>1. call = at /\ payload \in [Registers -> Value]
  BY DEF TypeInv, Flow, LoopTypes, Calls
<1> QED
  BY <1>1 DEF Stored

\* A wait that ran out stays so while a reading is under way.
LEMMA ExcuseStays ==
  ASSUME TypeInv, Excused, Elsewhere \/ BusStep \/ ReaderStep
  PROVE  Excused'
<1>1. CASE Elsewhere
  BY <1>1, ElsewhereKeeps DEF Excused
<1>2. CASE BusStep
  BY <1>2 DEF BusStep, Excused
<1>3. CASE ReaderStep
  <2>1. Modbus!ModbusNext /\ kind' = kind
    BY <1>3 DEF ReaderStep, Excused, Cv, CvReaders
  <2>2. ModbusSteps
    BY <1>3, <2>1, ModbusIsSteps DEF ReaderStep, TypeInv, Flow
  <2> QED
    BY <2>1, <2>2
    DEF Excused, ModbusSteps, ModbusRequest, ModbusRequestFails, ModbusReply, ModbusTimeout,
        Keeps
<1> QED
  BY <1>1, <1>2, <1>3

LEMMA ReadingHeld ==
  ASSUME TypeInv, ReaderInv, ReadingInv, [Next]_vars
  PROVE  ReadingInv'
<1>1. /\ kind' = kind /\ (Rs485' <=> Rs485) /\ (Ir' <=> Ir)
  BY KindStays DEF Rs485, Ir
<1>2. /\ state = "SEND" => Rs485 /\ isReady /\ at = "top"
      /\ at \in Registers => at \in Sends
  BY DEF TypeInv, Flow
<1>3. Registers = {"import", "export", "voltage"}
  BY DEF Registers
<1>4. CASE Elsewhere \/ BusStep \/ ReaderStep
  <2>1. Excused => Excused'
    BY <1>4, ExcuseStays
  <2>2. /\ UNCHANGED <<payload, importVal, state>>
        /\ at' = at \/ (at = "setup" /\ at' \in {"top", "idle"})
    BY <1>4, ElsewhereKeeps DEF BusStep, ReaderStep, loopVars
  <2>3. (at = "export" <=> at' = "export") /\ (at = "voltage" <=> at' = "voltage")
    BY <2>2
  <2> QED
    BY <1>1, <2>1, <2>2, <2>3 DEF ReadingInv
<1>5. ASSUME at' \notin {"export", "voltage"}, state' # "SEND"
      PROVE  ReadingInv'
  BY <1>5 DEF ReadingInv
<1>6. CASE StartRead
  BY <1>5, <1>6 DEF StartRead, Call
<1>7. CASE Probe \/ ProbePasses \/ ProbeFails \/ RetryIntervalOver \/ ReadFails \/ Wake
  <2>1. state # "SEND"
    BY <1>2, <1>3, <1>7
    DEF Probe, ProbePasses, ProbeFails, RetryIntervalOver, ReadFails, Wake, Returned
  <2>2. at' \in {"top", "probe"} /\ state' \in {state, "READ"}
    BY <1>7
    DEF Probe, ProbePasses, ProbeFails, RetryIntervalOver, ReadFails, Wake, NotReady, ToTop,
        Call
  <2> QED
    BY <1>5, <2>1, <2>2
<1>8. CASE Rs485Sends \/ IrSends \/ CvSends
  BY <1>5, <1>8 DEF Rs485Sends, IrSends, CvSends, SendReading, ToTop
<1>9. CASE Rs485Reads \/ IrReads
  <2>1. /\ step = "returned" /\ Succeeded /\ payload' = Stored
        /\ UNCHANGED <<timedOut, state>> /\ at \in Registers /\ (Rs485 \/ Ir)
        /\ \/ at = "import" /\ at' = "export"
           \/ at = "export" /\ at' = "voltage"
    BY <1>9, <1>3 DEF Rs485Reads, IrReads, NextRegister, Returned, Call
  <2>2. Excused' <=> Excused
    BY <1>1, <2>1 DEF Excused
  <2>3. result.value = Fresh(at) \/ Excused
    BY <2>1, Delivers
  <2>4. state' # "SEND"
    BY <1>2, <1>3, <2>1
  <2>5. kind' # "camExport"
    BY <1>1, <2>1 DEF Rs485, Ir, Rs485Readers, IrReaders
  <2>6. CASE at = "import" /\ at' = "export"
    <3>1. payload'["import"] = Fresh("import") \/ Excused'
      BY <2>1, <2>2, <2>3, <2>6, StoredAt
    <3> QED
      BY <2>4, <2>5, <2>6, <3>1 DEF ReadingInv
  <2>7. CASE at = "export" /\ at' = "voltage"
    <3>1. payload'["export"] = Fresh("export") \/ Excused'
      BY <2>1, <2>2, <2>3, <2>7, StoredAt
    <3>2. payload["import"] = Fresh("import") \/ Excused
      BY <2>1, <2>7 DEF ReadingInv
    <3>3. payload'["import"] = Fresh("import") \/ Excused'
      BY <1>3, <2>1, <2>2, <2>7, <3>2, StoredAt
    <3> QED
      BY <2>4, <2>5, <2>7, <3>1, <3>3 DEF ReadingInv
  <2> QED
    BY <2>1, <2>6, <2>7
<1>10. CASE Rs485ReadsLast
  <2>1. /\ Rs485 /\ at = "voltage" /\ step = "returned" /\ Succeeded /\ payload' = Stored
        /\ at' = "top" /\ timedOut' = timedOut /\ at \in Registers
    BY <1>3, <1>10 DEF Rs485ReadsLast, Returned, ToTop
  <2>2. Excused' <=> Excused
    BY <1>1, <2>1 DEF Excused
  <2>3. payload'["voltage"] = Fresh("voltage") \/ Excused'
    BY <2>1, <2>2, Delivers, StoredAt
  <2>4. /\ payload["import"] = Fresh("import") \/ Excused
        /\ payload["export"] = Fresh("export") \/ Excused
    BY <2>1 DEF ReadingInv
  <2>5. /\ payload'["import"] = Fresh("import") \/ Excused'
        /\ payload'["export"] = Fresh("export") \/ Excused'
    BY <1>3, <2>1, <2>2, <2>4, StoredAt
  <2> QED
    BY <2>1, <2>3, <2>5 DEF ReadingInv
<1>11. CASE CvReads
  <2>1. /\ kind = "camExport" /\ at = "import" /\ at' = "export" /\ importVal' = result.value
        /\ step = "returned" /\ Succeeded /\ at \in Registers /\ state' = state
    BY <1>3, <1>11 DEF CvReads, Returned, Call
  <2>2. importVal' = Fresh("import")
    BY <2>1, Delivers DEF Excused
  <2>3. ~ (Rs485' \/ Ir')
    BY <1>1, <2>1 DEF Rs485, Ir, Rs485Readers, IrReaders
  <2> QED
    BY <2>2, <2>3 DEF ReadingInv
<1> QED
  BY <1>4, <1>6, <1>7, <1>8, <1>9, <1>10, <1>11, NodeSteps DEF LoopStep, Elsewhere

LEMMA SentHeld ==
  ASSUME TypeInv, ReaderInv, ReadingInv, SentIsCoherent, [Next]_vars
  PROVE  SentIsCoherent'
<1>1. kind' = kind
  BY KindStays
<1>2. /\ state = "SEND" => Rs485 /\ isReady /\ at = "top"
      /\ at \in Registers => at \in Sends
  BY DEF TypeInv, Flow
<1>3. CASE UNCHANGED sent
  BY <1>1, <1>3 DEF SentIsCoherent
<1>4. ASSUME NEW reading, SendReading(reading), Coherent(reading) \/ Excused
      PROVE  SentIsCoherent'
  BY <1>1, <1>4 DEF SendReading, SentIsCoherent, Excused
<1>5. CASE Rs485Sends
  <2>1. Rs485 /\ state = "SEND" /\ SendReading(payload)
    BY <1>5 DEF Rs485Sends
  <2>2. Excused \/ \A reg \in Registers : payload[reg] = Fresh(reg)
    BY <2>1 DEF ReadingInv, Registers
  <2>3. Sends = Registers
    BY <2>1 DEF Sends, Rs485, Ir, Rs485Readers, IrReaders
  <2> QED
    BY <1>4, <2>1, <2>2, <2>3 DEF Coherent
<1>6. CASE IrSends
  <2>1. /\ Ir /\ at = "export" /\ step = "returned" /\ at \in Registers
        /\ SendReading(IF Succeeded THEN Stored ELSE payload)
    BY <1>6 DEF IrSends, Returned, Registers
  <2>2. kind = "iec"
    BY <2>1 DEF Ir, IrReaders
  <2>3. Succeeded /\ result.value = Fresh("export")
    BY <2>1, <2>2 DEF ReaderInv, IecInv, Succeeded, Success
  <2>4. Stored["export"] = Fresh("export")
    BY <2>1, <2>3, StoredAt
  <2>5. payload["import"] = Fresh("import")
    BY <2>1, <2>2 DEF ReadingInv, Excused
  <2>6. Stored["import"] = Fresh("import")
    BY <2>1, <2>5, StoredAt DEF Registers
  <2>7. Sends = {"import", "export"}
    BY <2>1, <2>2 DEF Sends, Rs485, Rs485Readers
  <2> QED
    BY <1>4, <2>1, <2>3, <2>4, <2>6, <2>7 DEF Coherent
<1>7. CASE CvSends
  <2>1. /\ \/ kind = "cam" /\ at = "import"
           \/ kind = "camExport" /\ at = "export"
        /\ step = "returned" /\ Succeeded /\ at \in Registers
        /\ SendReading(IF kind = "cam" THEN Stored ELSE [Stored EXCEPT !["import"] = importVal])
    BY <1>7 DEF CvSends, Returned, Registers
  <2>2. ~ Rs485 /\ ~ Ir
    BY <2>1 DEF Rs485, Ir, Rs485Readers, IrReaders
  <2>3. Stored[at] = Fresh(at)
    BY <2>1, Delivers, StoredAt DEF Excused
  <2>4. CASE kind = "cam"
    <3>1. Sends = {"import"}
      BY <2>2, <2>4 DEF Sends
    <3> QED
      BY <1>4, <2>1, <2>3, <2>4, <3>1 DEF Coherent
  <2>5. CASE kind = "camExport"
    <3>1. Sends = {"import", "export"}
      BY <2>2, <2>5 DEF Sends
    <3>2. importVal = Fresh("import") /\ at = "export"
      BY <2>1, <2>5 DEF ReadingInv
    <3>3. Stored \in [Registers -> Value \cup {result.value}]
      <4>1. payload \in [Registers -> Value]
        BY DEF TypeInv, LoopTypes
      <4> QED
        BY <4>1 DEF Stored
    <3>4. /\ [Stored EXCEPT !["import"] = importVal]["import"] = Fresh("import")
          /\ [Stored EXCEPT !["import"] = importVal]["export"] = Fresh("export")
      BY <2>3, <3>2, <3>3 DEF Registers
    <3> QED
      BY <1>4, <2>1, <2>5, <3>1, <3>4 DEF Coherent
  <2> QED
    BY <2>1, <2>4, <2>5
<1>8. CASE StartRead \/ BusStep \/ ReaderStep \/ Elsewhere
  BY <1>3, <1>8, ElsewhereKeeps DEF StartRead, BusStep, ReaderStep, loopVars
<1>9. CASE LoopStep /\ ~ (Rs485Sends \/ IrSends \/ CvSends)
  BY <1>3, <1>9
  DEF LoopStep, Probe, ProbePasses, ProbeFails, RetryIntervalOver, Rs485Reads, Rs485ReadsLast,
      ReadFails, IrReads, CvReads, Wake
<1> QED
  BY <1>5, <1>6, <1>7, <1>8, <1>9, NodeSteps DEF Elsewhere


-----------------------------------------------------------------------------
(* Theorems *)

LEMMA SpecTypes == Spec => []TypeInv
  BY InitTypes, StepTypes, PTL DEF Spec

\* Type correctness: the queues of frames, the readers' and the gate's counters stay
\* within their bounds, for every number of answers on their way.
THEOREM MeterNodeTypes == Spec => []TypeOK
  BY SpecTypes, TypesImplied, InitSetUpInv, StepSetUpInv, PTL DEF Spec

LEMMA SpecFresh ==
  ASSUME "dlms" \in Kinds => MaxLag <= 3
  PROVE  Spec => []FreshInv
<1>1. TypeInv /\ FreshInv /\ [Next]_vars => FreshInv'
  BY ReadersHeld, ReadingHeld, SentHeld DEF FreshInv
<1> QED
  BY <1>1, InitFresh, SpecTypes, PTL DEF Spec

\* A register that was read successfully has the value that was asked for in this
\* reading, whatever was late, lost or garbled before it.  For DLMS/COSEM that takes
\* at most three answers on their way: its replies do not name their register, and a
\* fourth reaches the step that it fits.
THEOREM ReadingsAreFresh ==
  ASSUME "dlms" \in Kinds => MaxLag <= 3
  PROVE  Spec => []ReadsAreFresh
<1>1. TypeInv /\ FreshInv => ReadsAreFresh
  BY Delivers DEF FreshInv, ReadsAreFresh, Excused
<1> QED
  BY <1>1, SpecTypes, SpecFresh, PTL

\* Every reading sent was asked for in one reading, each value in its register's
\* field: nothing of an earlier reading, or of another register, gets into it.
THEOREM ReadingsSentAreCoherent ==
  ASSUME "dlms" \in Kinds => MaxLag <= 3
  PROVE  Spec => []SentIsCoherent
<1>1. FreshInv => SentIsCoherent
  BY DEF FreshInv
<1> QED
  BY <1>1, SpecFresh, PTL
=============================================================================
