------------------------- MODULE FrameReader_proofs -------------------------
(***************************************************************************)
(* For every set of streams: the reader returns exactly the well formed    *)
(* messages of what it has read, in stream order.                          *)
(***************************************************************************)
EXTENDS FrameReader, TLAPS

\* An envelope in hand is the frame read last; with none in hand the frame
\* read last is not an envelope, so no message is left half read.
InHand ==
  /\ env # NoEnvelope => /\ env = pos
                         /\ stream[env].type = ENVELOPE
  /\ env = NoEnvelope /\ pos > 0 => stream[pos].type # ENVELOPE

IInv == TypeOK /\ InHand /\ ExactMessages

\* A message becomes due exactly when its body is read.
LEMMA MessagesStep ==
  ASSUME NEW n \in Nat,
         NEW m, m = Messages(n), NEW m1, m1 = Messages(n + 1)
  PROVE  m1 = m \cup (IF /\ n > 0
                         /\ stream[n].type = ENVELOPE
                         /\ stream[n + 1].type = BODY
                      THEN {<<n, n + 1>>} ELSE {})
BY SMT DEF Messages, ENVELOPE, BODY

\* Appending an element to a sequence adds it to what the sequence holds.
LEMMA RangeAppend ==
  ASSUME NEW S, NEW s \in Seq(S), NEW e \in S,
         NEW t, t = Append(s, e)
  PROVE  /\ t \in Seq(S)
         /\ {t[i] : i \in 1..Len(t)} = {s[i] : i \in 1..Len(s)} \cup {e}
<1>1. /\ t \in Seq(S)
      /\ Len(t) = Len(s) + 1
      /\ t[Len(s) + 1] = e
      /\ \A i \in 1..Len(s) : t[i] = s[i]
  OBVIOUS
<1>2. 1..Len(t) = (1..Len(s)) \cup {Len(s) + 1}
  BY <1>1
<1>3. QED
  BY <1>1, <1>2

\* A sequence over a set is one over every larger set.
LEMMA SeqLarger ==
  ASSUME NEW S, NEW T, S \subseteq T, NEW s \in Seq(S)
  PROVE  s \in Seq(T)
OBVIOUS

\* The reader's state stays well typed whatever the access point sends.
THEOREM TypeCorrect == Spec => []TypeOK
<1>1. Init => TypeOK
  BY StreamsAssumption DEF Init, TypeOK, NoEnvelope
<1>2. TypeOK /\ [Next]_vars => TypeOK'
  <2> SUFFICES ASSUME TypeOK, [Next]_vars PROVE TypeOK'
    OBVIOUS
  <2> USE StreamsAssumption
  <2>0. stream \in Seq(Frame) /\ pos \in Nat
    BY DEF TypeOK
  <2>1. ASSUME NEW T, ReadFrame(T)
        PROVE  /\ pos' = pos + 1 /\ pos' \in 0..Len(stream')
               /\ stream' \in Streams /\ alive' \in BOOLEAN
               /\ (1..pos) \X (1..pos) \subseteq (1..pos') \X (1..pos')
    BY <2>0, <2>1 DEF ReadFrame, Readable, TypeOK
  <2>2. CASE Resync
    <3>1. out' \in Seq((1..pos') \X (1..pos'))
      BY <2>1, <2>2, SeqLarger DEF Resync, TypeOK
    <3>2. QED
      BY <2>0, <2>1, <2>2, <3>1 DEF Resync, TypeOK
  <2>3. CASE TakeEnvelope
    <3>1. out' \in Seq((1..pos') \X (1..pos'))
      BY <2>1, <2>3, SeqLarger DEF TakeEnvelope, TypeOK
    <3>2. QED
      BY <2>0, <2>1, <2>3, <3>1 DEF TakeEnvelope, TypeOK
  <2>4. CASE ReturnPair
    <3>1. out \in Seq((1..pos') \X (1..pos'))
      BY <2>1, <2>4, SeqLarger DEF ReturnPair, TypeOK
    <3>2. <<env, pos + 1>> \in (1..pos') \X (1..pos')
      BY <2>0, <2>1, <2>4 DEF ReturnPair, TypeOK, NoEnvelope
    <3>3. out' \in Seq((1..pos') \X (1..pos'))
      BY <2>4, <3>1, <3>2, RangeAppend DEF ReturnPair
    <3>4. QED
      BY <2>0, <2>1, <2>4, <3>3 DEF ReturnPair, TypeOK, NoEnvelope
  <2>5. CASE DropEnvelope
    <3>1. out' \in Seq((1..pos') \X (1..pos'))
      BY <2>1, <2>5, SeqLarger DEF DropEnvelope, TypeOK
    <3>2. QED
      BY <2>0, <2>1, <2>5, <3>1 DEF DropEnvelope, TypeOK, NoEnvelope
  <2>6. CASE Fail
    BY <2>6 DEF Fail, TypeOK
  <2>7. CASE UNCHANGED vars
    BY <2>7 DEF vars, TypeOK
  <2>8. QED
    BY <2>2, <2>3, <2>4, <2>5, <2>6, <2>7 DEF Next
<1>3. QED
  BY <1>1, <1>2, PTL DEF Spec

\* What is in hand and what has been returned account for every frame read.
LEMMA Inductive == Spec => []IInv
<1>1. Init => InHand /\ ExactMessages
  BY DEF Init, InHand, ExactMessages, Messages, NoEnvelope
<1>2. ASSUME IInv, TypeOK', [Next]_vars
      PROVE  (InHand /\ ExactMessages)'
  <2> USE <1>2, StreamsAssumption DEF IInv
  <2>0. /\ stream \in Seq(Frame) /\ pos \in Nat /\ env \in Nat
        /\ out \in Seq((1..pos) \X (1..pos))
    BY DEF TypeOK
  <2> DEFINE Returned == {out[i] : i \in 1..Len(out)}
             New == IF /\ pos > 0
                       /\ stream[pos].type = ENVELOPE
                       /\ stream[pos + 1].type = BODY
                    THEN {<<pos, pos + 1>>} ELSE {}
  <2>1. ASSUME NEW T, ReadFrame(T)
        PROVE  /\ pos' = pos + 1 /\ stream' = stream
               /\ stream[pos + 1].type \in T
               /\ Messages(pos)' = Messages(pos) \cup New
    <3>1. pos' = pos + 1 /\ stream' = stream /\ stream[pos + 1].type \in T
      BY <2>1 DEF ReadFrame
    <3>2. Messages(pos)' = Messages(pos + 1)
      BY <3>1 DEF Messages
    <3>3. QED
      BY <2>0, <3>1, <3>2, MessagesStep
  <2>2. CASE Resync
    <3>1. New = {} /\ stream[pos + 1].type # ENVELOPE
      BY <2>1, <2>2 DEF Resync, InHand, Others, ENVELOPE, BODY
    <3>2. QED
      BY <2>0, <2>1, <2>2, <3>1
      DEF Resync, InHand, ExactMessages, NoEnvelope
  <2>3. CASE TakeEnvelope
    <3>1. New = {}
      BY <2>1, <2>3 DEF TakeEnvelope, ENVELOPE, BODY
    <3>2. QED
      BY <2>0, <2>1, <2>3, <3>1
      DEF TakeEnvelope, InHand, ExactMessages, NoEnvelope
  <2>4. CASE ReturnPair
    <3>1. New = {<<env, pos + 1>>}
      BY <2>0, <2>1, <2>4 DEF ReturnPair, InHand, NoEnvelope
    <3>2. <<env, pos + 1>> \in (1..pos + 1) \X (1..pos + 1)
      BY <2>0, <2>4 DEF ReturnPair, TypeOK, NoEnvelope
    <3>3. out \in Seq((1..pos + 1) \X (1..pos + 1))
      <4>1. (1..pos) \X (1..pos) \subseteq (1..pos + 1) \X (1..pos + 1)
        BY <2>0
      <4>2. QED
        BY <2>0, <4>1, SeqLarger
    <3>4. {out'[i] : i \in 1..Len(out')} = Returned \cup {<<env, pos + 1>>}
      BY <2>4, <3>2, <3>3, RangeAppend DEF ReturnPair
    <3>5. ExactMessages'
      BY <2>1, <2>4, <3>1, <3>4 DEF ReturnPair, ExactMessages
    <3>6. InHand'
      BY <2>0, <2>1, <2>4
      DEF ReturnPair, InHand, NoEnvelope, ENVELOPE, BODY
    <3>7. QED
      BY <3>5, <3>6
  <2>5. CASE DropEnvelope
    <3>1. New = {} /\ stream[pos + 1].type # ENVELOPE
      BY <2>1, <2>5 DEF DropEnvelope, Others, ENVELOPE, BODY
    <3>2. QED
      BY <2>0, <2>1, <2>5, <3>1
      DEF DropEnvelope, InHand, ExactMessages, NoEnvelope
  <2>6. CASE Fail
    BY <2>6 DEF Fail, InHand, ExactMessages, Messages
  <2>7. CASE UNCHANGED vars
    BY <2>7 DEF vars, InHand, ExactMessages, Messages
  <2>8. QED
    BY <2>2, <2>3, <2>4, <2>5, <2>6, <2>7 DEF Next
<1>3. QED
  BY <1>1, <1>2, TypeCorrect, PTL DEF Spec, IInv

\* _read_message returns exactly the well formed messages of any stream: it
\* resynchronises after noise and never swallows or mispairs a message.
THEOREM ReadsExactly == Spec => []ExactMessages
<1>1. IInv => ExactMessages
  BY DEF IInv
<1>2. QED
  BY <1>1, Inductive, PTL

\* Messages are returned in the order their frames were sent, none twice: the
\* envelope of a message lies behind the body of every message before it.
THEOREM ReadsInOrder == Spec => []StreamOrder
<1>1. Init => StreamOrder
  BY DEF Init, StreamOrder
<1>2. ASSUME IInv, StreamOrder, [Next]_vars
      PROVE  StreamOrder'
  <2> USE <1>2, StreamsAssumption DEF IInv
  <2>1. CASE ReturnPair
    <3>1. /\ stream \in Seq(Frame) /\ pos \in Nat /\ env = pos
          /\ out \in Seq((1..pos) \X (1..pos))
          /\ stream[pos].type = ENVELOPE
      BY <2>1 DEF ReturnPair, InHand, TypeOK
    <3>2. out' = Append(out, <<pos, pos + 1>>)
      BY <2>1, <3>1 DEF ReturnPair
    <3>3. \A i \in 1..Len(out) : out[i][2] < pos
      <4>1. TAKE i \in 1..Len(out)
      <4>2. out[i] \in Messages(pos)
        BY <4>1 DEF ExactMessages
      <4>3. /\ out[i] \in (1..pos) \X (1..pos)
            /\ stream[out[i][2]].type = BODY
        BY <4>2 DEF Messages
      <4>4. out[i][2] # pos
        BY <3>1, <4>3 DEF ENVELOPE, BODY
      <4>5. QED
        BY <3>1, <4>3, <4>4
    <3>4. /\ Len(out') = Len(out) + 1
          /\ out'[Len(out) + 1] = <<pos, pos + 1>>
          /\ \A i \in 1..Len(out) : out'[i] = out[i]
          /\ Len(out) \in Nat
      BY <3>1, <3>2
    <3>5. ASSUME NEW i \in 1..Len(out'), NEW j \in 1..Len(out'), i < j
          PROVE  out'[i][2] < out'[j][1]
      <4>1. i \in 1..Len(out)
        BY <3>4, <3>5
      <4>2. CASE j \in 1..Len(out)
        BY <3>4, <3>5, <4>1, <4>2 DEF StreamOrder
      <4>3. CASE j = Len(out) + 1
        BY <3>3, <3>4, <4>1, <4>3
      <4>4. QED
        BY <3>4, <3>5, <4>2, <4>3
    <3>6. QED
      BY <3>5 DEF StreamOrder
  <2>2. CASE out' = out
    BY <2>2 DEF StreamOrder
  <2>3. QED
    BY <2>1, <2>2
    DEF Next, Resync, TakeEnvelope, DropEnvelope, Fail, vars
<1>3. QED
  BY <1>1, <1>2, Inductive, PTL DEF Spec

=============================================================================
