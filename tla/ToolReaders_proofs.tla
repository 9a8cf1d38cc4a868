------------------------- MODULE ToolReaders_proofs -------------------------
(***************************************************************************)
(* For streams of any length: what the generator of tools/bleconn.py hears. *)
(***************************************************************************)
EXTENDS ToolReaders, TLAPS

\* Frame n will not be missed as the envelope of a message: it is in hand or
\* accounted for, or no body follows it.
Settled(n) ==
  n > 0 /\ stream[n].type = ENVELOPE =>
    \/ n \in lost
    \/ at = n /\ hand = n
    \/ <<n, n + 1>> \in heard
    \/ n < Len(stream) /\ stream[n + 1].type # BODY

\* A dropped generator sends the next one back to cut, which needs frame cut
\* settled as much as frame at.
ToolInv ==
  /\ at <= got
  /\ \A m \in Messages(at) : m \in heard \/ m[1] \in lost
  /\ \A p \in heard : p[1] # NoEnvelope => /\ stream[p[1]].type = ENVELOPE
                                           /\ Adjacent(p)
  /\ hand # NoEnvelope => /\ stream[hand].type = ENVELOPE
                          /\ \A i \in hand + 1 .. at : stream[i].type \in Others
  /\ Settled(cut)
  /\ Settled(at)

IInv ==
  /\ stream \in Seq(Frame)
  /\ ToolTypeOK
  /\ reader = "tool" => ToolInv

\* Reading one frame makes at most one message due.
LEMMA MessagesNext ==
  ASSUME NEW n \in Nat, NEW m \in Messages(n + 1)
  PROVE  \/ m \in Messages(n)
         \/ /\ n > 0 /\ m = <<n, n + 1>>
            /\ stream[n].type = ENVELOPE /\ stream[n + 1].type = BODY
BY SMT DEF Messages

LEMMA MessagesMono ==
  ASSUME NEW k \in Nat, NEW n \in Nat, k <= n
  PROVE  Messages(k) \subseteq Messages(n)
BY SMT DEF Messages

LEMMA InitIInv == ToolInit => IInv
<1> SUFFICES ASSUME ToolInit PROVE IInv
  OBVIOUS
<1>1. stream \in Seq(Frame) /\ Len(stream) \in Nat
  BY StreamsAssumption DEF ToolInit, Init
<1>2. Messages(0) = {}
  BY DEF Messages
<1>3. ToolTypeOK
  <2>1. over \in BOOLEAN
    BY DEF ToolInit
  <2>2. heard \subseteq (0..Len(stream)) \X (1..Len(stream)) /\ lost \subseteq 1..Len(stream)
    BY DEF ToolInit
  <2> QED
    BY <1>1, <2>1, <2>2 DEF ToolInit, ToolTypeOK, NoEnvelope
<1>4. ToolInv
  BY <1>1, <1>2 DEF ToolInit, ToolInv, Settled, NoEnvelope
<1> QED
  BY <1>1, <1>3, <1>4 DEF IInv

\* The stream is fixed.
LEMMA StreamFixed ==
  ASSUME [ReadersNext]_<<vars, tool, reader>>
  PROVE  stream' = stream /\ reader' = reader
BY DEF ReadersNext, Next, Resync, TakeEnvelope, ReturnPair, DropEnvelope, Fail,
       ReadFrame, vars

\* A step of the tool's generator.
LEMMA ToolStep ==
  ASSUME IInv, reader = "tool", ToolNext, stream' = stream, reader' = reader
  PROVE  IInv'
<1> USE DEF NoEnvelope
<1>0. /\ stream \in Seq(Frame) /\ Len(stream) \in Nat
      /\ ToolTypeOK /\ ToolInv
  BY DEF IInv
<1>1. /\ got \in 0..Len(stream) /\ cut \in Nat /\ at \in Nat /\ hand \in 0..at
      /\ cut <= at /\ at <= got /\ heard \subseteq (0..Len(stream)) \X (1..Len(stream))
      /\ lost \subseteq 1..Len(stream)
  BY <1>0 DEF ToolTypeOK, ToolInv
<1>2. ASSUME NEW T, Iterate(T)
      PROVE  at + 1 \in 1..Len(stream) /\ at + 1 <= got /\ stream[at + 1].type \in T
             /\ got' = got /\ cut' = cut /\ lost' = lost /\ over' = over
  BY <1>1, <1>2 DEF Iterate
<1>2a. ASSUME NEW T, Iterate(T), at' = at + 1, hand' \in 0..at + 1,
              heard' \subseteq (0..Len(stream)) \X (1..Len(stream))
       PROVE  ToolTypeOK'
  <2>1. at' \in cut'..Len(stream') /\ hand' \in 0..at'
    BY <1>1, <1>2, <1>2a
  <2>2. over' \in BOOLEAN /\ reader' \in Programs
    BY <1>0, <1>2, <1>2a DEF ToolTypeOK
  <2>3. /\ got' \in 0..Len(stream') /\ cut' \in 0..Len(stream')
        /\ lost' \subseteq 1..Len(stream')
        /\ heard' \subseteq (0..Len(stream')) \X (1..Len(stream'))
    <3>1. got' = got /\ cut' = cut /\ lost' = lost
      BY <1>2, <1>2a
    <3>2. cut \in 0..Len(stream)
      BY <1>1
    <3> QED
      BY <1>1, <1>2a, <3>1, <3>2
  <2> QED
    BY <2>1, <2>2, <2>3 DEF ToolTypeOK
<1>3. \A m \in Messages(at + 1) :
        \/ m \in Messages(at)
        \/ /\ at > 0 /\ m = <<at, at + 1>>
           /\ stream[at].type = ENVELOPE /\ stream[at + 1].type = BODY
  BY <1>1, MessagesNext
<1>4. Messages(cut) \subseteq Messages(at)
  BY <1>1, MessagesMono
<1>5. \A n : Messages(n)' = Messages(n)
  BY DEF Messages
<1> SUFFICES ToolTypeOK' /\ ToolInv'
  BY <1>0 DEF IInv
<1>6. CASE ToolEnvelope
  <2>1. ToolTypeOK'
    BY <1>1, <1>2a, <1>6 DEF ToolEnvelope
  <2>2. \A m \in Messages(at)' : m \in heard' \/ (m[1] \in lost)'
    BY <1>0, <1>2, <1>3, <1>6 DEF ToolEnvelope, ToolInv, Messages, ENVELOPE, BODY
  <2>3. Settled(at)' /\ Settled(cut)'
    BY <1>0, <1>1, <1>2, <1>6 DEF ToolEnvelope, ToolInv, Settled, ENVELOPE, BODY
  <2> QED
    BY <1>0, <1>1, <1>2, <1>6, <2>1, <2>2, <2>3 DEF ToolEnvelope, ToolInv, Adjacent
<1>7. CASE ToolOther
  <2>1. ToolTypeOK'
    BY <1>1, <1>2a, <1>7 DEF ToolOther
  <2>2. \A m \in Messages(at)' : m \in heard' \/ (m[1] \in lost)'
    BY <1>0, <1>2, <1>3, <1>7 DEF ToolOther, ToolInv, Messages, Others, ENVELOPE, BODY
  <2>0. stream[at + 1].type # ENVELOPE /\ stream[at + 1].type # BODY
    BY <1>2, <1>7 DEF ToolOther, Others
  <2>3a. Settled(at)'
    BY <1>1, <1>2, <1>7, <2>0 DEF ToolOther, Settled
  <2>3b. Settled(cut)'
    BY <1>0, <1>1, <1>2, <1>7, <2>0 DEF ToolOther, ToolInv, Settled
  <2>3. Settled(at)' /\ Settled(cut)'
    BY <2>3a, <2>3b
  <2> QED
    BY <1>0, <1>1, <1>2, <1>7, <2>1, <2>2, <2>3 DEF ToolOther, ToolInv, Adjacent
<1>8. ASSUME Iterate({BODY}), Hear
      PROVE  /\ heard' \subseteq (0..Len(stream)) \X (1..Len(stream))
             /\ \A p \in heard' : p[1] # 0 => stream[p[1]].type = ENVELOPE /\ Adjacent(p)
  <2>1. \A p \in heard' : p \in heard \/ p = <<hand, at + 1>>
    BY <1>8 DEF Hear
  <2>2. hand # 0 => stream[hand].type = ENVELOPE /\ Adjacent(<<hand, at + 1>>)
    BY <1>0, <1>1 DEF ToolInv, Adjacent
  <2> QED
    BY <1>0, <1>1, <1>2, <1>8, <2>1, <2>2 DEF ToolInv, Hear
<1>9. CASE ToolBody
  <2>1. ToolTypeOK'
    BY <1>1, <1>2a, <1>8, <1>9 DEF ToolBody
  <2>2. \A m \in Messages(at)' : m \in heard' \/ (m[1] \in lost)'
    <3>1. \A m \in Messages(at + 1) : m \in heard' \/ m[1] \in lost
      BY <1>0, <1>2, <1>3, <1>9 DEF ToolBody, Hear, ToolInv, Settled, ENVELOPE, BODY
    <3> QED
      BY <1>2, <1>5, <1>9, <3>1 DEF ToolBody, Messages
  <2>3a. Settled(at)'
    BY <1>1, <1>2, <1>9 DEF ToolBody, Settled, ENVELOPE, BODY
  <2>3b. Settled(cut)'
    <3>1. Settled(cut) /\ Settled(at) /\ heard' = heard \cup {<<hand, at + 1>>}
      BY <1>0, <1>9 DEF ToolBody, ToolInv, Hear
    <3>2. cut' = cut /\ lost' = lost
      BY <1>2, <1>9 DEF ToolBody
    <3> QED
      BY <1>1, <3>1, <3>2 DEF Settled
  <2>3. Settled(at)' /\ Settled(cut)'
    BY <2>3a, <2>3b
  <2> QED
    BY <1>0, <1>1, <1>2, <1>8, <1>9, <2>1, <2>2, <2>3 DEF ToolBody, ToolInv, Adjacent
<1>10. CASE ToolReturns
  <2>1. ToolTypeOK'
    <3>1. over' \in BOOLEAN /\ reader' \in Programs
      BY <1>0, <1>2, <1>10 DEF ToolReturns, ToolTypeOK
    <3>2. at' = cut /\ hand' = 0 /\ cut' = cut /\ got' = got /\ lost' = lost
      BY <1>2, <1>10 DEF ToolReturns, DropGenerator
    <3>3. heard' \subseteq (0..Len(stream')) \X (1..Len(stream'))
      BY <1>8, <1>10 DEF ToolReturns
    <3>4. at' \in cut'..Len(stream') /\ cut' \in 0..Len(stream') /\ hand' \in 0..at'
      BY <1>1, <3>2
    <3> QED
      BY <1>1, <3>1, <3>2, <3>3, <3>4 DEF ToolTypeOK
  <2>2. \A m \in Messages(at)' : m \in heard' \/ (m[1] \in lost)'
    BY <1>0, <1>2, <1>4, <1>10 DEF ToolReturns, DropGenerator, Hear, ToolInv, Messages
  <2>3. Settled(at)' /\ Settled(cut)'
    <3>1. Settled(cut) /\ heard' = heard \cup {<<hand, at + 1>>}
      BY <1>0, <1>10 DEF ToolReturns, ToolInv, Hear
    <3>2. at' = cut /\ cut' = cut /\ lost' = lost
      BY <1>2, <1>10 DEF ToolReturns, DropGenerator
    <3>3. cut > 0 /\ at = cut /\ hand = cut => <<cut, cut + 1>> \in heard'
      BY <3>1
    <3> QED
      BY <1>1, <3>1, <3>2, <3>3 DEF Settled
  <2> QED
    BY <1>0, <1>1, <1>2, <1>8, <1>10, <2>1, <2>2, <2>3
    DEF ToolReturns, DropGenerator, ToolInv, Adjacent
<1>11. CASE ToolFills
  BY <1>0, <1>1, <1>5, <1>11 DEF ToolFills, ToolTypeOK, ToolInv, Settled, Adjacent, Messages
<1>12. CASE ToolTick
  BY <1>0, <1>1, <1>5, <1>12 DEF ToolTick, ToolTypeOK, ToolInv, Settled, Adjacent, Messages
<1>13. CASE ToolFails
  BY <1>0, <1>1, <1>5, <1>13 DEF ToolFails, ToolTypeOK, ToolInv, Settled, Adjacent, Messages
<1> QED
  BY <1>6, <1>7, <1>9, <1>10, <1>11, <1>12, <1>13 DEF ToolNext

LEMMA NextIInv == IInv /\ [ReadersNext]_<<vars, tool, reader>> => IInv'
<1> SUFFICES ASSUME IInv, [ReadersNext]_<<vars, tool, reader>>
             PROVE  IInv'
  OBVIOUS
<1>1. stream' = stream /\ reader' = reader
  BY StreamFixed
<1>2. CASE UNCHANGED tool
  BY <1>1, <1>2 DEF IInv, tool, ToolTypeOK, ToolInv, Settled, Adjacent, Messages
<1>3. CASE reader = "tool" /\ ToolNext
  BY <1>1, <1>3, ToolStep
<1> QED
  BY <1>2, <1>3 DEF ReadersNext

\* The state of the tool's reader is well typed on any stream.
THEOREM ToolTypeCorrect == ReadersSpec => []ToolTypeOK
<1>1. IInv => ToolTypeOK
  BY DEF IInv
<1> QED
  BY InitIInv, NextIInv, <1>1, PTL DEF ReadersSpec

\* Dropping and restarting the generator of tools/bleconn.py never skips a
\* message nor gives a body to another message's envelope, however many
\* requests share a buffer.
THEOREM ToolHearsAll == ReadersSpec => []ToolHears
<1>1. IInv => ToolHears
  BY DEF IInv, ToolInv, ToolHears
<1> QED
  BY InitIInv, NextIInv, <1>1, PTL DEF ReadersSpec

=============================================================================
