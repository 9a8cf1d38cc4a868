---------------------------- MODULE FrameReader ----------------------------
(***************************************************************************)
(* The framing layer of custom_components/unifi_ble/bleconn.py: _read_frame *)
(* and _read_message, called forever by _read_loop.                        *)
(*                                                                         *)
(* The byte stream of one session is the sequence of frames the access     *)
(* point will have sent when it closes the connection.  A frame carries    *)
(* its type and whether its payload decodes as JSON.  A logical message is *)
(* an ENVELOPE frame directly followed by a BODY frame; anything else is   *)
(* noise the reader has to step over without losing a later message.       *)
(*                                                                         *)
(* Each action reads one frame: what _read_message does with it depends    *)
(* only on whether an envelope is in hand and on the type of the frame.    *)
(***************************************************************************)
EXTENDS Naturals, Sequences

CONSTANT Streams        \* the frame sequences a session may receive

ENVELOPE == 1
BODY == 2

\* A payload is JSON, other text, or bytes that are no text at all.
Frame == [type : Nat, payload : {"json", "text", "bytes"}]

ASSUME StreamsAssumption == Streams \subseteq Seq(Frame)

VARIABLES
  stream,   \* the frames of this session, fixed when it starts
  pos,      \* how many of them have been read
  env,      \* position of the envelope in hand, 0 when there is none
  out,      \* the messages returned: <<envelope position, body position>>
  alive     \* FALSE once a read raised and the read loop ended

vars == <<stream, pos, env, out, alive>>

NoEnvelope == 0

-----------------------------------------------------------------------------

\* The next frame is complete and its payload decodes.
Readable == pos < Len(stream) /\ stream[pos + 1].payload = "json"

\* _read_frame returns a frame of a type in T.
ReadFrame(T) ==
  /\ alive
  /\ Readable
  /\ stream[pos + 1].type \in T
  /\ pos' = pos + 1
  /\ UNCHANGED <<stream, alive>>

Others == Nat \ {ENVELOPE, BODY}

Init ==
  /\ stream \in Streams
  /\ pos = 0
  /\ env = NoEnvelope
  /\ out = <<>>
  /\ alive = TRUE

\* The resync loop: no envelope in hand, the frame is not one.
Resync ==
  /\ env = NoEnvelope
  /\ ReadFrame({BODY} \cup Others)
  /\ UNCHANGED <<env, out>>

\* (Mutants: the position is one off; an envelope that follows another one is
\* taken for its body, and both are lost, as in tools/gatt_probe.py.)
TakeEnvelopeOff == ReadFrame({ENVELOPE}) /\ env' = pos + 2 /\ UNCHANGED out
TakeEnvelopeSwallows ==
  /\ ReadFrame({ENVELOPE})
  /\ env' = IF env = NoEnvelope THEN pos + 1 ELSE NoEnvelope
  /\ UNCHANGED out

\* An envelope, whether or not another one was in hand: the frame that
\* followed the old one was not its body, so it takes its place.
TakeEnvelope ==
  /\ ReadFrame({ENVELOPE})
  /\ env' = pos + 1
  /\ UNCHANGED out

\* (Mutant: the envelope stays in hand.)
ReturnPairKeeps ==
  /\ env # NoEnvelope
  /\ ReadFrame({BODY})
  /\ out' = Append(out, <<env, pos + 1>>)
  /\ UNCHANGED env

\* The body of the envelope in hand: the message is returned to _read_loop,
\* which asks for the next one with nothing in hand.
ReturnPair ==
  /\ env # NoEnvelope
  /\ ReadFrame({BODY})
  /\ out' = Append(out, <<env, pos + 1>>)
  /\ env' = NoEnvelope

\* Neither a body nor an envelope: the envelope in hand is given up.
DropEnvelope ==
  /\ env # NoEnvelope
  /\ ReadFrame(Others)
  /\ env' = NoEnvelope
  /\ UNCHANGED out

\* readexactly or json.loads raises: the exception leaves _read_loop.
Fail ==
  /\ alive
  /\ ~Readable
  /\ alive' = FALSE
  /\ UNCHANGED <<stream, pos, env, out>>

Next == Resync \/ TakeEnvelope \/ ReturnPair \/ DropEnvelope \/ Fail

Spec == Init /\ [][Next]_vars

-----------------------------------------------------------------------------

\* Every variable has its type, and the positions lie inside the stream.
TypeOK ==
  /\ stream \in Streams
  /\ pos \in 0..Len(stream)
  /\ env \in 0..pos
  /\ out \in Seq((1..pos) \X (1..pos))
  /\ alive \in BOOLEAN

\* The messages a correct reader owes after n frames: every ENVELOPE frame
\* whose next frame is a BODY.
Messages(n) ==
  {p \in (1..n) \X (1..n) : /\ p[2] = p[1] + 1
                            /\ stream[p[1]].type = ENVELOPE
                            /\ stream[p[2]].type = BODY}

\* _read_message returns every well formed message of what was read and
\* nothing else: no body is paired with another message's envelope, and an
\* envelope without a body never swallows the message after it.
ExactMessages == {out[i] : i \in 1..Len(out)} = Messages(pos)

\* Messages come out in stream order and none twice, so that a response is
\* never handled after an event the access point sent behind it.
StreamOrder ==
  \A i, j \in 1..Len(out) : i < j => out[i][2] < out[j][1]
=============================================================================
