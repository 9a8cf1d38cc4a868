---------------------------- MODULE ToolReaders ----------------------------
(***************************************************************************)
(* The reader of tools/bleconn.py, a generator messages() over a plain     *)
(* socket, beside the integration's (FrameReader).  One of the two programs *)
(* reads a stream.                                                         *)
(*                                                                         *)
(* The tool's generator looks at all complete frames of a buffer and cuts  *)
(* them off when it is through.  A caller that has what it wanted drops    *)
(* the generator in between, and the next request starts another one on    *)
(* the same buffer, which replays it.                                      *)
(*                                                                         *)
(* The callers (request, run_live) are modelled by what they do to their   *)
(* reader: whichever message may be the wanted one, and whenever nothing   *)
(* comes their time may be up.                                             *)
(***************************************************************************)
EXTENDS FrameReader

VARIABLES
  reader,   \* the program that reads the stream
  got,      \* frames received, cut off or not
  cut,      \* frames cut off the buffer
  at,       \* frames looked at by this generator
  hand,     \* position of pending_env
  heard,    \* history: the messages the callers were given
  lost,     \* history: envelopes in hand when the time was up
  over      \* main() was left by an exception

tool == <<got, cut, at, hand, heard, lost, over>>

Programs == {"integration", "tool"}

ToolInit ==
  /\ Init
  /\ reader \in Programs
  /\ got = 0 /\ cut = 0 /\ at = 0 /\ hand = NoEnvelope
  /\ heard = {} /\ lost = {} /\ over = FALSE

-----------------------------------------------------------------------------
(* tools/bleconn.py: iter_frames, messages, _fill, request *)

\* The next frame of the buffer, of a type in T.  Text that is no JSON is
\* passed on like any other payload.
Iterate(T) == /\ ~over /\ at < got
              /\ stream[at + 1].type \in T /\ stream[at + 1].payload # "bytes"
              /\ UNCHANGED <<got, cut, lost, over>>

ToolEnvelope ==
  /\ Iterate({ENVELOPE})
  /\ at' = at + 1 /\ hand' = at + 1
  /\ UNCHANGED heard

\* A frame of another type leaves the envelope in hand.
ToolOther == Iterate(Others) /\ at' = at + 1 /\ UNCHANGED <<hand, heard>>

Hear == heard' = heard \cup {<<hand, at + 1>>}

\* A body is yielded, with whatever envelope is in hand, and the caller goes on.
ToolBody ==
  /\ Iterate({BODY}) /\ Hear
  /\ at' = at + 1 /\ hand' = NoEnvelope

\* (Mutants: a new generator starts before what was cut off; what is left of
\* the buffer is dropped with the generator.)
DropToStart == at' = 0 /\ hand' = NoEnvelope
DropAll == at' = got /\ hand' = NoEnvelope

\* The generator is dropped at a yield: nothing is cut off, and its
\* pending_env goes with it.
DropGenerator == at' = cut /\ hand' = NoEnvelope

\* The body is the caller's response, or comes without an envelope, which the
\* caller takes for a tick, and its time is up.
ToolReturns == Iterate({BODY}) /\ Hear /\ DropGenerator

\* The generator is through with the buffer: it cuts it off and receives more.
ToolFills ==
  /\ ~over /\ at = got
  /\ cut' = at
  /\ got' \in got + 1 .. Len(stream)
  /\ UNCHANGED <<at, hand, heard, lost, over>>

\* Nothing came, and the caller's time is up: request() raises, the scan ends.
ToolTick ==
  /\ ~over /\ at = got
  /\ cut' = at /\ hand' = NoEnvelope
  /\ lost' = lost \cup ({hand} \ {NoEnvelope})
  /\ UNCHANGED <<got, at, heard, over>>

\* The stream ends, or json.loads raises UnicodeDecodeError, which iter_frames
\* does not catch: the exception goes through messages() and request().
ToolFails ==
  /\ ~over
  /\ \/ at < got /\ stream[at + 1].payload = "bytes"
     \/ at = Len(stream)
  /\ over' = TRUE
  /\ UNCHANGED <<got, cut, at, hand, heard, lost>>

ToolNext ==
  \/ ToolEnvelope \/ ToolOther \/ ToolBody \/ ToolReturns
  \/ ToolFills \/ ToolTick \/ ToolFails

-----------------------------------------------------------------------------

ReadersNext ==
  /\ \/ reader = "integration" /\ Next /\ UNCHANGED tool
     \/ reader = "tool" /\ ToolNext /\ UNCHANGED vars
  /\ UNCHANGED reader

ReadersSpec == ToolInit /\ [][ReadersNext]_<<vars, tool, reader>>

-----------------------------------------------------------------------------
(* Properties *)

\* Every variable of the tool has its type.
ToolTypeOK ==
  /\ reader \in Programs
  /\ got \in 0..Len(stream) /\ at \in cut..Len(stream) /\ cut \in 0..Len(stream)
  /\ hand \in 0..at /\ lost \subseteq 1..Len(stream)
  /\ heard \subseteq (0..Len(stream)) \X (1..Len(stream))
  /\ over \in BOOLEAN

\* No frame of the protocol lies between the two of p.
Adjacent(p) == \A i \in p[1] + 1 .. p[2] - 1 : stream[i].type \in Others

\* However the stream is cut into chunks, and at whatever message a caller
\* drops its generator, the next one hears what the first left unread: every
\* well formed message is heard, unless the time was up between its two
\* frames; and no body is heard with another message's envelope.
ToolHears == reader = "tool" =>
  /\ \A m \in Messages(at) : m \in heard \/ m[1] \in lost
  /\ \A p \in heard : p[1] # NoEnvelope => /\ stream[p[1]].type = ENVELOPE
                                           /\ Adjacent(p)
=============================================================================
