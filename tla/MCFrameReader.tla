--------------------------- MODULE MCFrameReader ---------------------------
(***************************************************************************)
(* The readers on every stream of MaxFrames frames, over the two frame     *)
(* types of the protocol, with every kind of payload, and an unknown one.  *)
(***************************************************************************)
EXTENDS ToolReaders, FiniteSets

CONSTANT MaxFrames

UNKNOWN == 3

MCFrame == [type : {ENVELOPE, BODY}, payload : {"json", "text", "bytes"}]
           \cup [type : {UNKNOWN}, payload : {"json"}]

\* A shorter stream is the part of a longer one before a frame that does not
\* decode, which ends a reader like the end of the stream, or that is not
\* received.
MCStreams == [1..MaxFrames -> MCFrame]

ASSUME MaxFrames \in Nat
=============================================================================
