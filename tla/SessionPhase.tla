---------------------------- MODULE SessionPhase ----------------------------
(***************************************************************************)
(* What BleConnClient.run promises to everything multiplexed over it (the  *)
(* GATT layer of bleconn.py, the Home Assistant entities): one session at  *)
(* a time, whose reader stops before its stream is released, whose state   *)
(* is flushed by _fail_pending before another session starts, and none at  *)
(* all once the client is closing.                                         *)
(*                                                                         *)
(*   down   no session: connecting, or waiting out the reconnect delay     *)
(*   up     the reader task dispatches what the access point sends         *)
(*   lost   the reader stopped, the teardown has not reached the transport *)
(*   disc   the transport is being closed                                  *)
(*   dead   run() is in its finally clause or has ended                    *)
(***************************************************************************)

VARIABLES
  phase,
  writer,    \* _writer is set: _request may write
  closing    \* _closing

vars == <<phase, writer, closing>>

Init == phase = "down" /\ writer = FALSE /\ closing = FALSE

\* The channel is open: publish the stream and start the reader.
Attach ==
  /\ phase = "down" /\ ~closing
  /\ phase' = "up" /\ writer' = TRUE
  /\ UNCHANGED closing

\* The reader ends, or is cancelled because the handshake failed.
Lose ==
  /\ phase = "up"
  /\ phase' = "lost"
  /\ UNCHANGED <<writer, closing>>

\* The reader is gone: the teardown starts closing the transport.
Release ==
  /\ phase = "lost"
  /\ phase' = "disc"
  /\ UNCHANGED <<writer, closing>>

\* The transport is closed: _writer is reset and _fail_pending has run.
Clear ==
  /\ phase = "disc" /\ ~closing
  /\ phase' = "down" /\ writer' = FALSE
  /\ UNCHANGED closing

\* run() enters its finally clause, by the loop ending after stop(), by
\* cancellation, or by an exception out of a callback: _fail_pending has run
\* and nothing is started again.  A cancelled teardown leaves _writer set.
Abandon ==
  /\ phase \in {"down", "lost", "disc"}
  /\ phase' = "dead" /\ closing' = TRUE
  /\ writer' \in {writer, FALSE}

\* stop()
Close ==
  /\ closing' = TRUE
  /\ UNCHANGED <<phase, writer>>

Next == Attach \/ Lose \/ Release \/ Clear \/ Abandon \/ Close

Spec == Init /\ [][Next]_vars
=============================================================================
