--------------------------- MODULE BleConnSession ---------------------------
(***************************************************************************)
(* The life of one BleConnClient (bleconn.py): run() with its reconnect    *)
(* loop, _session() with its handshake and teardown, the reader task, and  *)
(* stop() and task cancellation racing all of them.                        *)
(*                                                                         *)
(* asyncio runs one task at a time and only switches at an await that      *)
(* really suspends, so each action is what one task does from being        *)
(* resumed to its next suspension.  The transport is abstract here (module *)
(* SshTransport has its two SSH connections); the messages exchanged are   *)
(* reduced to whether the awaited response came and was usable.            *)
(***************************************************************************)

VARIABLES
  pc,        \* where run() is suspended
  exc,       \* what _session's finally clause is carrying out
  writer,    \* _writer (and _reader) is set
  closing,   \* _closing
  reader,    \* the reader task of the current session
  answer,    \* the future of the handshake request in flight
  link,      \* the transport and what is left of it
  stopper,   \* a stop() call
  cancel,    \* a cancellation of the task that runs run()
  raised     \* (history) the flush in which a disconnect callback raised

vars == <<pc, exc, writer, closing, reader, answer, link, stopper, cancel, raised>>

\* connect: transport.connect() is opening the SSH connection;
\* channel: it is opening the channel to bleconnd over it;
\* join, disc: in the finally clause, for the reader and for the transport;
\* raced: closing the channel that stop() outran;
\* delay: waiting for the stop event or the reconnect delay;
\* final: the transport.disconnect() of run()'s finally clause.
Handshake == {"hdshkStart", "hdshkFinish", "scanStart"}
Body == Handshake \cup {"pump"}
Session == Body \cup {"join", "disc"}
PC == Session \cup {"connect", "channel", "raced", "delay", "final", "done"}

\* ssh: connected without a channel; chan: channel open; mute: the peer is
\* gone but nothing told us; eof: closed by either side, not yet released.
Link == {"none", "ssh", "chan", "mute", "eof"}

AfterRequestMisnamed == [hdshkStart |-> "hdshkFinish",
                         hdshkFinish |-> "scanStart",
                         scanStart |-> "scanning"]   \* (mutant)

AfterRequest == [hdshkStart |-> "hdshkFinish", hdshkFinish |-> "scanStart",
                 scanStart |-> "pump"]

\* What closing does to the transport at once; the rest is awaited.
Closed(l) == IF l = "none" THEN "none" ELSE "eof"

Init ==
  /\ pc = "connect" /\ exc = "none" /\ writer = FALSE /\ closing = FALSE
  /\ reader = "none" /\ answer = "none" /\ link = "none"
  /\ stopper = "idle" /\ cancel = "no" /\ raised = "no"

-----------------------------------------------------------------------------
(* The ends of a session. *)

\* (Mutants: run()'s finally clause without setting _closing, and without
\* closing the transport.)
EnterFinalOpen(l) == pc' = "final" /\ UNCHANGED closing /\ link' = Closed(l)
EnterFinalLeaky(l) == pc' = "done" /\ closing' = TRUE /\ link' = l

\* The finally clause of run(), with the transport left as l.
EnterFinal(l) == pc' = "final" /\ closing' = TRUE /\ link' = Closed(l)

\* The loop of run(): left when closing, otherwise wait before the next round.
EndOfRound(l) ==
  \/ closing /\ EnterFinal(l)
  \/ ~closing /\ pc' = "delay" /\ link' = l /\ UNCHANGED closing

\* A session that was up may have left disconnect callbacks; _fail_pending
\* removes them all before it calls the first, and calls them unguarded.
MayRaise == pc \in Session

\* (Mutant: the loop catches CancelledError like any other error.)
AfterSessionCatchesAll(e, l) == exc' = "none" /\ EndOfRound(l) /\ UNCHANGED raised

\* _session() raised e or returned: _fail_pending, and the loop.  When a
\* callback raises, the loop is left for the finally clause, which flushes
\* again, now without callbacks.  A cancellation leaves the loop at once; a
\* callback that raises in the finally clause then skips what is left of it.
AfterSession(e, l) ==
  /\ exc' = "none"
  /\ \/ /\ e # "cancel" /\ EndOfRound(l)
        /\ UNCHANGED raised
     \/ /\ e = "cancel" /\ EnterFinal(l)
        /\ UNCHANGED raised
     \/ /\ e # "cancel" /\ MayRaise
        /\ EnterFinal(l)
        /\ raised' = "loop"
     \/ /\ e = "cancel" /\ MayRaise
        /\ pc' = "done" /\ closing' = TRUE /\ link' = l
        /\ raised' = "final"

\* The finally clause of _session() cancels the reader and waits for it.
EnterFinally(e) ==
  /\ pc' = "join"
  /\ exc' = e
  /\ reader' = IF reader = "reading" THEN "cancelling" ELSE reader
  /\ answer' = "none"

-----------------------------------------------------------------------------
(* run() and _session() *)

Uncancelled == cancel # "asked"

ConnectOk ==
  /\ pc = "connect" /\ Uncancelled
  /\ pc' = "channel" /\ link' = "ssh"
  /\ UNCHANGED <<exc, writer, closing, reader, answer, stopper, cancel, raised>>

\* transport.connect() raises, before or after the SSH connection is up.
ConnectFail ==
  /\ pc \in {"connect", "channel"} /\ Uncancelled
  /\ AfterSession("error", link)
  /\ UNCHANGED <<writer, reader, answer, stopper, cancel>>

\* transport.connect() returns; stop() may have come meanwhile.
ChannelRaced ==
  /\ pc = "channel" /\ link = "ssh" /\ Uncancelled /\ closing
  /\ pc' = "raced" /\ link' = "eof"
  /\ UNCHANGED <<exc, writer, closing, reader, answer, stopper, cancel, raised>>

\* (Mutant: _closing is not checked again after connecting.)
ChannelOkUnchecked ==
  /\ pc = "channel" /\ link = "ssh" /\ Uncancelled
  /\ pc' = "hdshkStart" /\ link' = "chan"
  /\ writer' = TRUE /\ reader' = "reading" /\ answer' = "waiting"
  /\ UNCHANGED <<exc, closing, stopper, cancel, raised>>

ChannelOk ==
  /\ pc = "channel" /\ link = "ssh" /\ Uncancelled /\ ~closing
  /\ pc' = "hdshkStart" /\ link' = "chan"
  /\ writer' = TRUE /\ reader' = "reading" /\ answer' = "waiting"
  /\ UNCHANGED <<exc, closing, stopper, cancel, raised>>

\* _request returns the body of its response; the next request is sent, and
\* after the last one the state goes to "scanning".
HandshakeStep ==
  /\ pc \in Handshake /\ answer = "ok" /\ Uncancelled
  /\ pc' = AfterRequest[pc]
  /\ answer' = IF pc = "scanStart" THEN "none" ELSE "waiting"
  /\ UNCHANGED <<exc, writer, closing, reader, link, stopper, cancel, raised>>

\* The response has an errorCode, or lacks what the handshake needs.
HandshakeRefused ==
  /\ pc \in Handshake /\ answer = "refused" /\ Uncancelled
  /\ EnterFinally("error")
  /\ UNCHANGED <<writer, closing, link, stopper, cancel, raised>>

\* The request's timeout expires (or its write fails), possibly while the
\* response is already there but the task has not been resumed.
RequestFails ==
  /\ pc \in Handshake /\ Uncancelled
  /\ EnterFinally("error")
  /\ UNCHANGED <<writer, closing, link, stopper, cancel, raised>>

\* await reader_task returns: the read loop only ends by an exception.
PumpEnds ==
  /\ pc = "pump" /\ reader = "ended" /\ Uncancelled
  /\ EnterFinally("error")
  /\ UNCHANGED <<writer, closing, link, stopper, cancel, raised>>

\* The reader has been joined: close the transport.
Joined ==
  /\ pc = "join" /\ reader = "ended" /\ Uncancelled
  /\ pc' = "disc" /\ link' = Closed(link)
  /\ UNCHANGED <<exc, writer, closing, reader, answer, stopper, cancel, raised>>

\* (Mutant: _writer is not reset.)
DisconnectedKeeps ==
  /\ pc = "disc" /\ Uncancelled
  /\ reader' = "none"
  /\ AfterSession(exc, "none")
  /\ UNCHANGED <<writer, answer, stopper, cancel>>

\* The transport is closed: the session is over.
Disconnected ==
  /\ pc = "disc" /\ Uncancelled
  /\ writer' = FALSE /\ reader' = "none"
  /\ AfterSession(exc, "none")
  /\ UNCHANGED <<answer, stopper, cancel>>

RacedDone ==
  /\ pc = "raced" /\ Uncancelled
  /\ AfterSession("none", "none")
  /\ UNCHANGED <<writer, reader, answer, stopper, cancel>>

\* (Mutant: the wait has no timeout.)
DelayForever ==
  /\ pc = "delay" /\ Uncancelled /\ closing
  /\ EnterFinal(link)
  /\ UNCHANGED <<exc, writer, reader, answer, stopper, cancel, raised>>

\* The stop event is set or the reconnect delay is over: the loop condition
\* is evaluated again.
DelayOver ==
  /\ pc = "delay" /\ Uncancelled
  /\ \/ closing /\ EnterFinal(link)
     \/ ~closing /\ pc' = "connect" /\ UNCHANGED <<link, closing>>
  /\ UNCHANGED <<exc, writer, reader, answer, stopper, cancel, raised>>

FinalDone ==
  /\ pc = "final" /\ Uncancelled
  /\ pc' = "done" /\ link' = "none"
  /\ UNCHANGED <<exc, writer, closing, reader, answer, stopper, cancel, raised>>

\* CancelledError is raised where run() is suspended.
Cancelled ==
  /\ cancel = "asked" /\ cancel' = "taken"
  /\ UNCHANGED stopper
  /\ \/ /\ pc \in {"connect", "channel", "raced"}
        /\ AfterSession("cancel", link)
        /\ UNCHANGED <<writer, reader, answer>>
     \/ /\ pc \in Body
        /\ EnterFinally("cancel")
        /\ UNCHANGED <<writer, closing, link, raised>>
     \* In the finally clause: gather still waits for the reader, and the
     \* rest of the clause, the reset of _writer included, is skipped.
     \/ /\ pc = "join" /\ reader = "ended"
        /\ AfterSession("cancel", link)
        /\ UNCHANGED <<writer, reader, answer>>
     \/ /\ pc = "disc"
        /\ AfterSession("cancel", link)
        /\ UNCHANGED <<writer, reader, answer>>
     \/ /\ pc = "delay"
        /\ EnterFinal(link)
        /\ UNCHANGED <<exc, writer, reader, answer, raised>>
     \/ /\ pc = "final"
        /\ pc' = "done"
        /\ UNCHANGED <<exc, writer, closing, reader, answer, link, raised>>

-----------------------------------------------------------------------------
(* The reader task *)

\* The read loop raises: end of stream, a frame that does not decode, or a
\* callback or handler that raises on an event.
ReaderFails ==
  /\ reader = "reading" /\ link # "mute"
  /\ reader' = "ended"
  /\ UNCHANGED <<pc, exc, writer, closing, answer, link, stopper, cancel, raised>>

ReaderCancelled ==
  /\ reader = "cancelling"
  /\ reader' = "ended"
  /\ UNCHANGED <<pc, exc, writer, closing, answer, link, stopper, cancel, raised>>

\* The response to the request in flight is dispatched.
Answered ==
  /\ reader = "reading" /\ link # "mute" /\ answer = "waiting"
  /\ answer' \in {"ok", "refused"}
  /\ UNCHANGED <<pc, exc, writer, closing, reader, link, stopper, cancel, raised>>

-----------------------------------------------------------------------------
(* stop(), the owner of the task, and the peer *)

\* (Mutant: stop() only closes the transport.)
StopForgets ==
  /\ stopper = "idle" /\ stopper' = "disc"
  /\ link' = Closed(link)
  /\ UNCHANGED <<pc, exc, writer, closing, reader, answer, cancel, raised>>

Stop ==
  /\ stopper = "idle" /\ stopper' = "disc"
  /\ closing' = TRUE
  /\ link' = Closed(link)
  /\ UNCHANGED <<pc, exc, writer, reader, answer, cancel, raised>>

StopDone ==
  /\ stopper = "disc" /\ stopper' = "done"
  /\ link' = IF link = "eof" THEN "none" ELSE link
  /\ UNCHANGED <<pc, exc, writer, closing, reader, answer, cancel, raised>>

\* task.cancel(): once, by async_unload_entry or by the tools.
Cancel ==
  /\ cancel = "no" /\ pc # "done"
  /\ cancel' = "asked"
  /\ UNCHANGED <<pc, exc, writer, closing, reader, answer, link, stopper, raised>>

\* The connection is closed by the other side, or is found dead by TCP.
PeerCloses ==
  /\ link \in {"ssh", "chan", "mute"}
  /\ link' = "eof"
  /\ UNCHANGED <<pc, exc, writer, closing, reader, answer, stopper, cancel, raised>>

\* The access point loses power: nothing arrives any more, not even a FIN.
PeerVanishes ==
  /\ link \in {"ssh", "chan"}
  /\ link' = "mute"
  /\ UNCHANGED <<pc, exc, writer, closing, reader, answer, stopper, cancel, raised>>

Terminated ==
  /\ pc = "done" /\ stopper # "disc"
  /\ UNCHANGED vars

RunStep ==
  \/ ConnectOk \/ ConnectFail \/ ChannelRaced \/ ChannelOk
  \/ HandshakeStep \/ HandshakeRefused \/ RequestFails
  \/ PumpEnds \/ Joined \/ Disconnected \/ RacedDone \/ DelayOver \/ FinalDone
  \/ Cancelled

ReaderStep == ReaderFails \/ ReaderCancelled \/ Answered

Next ==
  \/ RunStep \/ ReaderStep
  \/ Stop \/ StopDone \/ Cancel
  \/ PeerCloses \/ PeerVanishes
  \/ Terminated

Spec == Init /\ [][Next]_vars

\* Nobody times the opening of the channel: it is over when the access point
\* answers, when the SSH connection under it is closed, or when it is cancelled.
ChannelPends == pc = "channel" /\ link \in {"ssh", "mute"} /\ cancel # "asked"

\* The event loop resumes every task that can run.  What else run() awaits ends
\* by itself: the SSH connections have a connect timeout, every request has
\* one, the reconnect delay is a timer, and closing a connection needs no
\* answer of the peer.  A reader sees the end of a closed stream.  Nothing is
\* assumed of the access point.
Fairness ==
  /\ WF_vars(~ChannelPends /\ RunStep)
  /\ WF_vars(ReaderCancelled)
  /\ WF_vars(link \in {"eof", "none"} /\ ReaderFails)
  /\ WF_vars(StopDone)

FairSpec == Spec /\ Fairness

-----------------------------------------------------------------------------
(* Properties *)

\* Every variable has its type.
TypeOK ==
  /\ pc \in PC
  /\ exc \in {"none", "error", "cancel"}
  /\ writer \in BOOLEAN /\ closing \in BOOLEAN
  /\ reader \in {"none", "reading", "cancelling", "ended"}
  /\ answer \in {"none", "waiting", "ok", "refused"}
  /\ link \in Link
  /\ stopper \in {"idle", "disc", "done"}
  /\ cancel \in {"no", "asked", "taken"} /\ raised \in {"no", "loop", "final"}

Running == {"reading", "cancelling"}

\* is_scanning
IsScanning == writer /\ ~closing

\* A reader task never outlives the session that started it, and is_scanning
\* never reports a session that is over, even when a cancellation cut the
\* teardown short: otherwise two readers would share the GATT state, or
\* requests would be written to a closed stream.
OneSession ==
  /\ reader \in Running => pc \in Body \cup {"join"}
  /\ IsScanning => pc \in Session

\* When run() has ended, whatever it was doing, the client is closing, its
\* reader has stopped and no connection is left open.  The one exception is a
\* disconnect callback that raises in the _fail_pending of run()'s finally
\* clause, on a cancellation: disconnect() is then not reached.  One that raises
\* earlier ends run() too, but by way of that clause.
DoneIsClosed ==
  pc = "done" => /\ closing
                 /\ reader \notin Running
                 /\ link \in {"none", "eof"} \/ (raised = "final" /\ cancel = "taken")

\* Once _closing is set no session is published and no reader started, also
\* when stop() comes while the transport is connecting.
NoSessionWhileClosing ==
  [][closing => /\ writer' => writer
                /\ reader' = "reading" => reader = "reading"]_vars

\* stop() makes run() return, wherever it was, unless it comes while run() opens
\* its SSH connection, which stop() then cannot close, and the access point
\* never answers the channel that is opened over it.
StopEnds == (stopper # "idle" ~> pc = "done") \/ <>[]ChannelPends

\* Cancelling its task does, without exception: async_unload_entry relies on it.
CancelEnds == cancel = "asked" ~> pc = "done"

\* A session whose stream has ended is torn down and a new one is attempted,
\* unless run() is stopped or cancelled, or a disconnect callback raises.
Reconnects ==
  pc = "pump" /\ link = "eof" ~>
    pc = "connect" \/ stopper # "idle" \/ cancel # "no" \/ raised # "no"

\* The implemented contract (see SessionPhase).
PhaseOf ==
  IF reader = "reading" THEN "up"
  ELSE IF pc \in Body \cup {"join"} THEN "lost"
  ELSE IF pc = "disc" THEN "disc"
  ELSE IF pc \in {"final", "done"} THEN "dead"
  ELSE "down"

Phase == INSTANCE SessionPhase WITH phase <- PhaseOf

\* Every step of the client is a step of the contract the GATT layer is built
\* on: reader, teardown, flush and restart in that order.
KeepsContract == Phase!Spec

-----------------------------------------------------------------------------
(* What the source says and the code does not do.                           *)

\* bleconn.py:350, "keep scanning, reconnecting on failure": an access point
\* that vanished is noticed.
NoticesVanishedPeer == pc = "pump" /\ link = "mute" ~> pc # "pump"
=============================================================================
