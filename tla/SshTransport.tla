---------------------------- MODULE SshTransport ----------------------------
(***************************************************************************)
(* SshTunnelTransport (ssh.py): an SSH connection to the access point,     *)
(* optionally tunnelled through one to a jump host, opened by connect()    *)
(* and closed by disconnect().  The object keeps one reference to each;    *)
(* what matters is whether every connection that is open can still be      *)
(* reached by somebody who will close it.                                  *)
(*                                                                         *)
(* Its callers are part of the model: probe_transport in async_setup_entry *)
(* and then run() with _session() of the same transport, and stop() and    *)
(* task cancellation, which come at any await.  (BleConnSession has those  *)
(* callers in detail, with an abstract transport.)                         *)
(*                                                                         *)
(* asyncssh is external.  A connect() of it that fails or is cancelled     *)
(* leaves nothing; close() never waits for the peer; a connection through  *)
(* a tunnel dies with the tunnel.                                          *)
(***************************************************************************)
EXTENDS Naturals

CONSTANTS
  Conns,    \* SSH connections, each used once: a bound on the rounds
  NoConn,   \* None
  Jump      \* whether a jump host is configured

ASSUME SshAssumption == NoConn \notin Conns /\ Jump \in BOOLEAN

VARIABLES
  task,       \* who uses the transport: "probe" or "run"
  pc,         \* where it is suspended
  ap, jump,   \* _conn and _jump_conn
  tunnel,     \* the local variable of connect()
  state,      \* of every SSH connection
  via,        \* the connection a connection is tunnelled through
  todo,       \* what the disconnect() calls in progress still close: what is
              \* left of the pair of references each of them read
  closing,    \* _closing of the client
  stopper,    \* a stop() call
  cancel,     \* a cancellation of the task
  abandoned   \* (history) connections that were open when connect() raised

vars == <<task, pc, ap, jump, tunnel, state, via, todo, closing, stopper, cancel, abandoned>>

\* jump, ap, channel: in connect(); up: in use; disc: in the disconnect() that
\* ends a session or a probe; delay: run() between two sessions; final: in the
\* disconnect() of run()'s finally clause; failed: setup will be retried with a
\* new transport; ready: probed, run() not started yet.
Connecting == {"jump", "ap", "channel"}
PC == Connecting \cup {"up", "disc", "delay", "final", "done", "failed", "ready"}

Nothing == <<NoConn, NoConn>>

Start == IF Jump THEN "jump" ELSE "ap"

Init ==
  /\ task = "probe" /\ pc = Start
  /\ ap = NoConn /\ jump = NoConn /\ tunnel = NoConn
  /\ state = [c \in Conns |-> "unused"]
  /\ via = [c \in Conns |-> NoConn]
  /\ todo = [p \in {"task", "stop"} |-> Nothing]
  /\ closing = FALSE /\ stopper = "idle" /\ cancel = "no"
  /\ abandoned = {}

Open == {c \in Conns : state[c] = "open"}

\* Its tunnel, if it has one, still carries it.
Carried(c) == via[c] # NoConn => state[via[c]] = "open"

-----------------------------------------------------------------------------
(* disconnect() *)

\* (Mutants: the jump host first, the access point only, and the access point
\* twice.)
ToCloseJumpFirst(a, j) == <<j, a>>
ToCloseApOnly(a, j) == <<a, NoConn>>
ToCloseTwice(a, j) == <<a, a>>

\* The pair disconnect() goes through, read when it is called.
ToClose(a, j) == <<a, j>>

\* What of it is still to be closed: for a connection that is already closed
\* neither close() nor wait_closed() does anything or suspends.
Live(c) == IF c # NoConn /\ state[c] # "closed" THEN c ELSE NoConn
Unclosed(t) == <<Live(t[1]), Live(t[2])>>

\* The one that is closed first, and what is left to do after it.
First(t) == IF t[1] # NoConn THEN t[1] ELSE t[2]
Rest(t) == IF t[1] # NoConn THEN <<NoConn, t[2]>> ELSE Nothing

\* p closes the first of t and waits for it.
Closes(p, t) ==
  /\ todo' = [todo EXCEPT ![p] = t]
  /\ state' = IF t = Nothing THEN state ELSE [state EXCEPT ![First(t)] = "closing"]

\* disconnect() ends by forgetting both references, whatever they are by then.
Refs(a, j) == ap' = a /\ jump' = j
Forgotten == Refs(NoConn, NoConn)

-----------------------------------------------------------------------------
(* What follows a disconnect() or a connect() that raised *)

\* (Mutant: run()'s finally clause does not disconnect.)
FinalNothing(a, j) ==
  /\ closing' = TRUE /\ pc' = "done" /\ Refs(a, j) /\ Closes("task", Nothing)

\* The finally clause of run(), with the references a and j.
Final(a, j) ==
  LET t == Unclosed(ToClose(a, j)) IN
  /\ closing' = TRUE
  /\ Closes("task", t)
  /\ IF t = Nothing THEN pc' = "done" /\ Forgotten
                    ELSE pc' = "final" /\ Refs(a, j)

\* _session() returned or raised in run().
RoundOver(a, j) ==
  \/ (closing \/ cancel = "taken") /\ Final(a, j)
  \/ /\ ~closing /\ cancel # "taken"
     /\ pc' = "delay" /\ Refs(a, j)
     /\ Closes("task", Nothing)
     /\ UNCHANGED closing

\* The transport is closed: the probe has its result, or the round is over.
AfterDisconnect ==
  \/ task = "run" /\ RoundOver(NoConn, NoConn)
  \/ /\ task = "probe"
     /\ pc' \in {"ready", "failed"} /\ Forgotten
     /\ Closes("task", Nothing)
     /\ UNCHANGED closing

\* The task goes on closing t in the disconnect() that ends a session.
Disconnecting(t) ==
  \/ t = Nothing /\ AfterDisconnect
  \/ /\ t # Nothing
     /\ pc' = "disc" /\ Closes("task", t)
     /\ UNCHANGED <<ap, jump, closing>>

-----------------------------------------------------------------------------
(* connect(), and the task that called it *)

Uncancelled == cancel # "asked"

\* asyncssh.connect() returns a new connection c, opened through t.
Opened(c, t) ==
  /\ state[c] = "unused"
  /\ state' = [state EXCEPT ![c] = "open"]
  /\ via' = [via EXCEPT ![c] = t]

JumpOk(c) ==
  /\ pc = "jump" /\ Uncancelled
  /\ Opened(c, NoConn)
  /\ jump' = c /\ tunnel' = c
  /\ pc' = "ap"
  /\ UNCHANGED <<task, ap, todo, closing, stopper, cancel, abandoned>>

\* The tunnel may have broken, or have been closed by stop(), just before.
ApOk(c) ==
  /\ pc = "ap" /\ Uncancelled
  /\ Opened(c, tunnel)
  /\ ap' = c
  /\ pc' = "channel"
  /\ UNCHANGED <<task, jump, tunnel, todo, closing, stopper, cancel, abandoned>>

\* The channel to bleconnd is open.  _session() checks _closing again.
ChannelOk ==
  /\ pc = "channel" /\ Uncancelled
  /\ \/ /\ ~closing
        /\ pc' = "up"
        /\ UNCHANGED <<ap, jump, state, todo, closing>>
     \/ closing /\ Disconnecting(Unclosed(ToClose(ap, jump)))
  /\ UNCHANGED <<task, via, tunnel, stopper, cancel, abandoned>>

\* connect() raises, at any of its awaits: nobody calls disconnect() for it,
\* unless run() is left.
ConnectFail ==
  /\ pc \in Connecting /\ Uncancelled
  /\ \/ task = "run" /\ RoundOver(ap, jump)
     \/ /\ task = "probe"
        /\ pc' = "failed"
        /\ UNCHANGED <<ap, jump, state, todo, closing>>
  /\ abandoned' = IF closing THEN abandoned ELSE abandoned \cup (Open \cap {ap, jump})
  /\ UNCHANGED <<task, via, tunnel, stopper, cancel>>

\* The session or the probe is over, for whatever reason, and its finally
\* clause calls disconnect().
SessionEnds ==
  /\ pc = "up" /\ Uncancelled
  /\ Disconnecting(Unclosed(ToClose(ap, jump)))
  /\ UNCHANGED <<task, via, tunnel, stopper, cancel, abandoned>>

\* wait_closed() returns in that disconnect().
ConnClosed ==
  /\ pc = "disc" /\ Uncancelled
  /\ state[First(todo["task"])] = "closed"
  /\ Disconnecting(Unclosed(Rest(todo["task"])))
  /\ UNCHANGED <<task, via, tunnel, stopper, cancel, abandoned>>

\* ... and in the one of run()'s finally clause.
FinalConnClosed ==
  /\ pc = "final" /\ Uncancelled
  /\ state[First(todo["task"])] = "closed"
  /\ LET t == Unclosed(Rest(todo["task"])) IN
     /\ Closes("task", t)
     /\ IF t = Nothing THEN pc' = "done" /\ Forgotten ELSE UNCHANGED <<pc, ap, jump>>
  /\ UNCHANGED <<task, via, tunnel, closing, stopper, cancel, abandoned>>

\* The stop event or the reconnect delay.
DelayOver ==
  /\ pc = "delay" /\ Uncancelled
  /\ \/ closing /\ Final(ap, jump)
     \/ ~closing /\ pc' = Start /\ UNCHANGED <<ap, jump, state, todo, closing>>
  /\ tunnel' = NoConn
  /\ UNCHANGED <<task, via, stopper, cancel, abandoned>>

\* Home Assistant calls async_setup_entry again, which makes a new transport.
SetupAgain ==
  /\ pc = "failed"
  /\ pc' = Start /\ Forgotten /\ tunnel' = NoConn
  /\ UNCHANGED <<task, state, via, todo, closing, stopper, cancel, abandoned>>

\* run() starts with the transport that was probed.
RunStarts ==
  /\ pc = "ready"
  /\ task' = "run" /\ pc' = Start /\ tunnel' = NoConn
  /\ UNCHANGED <<ap, jump, state, via, todo, closing, stopper, cancel, abandoned>>

-----------------------------------------------------------------------------
(* stop(), cancellation, and the other ends *)

\* stop() goes on closing t.
Stopping(t) ==
  /\ Closes("stop", t)
  /\ stopper' = IF t = Nothing THEN "done" ELSE "disc"
  /\ IF t = Nothing THEN Forgotten ELSE UNCHANGED <<ap, jump>>

Stop ==
  /\ task = "run" /\ stopper = "idle"
  /\ closing' = TRUE
  /\ Stopping(Unclosed(ToClose(ap, jump)))
  /\ UNCHANGED <<task, pc, via, tunnel, cancel, abandoned>>

StopConnClosed ==
  /\ stopper = "disc" /\ state[First(todo["stop"])] = "closed"
  /\ Stopping(Unclosed(Rest(todo["stop"])))
  /\ UNCHANGED <<task, pc, via, tunnel, closing, cancel, abandoned>>

Cancel ==
  /\ task = "run" /\ pc # "done" /\ cancel = "no"
  /\ cancel' = "asked"
  /\ UNCHANGED <<task, pc, ap, jump, tunnel, state, via, todo, closing, stopper, abandoned>>

\* In a session the finally clause still disconnects; in a disconnect() the
\* rest of it is skipped, and in the last one nobody calls it again.
Cancelled ==
  /\ cancel = "asked"
  /\ \/ /\ pc \in Connecting \cup {"disc", "delay"}
        /\ cancel' = "taken" /\ Final(ap, jump)
     \/ /\ pc = "up"
        /\ cancel' = "taken"
        /\ LET t == Unclosed(ToClose(ap, jump)) IN
           IF t = Nothing THEN Final(NoConn, NoConn)
                          ELSE pc' = "disc" /\ Closes("task", t) /\ UNCHANGED <<ap, jump, closing>>
     \/ /\ pc = "final"
        /\ cancel' = "cut" /\ pc' = "done" /\ Closes("task", Nothing)
        /\ UNCHANGED <<ap, jump, closing>>
     \/ /\ pc = "done"
        /\ cancel' = "taken"
        /\ UNCHANGED <<pc, ap, jump, state, todo, closing>>
  /\ UNCHANGED <<task, via, tunnel, stopper, abandoned>>

\* The server closes the connection, or its tunnel is gone.
PeerCloses(c) ==
  /\ state[c] = "open" /\ state' = [state EXCEPT ![c] = "closed"]
  /\ UNCHANGED <<task, pc, ap, jump, tunnel, via, todo, closing, stopper, cancel, abandoned>>

\* asyncssh has cleaned up a connection we closed.
CloseEnds(c) ==
  /\ state[c] = "closing" /\ state' = [state EXCEPT ![c] = "closed"]
  /\ UNCHANGED <<task, pc, ap, jump, tunnel, via, todo, closing, stopper, cancel, abandoned>>

Terminated == pc = "done" /\ stopper # "disc" /\ UNCHANGED vars

Next ==
  \/ \E c \in Conns : JumpOk(c) \/ ApOk(c) \/ PeerCloses(c) \/ CloseEnds(c)
  \/ ChannelOk \/ ConnectFail \/ SessionEnds \/ ConnClosed \/ FinalConnClosed
  \/ DelayOver \/ SetupAgain \/ RunStarts
  \/ Stop \/ StopConnClosed \/ Cancel \/ Cancelled
  \/ Terminated

Spec == Init /\ [][Next]_vars

-----------------------------------------------------------------------------
(* Properties *)

\* Every variable has its type.
TypeOK ==
  /\ task \in {"probe", "run"} /\ pc \in PC
  /\ {ap, jump, tunnel} \subseteq Conns \cup {NoConn}
  /\ state \in [Conns -> {"unused", "open", "closing", "closed"}]
  /\ via \in [Conns -> Conns \cup {NoConn}]
  /\ todo \in [{"task", "stop"} -> (Conns \cup {NoConn}) \X (Conns \cup {NoConn})]
  /\ \A p \in {"task", "stop"} : todo[p][1] = todo[p][2] => todo[p] = Nothing
  /\ closing \in BOOLEAN /\ stopper \in {"idle", "disc", "done"}
  /\ cancel \in {"no", "asked", "taken", "cut"} /\ abandoned \subseteq Conns

\* Somebody will close c, or it is about to die with its tunnel.
Owned(c) ==
  \/ c \in {ap, jump}
  \/ \E p \in {"task", "stop"} : c \in {todo[p][1], todo[p][2]}
  \/ ~Carried(c)

\* Until a connect() raises with connections open, every open connection is
\* one that the transport refers to or that a disconnect() in progress still
\* has to close: neither the two disconnect() calls that stop() makes possible,
\* nor the second session of the same transport, loses one.  After one raised,
\* only its connections can be lost, as long as stop() is not called.
OpenIsOwned ==
  abandoned = {} \/ stopper = "idle" => \A c \in Open : Owned(c) \/ c \in abandoned

\* When run() and stop() have ended no connection is open, wherever the stop or
\* the cancellation hit.  Two things are excepted.  After a connect() that
\* raised with connections open, those may stay, and more if stop() was called.
\* And a cancellation during run()'s last disconnect(), which only a stop()
\* leads to, cuts it short: what it had not closed stays open.
EndsClosed ==
  pc = "done" /\ stopper # "disc" /\ cancel # "cut" =>
     /\ abandoned = {} => \A c \in Open : ~Carried(c)
     /\ stopper = "idle" => \A c \in Open : Carried(c) => c \in abandoned

\* A jump host's connection is closed only after the one it carries, however
\* often a disconnect() was cut short and restarted, and whichever of run() and
\* stop() closes them; but not by a stop() that comes after a connect() raised
\* with connections open: it can find the connection to the access point of one
\* round beside the jump host's of the next, and closes that one under the
\* connection just opened through it.
TunnelLast ==
  [][\A j, c \in Conns :
       (abandoned = {} \/ stopper' = "idle") /\ state[j] = "open" /\ state'[j] = "closing" /\ via[c] = j
         => state[c] \in {"closed", "unused"}]_vars

-----------------------------------------------------------------------------
(* What the source says and the code does not do. *)

\* bleconn.py:254-255, "always tears the transport down": while run() waits to
\* reconnect, nothing that the next connect() would overwrite is open.
AlwaysTornDown == pc = "delay" => Open \cap {ap, jump} = {}
=============================================================================
