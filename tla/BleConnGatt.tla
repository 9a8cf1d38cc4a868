---------------------------- MODULE BleConnGatt ----------------------------
(***************************************************************************)
(* The GATT layer of BleConnClient (bleconn.py) as UnifiBleakClient        *)
(* (client.py) drives it: several callers open, use and close connections  *)
(* multiplexed over one session, while the reader dispatches responses and *)
(* events, timers and cancellations interrupt the callers, and the session *)
(* drops and comes back (SessionPhase).                                    *)
(*                                                                         *)
(* The event loop runs woken tasks in the order they were woken: ready is  *)
(* that queue.  Dispatching a message and resuming a caller are different  *)
(* steps, so whatever is in the stream's buffer may be dispatched before a *)
(* caller woken by an earlier message runs.                                *)
(*                                                                         *)
(* bleconnd is external: requests are served in order, a response precedes *)
(* the events that follow from it, links go up and down on their own, and  *)
(* the handle of a connection that is gone may be given to the next one.   *)
(***************************************************************************)
EXTENDS Naturals, FiniteSets, SequencesExt

CONSTANTS
  Callers,        \* the UnifiBleakClients of this access point
  Handles,        \* connHandles of bleconnd
  Ids,            \* ids of requests (uuid4 in the code: never repeated)
  None,
  Run,            \* the task of run() in the ready queue
  MaxConnections, \* DEFAULT_MAX_CONNECTIONS
  MaxInbox,       \* bound: messages between bleconnd and the reader
  MaxNotifies,    \* bound: notification callbacks registered at once
  MaxCuts         \* bound: requests of a session that drain() suspends, or
                  \* whose write or drain() raised

ASSUME GattAssumption ==
  /\ None \notin Callers \cup Handles \cup Ids /\ Run \notin Callers
  /\ IsFiniteSet(Callers) /\ IsFiniteSet(Ids)

VARIABLES
  phase, writer, closing,                \* see SessionPhase
  ready,     \* woken tasks that have not run yet, in order
  pc,        \* where each caller is suspended
  fut,       \* the future it awaits: wait, ok, err; gone: cancelled, by its
             \* timer, by its owner or by _fail_pending
  rid,       \* the request it has in flight
  target,    \* the connHandle a connection attempt or a close is about
  held,      \* UnifiBleakClient._conn_handle
  drain,     \* its await of drain() in _request: blocked; over or raised, but
             \* it has not run yet; no: it is not, or no longer, in there
  pending,   \* keys of _pending
  opened,    \* _conn_opened: the caller whose future is registered
  discCb,    \* _disconnect_cbs
  noteCb,    \* _notify_cbs, for one characteristic per connection
  mtu,       \* keys of _conn_mtu
  link,      \* bleconnd: state of each connection of this client
  owner,     \* bleconnd: whose request opened it
  wire,      \* requests on their way to bleconnd
  inbox,     \* messages on their way to the reader
  missed,    \* history: callers whose connection closed when nobody would
             \* tell them, or whose callback another such caller dropped
  leaked     \* history: ids that _request left in _pending

session == <<phase, writer, closing>>
callers == <<pc, fut, rid, target, held, drain>>
tables == <<pending, opened, discCb, noteCb, mtu>>
peer == <<link, owner, wire, inbox>>
history == <<missed, leaked>>
vars == <<session, ready, callers, tables, peer, history>>

Sess == INSTANCE SessionPhase

\* connOpen, opening, abort: in gatt_connect, for the response, for the
\* connOpened event and for the connClose of its except clause; op: in any
\* request on an open connection; close: in gatt_disconnect.
PC == {"idle", "connOpen", "opening", "abort", "held", "op", "close"}

Message == [kind : {"resp", "opened", "closed", "notify"},
            id : Ids \cup {None}, ok : BOOLEAN, h : Handles \cup {None}]
Response(i, ok, h) == [kind |-> "resp", id |-> i, ok |-> ok, h |-> h]
Event(k, h) == [kind |-> k, id |-> None, ok |-> TRUE, h |-> h]

Init ==
  /\ Sess!Init
  /\ ready = <<>>
  /\ pc = [c \in Callers |-> "idle"]
  /\ fut = [c \in Callers |-> "none"]
  /\ rid = [c \in Callers |-> None]
  /\ target = [c \in Callers |-> None]
  /\ held = [c \in Callers |-> None]
  /\ drain = [c \in Callers |-> "no"]
  /\ pending = {} /\ mtu = {}
  /\ opened = [h \in Handles |-> None]
  /\ discCb = [h \in Handles |-> None]
  /\ noteCb = [h \in Handles |-> None]
  /\ link = [h \in Handles |-> "free"]
  /\ owner = [h \in Handles |-> None]
  /\ wire = <<>> /\ inbox = <<>>
  /\ missed = {} /\ leaked = {}

-----------------------------------------------------------------------------
(* _request *)

UsedIds == pending \cup {wire[i].id : i \in 1..Len(wire)}
                   \cup {inbox[i].id : i \in 1..Len(inbox)}
FreeIds == Ids \ UsedIds

\* Bound: a caller sends something only if an id is left for each connClose
\* that gatt_connect may have to send, so that those never wait for one.
Attempts == {c \in Callers : pc[c] = "opening"}
Affords == Cardinality(FreeIds) > Cardinality(Attempts)

NewId == CHOOSE i \in FreeIds : TRUE

\* Bound: see MaxCuts.
MayCut == Cardinality(leaked) + Cardinality({c \in Callers : drain[c] # "no"}) < MaxCuts

\* _request up to an await: of drain(), while the peer reads too slowly, or
\* of the response.  The response of a session whose reader has stopped never
\* comes.
Sent(c, act, h, wait) ==
  /\ writer
  /\ pending' = pending \cup {NewId}
  /\ rid' = [rid EXCEPT ![c] = NewId]
  /\ fut' = [fut EXCEPT ![c] = "wait"]
  /\ pc' = [pc EXCEPT ![c] = wait]
  /\ \E d \in {"no"} \cup (IF MayCut THEN {"blocked"} ELSE {}) :
       drain' = [drain EXCEPT ![c] = d]
  /\ wire' = IF phase = "up"
             THEN Append(wire, [id |-> NewId, act |-> act, h |-> h, by |-> c])
             ELSE wire
  /\ UNCHANGED leaked

\* _request raises: there is no writer, or write() or drain() finds the stream
\* closed, maybe before the reader does, and then the id stays in _pending.
Unsent(c, next) ==
  /\ writer => MayCut
  /\ pending' = IF writer THEN pending \cup {NewId} ELSE pending
  /\ leaked' = IF writer THEN leaked \cup {NewId} ELSE leaked
  /\ rid' = [rid EXCEPT ![c] = None]
  /\ fut' = [fut EXCEPT ![c] = "none"]
  /\ pc' = [pc EXCEPT ![c] = next]
  /\ UNCHANGED <<drain, wire>>

\* (Mutant: _request without its finally clause.)
AnsweredLeaks(c) ==
  pending' = IF fut[c] = "gone" THEN pending ELSE pending \ {rid[c]}

\* The finally clause of _request.
Answered(c) == pending' = pending \ {rid[c]}

-----------------------------------------------------------------------------
(* What callers start: UnifiBleakClient over BleConnClient *)

IsScanning == writer /\ ~closing

\* can_connect of __init__.py.
CanConnect == IsScanning /\ Cardinality(mtu) < MaxConnections

\* connect(): gatt_connect sends connOpen.
Connect(c) ==
  /\ pc[c] = "idle" /\ CanConnect /\ Affords
  /\ \/ Sent(c, "connOpen", None, "connOpen")
     \/ Unsent(c, "idle")
  /\ UNCHANGED <<session, ready, target, held, opened, discCb, noteCb, mtu,
                 link, owner, inbox, missed>>

\* A request on the connection c holds; _bc and _require_conn raise otherwise.
OnConnection(c) ==
  /\ pc[c] = "held" /\ held[c] # None /\ IsScanning /\ Affords
  /\ \/ Sent(c, "op", held[c], "op")
     \/ Unsent(c, "held")
  /\ UNCHANGED <<session, ready, target, held, opened, discCb, mtu,
                 link, owner, inbox, missed>>

\* A read, a write, or a step of the discovery.
Operate(c) == OnConnection(c) /\ UNCHANGED noteCb

\* The callback is registered before the CCCD is written.
StartNotify(c) ==
  /\ OnConnection(c)
  /\ Cardinality({h \in Handles : noteCb[h] # None}) < MaxNotifies
  /\ noteCb' = [noteCb EXCEPT ![held[c]] = c]

\* The callback is dropped before the CCCD is cleared.
StopNotify(c) ==
  /\ OnConnection(c)
  /\ noteCb' = [noteCb EXCEPT ![held[c]] = None]

\* (Mutant: gatt_disconnect forgets the notification callbacks.)
ForgetsOne(h) == discCb' = [discCb EXCEPT ![h] = None] /\ UNCHANGED noteCb

\* gatt_disconnect drops the callbacks of the connection.
Forget(h) == /\ discCb' = [discCb EXCEPT ![h] = None]
             /\ noteCb' = [noteCb EXCEPT ![h] = None]

\* disconnect(): gatt_disconnect drops the callbacks of the handle, whoever's
\* they are, and sends connClose; with the session gone _bc raises and only
\* the handle is forgotten.
Disconnect(c) ==
  /\ pc[c] = "held" /\ held[c] # None
  /\ held' = [held EXCEPT ![c] = None]
  /\ \/ /\ IsScanning /\ Affords
        /\ Forget(held[c])
        /\ missed' = (missed \cup {d \in Callers : held[d] = held[c]}) \ {c}
        /\ \/ Sent(c, "connClose", held[c], "close")
           \/ Unsent(c, "idle")
     \/ /\ ~IsScanning
        /\ pc' = [pc EXCEPT ![c] = "idle"]
        /\ missed' = missed \ {c}
        /\ UNCHANGED <<noteCb, discCb, pending, rid, fut, drain, wire, leaked>>
  /\ UNCHANGED <<session, ready, target, opened, mtu, link, owner, inbox>>

-----------------------------------------------------------------------------
(* What callers do when they are resumed *)

Resumed(c) == ready # <<>> /\ Head(ready) = c /\ ready' = Tail(ready)

NotInDrain(c) == drain' = [drain EXCEPT ![c] = "no"]

\* c is resumed and what it awaits is done: it comes out of drain() without
\* an exception, or has been out of it.
Returned(c) ==
  /\ Resumed(c) /\ fut[c] # "wait" /\ drain[c] # "raised"
  /\ NotInDrain(c)

Done(c, next) ==
  /\ pc' = [pc EXCEPT ![c] = next]
  /\ fut' = [fut EXCEPT ![c] = "none"]
  /\ rid' = [rid EXCEPT ![c] = None]

\* The future of the connOpened event of a new connection.
Register(c) == opened' = [opened EXCEPT ![target[c]] = c]

\* drain() is over before the response came: wait for that.
ResumeDrained(c) ==
  /\ Resumed(c) /\ drain[c] = "over" /\ fut[c] = "wait"
  /\ NotInDrain(c)
  /\ UNCHANGED <<session, pc, fut, rid, target, held, tables, peer, history>>

\* The response of connOpen: wait for the connOpened event.
ResumeConnOpen(c) ==
  /\ Returned(c) /\ pc[c] = "connOpen"
  /\ Answered(c)
  /\ rid' = [rid EXCEPT ![c] = None]
  /\ \/ /\ fut[c] = "ok"
        /\ Register(c)
        /\ pc' = [pc EXCEPT ![c] = "opening"]
        /\ fut' = [fut EXCEPT ![c] = "wait"]
        /\ UNCHANGED target
     \/ /\ fut[c] # "ok"
        /\ pc' = [pc EXCEPT ![c] = "idle"]
        /\ fut' = [fut EXCEPT ![c] = "none"]
        /\ target' = [target EXCEPT ![c] = None]
        /\ UNCHANGED opened
  /\ UNCHANGED <<session, held, discCb, noteCb, mtu, peer, history>>

\* (Mutant: the entry of the handle itself is deleted.)
UnregisterHandle(c) == /\ opened' = [h \in Handles \ {target[c]} |-> opened[h]]
                       /\ target' = [target EXCEPT ![c] = None]

\* The finally clause of gatt_connect.
Unregister(c) == /\ opened' = [opened EXCEPT ![target[c]] = None]
                 /\ target' = [target EXCEPT ![c] = None]

\* (Mutant: connect() does not arm the callback.)
ArmNothing(c) == UNCHANGED discCb

\* set_disconnect_callback
Arm(c) == discCb' = [discCb EXCEPT ![target[c]] = c]

\* connOpened came: gatt_connect returns and connect() arms the callback.
ResumeOpened(c) ==
  /\ Returned(c) /\ pc[c] = "opening" /\ fut[c] = "ok"
  /\ Unregister(c)
  /\ held' = [held EXCEPT ![c] = target[c]]
  /\ Arm(c)
  /\ Done(c, "held")
  /\ UNCHANGED <<session, pending, noteCb, mtu, peer, history>>

\* connClosed came first.
ResumeRefused(c) ==
  /\ Returned(c) /\ pc[c] = "opening" /\ fut[c] = "err"
  /\ Unregister(c)
  /\ Done(c, "idle")
  /\ UNCHANGED <<session, held, pending, discCb, noteCb, mtu, peer, history>>

\* The wait was given up: the except clause closes the connection first.
ResumeGaveUp(c) ==
  /\ Resumed(c) /\ pc[c] = "opening" /\ fut[c] = "gone" /\ FreeIds # {}
  /\ \/ /\ Sent(c, "connClose", target[c], "abort")
        /\ UNCHANGED <<opened, target>>
     \/ Unsent(c, "idle") /\ Unregister(c)
  /\ UNCHANGED <<session, held, discCb, noteCb, mtu, link, owner, inbox, missed>>

ResumeAbort(c) ==
  /\ Returned(c) /\ pc[c] = "abort"
  /\ Answered(c) /\ Unregister(c)
  /\ Done(c, "idle")
  /\ UNCHANGED <<session, held, discCb, noteCb, mtu, peer, history>>

AfterRequest(c) == IF pc[c] = "op" /\ held[c] # None THEN "held" ELSE "idle"

\* An operation or a close ends, whichever way.  The connection of an
\* operation may have gone meanwhile.
ResumeRequest(c) ==
  /\ Returned(c) /\ pc[c] \in {"op", "close"}
  /\ Answered(c)
  /\ Done(c, AfterRequest(c))
  /\ UNCHANGED <<session, target, held, opened, discCb, noteCb, mtu, peer, history>>

\* drain() raises, before _request's try: the id stays in _pending.
ResumeCut(c) ==
  /\ Resumed(c) /\ drain[c] = "raised"
  /\ NotInDrain(c)
  /\ leaked' = leaked \cup ({rid[c]} \cap pending)
  /\ \/ pc[c] = "abort" /\ Unregister(c)
     \/ /\ pc[c] # "abort"
        /\ target' = [target EXCEPT ![c] = None]
        /\ UNCHANGED opened
  /\ Done(c, AfterRequest(c))
  /\ UNCHANGED <<session, held, pending, discCb, noteCb, mtu, peer, missed>>

\* (Mutant: the connClose of gatt_connect's except clause has no timeout.)
GiveUpUnlessAborting(c) ==
  /\ fut[c] \in {"wait", "ok", "err"} /\ drain[c] = "no" /\ pc[c] # "abort"
  /\ fut' = [fut EXCEPT ![c] = "gone"]
  /\ ready' = IF fut[c] = "wait" THEN Append(ready, c) ELSE ready
  /\ missed' = IF held[c] = None THEN missed \ {c} ELSE missed
  /\ UNCHANGED <<session, pc, rid, target, held, drain, tables, peer, leaked>>

\* The timer of wait_for, or a cancellation of the caller: also when its
\* future is done but it has not run yet; the result is lost then.
GiveUp(c) ==
  /\ fut[c] \in {"wait", "ok", "err"} /\ drain[c] = "no"
  /\ fut' = [fut EXCEPT ![c] = "gone"]
  /\ ready' = IF fut[c] = "wait" THEN Append(ready, c) ELSE ready
  /\ missed' = IF held[c] = None THEN missed \ {c} ELSE missed
  /\ UNCHANGED <<session, pc, rid, target, held, drain, tables, peer, leaked>>

\* drain() has no timer.  It ends when the peer reads on; it raises when the
\* stream is lost, and when the caller is cancelled, even if it is over.
DrainEnds(c) ==
  /\ drain[c] = "blocked"
  /\ drain' = [drain EXCEPT ![c] = "over"]
  /\ ready' = Append(ready, c)
  /\ UNCHANGED <<session, pc, fut, rid, target, held, tables, peer, history>>

DrainFails(c) ==
  /\ drain[c] \in {"blocked", "over"}
  /\ drain' = [drain EXCEPT ![c] = "raised"]
  /\ ready' = IF drain[c] = "blocked" THEN Append(ready, c) ELSE ready
  /\ UNCHANGED <<session, pc, fut, rid, target, held, tables, peer, history>>

-----------------------------------------------------------------------------
(* _read_loop and _dispatch_event *)

\* Complete the future of caller c, which is woken unless it is in drain().
Complete(c, how) ==
  /\ fut' = [fut EXCEPT ![c] = how]
  /\ ready' = IF drain[c] = "no" THEN Append(ready, c) ELSE ready

Leave == UNCHANGED <<fut, ready>>

Dispatch(kind) ==
  /\ phase = "up" /\ inbox # <<>>
  /\ Head(inbox).kind = kind
  /\ inbox' = Tail(inbox)
  /\ UNCHANGED <<session, rid, drain, pending, link, owner, wire, leaked>>

Waiting(m) == {c \in Callers : /\ rid[c] = m.id /\ m.id \in pending
                               /\ fut[c] = "wait"}

DispatchResponse ==
  /\ Dispatch("resp")
  /\ LET m == Head(inbox) IN
       \/ /\ Waiting(m) = {}
          /\ Leave /\ UNCHANGED target
       \/ \E c \in Waiting(m) :
            /\ Complete(c, IF m.ok THEN "ok" ELSE "err")
            /\ target' = IF m.h = None THEN target
                         ELSE [target EXCEPT ![c] = m.h]
  /\ UNCHANGED <<pc, held, opened, discCb, noteCb, mtu, missed>>

\* The future registered for handle h is not done.
Awaited(h) == opened[h] # None /\ pc[opened[h]] = "opening"
                               /\ fut[opened[h]] = "wait"

DispatchOpened ==
  /\ Dispatch("opened")
  /\ LET h == Head(inbox).h IN
       /\ mtu' = mtu \cup {h}
       /\ IF Awaited(h) THEN Complete(opened[h], "ok") ELSE Leave
  /\ UNCHANGED <<pc, target, held, opened, discCb, noteCb, missed>>

\* (Mutant: a drop is ignored while an operation is running.)
DisconnectedIdle(C) ==
  /\ held' = [c \in Callers |-> IF c \in C /\ pc[c] = "held" THEN None
                                ELSE held[c]]
  /\ pc' = [c \in Callers |-> IF c \in C /\ pc[c] = "held" THEN "idle"
                              ELSE pc[c]]

\* _on_disconnected of the callers in C.
Disconnected(C) ==
  /\ held' = [c \in Callers |-> IF c \in C THEN None ELSE held[c]]
  /\ pc' = [c \in Callers |-> IF c \in C /\ pc[c] = "held" THEN "idle"
                              ELSE pc[c]]

\* (Mutant: the connection still counts as active.)
DropKeepsMtu(h) == Forget(h) /\ UNCHANGED mtu

\* connClosed empties what the tables have of the connection.
Drop(h) == Forget(h) /\ mtu' = mtu \ {h}

\* The callers that were told that h is open and have not run since: they
\* will hold it and arm their callbacks when it is gone.
Unaware(h) == {c \in Callers : /\ pc[c] = "opening" /\ fut[c] = "ok"
                               /\ target[c] = h}

DispatchClosed ==
  /\ Dispatch("closed")
  /\ LET h == Head(inbox).h IN
       /\ IF Awaited(h) THEN Complete(opened[h], "err") ELSE Leave
       /\ Drop(h)
       /\ Disconnected({discCb[h]} \ {None})
       /\ missed' = (missed \ {discCb[h]}) \cup Unaware(h)
  /\ UNCHANGED <<target, opened>>

\* A notification is handed to the registered callback.
DispatchNotify ==
  /\ Dispatch("notify")
  /\ Leave
  /\ UNCHANGED <<pc, target, held, opened, discCb, noteCb, mtu, missed>>

-----------------------------------------------------------------------------
(* The session under it *)

\* The callers whose future is in _pending or _conn_opened and not done; who
\* is in drain() is not woken.
Interrupted ==
  {c \in Callers : /\ fut[c] = "wait"
                   /\ \/ rid[c] \in pending
                      \/ \E h \in Handles : opened[h] = c /\ Awaited(h)}

\* (Mutant: the callbacks are cleared without being called.)
ToldNobody == {}

\* The callers whose disconnect callback is registered.
Told == {discCb[h] : h \in Handles} \ {None}

\* _fail_pending: every waiting future is cancelled, every table emptied and
\* every disconnect callback called.
Flush ==
  /\ fut' = [c \in Callers |-> IF c \in Interrupted THEN "gone" ELSE fut[c]]
  /\ \E order \in SetToSeqs({c \in Interrupted : drain[c] = "no"}) :
       ready' = Tail(ready) \o order
  /\ pending' = {} /\ leaked' = {} /\ mtu' = {}
  /\ opened' = [h \in Handles |-> None]
  /\ discCb' = [h \in Handles |-> None]
  /\ noteCb' = [h \in Handles |-> None]
  /\ Disconnected(Told)
  /\ missed' = missed \ Told
  /\ UNCHANGED <<rid, target, drain>>

NoTraffic ==
  /\ wire' = <<>> /\ inbox' = <<>>
  /\ link' = [h \in Handles |-> "free"]
  /\ owner' = [h \in Handles |-> None]

\* The reader ends, or is cancelled: nothing is dispatched any more, and with
\* its client bleconnd drops the connections.  run() is woken to tear down.
Lose ==
  /\ Sess!Lose /\ NoTraffic
  /\ ready' = Append(ready, Run)
  /\ UNCHANGED <<callers, tables, history>>

\* run() is woken by the end of transport.disconnect(), by connecting, by a
\* timer or by a cancellation.
WakeRun ==
  /\ phase \in {"disc", "down"}
  /\ \A i \in 1..Len(ready) : ready[i] # Run
  /\ ready' = Append(ready, Run)
  /\ UNCHANGED <<session, callers, tables, peer, history>>

RunReleases ==
  /\ Resumed(Run) /\ Sess!Release
  /\ UNCHANGED <<callers, tables, peer, history>>

RunAttaches ==
  /\ Resumed(Run) /\ Sess!Attach
  /\ UNCHANGED <<callers, tables, peer, history>>

\* disconnect() returns once the connection is closed, which ended every
\* drain() on it; not so when it is cancelled, and then run() ends.
RunClears ==
  /\ ready # <<>> /\ Head(ready) = Run
  /\ \/ Sess!Clear /\ \A c \in Callers : drain[c] = "no"
     \/ Sess!Abandon
  /\ Flush
  /\ UNCHANGED <<wire, inbox, link, owner>>

\* stop()
Close ==
  /\ ~closing /\ Sess!Close
  /\ UNCHANGED <<ready, callers, tables, peer, history>>

-----------------------------------------------------------------------------
(* bleconnd *)

Room(n) == Len(inbox) + n <= MaxInbox

Serve(act) == /\ phase = "up" /\ wire # <<>> /\ Head(wire).act = act
              /\ wire' = Tail(wire)
              /\ UNCHANGED <<session, ready, callers, tables, history>>

Grant == Head(wire)

\* connOpen is accepted with a handle, or refused.
ServeConnOpen ==
  /\ Serve("connOpen") /\ Room(1)
  /\ \/ \E h \in Handles :
          /\ link[h] = "free"
          /\ link' = [link EXCEPT ![h] = "opening"]
          /\ owner' = [owner EXCEPT ![h] = Grant.by]
          /\ inbox' = Append(inbox, Response(Grant.id, TRUE, h))
     \/ /\ inbox' = Append(inbox, Response(Grant.id, FALSE, None))
        /\ UNCHANGED <<link, owner>>

\* connClose answers and ends the connection, in either order.
ServeConnClose ==
  /\ Serve("connClose") /\ Room(2)
  /\ LET h == Grant.h IN
       \/ /\ link[h] # "free"
          /\ link' = [link EXCEPT ![h] = "free"]
          /\ owner' = [owner EXCEPT ![h] = None]
          /\ inbox' \in {inbox \o <<Response(Grant.id, TRUE, None), Event("closed", h)>>,
                         inbox \o <<Event("closed", h), Response(Grant.id, TRUE, None)>>}
       \/ /\ link[h] = "free"
          /\ inbox' = Append(inbox, Response(Grant.id, FALSE, None))
          /\ UNCHANGED <<link, owner>>

\* An error ends an operation like a result.
ServeOp ==
  /\ Serve("op") /\ Room(1)
  /\ inbox' = Append(inbox, Response(Grant.id, TRUE, None))
  /\ UNCHANGED <<link, owner>>

Radio == /\ phase = "up" /\ Room(1)
         /\ UNCHANGED <<session, ready, callers, tables, history, wire>>

LinkOpens(h) ==
  /\ Radio /\ link[h] = "opening"
  /\ link' = [link EXCEPT ![h] = "open"]
  /\ inbox' = Append(inbox, Event("opened", h))
  /\ UNCHANGED owner

LinkDrops(h) ==
  /\ Radio /\ link[h] # "free"
  /\ link' = [link EXCEPT ![h] = "free"]
  /\ owner' = [owner EXCEPT ![h] = None]
  /\ inbox' = Append(inbox, Event("closed", h))

\* Bound: a notification is sent when nothing else is on its way.
LinkNotifies(h) ==
  /\ Radio /\ link[h] = "open" /\ inbox = <<>>
  /\ inbox' = Append(inbox, Event("notify", h))
  /\ UNCHANGED <<link, owner>>

-----------------------------------------------------------------------------

Resume(c) ==
  \/ ResumeConnOpen(c) \/ ResumeOpened(c) \/ ResumeRefused(c)
  \/ ResumeGaveUp(c) \/ ResumeAbort(c) \/ ResumeRequest(c)
  \/ ResumeDrained(c) \/ ResumeCut(c)

Reader ==
  \/ DispatchResponse \/ DispatchOpened \/ DispatchClosed \/ DispatchNotify

RunTask == RunReleases \/ RunAttaches \/ RunClears

Daemon ==
  \/ ServeConnOpen \/ ServeConnClose \/ ServeOp
  \/ \E h \in Handles : LinkOpens(h) \/ LinkDrops(h) \/ LinkNotifies(h)

\* Nothing is left to do: deadlocks before this point are real ones.
Terminated ==
  /\ phase = "dead" /\ ready = <<>>
  /\ \A c \in Callers : pc[c] = "idle"
  /\ UNCHANGED vars

Next ==
  \/ \E c \in Callers :
       \/ Connect(c) \/ Operate(c) \/ StartNotify(c) \/ StopNotify(c)
       \/ Disconnect(c) \/ GiveUp(c) \/ DrainEnds(c) \/ DrainFails(c) \/ Resume(c)
  \/ Reader
  \/ Lose \/ WakeRun \/ RunTask \/ Close
  \/ Daemon
  \/ Terminated

Spec == Init /\ [][Next]_vars

\* The event loop resumes the tasks in its queue, and every await of a caller
\* has a timer (10 s for a request, 30 s for connOpened, 5 s and 8 s for the
\* two connClose) but that of drain().  Nothing is assumed of bleconnd or of
\* the session.
Fairness ==
  /\ WF_vars(RunTask) /\ WF_vars(\E c \in Callers : Resume(c))
  /\ \A c \in Callers : WF_vars(GiveUp(c))

FairSpec == Spec /\ Fairness

-----------------------------------------------------------------------------
(* Properties *)

\* Every variable has its type.
TypeOK ==
  /\ phase \in {"down", "up", "lost", "disc", "dead"}
  /\ writer \in BOOLEAN /\ closing \in BOOLEAN
  /\ ready \in Seq(Callers \cup {Run})
  /\ pc \in [Callers -> PC]
  /\ fut \in [Callers -> {"none", "wait", "ok", "err", "gone"}]
  /\ rid \in [Callers -> Ids \cup {None}]
  /\ target \in [Callers -> Handles \cup {None}]
  /\ held \in [Callers -> Handles \cup {None}]
  /\ drain \in [Callers -> {"no", "blocked", "over", "raised"}]
  /\ pending \subseteq Ids /\ mtu \subseteq Handles
  /\ opened \in [Handles -> Callers \cup {None}]
  /\ discCb \in [Handles -> Callers \cup {None}]
  /\ noteCb \in [Handles -> Callers \cup {None}]
  /\ link \in [Handles -> {"free", "opening", "open"}]
  /\ owner \in [Handles -> Callers \cup {None}]
  /\ wire \in Seq([id : Ids, act : {"connOpen", "connClose", "op"},
                   h : Handles \cup {None}, by : Callers])
  /\ inbox \in Seq(Message)
  /\ missed \subseteq Callers /\ leaked \subseteq Ids

CaughtUp == phase = "up" /\ inbox = <<>>

\* active_connections counts exactly the open connections once everything
\* bleconnd sent has been dispatched.
ActiveIsOpen == CaughtUp => mtu = {h \in Handles : link[h] = "open"}

Lease == INSTANCE ConnLease WITH
  open <- phase \in {"up", "lost", "disc"},
  trying <- {c \in Callers : pc[c] \in {"connOpen", "opening", "abort"}},
  lease <- [c \in Callers |-> IF c \in missed THEN None ELSE held[c]]

\* Callers lease their connections: whatever is buffered, given up, dropped or
\* reused, no caller gets a handle another still holds, or one of a session
\* that has been flushed, and a flush ends every lease at once.  Callers in
\* missed have no lease: they hold a handle that was closed, and may have been
\* given to another connection, without being told.
ImplementsLease == Lease!Spec

\* Whoever holds a connection will be told when it drops, or when the session
\* does; but for the callers in missed.
DropIsTold ==
  \A c \in Callers : held[c] # None /\ c \notin missed => discCb[held[c]] = c

\* A caller waiting for connOpened has not missed it.
OpenNotMissed ==
  CaughtUp /\ ready = <<>> =>
    \A c \in Callers : pc[c] = "opening" => link[target[c]] = "opening"

\* Notifications of a handle only reach a caller that holds it, not one that
\* had it before, unless the client is shutting down.
NotifyIsRouted ==
  IsScanning => \A h \in Handles : noteCb[h] # None => held[noteCb[h]] = h

\* While the session is up _pending holds the requests being awaited, so that
\* their responses find them, and of the others only those whose write() or
\* drain() was cut; whatever timed out or was cancelled in their await.
PendingIsAwaited ==
  phase = "up" => pending = ({rid[c] : c \in Callers} \ {None}) \cup leaked

Trying(c) == pc[c] \in {"connOpen", "opening", "abort"}

\* Every attempt of c to connect ends, in a connection or not, if none of its
\* drain() blocks for ever: it is not left waiting whatever happens to its
\* link, its requests and the session, or to the registration of its future.
AttemptsEnd(c) ==
  []<>(drain[c] # "blocked") => (Trying(c) ~> pc[c] \in {"held", "idle"})
=============================================================================
