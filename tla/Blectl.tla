------------------------------- MODULE Blectl -------------------------------
(***************************************************************************)
(* tools/blectl.py: the read-eval-print loop that drives one BleConnClient *)
(* from main(), at most one connection and the tables of its attributes.   *)
(* Commands run one at a time; the session below them, SessionPhase, goes  *)
(* on by itself.  blectl arms no disconnect callback: it learns of a lost  *)
(* connection only by the commands that fail.                              *)
(*                                                                         *)
(* Here the tables are represented by the devices their rows came from,    *)
(* and bleconnd, external, serves requests in order.  That a connOpened    *)
(* may be missed (BleConnGatt) is a TimesOut.                              *)
(***************************************************************************)
EXTENDS Naturals, Sequences

CONSTANTS
  Peers,      \* devices
  Handles,    \* connection handles of bleconnd
  None,
  MaxSteps,   \* bound: requests of a discovery
  MaxInbox    \* bound: requests not served yet

ASSUME BlectlAssumption ==
  /\ None \notin Peers \cup Handles
  /\ MaxInbox \in Nat \ {0} /\ MaxSteps \in Nat \ {0}

VARIABLES
  repl,                     \* the await main() is suspended at
  sigint,                   \* Ctrl-C was pressed
  opening,                  \* ch in gatt_connect
  conn, mac,                \* _conn and _conn_mac
  named,                    \* the device of a running do_connect
  tables,                   \* the devices whose rows _chars, _descs and
                            \* _cccd_for hold
  inbox,                    \* requests bleconnd has not served yet
  link,                     \* the device bleconnd is connected to, by handle
  phase, writer, closing    \* the client, see SessionPhase

shell == <<conn, mac, tables>>
air == <<inbox, link>>
client == <<phase, writer, closing>>
vars == <<repl, sigint, opening, named, shell, air, client>>

Sess == INSTANCE SessionPhase

\* A command waits for a response, or for connOpened.
Asking == {"asked", "aborting", "interrupted", "discovering", "using", "closing"}
Busy == Asking \cup {"opening"}

\* In the finally clause of main(): in stop(), or waiting for the client's task.
Finally == {"leaving", "gathering"}

\* A request of a discovery comes with what the discovery has found before,
\* and how many follow.
Request ==
  [op : {"open"}, to : Peers]
    \cup [op : {"close"}, to : Handles]
    \cup [op : {"use"}, to : Handles, about : SUBSET Peers]
    \cup [op : {"discover"}, to : Handles, found : SUBSET Peers, left : 0..MaxSteps]

Init ==
  /\ repl = "prompt" /\ sigint = FALSE /\ opening = None
  /\ conn = None /\ mac = None /\ named = None /\ tables = {}
  /\ inbox = <<>> /\ link = [h \in Handles |-> None]
  /\ Sess!Init

-----------------------------------------------------------------------------
(* Commands *)

\* _request writes; with no session its assertion fails and nothing is sent.
CanSend == writer /\ Len(inbox) < MaxInbox

Send(r) == inbox' = Append(inbox, r) /\ UNCHANGED link

\* do_connect, unless a connection is held.
Connect(p) ==
  /\ repl = "prompt" /\ conn = None /\ CanSend
  /\ repl' = "asked" /\ named' = p
  /\ Send([op |-> "open", to |-> p])
  /\ UNCHANGED <<sigint, opening, shell, client>>

\* gatt_discover asks for one thing after the other: the services, each of
\* them, their characteristics and descriptors.
Step(h, found, left) == [op |-> "discover", to |-> h, found |-> found, left |-> left]

Discover(h) ==
  /\ repl' = "discovering"
  /\ \E left \in 0..MaxSteps - 1 : Send(Step(h, {}, left))

\* do_list_attributes
List ==
  /\ repl = "prompt" /\ conn # None /\ CanSend
  /\ Discover(conn)
  /\ UNCHANGED <<sigint, opening, named, shell, client>>

\* do_read, do_write or do_notify of a handle found in the tables.
Use ==
  /\ repl = "prompt" /\ conn # None /\ tables # {} /\ CanSend
  /\ repl' = "using"
  /\ Send([op |-> "use", to |-> conn, about |-> tables])
  /\ UNCHANGED <<sigint, opening, named, shell, client>>

\* (Mutant: the tables stay.)
ForgetConn == conn' = None /\ mac' = None /\ UNCHANGED tables

\* The end of do_disconnect.
Forget == conn' = None /\ mac' = None /\ tables' = {}

\* do_disconnect
Disconnect ==
  /\ repl = "prompt" /\ conn # None /\ CanSend
  /\ repl' = "closing"
  /\ Send([op |-> "close", to |-> conn])
  /\ UNCHANGED <<sigint, opening, named, shell, client>>

\* Without a session gatt_disconnect suppresses the failed assertion.
DisconnectOffline ==
  /\ repl = "prompt" /\ conn # None /\ ~writer
  /\ Forget
  /\ UNCHANGED <<sigint, repl, opening, named, air, client>>

-----------------------------------------------------------------------------
(* How a wait ends *)

\* The command is over, with a result or with "error: ...": do_disconnect
\* suppresses its errors, gatt_connect raises after its connClose.
Returns ==
  /\ repl' = IF repl = "interrupted" THEN "killed" ELSE "prompt"
  /\ opening' = None
  /\ IF repl = "closing" THEN Forget ELSE UNCHANGED shell

\* (Mutant: connClose without a timeout.)
TimesOutUnlessClosing ==
  /\ repl \in Asking \ {"closing"}
  /\ Returns
  /\ UNCHANGED <<sigint, named, air, client>>

\* The timer of a request fires, or drain() raises; bleconnd may still serve
\* the request.
TimesOut ==
  /\ repl \in Asking
  /\ Returns
  /\ UNCHANGED <<sigint, named, air, client>>

\* gatt_connect waited 30 s for connOpened: it closes what it was given, or
\* suppresses that this could not be sent.
GivesUp ==
  /\ repl = "opening"
  /\ \/ /\ CanSend
        /\ repl' = "aborting"
        /\ Send([op |-> "close", to |-> opening])
        /\ UNCHANGED <<opening, shell>>
     \/ Returns /\ UNCHANGED air
  /\ UNCHANGED <<sigint, named, client>>

\* The first Ctrl-C: the main task is cancelled.  gatt_connect sends its
\* connClose first; main()'s own finally clause is cut short.
Interrupt ==
  /\ ~sigint /\ sigint' = TRUE
  /\ \/ /\ repl = "opening" /\ CanSend
        /\ repl' = "interrupted"
        /\ Send([op |-> "close", to |-> opening])
     \/ /\ repl \in {"prompt"} \cup Busy
        /\ repl' = "killed"
        /\ UNCHANGED air
     \/ /\ repl \in Finally
        /\ repl' = "cut"
        /\ UNCHANGED air
  /\ UNCHANGED <<opening, named, shell, client>>

\* The response to the last request sent.
Awaited == repl \in Asking /\ Len(inbox) = 1

\* A response nobody waits for, its request having timed out.
Ignored == ~Awaited /\ UNCHANGED <<repl, opening, shell>>

Answered == Ignored \/ (Awaited /\ Returns)

Serve(op) ==
  /\ phase = "up"
  /\ inbox # <<>> /\ Head(inbox).op = op
  /\ inbox' = Tail(inbox)
  /\ UNCHANGED <<sigint, named, client>>

\* bleconnd refuses connOpen, or starts connecting under a free handle.
ServeOpen ==
  /\ Serve("open")
  /\ \/ UNCHANGED link /\ Answered
     \/ \E h \in Handles :
          /\ link[h] = None
          /\ link' = [link EXCEPT ![h] = Head(inbox).to]
          /\ \/ Ignored
             \/ Awaited /\ repl' = "opening" /\ opening' = h /\ UNCHANGED shell

ServeClose ==
  /\ Serve("close")
  /\ link' = [link EXCEPT ![Head(inbox).to] = None]
  /\ Answered

ServeUse ==
  /\ Serve("use")
  /\ UNCHANGED link
  /\ Answered

\* (Mutant: the connection is stored with the rows.)
IndexedConn(found) ==
  /\ repl' = "prompt" /\ opening' = None
  /\ tables' = found \cup {conn}
  /\ UNCHANGED <<conn, mac>>

\* gatt_discover returned: _index_db replaces the tables.
Indexed(found) ==
  /\ repl' = "prompt" /\ opening' = None
  /\ tables' = found
  /\ UNCHANGED <<conn, mac>>

\* An error, or a part of the database: the next request, or all is found.
ServeDiscover ==
  /\ phase = "up" /\ inbox # <<>> /\ Head(inbox).op = "discover"
  /\ LET r == Head(inbox)  found == r.found \cup {link[r.to]} IN
       \/ inbox' = Tail(inbox) /\ Answered
       \/ /\ Awaited /\ link[r.to] # None /\ r.left > 0
          /\ inbox' = <<Step(r.to, found, r.left - 1)>>
          /\ UNCHANGED <<repl, opening, shell>>
       \/ /\ Awaited /\ link[r.to] # None /\ r.left = 0
          /\ inbox' = <<>>
          /\ Indexed(found)
  /\ UNCHANGED <<sigint, named, client, link>>

\* connOpened: gatt_connect returns, the connection is stored and its database
\* asked for; a request that fails at once leaves the connection stored.
LinkOpens ==
  /\ phase = "up" /\ repl = "opening" /\ link[opening] # None
  /\ conn' = opening /\ mac' = named /\ opening' = None
  /\ \/ CanSend /\ Discover(opening)
     \/ repl' = "prompt" /\ UNCHANGED air
  /\ UNCHANGED <<sigint, named, tables, client>>

\* connClosed: it ends the wait for connOpened, and is not told otherwise.
LinkDrops(h) ==
  /\ phase = "up" /\ link[h] # None
  /\ link' = [link EXCEPT ![h] = None]
  /\ IF repl = "opening" /\ opening = h THEN Returns ELSE UNCHANGED <<repl, opening, shell>>
  /\ UNCHANGED <<sigint, named, inbox, client>>

-----------------------------------------------------------------------------
(* The session *)

\* _fail_pending cancels what the command waits for: CancelledError is not
\* an Exception and leaves dispatch.
Cancelled == repl' = IF repl \in Busy THEN "killed" ELSE repl

\* bleconnd closes a client's connections with its socket.
NoTraffic == inbox' = <<>> /\ link' = [h \in Handles |-> None]

Attaches == Sess!Attach /\ UNCHANGED <<repl, sigint, opening, named, shell, air>>

Loses == Sess!Lose /\ UNCHANGED <<repl, sigint, opening, named, shell, air>>

Releases == Sess!Release /\ UNCHANGED <<repl, sigint, opening, named, shell, air>>

Clears ==
  /\ Sess!Clear
  /\ Cancelled /\ NoTraffic
  /\ UNCHANGED <<sigint, opening, named, shell>>

\* run() ends only because main() stopped it.
Abandons ==
  /\ closing /\ Sess!Abandon
  /\ Cancelled
  /\ UNCHANGED <<sigint, opening, named, shell, air>>

-----------------------------------------------------------------------------
(* The end of main() *)

\* "quit", end of input, or an exception out of the loop: the finally clause
\* calls stop().
Leaves ==
  /\ repl \in {"prompt", "killed"}
  /\ repl' = "leaving"
  /\ Sess!Close
  /\ UNCHANGED <<sigint, opening, named, shell, air>>

\* stop() returns: the task of run() is cancelled and waited for.
Stopped ==
  /\ repl = "leaving" /\ repl' = "gathering"
  /\ UNCHANGED <<sigint, opening, named, shell, air, client>>

\* The task ended, with its last disconnect(); asyncio.run() has cancelled and
\* waited for it if main() did not get to it.
Gathered ==
  /\ repl \in {"gathering", "cut"} /\ phase = "dead" /\ repl' = "ended"
  /\ NoTraffic
  /\ UNCHANGED <<sigint, opening, named, shell, client>>

Terminated == repl = "ended" /\ UNCHANGED vars

Commands == (\E p \in Peers : Connect(p)) \/ List \/ Use \/ Disconnect \/ DisconnectOffline

Bleconnd ==
  \/ ServeOpen \/ ServeClose \/ ServeUse \/ ServeDiscover
  \/ LinkOpens \/ \E h \in Handles : LinkDrops(h)

Session == Attaches \/ Loses \/ Releases \/ Clears \/ Abandons

Ending == Leaves \/ Stopped \/ Gathered \/ Terminated

Next == Commands \/ TimesOut \/ GivesUp \/ Interrupt \/ Bleconnd \/ Session \/ Ending

Spec == Init /\ [][Next]_vars

\* The client's task has been cancelled, by main() or by asyncio.run().
TaskCancelled == repl \in {"gathering", "cut"}

\* Every wait of a command has a timer; main() goes on once its exception is
\* raised; stop() does not wait for the peer; a client whose task is cancelled
\* ends (CancelEnds of BleConnSession).
FairSpec ==
  /\ Spec
  /\ WF_vars(TimesOut) /\ WF_vars(GivesUp)
  /\ WF_vars(repl = "killed" /\ Leaves) /\ WF_vars(Stopped) /\ WF_vars(Gathered)
  /\ WF_vars(TaskCancelled /\ Loses) /\ WF_vars(TaskCancelled /\ Releases)
  /\ WF_vars(TaskCancelled /\ Abandons)

-----------------------------------------------------------------------------
(* Properties *)

\* Every variable has its type.
TypeOK ==
  /\ repl \in {"prompt", "killed", "cut", "ended"} \cup Finally \cup Busy
  /\ sigint \in BOOLEAN
  /\ {opening, conn} \subseteq Handles \cup {None}
  /\ {mac, named} \subseteq Peers \cup {None} /\ tables \subseteq Peers
  /\ inbox \in Seq(Request)
  /\ link \in [Handles -> Peers \cup {None}]
  /\ phase \in {"down", "up", "lost", "disc", "dead"}
  /\ writer \in BOOLEAN /\ closing \in BOOLEAN

\* What a command does reaches the device the user named, and the attribute
\* handles it sends come from that device's database and no other's, although
\* it is collected in many steps: whatever was lost, given up or served late
\* in between, although bleconnd reuses handles and blectl is not told of a
\* lost connection.
RightDevice ==
  /\ conn # None /\ link[conn] # None => link[conn] = mac
  /\ \A i \in 1..Len(inbox) :
       inbox[i].op = "use" /\ link[inbox[i].to] # None
         => inbox[i].about = {link[inbox[i].to]}

\* Every command ends, and so does blectl once its loop was left, whatever
\* the access point does and wherever Ctrl-C hits: in the commands, and in
\* main()'s finally clause, which then neither cancels nor waits for the task.
CommandsEnd == (repl \notin {"prompt", "ended"}) ~> (repl \in {"prompt", "ended"})

\* dispatch keeps "the REPL alive on any error": a session that ends does not
\* end the loop.
ReplSurvives == [][phase' # phase /\ repl # "killed" => repl' # "killed"]_vars
=============================================================================
