---------------------------- MODULE Blectl_proofs ---------------------------
(***************************************************************************)
(* Blectl reaches the device the user named, for any devices, handles and  *)
(* bounds.  The argument is about the order of the requests bleconnd has   *)
(* not served: one to open a connection is followed by none that uses one, *)
(* because gatt_connect returns only when every request before its own was *)
(* served.                                                                 *)
(***************************************************************************)
EXTENDS Blectl, TLAPS

Last == inbox[Len(inbox)]

\* While a connection is being opened, or one is held, nothing that is still
\* to be served will open another; nothing follows a request to open.
OpensAreLast ==
  /\ \A i, j \in 1..Len(inbox) :
       i < j /\ inbox[i].op = "open" => inbox[j].op = "open"
  /\ conn # None => \A i \in 1..Len(inbox) : inbox[i].op # "open"
  /\ repl = "opening" => inbox = <<>>

\* What a command waits for is the last request sent.
Op == [asked |-> "open", aborting |-> "close", interrupted |-> "close",
       discovering |-> "discover", using |-> "use", closing |-> "close"]

LastIsAwaited ==
  /\ repl \in Asking => inbox # <<>> /\ Last.op = Op[repl]
  /\ repl = "asked" => Last.to = named
  /\ repl \in {"asked", "opening", "aborting", "interrupted"} => conn = None
  /\ repl \in {"discovering", "using", "closing"} => conn # None
  /\ repl = "opening" => opening # None /\ link[opening] \in {None, named}
  /\ repl = "discovering" => Last.to = conn /\ Last.found \subseteq {mac}

\* The connection and the tables are those of the device in _conn_mac.
ShellIsOfMac ==
  /\ conn # None => link[conn] \in {None, mac}
  /\ tables # {} => conn # None /\ tables = {mac}

\* Of RightDevice, what is about the requests.
UsesKnow ==
  \A i \in 1..Len(inbox) :
    inbox[i].op = "use" /\ link[inbox[i].to] # None
      => inbox[i].about = {link[inbox[i].to]}

Order == OpensAreLast /\ LastIsAwaited /\ ShellIsOfMac /\ UsesKnow

IInv == TypeOK /\ Order

-----------------------------------------------------------------------------

\* The elements of a sequence without its first, and with one more.
LEMMA TailFacts ==
  ASSUME NEW S, NEW s \in Seq(S), s # <<>>
  PROVE  /\ Tail(s) \in Seq(S) /\ Len(Tail(s)) = Len(s) - 1
         /\ Head(s) = s[1] /\ Head(s) \in S /\ Len(s) \in Nat /\ Len(s) > 0
         /\ \A i \in 1..Len(Tail(s)) : Tail(s)[i] = s[i + 1] /\ i + 1 \in 1..Len(s)
OBVIOUS

LEMMA AppendFacts ==
  ASSUME NEW S, NEW s \in Seq(S), NEW r \in S
  PROVE  /\ Append(s, r) \in Seq(S) /\ Len(Append(s, r)) = Len(s) + 1
         /\ Len(s) \in Nat /\ Append(s, r) # <<>>
         /\ \A i \in 1..Len(s) : Append(s, r)[i] = s[i]
         /\ Append(s, r)[Len(s) + 1] = r
OBVIOUS

\* What the requests of each kind are about.
LEMMA RequestFields ==
  ASSUME NEW r \in Request
  PROVE  /\ r.op \in {"open", "close", "use", "discover"}
         /\ r.op = "open" => r.to \in Peers
         /\ r.op # "open" => r.to \in Handles
         /\ r.op = "use" => r.about \subseteq Peers
         /\ r.op = "discover" => r.found \subseteq Peers /\ r.left \in 0..MaxSteps
BY DEF Request

\* ... and that what is sent is one of them.
LEMMA RequestsSent ==
  /\ \A p \in Peers : [op |-> "open", to |-> p] \in Request
  /\ \A h \in Handles : [op |-> "close", to |-> h] \in Request
  /\ \A h \in Handles, a \in SUBSET Peers :
       [op |-> "use", to |-> h, about |-> a] \in Request
  /\ \A h \in Handles, f \in SUBSET Peers, n \in 0..MaxSteps :
       Step(h, f, n) \in Request
BY DEF Request, Step

-----------------------------------------------------------------------------

\* The end of a command preserves the types of what it changes.
LEMMA ReturnsType ==
  ASSUME TypeOK, Returns
  PROVE  /\ repl' \in {"prompt", "killed"} /\ opening' = None
         /\ conn' \in Handles \cup {None} /\ mac' \in Peers \cup {None}
         /\ tables' \subseteq Peers
BY DEF TypeOK, Returns, Forget, shell

LEMMA AnsweredType ==
  ASSUME TypeOK, Answered
  PROVE  /\ repl' \in {"prompt", "killed", "cut", "ended"} \cup Finally \cup Busy
         /\ {opening', conn'} \subseteq Handles \cup {None}
         /\ mac' \in Peers \cup {None} /\ tables' \subseteq Peers
<1>1. CASE Ignored
  BY <1>1 DEF Ignored, TypeOK, shell
<1>2. CASE Returns
  BY <1>2, ReturnsType
<1> QED BY <1>1, <1>2 DEF Answered

\* So does the end of a session.
LEMMA AirType ==
  ASSUME TypeOK, NoTraffic \/ UNCHANGED air
  PROVE  inbox' \in Seq(Request) /\ link' \in [Handles -> Peers \cup {None}]
<1>1. CASE NoTraffic
  <2>1. inbox' = <<>> /\ link' = [h \in Handles |-> None]
    BY <1>1 DEF NoTraffic
  <2>2. <<>> \in Seq(Request)
    OBVIOUS
  <2> QED BY <2>1, <2>2
<1>2. CASE UNCHANGED air
  BY <1>2 DEF air, TypeOK
<1> QED BY <1>1, <1>2

\* Every action preserves the types.
LEMMA TypeStep == TypeOK /\ LastIsAwaited /\ [Next]_vars => TypeOK'
<1> SUFFICES ASSUME TypeOK, LastIsAwaited, [Next]_vars PROVE TypeOK'
  OBVIOUS
<1> USE BlectlAssumption DEF shell, air, client, Asking, Busy, Finally
<1>1. CASE UNCHANGED vars
  BY <1>1 DEF vars, TypeOK
<1>2. ASSUME NEW p \in Peers, Connect(p) PROVE TypeOK'
  <2>1. inbox' \in Seq(Request)
    BY <1>2, AppendFacts, RequestsSent DEF Connect, Send, TypeOK
  <2> QED BY <1>2, <2>1 DEF Connect, Send, TypeOK
<1>3. ASSUME NEW h \in Handles, Discover(h) PROVE inbox' \in Seq(Request)
  <2>1. PICK n \in 0..MaxSteps - 1 : inbox' = Append(inbox, Step(h, {}, n))
    BY <1>3 DEF Discover, Send
  <2>2. Step(h, {}, n) \in Request
    BY <2>1, RequestsSent
  <2> QED BY <2>1, <2>2, AppendFacts DEF TypeOK
<1>4. CASE List
  <2>1. conn \in Handles
    BY <1>4 DEF List, TypeOK
  <2>2. inbox' \in Seq(Request)
    BY <1>3, <1>4, <2>1 DEF List
  <2> QED BY <1>4, <2>2 DEF List, Discover, Send, TypeOK
<1>5. CASE Use
  <2>1. conn \in Handles /\ tables \in SUBSET Peers
    BY <1>5 DEF Use, TypeOK
  <2>2. inbox' \in Seq(Request)
    BY <1>5, <2>1, AppendFacts, RequestsSent DEF Use, Send, TypeOK
  <2> QED BY <1>5, <2>2 DEF Use, Send, TypeOK
<1>6. CASE Disconnect
  <2>1. conn \in Handles
    BY <1>6 DEF Disconnect, TypeOK
  <2>2. inbox' \in Seq(Request)
    BY <1>6, <2>1, AppendFacts, RequestsSent DEF Disconnect, Send, TypeOK
  <2> QED BY <1>6, <2>2 DEF Disconnect, Send, TypeOK
<1>7. CASE DisconnectOffline
  BY <1>7 DEF DisconnectOffline, Forget, TypeOK
<1>8. CASE TimesOut
  BY <1>8, ReturnsType DEF TimesOut, TypeOK
<1>9. CASE GivesUp \/ Interrupt
  <2>0. sigint' \in BOOLEAN
    BY <1>9, Zenon DEF GivesUp, Interrupt, TypeOK
  <2>1. CASE Send([op |-> "close", to |-> opening]) /\ repl = "opening"
    <3>1. opening \in Handles
      BY <2>1 DEF LastIsAwaited, TypeOK
    <3>2. inbox' \in Seq(Request)
      BY <2>1, <3>1, AppendFacts, RequestsSent DEF Send, TypeOK
    <3>3. UNCHANGED link /\ UNCHANGED client /\ UNCHANGED named
      BY <1>9, <2>1 DEF GivesUp, Interrupt, Send
    <3>4. /\ repl' \in {"aborting", "interrupted", "killed", "cut", "prompt"}
          /\ opening' \in {opening, None}
      BY <1>9, <2>1 DEF GivesUp, Interrupt, Returns
    <3>5. UNCHANGED shell
      BY <1>9, <2>1 DEF GivesUp, Interrupt, Returns
    <3> QED BY <2>0, <3>1, <3>2, <3>3, <3>4, <3>5 DEF TypeOK
  <2>2. CASE UNCHANGED air
    <3>1. /\ repl' \in {"aborting", "interrupted", "killed", "cut", "prompt"}
          /\ opening' \in {opening, None}
          /\ UNCHANGED <<client, named>>
      BY <1>9, <2>2 DEF GivesUp, Interrupt, Returns
    <3>2. UNCHANGED shell
      BY <1>9, <2>2 DEF GivesUp, Interrupt, Returns
    <3> QED BY <2>0, <2>2, <3>1, <3>2 DEF TypeOK
  <2> QED BY <1>9, <2>1, <2>2 DEF GivesUp, Interrupt
<1>10. ASSUME inbox # <<>>, inbox' = Tail(inbox)
       PROVE  inbox' \in Seq(Request) /\ Head(inbox) \in Request
  BY <1>10, TailFacts DEF TypeOK
<1>11. CASE ServeOpen
  <2>1. inbox' \in Seq(Request) /\ Head(inbox).to \in Peers
    BY <1>10, <1>11, RequestFields DEF ServeOpen, Serve
  <2>2. link' \in [Handles -> Peers \cup {None}]
    BY <1>11, <2>1 DEF ServeOpen, TypeOK
  <2>3. /\ repl' \in {"prompt", "killed", "cut", "ended"} \cup Finally \cup Busy
        /\ {opening', conn'} \subseteq Handles \cup {None}
        /\ mac' \in Peers \cup {None} /\ tables' \subseteq Peers
    BY <1>11, AnsweredType DEF ServeOpen, Answered, Ignored, TypeOK
  <2> QED BY <1>11, <2>1, <2>2, <2>3 DEF ServeOpen, Serve, TypeOK
<1>12. CASE ServeClose \/ ServeUse
  <2>1. inbox' \in Seq(Request) /\ Head(inbox).to \in Handles
    BY <1>10, <1>12, RequestFields DEF ServeClose, ServeUse, Serve
  <2>2. link' \in [Handles -> Peers \cup {None}]
    BY <1>12, <2>1 DEF ServeClose, ServeUse, TypeOK
  <2>3. Answered /\ UNCHANGED <<sigint, named, client>>
    BY <1>12 DEF ServeClose, ServeUse, Serve
  <2> QED BY <2>1, <2>2, <2>3, AnsweredType DEF TypeOK
<1>13. CASE ServeDiscover
  <2> DEFINE r == Head(inbox)
  <2>1. /\ inbox # <<>> /\ r \in Request /\ r.to \in Handles
        /\ r.found \subseteq Peers /\ r.left \in 0..MaxSteps
    BY <1>13, TailFacts, RequestFields DEF ServeDiscover, TypeOK
  <2>2. CASE inbox' = Tail(inbox) /\ Answered
    <3>1. inbox' \in Seq(Request)
      BY <1>10, <2>1, <2>2
    <3>2. UNCHANGED <<sigint, named, client, link>>
      BY <1>13 DEF ServeDiscover
    <3> QED BY <2>2, <3>1, <3>2, AnsweredType DEF TypeOK
  <2>3. CASE ~(inbox' = Tail(inbox) /\ Answered)
    <3>1. link[r.to] \in Peers
      BY <1>13, <2>1, <2>3 DEF ServeDiscover, TypeOK
    <3> DEFINE found == r.found \cup {link[r.to]}
    <3>2. found \in SUBSET Peers
      BY <2>1, <3>1
    <3>3. CASE inbox' = <<Step(r.to, found, r.left - 1)>> /\ r.left > 0
      <4>1. r.left - 1 \in 0..MaxSteps
        BY <2>1, <3>3
      <4>2. Step(r.to, found, r.left - 1) \in Request
        BY <2>1, <3>2, <4>1, RequestsSent, Zenon
      <4>3. inbox' \in Seq(Request)
        BY <3>3, <4>2
      <4>4. UNCHANGED <<repl, sigint, opening, shell, named, client, link>> \/ r.left = 0
        BY <1>13, <2>3 DEF ServeDiscover
      <4>5. UNCHANGED <<repl, sigint, opening, shell, named, client, link>>
        BY <3>3, <4>4
      <4> QED BY <4>3, <4>5 DEF TypeOK
    <3>4. CASE inbox' = <<>> /\ Indexed(found)
      BY <1>13, <3>2, <3>4 DEF ServeDiscover, Indexed, TypeOK
    <3> QED BY <1>13, <2>3, <3>3, <3>4 DEF ServeDiscover
  <2> QED BY <2>2, <2>3
<1>14. CASE LinkOpens
  <2>1. opening \in Handles
    BY <1>14 DEF LinkOpens, LastIsAwaited, TypeOK
  <2>2. inbox' \in Seq(Request) /\ UNCHANGED link
    BY <1>3, <1>14, <2>1 DEF LinkOpens, Discover, Send, TypeOK
  <2> QED BY <1>14, <2>1, <2>2 DEF LinkOpens, Discover, TypeOK
<1>15. ASSUME NEW h \in Handles, LinkDrops(h) PROVE TypeOK'
  <2>1. CASE Returns
    BY <1>15, <2>1, ReturnsType DEF LinkDrops, TypeOK
  <2>2. CASE UNCHANGED <<repl, opening, shell>>
    BY <1>15, <2>2 DEF LinkDrops, TypeOK
  <2> QED BY <1>15, <2>1, <2>2 DEF LinkDrops
<1>16. CASE Session
  <2>1. repl' \in {repl, "killed"} /\ UNCHANGED <<sigint, opening, named, shell>>
    BY <1>16 DEF Session, Attaches, Loses, Releases, Clears, Abandons, Cancelled
  <2>2. inbox' \in Seq(Request) /\ link' \in [Handles -> Peers \cup {None}]
    <3>1. NoTraffic \/ UNCHANGED air
      BY <1>16 DEF Session, Attaches, Loses, Releases, Clears, Abandons
    <3> QED BY <3>1, AirType
  <2>3. phase' \in {"down", "up", "lost", "disc", "dead"}
    BY <1>16 DEF Session, Attaches, Loses, Releases, Clears, Abandons,
       Sess!Attach, Sess!Lose, Sess!Release, Sess!Clear, Sess!Abandon
  <2>4. writer' \in BOOLEAN /\ closing' \in BOOLEAN
    BY <1>16, Zenon DEF Session, Attaches, Loses, Releases, Clears, Abandons,
       Sess!Attach, Sess!Lose, Sess!Release, Sess!Clear, Sess!Abandon, TypeOK
  <2> QED BY <2>1, <2>2, <2>3, <2>4 DEF TypeOK
<1>17. CASE Ending
  <2>1. repl' \in {repl, "leaving", "gathering", "ended"}
        /\ UNCHANGED <<sigint, opening, named, shell, phase, writer>>
    BY <1>17 DEF Ending, Leaves, Stopped, Gathered, Terminated, vars, Sess!Close
  <2>2. inbox' \in Seq(Request) /\ link' \in [Handles -> Peers \cup {None}]
    <3>1. NoTraffic \/ UNCHANGED air
      BY <1>17 DEF Ending, Leaves, Stopped, Gathered, Terminated, vars
    <3> QED BY <3>1, AirType
  <2>3. closing' \in BOOLEAN
    BY <1>17, Zenon DEF Ending, Leaves, Stopped, Gathered, Terminated, vars,
       Sess!Close, TypeOK
  <2> QED BY <2>1, <2>2, <2>3 DEF TypeOK
<1> QED
  BY <1>1, <1>2, <1>4, <1>5, <1>6, <1>7, <1>8, <1>9, <1>11, <1>12, <1>13, <1>14,
     <1>15, <1>16, <1>17
  DEF Next, Commands, Bleconnd

-----------------------------------------------------------------------------

\* Connections are only lost.
Shrinks == \A h \in Handles : link'[h] \in {link[h], None}

\* The first request was served.
Served == inbox # <<>> /\ inbox' = Tail(inbox)

LEMMA ServedFacts ==
  ASSUME TypeOK, Served
  PROVE  /\ \A i \in 1..Len(inbox') : inbox'[i] = inbox[i + 1] /\ i + 1 \in 1..Len(inbox)
         /\ Len(inbox) \in Nat /\ Len(inbox') = Len(inbox) - 1
         /\ Len(inbox) # 1 => inbox' # <<>> /\ Last' = Last
<1>1. inbox \in Seq(Request)
  BY DEF TypeOK
<1>2. /\ inbox' \in Seq(Request) /\ Len(inbox') = Len(inbox) - 1
      /\ Len(inbox) \in Nat /\ Len(inbox) > 0
      /\ \A i \in 1..Len(inbox') : inbox'[i] = inbox[i + 1] /\ i + 1 \in 1..Len(inbox)
  BY <1>1, TailFacts DEF Served
<1>3. ASSUME Len(inbox) # 1 PROVE inbox' # <<>> /\ Last' = Last
  <2>1. Len(inbox') > 0 /\ Len(inbox') \in 1..Len(inbox')
    BY <1>2, <1>3
  <2>2. inbox'[Len(inbox')] = inbox[Len(inbox') + 1]
    BY <1>2, <2>1
  <2>3. Len(inbox') + 1 = Len(inbox)
    BY <1>2
  <2> QED BY <2>1, <2>2, <2>3 DEF Last
<1> QED BY <1>2, <1>3

\* Serving a request, and losing connections, keeps the requests in order.
LEMMA ShorterInbox ==
  ASSUME TypeOK, Order, Shrinks,
         UNCHANGED inbox \/ Served \/ inbox' = <<>>
  PROVE  /\ \A i, j \in 1..Len(inbox') :
              i < j /\ inbox'[i].op = "open" => inbox'[j].op = "open"
         /\ UsesKnow'
         /\ conn # None => \A i \in 1..Len(inbox') : inbox'[i].op # "open"
<1>1. inbox \in Seq(Request) /\ \A i \in 1..Len(inbox) : inbox[i] \in Request
  BY DEF TypeOK
<1>2. ASSUME NEW i \in 1..Len(inbox), inbox[i].op = "use" PROVE inbox[i].to \in Handles
  BY <1>1, <1>2, RequestFields
<1>3. CASE UNCHANGED inbox
  BY <1>2, <1>3 DEF Order, OpensAreLast, UsesKnow, Shrinks
<1>4. CASE inbox' = <<>>
  BY <1>4 DEF UsesKnow
<1>5. CASE Served
  <2>1. /\ \A i \in 1..Len(inbox') : inbox'[i] = inbox[i + 1] /\ i + 1 \in 1..Len(inbox)
        /\ Len(inbox) \in Nat /\ Len(inbox') \in Nat
    BY <1>5, ServedFacts
  <2>2. \A i, j \in 1..Len(inbox') :
          i < j /\ inbox'[i].op = "open" => inbox'[j].op = "open"
    <3> SUFFICES ASSUME NEW i \in 1..Len(inbox'), NEW j \in 1..Len(inbox'),
                        i < j, inbox'[i].op = "open"
                 PROVE  inbox'[j].op = "open"
      OBVIOUS
    <3>1. i + 1 \in 1..Len(inbox) /\ j + 1 \in 1..Len(inbox) /\ i + 1 < j + 1
      BY <2>1
    <3>2. inbox[i + 1].op = "open"
      BY <2>1
    <3>3. inbox[j + 1].op = "open"
      BY <3>1, <3>2 DEF Order, OpensAreLast
    <3> QED BY <2>1, <3>3
  <2>3. UsesKnow'
    <3> SUFFICES ASSUME NEW i \in 1..Len(inbox'), inbox'[i].op = "use",
                        link'[inbox'[i].to] # None
                 PROVE  inbox'[i].about = {link'[inbox'[i].to]}
      BY DEF UsesKnow
    <3>1. inbox'[i] = inbox[i + 1] /\ i + 1 \in 1..Len(inbox)
      BY <2>1
    <3>2. link'[inbox[i + 1].to] = link[inbox[i + 1].to]
      BY <1>2, <3>1 DEF Shrinks
    <3>3. inbox[i + 1].about = {link[inbox[i + 1].to]}
      BY <3>1, <3>2 DEF Order, UsesKnow
    <3> QED BY <3>1, <3>2, <3>3
  <2>4. ASSUME conn # None, NEW i \in 1..Len(inbox') PROVE inbox'[i].op # "open"
    <3>1. inbox[i + 1].op # "open"
      BY <2>1, <2>4 DEF Order, OpensAreLast
    <3> QED BY <2>1, <3>1
  <2> QED BY <2>2, <2>3, <2>4
<1> QED BY <1>3, <1>4, <1>5

\* A command that is over waits for nothing, and keeps or forgets the device.
LEMMA OverKeeps ==
  ASSUME TypeOK, Order, Shrinks,
         UNCHANGED inbox \/ Served \/ inbox' = <<>>,
         repl' \notin Busy, UNCHANGED shell \/ Forget
  PROVE  Order'
<1>1. OpensAreLast'
  BY ShorterInbox DEF OpensAreLast, Busy, shell, Forget
<1>2. LastIsAwaited'
  BY DEF LastIsAwaited, Busy, Asking
<1>3. ShellIsOfMac'
  BY DEF Order, ShellIsOfMac, shell, Forget, Shrinks, TypeOK
<1> QED BY <1>1, <1>2, <1>3, ShorterInbox DEF Order

\* A command that goes on waiting does so for the same request.
LEMMA WaitKeeps ==
  ASSUME TypeOK, Order, Shrinks,
         UNCHANGED inbox \/ (Served /\ ~Awaited),
         UNCHANGED <<repl, opening, named, shell>>
  PROVE  Order'
<1>1. OpensAreLast'
  <2>1. repl = "opening" => inbox = <<>>
    BY DEF Order, OpensAreLast
  <2>2. repl' = "opening" => inbox' = <<>>
    BY <2>1 DEF Served
  <2> QED BY <2>2, ShorterInbox DEF OpensAreLast, shell
<1>2. ASSUME repl \in Asking PROVE inbox' # <<>> /\ Last' = Last
  <2>1. inbox # <<>>
    BY <1>2 DEF Order, LastIsAwaited
  <2>2. CASE UNCHANGED inbox
    BY <2>1, <2>2 DEF Last
  <2>3. CASE Served /\ ~Awaited
    <3>1. Len(inbox) # 1
      BY <1>2, <2>3 DEF Awaited
    <3> QED BY <2>3, <3>1, ServedFacts
  <2> QED BY <2>2, <2>3
<1>3. opening # None /\ repl = "opening" => opening \in Handles
  BY DEF TypeOK
<1>4. LastIsAwaited'
  BY <1>2, <1>3 DEF Order, LastIsAwaited, Asking, shell, Shrinks
<1>5. ShellIsOfMac'
  BY DEF Order, ShellIsOfMac, shell, Shrinks, TypeOK
<1> QED BY <1>1, <1>4, <1>5, ShorterInbox DEF Order

\* A request that is sent is the last; it goes after one to open a connection
\* only if it is another one of these.
LEMMA SentKeeps ==
  ASSUME TypeOK, Order, NEW r \in Request, inbox' = Append(inbox, r), UNCHANGED link,
         \/ r.op = "open"
         \/ \A i \in 1..Len(inbox) : inbox[i].op # "open",
         r.op = "use" /\ link[r.to] # None => r.about = {link[r.to]}
  PROVE  /\ \A i, j \in 1..Len(inbox') :
              i < j /\ inbox'[i].op = "open" => inbox'[j].op = "open"
         /\ UsesKnow' /\ inbox' # <<>> /\ Last' = r
         /\ r.op # "open" => \A i \in 1..Len(inbox') : inbox'[i].op # "open"
<1>1. /\ Len(inbox') = Len(inbox) + 1 /\ Len(inbox) \in Nat /\ inbox' # <<>>
      /\ \A i \in 1..Len(inbox) : inbox'[i] = inbox[i]
      /\ inbox'[Len(inbox) + 1] = r
  BY AppendFacts DEF TypeOK
<1>2. \A i \in 1..Len(inbox') : i \in 1..Len(inbox) \/ i = Len(inbox) + 1
  BY <1>1
<1>3. \A i, j \in 1..Len(inbox') :
        i < j /\ inbox'[i].op = "open" => inbox'[j].op = "open"
  BY <1>1, <1>2 DEF Order, OpensAreLast
<1>4. UsesKnow'
  BY <1>1, <1>2 DEF Order, UsesKnow
<1>5. r.op # "open" => \A i \in 1..Len(inbox') : inbox'[i].op # "open"
  BY <1>1, <1>2
<1> QED BY <1>1, <1>3, <1>4, <1>5 DEF Last

\* Whatever an answer ends or leaves waiting, the order of requests is kept.
LEMMA AnswerKeeps ==
  ASSUME TypeOK, Order, Shrinks, Served, Answered, UNCHANGED named
  PROVE  Order'
<1>1. CASE Ignored
  BY <1>1, WaitKeeps DEF Ignored
<1>2. CASE Returns
  BY <1>2, OverKeeps DEF Returns, Busy, Asking
<1> QED BY <1>1, <1>2 DEF Answered

\* Every action keeps Order.
LEMMA OrderStep == TypeOK /\ Order /\ [Next]_vars => Order'
<1> SUFFICES ASSUME TypeOK, Order, [Next]_vars PROVE Order'
  OBVIOUS
<1> USE BlectlAssumption
<1>0. UNCHANGED link \/ NoTraffic => Shrinks
  BY DEF Shrinks, NoTraffic
<1>1. CASE UNCHANGED vars
  BY <1>0, <1>1, WaitKeeps DEF vars, air
<1>2. ASSUME NEW p \in Peers, Connect(p) PROVE Order'
  <2> DEFINE r == [op |-> "open", to |-> p]
  <2>1. r \in Request /\ inbox' = Append(inbox, r) /\ UNCHANGED link
    BY <1>2, RequestsSent DEF Connect, Send
  <2>2. /\ \A i, j \in 1..Len(inbox') :
             i < j /\ inbox'[i].op = "open" => inbox'[j].op = "open"
        /\ UsesKnow' /\ inbox' # <<>> /\ Last' = r
    BY <2>1, SentKeeps
  <2>3. repl' = "asked" /\ named' = p /\ conn = None /\ UNCHANGED shell
    BY <1>2 DEF Connect
  <2>4. OpensAreLast' /\ ShellIsOfMac'
    BY <2>1, <2>2, <2>3 DEF OpensAreLast, Order, ShellIsOfMac, shell
  <2>5. LastIsAwaited'
    BY <2>2, <2>3 DEF LastIsAwaited, Op, Asking, shell
  <2> QED BY <2>2, <2>4, <2>5 DEF Order
<1>3. ASSUME NEW h \in Handles, Discover(h), conn' = h, link[h] \in {None, mac'},
             tables' = tables, tables # {} => tables = {mac'},
             \A i \in 1..Len(inbox) : inbox[i].op # "open"
      PROVE  Order'
  <2>1. PICK n \in 0..MaxSteps - 1 : inbox' = Append(inbox, Step(h, {}, n))
    BY <1>3 DEF Discover, Send
  <2> DEFINE r == Step(h, {}, n)
  <2>2. r \in Request /\ UNCHANGED link /\ r.op = "discover" /\ r.to = h /\ r.found = {}
    <3>1. n \in 0..MaxSteps /\ {} \in SUBSET Peers
      BY <2>1
    <3>2. r \in Request
      BY <3>1, RequestsSent, Zenon
    <3>3. UNCHANGED link
      BY <1>3 DEF Discover, Send
    <3> QED BY <3>2, <3>3 DEF Step
  <2>3. /\ \A i, j \in 1..Len(inbox') :
             i < j /\ inbox'[i].op = "open" => inbox'[j].op = "open"
        /\ UsesKnow' /\ inbox' # <<>> /\ Last' = r
        /\ \A i \in 1..Len(inbox') : inbox'[i].op # "open"
    BY <1>3, <2>1, <2>2, SentKeeps
  <2>4. repl' = "discovering"
    BY <1>3 DEF Discover
  <2>5. OpensAreLast' /\ ShellIsOfMac'
    BY <1>3, <2>2, <2>3, <2>4 DEF OpensAreLast, ShellIsOfMac
  <2>6. LastIsAwaited'
    BY <1>3, <2>2, <2>3, <2>4 DEF LastIsAwaited, Op, Asking
  <2> QED BY <2>3, <2>5, <2>6 DEF Order
<1>4. CASE List
  <2>1. conn \in Handles /\ Discover(conn) /\ UNCHANGED shell
    BY <1>4 DEF List, TypeOK
  <2>2. /\ link[conn] \in {None, mac} /\ (tables # {} => tables = {mac})
        /\ \A i \in 1..Len(inbox) : inbox[i].op # "open"
    BY <2>1 DEF Order, OpensAreLast, ShellIsOfMac
  <2> QED BY <1>3, <2>1, <2>2 DEF shell
<1>5. CASE Use
  <2> DEFINE r == [op |-> "use", to |-> conn, about |-> tables]
  <2>1. conn \in Handles /\ tables \in SUBSET Peers /\ tables # {}
    BY <1>5 DEF Use, TypeOK
  <2>2. r \in Request /\ inbox' = Append(inbox, r) /\ UNCHANGED link
    BY <1>5, <2>1, RequestsSent DEF Use, Send
  <2>3. /\ link[conn] # None => tables = {link[conn]}
        /\ \A i \in 1..Len(inbox) : inbox[i].op # "open"
    BY <2>1 DEF Order, OpensAreLast, ShellIsOfMac
  <2>4. /\ \A i, j \in 1..Len(inbox') :
             i < j /\ inbox'[i].op = "open" => inbox'[j].op = "open"
        /\ UsesKnow' /\ inbox' # <<>> /\ Last' = r
        /\ \A i \in 1..Len(inbox') : inbox'[i].op # "open"
    BY <2>2, <2>3, SentKeeps
  <2>5. repl' = "using" /\ UNCHANGED shell
    BY <1>5 DEF Use
  <2>6. OpensAreLast' /\ ShellIsOfMac'
    BY <2>2, <2>4, <2>5 DEF OpensAreLast, Order, ShellIsOfMac, shell
  <2>7. LastIsAwaited'
    BY <2>1, <2>4, <2>5 DEF LastIsAwaited, Op, Asking, shell
  <2> QED BY <2>4, <2>6, <2>7 DEF Order
<1>6. ASSUME NEW h \in Handles, Send([op |-> "close", to |-> h]), UNCHANGED shell,
             repl' \in {"closing", "aborting", "interrupted"},
             repl' = "closing" <=> conn # None,
             \A i \in 1..Len(inbox) : inbox[i].op # "open"
      PROVE  Order'
  <2> DEFINE r == [op |-> "close", to |-> h]
  <2>1. r \in Request /\ inbox' = Append(inbox, r) /\ UNCHANGED link
    BY <1>6, RequestsSent DEF Send
  <2>2. /\ \A i, j \in 1..Len(inbox') :
             i < j /\ inbox'[i].op = "open" => inbox'[j].op = "open"
        /\ UsesKnow' /\ inbox' # <<>> /\ Last' = r
        /\ \A i \in 1..Len(inbox') : inbox'[i].op # "open"
    BY <1>6, <2>1, SentKeeps
  <2>3. OpensAreLast' /\ ShellIsOfMac'
    BY <1>6, <2>1, <2>2 DEF OpensAreLast, Order, ShellIsOfMac, shell
  <2>4. LastIsAwaited'
    BY <1>6, <2>2 DEF LastIsAwaited, Op, Asking, shell
  <2> QED BY <2>2, <2>3, <2>4 DEF Order
<1>7. CASE Disconnect
  <2>1. conn \in Handles /\ \A i \in 1..Len(inbox) : inbox[i].op # "open"
    BY <1>7 DEF Disconnect, Order, OpensAreLast, TypeOK
  <2> QED BY <1>6, <1>7, <2>1 DEF Disconnect
<1>8. CASE DisconnectOffline
  BY <1>0, <1>8, OverKeeps DEF DisconnectOffline, air, Busy, Asking
<1>9. CASE TimesOut
  BY <1>0, <1>9, OverKeeps DEF TimesOut, Returns, air, Busy, Asking
<1>10. CASE GivesUp \/ Interrupt
  <2>1. CASE /\ Send([op |-> "close", to |-> opening]) /\ repl = "opening"
             /\ repl' \in {"aborting", "interrupted"} /\ UNCHANGED shell
    <3>1. opening \in Handles /\ conn = None /\ inbox = <<>>
      BY <2>1 DEF Order, OpensAreLast, LastIsAwaited, TypeOK
    <3> QED BY <1>6, <2>1, <3>1
  <2>2. CASE Returns /\ UNCHANGED air
    BY <1>0, <2>2, OverKeeps DEF Returns, air, Busy, Asking
  <2>3. CASE repl' \in {"killed", "cut"} /\ UNCHANGED air /\ UNCHANGED shell
    BY <1>0, <2>3, OverKeeps DEF air, Busy, Asking
  <2> QED BY <1>10, <2>1, <2>2, <2>3 DEF GivesUp, Interrupt
<1>11. CASE ServeClose \/ ServeUse
  <2>1. Served /\ Answered /\ UNCHANGED named
    BY <1>11 DEF ServeClose, ServeUse, Serve, Served
  <2>2. Shrinks
    BY <1>11 DEF ServeClose, ServeUse, Shrinks, TypeOK
  <2> QED BY <2>1, <2>2, AnswerKeeps
<1>12. CASE LinkOpens
  <2>1. /\ opening \in Handles /\ conn = None /\ inbox = <<>> /\ tables = {}
        /\ link[opening] = named
    BY <1>12 DEF LinkOpens, Order, OpensAreLast, LastIsAwaited, ShellIsOfMac, TypeOK
  <2>2. conn' = opening /\ mac' = named /\ tables' = tables
    BY <1>12 DEF LinkOpens
  <2>3. CASE Discover(opening)
    BY <1>3, <2>1, <2>2, <2>3
  <2>4. CASE repl' = "prompt" /\ UNCHANGED air
    BY <2>1, <2>2, <2>4
    DEF Order, OpensAreLast, LastIsAwaited, ShellIsOfMac, UsesKnow, Asking, air
  <2> QED BY <1>12, <2>3, <2>4 DEF LinkOpens
<1>13. ASSUME NEW h \in Handles, LinkDrops(h) PROVE Order'
  <2>1. Shrinks /\ UNCHANGED inbox
    BY <1>13 DEF LinkDrops, Shrinks, TypeOK
  <2>2. CASE Returns
    BY <2>1, <2>2, OverKeeps DEF Returns, Busy, Asking
  <2>3. CASE UNCHANGED <<repl, opening, shell>>
    BY <1>13, <2>1, <2>3, WaitKeeps DEF LinkDrops
  <2> QED BY <1>13, <2>2, <2>3 DEF LinkDrops
<1>14. CASE Attaches \/ Loses \/ Releases
  BY <1>0, <1>14, WaitKeeps DEF Attaches, Loses, Releases, air
<1>15. CASE Clears \/ Abandons
  <2>1. (NoTraffic \/ UNCHANGED air) /\ UNCHANGED shell /\ repl' \notin Busy
    BY <1>15 DEF Clears, Abandons, Cancelled, Busy, Asking
  <2> QED BY <1>0, <2>1, OverKeeps DEF NoTraffic, air
<1>16. CASE Ending
  <2>1. CASE Terminated
    BY <1>1, <2>1 DEF Terminated
  <2>2. CASE Leaves \/ Stopped \/ Gathered
    <3>1. (NoTraffic \/ UNCHANGED air) /\ UNCHANGED shell /\ repl' \notin Busy
      BY <2>2 DEF Leaves, Stopped, Gathered, Busy, Asking
    <3> QED BY <1>0, <3>1, OverKeeps DEF NoTraffic, air
  <2> QED BY <1>16, <2>1, <2>2 DEF Ending
<1>17. CASE ServeOpen
  <2>1. Served /\ Head(inbox).op = "open" /\ UNCHANGED named
    BY <1>17 DEF ServeOpen, Serve, Served
  <2>2. /\ inbox[1] = Head(inbox) /\ 1 \in 1..Len(inbox) /\ Len(inbox) \in Nat
        /\ Head(inbox) \in Request
    BY <2>1, TailFacts DEF Served, TypeOK
  <2>3. CASE UNCHANGED link /\ Answered
    BY <1>0, <2>1, <2>3, AnswerKeeps
  <2>4. ASSUME NEW h \in Handles, link[h] = None,
               link' = [link EXCEPT ![h] = Head(inbox).to],
               Ignored \/ (Awaited /\ repl' = "opening" /\ opening' = h /\ UNCHANGED shell)
        PROVE  Order'
    <3>1. \A j \in 1..Len(inbox) : inbox[j].op = "open"
      <4> TAKE j \in 1..Len(inbox)
      <4>1. CASE j = 1
        BY <2>1, <2>2, <4>1
      <4>2. CASE 1 < j
        BY <2>1, <2>2, <4>2 DEF Order, OpensAreLast
      <4> QED BY <4>1, <4>2
    <3>2. conn = None /\ repl # "opening" /\ tables = {}
      BY <2>1, <2>2 DEF Order, OpensAreLast, ShellIsOfMac, Served
    <3>3. /\ \A i \in 1..Len(inbox') : inbox'[i] = inbox[i + 1] /\ i + 1 \in 1..Len(inbox)
          /\ Len(inbox') = Len(inbox) - 1
          /\ Len(inbox) # 1 => inbox' # <<>> /\ Last' = Last
      BY <2>1, ServedFacts
    <3>4. \A i \in 1..Len(inbox') : inbox'[i].op = "open"
      BY <3>1, <3>3
    <3>5. UNCHANGED shell
      BY <2>4 DEF Ignored
    <3>6. UsesKnow' /\ ShellIsOfMac'
      BY <3>2, <3>4, <3>5 DEF UsesKnow, ShellIsOfMac, shell
    <3>7. CASE Ignored
      <4>1. OpensAreLast'
        BY <3>2, <3>4, <3>5, <3>7 DEF OpensAreLast, Ignored, shell
      <4>2. repl \in Asking => inbox' # <<>> /\ Last' = Last
        BY <3>3, <3>7 DEF Ignored, Awaited
      <4>3. LastIsAwaited'
        BY <2>1, <3>2, <3>5, <3>7, <4>2
        DEF Order, LastIsAwaited, Ignored, Asking, shell
      <4> QED BY <3>6, <4>1, <4>3 DEF Order
    <3>8. CASE Awaited /\ repl' = "opening" /\ opening' = h
      <4>1. inbox' = <<>> /\ Last = Head(inbox) /\ Last.op = "open"
        <5>1. Len(inbox) = 1 /\ Last = Head(inbox)
          BY <2>2, <3>8 DEF Awaited, Last
        <5>2. inbox' \in Seq(Request) /\ Len(inbox') = 0
          BY <3>3, <5>1, <2>1, TailFacts DEF TypeOK, Served
        <5> QED BY <2>1, <5>1, <5>2
      <4>2. repl = "asked" /\ Last.to = named
        BY <3>8, <4>1 DEF Order, LastIsAwaited, Awaited, Op, Asking
      <4>3. OpensAreLast'
        BY <3>2, <3>5, <4>1 DEF OpensAreLast, shell
      <4>4. link'[h] = named /\ h # None
        BY <2>4, <4>1, <4>2 DEF TypeOK
      <4>5. LastIsAwaited'
        BY <2>1, <3>2, <3>5, <3>8, <4>4 DEF LastIsAwaited, Asking, shell
      <4> QED BY <3>6, <4>3, <4>5 DEF Order
    <3> QED BY <2>4, <3>7, <3>8
  <2> QED BY <1>17, <2>3, <2>4 DEF ServeOpen
<1>18. CASE ServeDiscover
  <2> DEFINE r == Head(inbox)
             found == r.found \cup {link[r.to]}
  <2>1. /\ inbox # <<>> /\ r.op = "discover" /\ r \in Request
        /\ inbox[1] = r /\ UNCHANGED <<named, link>>
    BY <1>18, TailFacts DEF ServeDiscover, TypeOK
  <2>2. CASE inbox' = Tail(inbox) /\ Answered
    BY <1>0, <2>1, <2>2, AnswerKeeps DEF Served
  <2>3. CASE Awaited /\ link[r.to] # None
    <3>1. Last = r
      BY <2>1, <2>3 DEF Awaited, Last
    <3>2. repl = "discovering"
      BY <2>1, <2>3, <3>1 DEF Order, LastIsAwaited, Awaited, Op, Asking
    <3>3. conn # None /\ r.to = conn /\ r.found \subseteq {mac}
      BY <3>1, <3>2 DEF Order, LastIsAwaited
    <3>4. link[conn] = mac /\ found = {mac}
      BY <2>3, <3>3 DEF Order, ShellIsOfMac
    <3>5. CASE /\ inbox' = <<Step(r.to, found, r.left - 1)>>
               /\ UNCHANGED <<repl, opening, shell>>
      <4> DEFINE n == r.left - 1
                 q == Step(r.to, found, n)
      <4>1. q.op = "discover" /\ q.to = conn /\ q.found = {mac}
        BY <3>3, <3>4 DEF Step
      <4> HIDE DEF q
      <4>2. Len(inbox') = 1 /\ inbox'[1] = q /\ inbox' # <<>> /\ Last' = q
        BY <3>5 DEF q, Last
      <4>3. OpensAreLast' /\ UsesKnow'
        BY <3>2, <3>5, <4>1, <4>2 DEF OpensAreLast, UsesKnow
      <4>4. LastIsAwaited'
        BY <3>2, <3>3, <3>5, <4>1, <4>2 DEF LastIsAwaited, Op, Asking, shell
      <4>5. ShellIsOfMac'
        BY <2>1, <3>5 DEF Order, ShellIsOfMac, shell
      <4> QED BY <4>3, <4>4, <4>5 DEF Order
    <3>6. CASE inbox' = <<>> /\ Indexed(found)
      <4>1. repl' = "prompt" /\ tables' = {mac} /\ UNCHANGED <<conn, mac>>
        BY <3>4, <3>6 DEF Indexed
      <4> QED BY <2>1, <3>3, <3>4, <3>6, <4>1
          DEF Order, OpensAreLast, LastIsAwaited, ShellIsOfMac, UsesKnow, Asking
    <3>7. ASSUME ~(inbox' = Tail(inbox) /\ Answered)
          PROVE  \/ /\ inbox' = <<Step(r.to, found, r.left - 1)>>
                    /\ UNCHANGED <<repl, opening, shell>>
                 \/ inbox' = <<>> /\ Indexed(found)
      BY <1>18, <3>7 DEF ServeDiscover
    <3> QED BY <2>2, <3>5, <3>6, <3>7
  <2> QED BY <1>18, <2>2, <2>3 DEF ServeDiscover
<1> QED
  BY <1>1, <1>2, <1>4, <1>5, <1>7, <1>8, <1>9, <1>10, <1>11, <1>12, <1>13, <1>14,
     <1>15, <1>16, <1>17, <1>18
  DEF Next, Commands, Bleconnd, Session

-----------------------------------------------------------------------------

LEMMA InitIInv == Init => IInv
<1> SUFFICES ASSUME Init PROVE IInv
  OBVIOUS
<1>1. inbox = <<>> /\ inbox \in Seq(Request)
  BY DEF Init
<1>2. TypeOK
  BY <1>1 DEF Init, TypeOK, Sess!Init
<1>3. Order
  BY <1>1 DEF Init, Order, OpensAreLast, LastIsAwaited, ShellIsOfMac, UsesKnow, Asking
<1> QED BY <1>2, <1>3 DEF IInv

LEMMA Invariance == Spec => []IInv
<1>1. IInv /\ [Next]_vars => IInv'
  BY TypeStep, OrderStep DEF IInv, Order
<1> QED BY <1>1, InitIInv, PTL DEF Spec

\* Every variable keeps its type, whatever the user types and the access
\* point does.
THEOREM TypeCorrect == Spec => []TypeOK
<1>1. IInv => TypeOK
  BY DEF IInv
<1> QED BY <1>1, Invariance, PTL

\* What do_read, do_write and do_notify send reaches the device the user named
\* in do_connect, with attribute handles out of that device's database.
THEOREM DeviceIsRight == Spec => []RightDevice
<1>1. IInv => RightDevice
  BY DEF IInv, Order, ShellIsOfMac, UsesKnow, RightDevice
<1> QED BY <1>1, Invariance, PTL

=============================================================================
