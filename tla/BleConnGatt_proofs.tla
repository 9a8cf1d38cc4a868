------------------------- MODULE BleConnGatt_proofs -------------------------
(***************************************************************************)
(* What holds of the GATT layer for any callers, handles and ids, and that *)
(* it implements ConnLease.  The first invariant relates callers, tables   *)
(* and messages; the second follows the claims on a handle: they are made  *)
(* by connOpened alone, one at a time, and end with connClosed, but for    *)
(* those of the callers that were not told (missed).                       *)
(***************************************************************************)
EXTENDS BleConnGatt, FiniteSetTheorems, TLAPS

-----------------------------------------------------------------------------
(* The invariant about callers, tables and messages *)

\* What the layer has of a session, in each phase of it.
SessInv ==
  /\ phase \in {"up", "lost", "disc"} => writer
  /\ phase = "down" => ~writer
  /\ phase = "dead" => closing
  /\ phase # "up" => wire = <<>> /\ inbox = <<>> /\ link = [h \in Handles |-> "free"]
  /\ phase = "down" =>
       /\ pending = {} /\ leaked = {} /\ mtu = {}
       /\ \A h \in Handles : opened[h] = None /\ discCb[h] = None /\ noteCb[h] = None
       /\ \A c \in Callers : drain[c] = "no"

InRequest == {"connOpen", "abort", "op", "close"}

\* What a caller has, in each place it can be suspended at.
CallerAt(c) ==
  /\ fut[c] = "none" <=> pc[c] \in {"idle", "held"}
  /\ rid[c] # None <=> pc[c] \in InRequest
  /\ drain[c] # "no" => pc[c] \in InRequest
  /\ held[c] # None => pc[c] \in {"held", "op"}
  /\ pc[c] = "held" => held[c] # None
  /\ target[c] # None => pc[c] \in {"connOpen", "opening", "abort"}
  /\ pc[c] \in {"opening", "abort"} => target[c] # None
  /\ pc[c] = "connOpen" /\ fut[c] = "ok" => target[c] # None
  /\ pc[c] = "connOpen" /\ fut[c] = "wait" => target[c] = None

CallerInv ==
  /\ \A c \in Callers : CallerAt(c)
  /\ \A h \in Handles : opened[h] # None =>
       target[opened[h]] = h /\ pc[opened[h]] \in {"opening", "abort"}

\* Who was woken is in the queue, once, and the task of run() is in it once at
\* most: r is ready and due the callers that were woken.
Woken == {"ok", "err", "gone"}
OutOfDrain == {"over", "raised"}

Due == {c \in Callers : \/ drain[c] = "no" /\ fut[c] \in Woken
                        \/ drain[c] \in OutOfDrain}

InQueue(r, due) ==
  /\ \A c \in Callers : c \in due <=> \E i \in 1..Len(r) : r[i] = c
  /\ \A i, j \in 1..Len(r) : r[i] = r[j] => i = j

\* c will run after x, and after run().
After(r, x, c) == \E i, j \in 1..Len(r) : r[i] = x /\ i < j /\ r[j] = c
Behind(r, c) == After(r, Run, c)

\* So all that was answered in a session has run before it is flushed, and all
\* that was interrupted by the flush has run before the next one starts, but
\* for who waits for a connOpened event and is no longer registered.  Callers
\* in drain() come out of it before a flush after which there is a next one.
QueueInv ==
  /\ InQueue(ready, Due)
  /\ phase = "up" => \A i \in 1..Len(ready) : ready[i] # Run
  /\ phase = "lost" => \A c \in Callers :
       Behind(ready, c) /\ drain[c] = "no" => fut[c] = "gone"
  /\ phase \in {"disc", "down", "dead"} => \A c \in Callers :
       drain[c] = "no" => fut[c] \notin {"ok", "err"}
  /\ phase = "down" => \A c \in Callers :
       fut[c] = "wait" \/ Behind(ready, c) => pc[c] = "opening"

\* An id belongs to one request, and a request on the wire or a message about
\* it is for its caller: r and p are rid and pc.
RequestFor(w, r, p) ==
  /\ w.act = "connClose" => w.h # None
  /\ \A c \in Callers : r[c] = w.id =>
       w.by = c /\ (w.act = "connOpen" <=> p[c] = "connOpen")

MessageFor(m, r, p) ==
  /\ m.kind # "resp" => m.h # None
  /\ m.kind = "resp" /\ m.h # None => m.ok
  /\ m.kind = "resp" => m.id # None
  /\ \A c \in Callers : m.kind = "resp" /\ r[c] = m.id =>
       (m.h # None <=> m.ok /\ p[c] = "connOpen")

PendingInv ==
  phase \in {"up", "lost", "disc"} =>
    /\ leaked \subseteq pending
    /\ \A c \in Callers : rid[c] # None => rid[c] \in pending \ leaked
    /\ \A c, d \in Callers : rid[c] # None /\ rid[c] = rid[d] => c = d

IdInv ==
  /\ PendingInv
  /\ \A k \in 1..Len(wire) : RequestFor(wire[k], rid, pc)
  /\ \A k \in 1..Len(inbox) : MessageFor(inbox[k], rid, pc)

\* Message k of b is of this kind and about handle h; a connClosed of h is
\* among the messages from i to j.
At(b, k, kind, h) == b[k].kind = kind /\ b[k].h = h
ClosedIn(b, i, j, h) == \E k \in i..j : At(b, k, "closed", h)

\* h is in _conn_mtu once the messages of b have been dispatched, if m is what
\* is in it before: the last event about h says so.
OpenAfter(b, m, h) ==
  \/ \E i \in 1..Len(b) : At(b, i, "opened", h) /\ ~ClosedIn(b, i + 1, Len(b), h)
  \/ h \in m /\ ~ClosedIn(b, 1, Len(b), h)

ActiveInv ==
  phase = "up" => \A h \in Handles : link[h] = "open" <=> OpenAfter(inbox, mtu, h)

BaseInv ==
  /\ TypeOK /\ SessInv /\ CallerInv /\ QueueInv /\ IdInv
  /\ ActiveInv /\ PendingIsAwaited

-----------------------------------------------------------------------------
(* The invariant about leases *)

\* c has been told that h is open, and not run since; or it holds h.
Expects(c, h) == pc[c] = "opening" /\ fut[c] = "ok" /\ target[c] = h
Claims(c, h) == Expects(c, h) \/ held[c] = h

\* A handle in _conn_mtu has one claim at most, and others none, but for those
\* of callers that missed the connClosed.
OneClaim ==
  \A h \in Handles : \A c, d \in Callers \ missed :
    Claims(c, h) => h \in mtu /\ (Claims(d, h) => c = d)

\* Who missed it and has not run yet will run before anybody else claims.
MissedRunFirst ==
  \A h \in Handles : \A c \in missed, d \in Callers \ missed :
    Expects(c, h) /\ Claims(d, h) => Expects(d, h) /\ After(ready, c, d)

\* Nobody is in missed who holds nothing and will not.
MissedClaim == \A c \in missed : held[c] # None \/ (pc[c] = "opening" /\ fut[c] = "ok")

\* A callback is that of a holder, or of one that gave up its connection when
\* the client was closing already and so could not send connClose.
CallbackIsHeld ==
  \A h \in Handles : discCb[h] # None =>
    held[discCb[h]] = h \/ (closing /\ pc[discCb[h]] = "idle")

\* Without a session nobody holds anything.
NothingHeld ==
  phase \in {"down", "dead"} => \A c \in Callers \ missed : held[c] = None

\* Between two connOpened of a handle lies the connClosed of the first: b are
\* the messages to come, m is _conn_mtu before them.
Alternates(b, m) ==
  \A h \in Handles : \A j \in 1..Len(b) : At(b, j, "opened", h) =>
    /\ h \in m => ClosedIn(b, 1, j - 1, h)
    /\ \A i \in 1..j - 1 : At(b, i, "opened", h) => ClosedIn(b, i + 1, j - 1, h)

Alternate == phase = "up" => Alternates(inbox, mtu)

LeaseInv ==
  /\ OneClaim /\ MissedRunFirst /\ MissedClaim /\ DropIsTold
  /\ CallbackIsHeld /\ NotifyIsRouted /\ NothingHeld /\ Alternate

-----------------------------------------------------------------------------
(* Sequences, ids *)

\* What is left of a sequence without its first element, and what it becomes
\* with one more, or two.
LEMMA TailFacts ==
  ASSUME NEW S, NEW s \in Seq(S), s # <<>>
  PROVE  /\ Tail(s) \in Seq(S) /\ Len(Tail(s)) = Len(s) - 1
         /\ Len(s) \in Nat /\ Len(s) > 0 /\ 1 \in 1..Len(s)
         /\ Head(s) = s[1] /\ Head(s) \in S
         /\ \A i \in 1..Len(Tail(s)) : Tail(s)[i] = s[i + 1] /\ i + 1 \in 1..Len(s)
OBVIOUS

LEMMA AppendFacts ==
  ASSUME NEW S, NEW s \in Seq(S), NEW e \in S
  PROVE  /\ Append(s, e) \in Seq(S) /\ Len(Append(s, e)) = Len(s) + 1
         /\ Len(s) \in Nat
         /\ \A i \in 1..Len(s) : Append(s, e)[i] = s[i]
         /\ Append(s, e)[Len(s) + 1] = e
         /\ \A i \in 1..Len(s) + 1 : i \in 1..Len(s) \/ i = Len(s) + 1
OBVIOUS

LEMMA PairFacts ==
  ASSUME NEW S, NEW s \in Seq(S), NEW e \in S, NEW f \in S
  PROVE  /\ s \o <<e, f>> \in Seq(S) /\ Len(s \o <<e, f>>) = Len(s) + 2
         /\ Len(s) \in Nat
         /\ \A i \in 1..Len(s) : (s \o <<e, f>>)[i] = s[i]
         /\ (s \o <<e, f>>)[Len(s) + 1] = e
         /\ (s \o <<e, f>>)[Len(s) + 2] = f
         /\ \A i \in 1..Len(s) + 2 :
              i \in 1..Len(s) \/ i = Len(s) + 1 \/ i = Len(s) + 2
OBVIOUS

\* The id of a new request is one of no other, if there is one left.
LEMMA NewIdFacts ==
  ASSUME FreeIds # {}
  PROVE  /\ NewId \in Ids /\ NewId # None /\ NewId \in FreeIds
         /\ NewId \notin pending
         /\ \A k \in 1..Len(wire) : wire[k].id # NewId
         /\ \A k \in 1..Len(inbox) : inbox[k].id # NewId
<1>1. NewId \in FreeIds
  BY DEF NewId
<1> QED BY <1>1, GattAssumption DEF FreeIds, UsedIds

LEMMA Finite == /\ IsFiniteSet(FreeIds) /\ IsFiniteSet(Attempts)
                /\ Cardinality(Attempts) \in Nat
<1>1. FreeIds \in SUBSET Ids /\ Attempts \in SUBSET Callers
  BY DEF FreeIds, Attempts
<1> QED BY <1>1, GattAssumption, FS_Subset, FS_CardinalityType

\* Whoever may send something has an id for it.
LEMMA HasId == Affords => FreeIds # {}
BY Finite, FS_EmptySet DEF Affords

-----------------------------------------------------------------------------
(* Types *)

Drains == {"no", "blocked", "over", "raised"}
Requests == [id : Ids, act : {"connOpen", "connClose", "op"},
             h : Handles \cup {None}, by : Callers]

LEMMA SentType ==
  ASSUME TypeOK, FreeIds # {}, NEW c \in Callers,
         NEW act \in {"connOpen", "connClose", "op"}, NEW h \in Handles \cup {None},
         NEW wait \in PC, NEW next \in PC,
         Sent(c, act, h, wait) \/ Unsent(c, next)
  PROVE  /\ pc' \in [Callers -> PC]
         /\ fut' \in [Callers -> {"none", "wait", "ok", "err", "gone"}]
         /\ rid' \in [Callers -> Ids \cup {None}]
         /\ pending' \subseteq Ids /\ wire' \in Seq(Requests)
         /\ drain' \in [Callers -> Drains] /\ leaked' \subseteq Ids
<1>1. NewId \in Ids
  BY NewIdFacts
<1>0. drain' \in [Callers -> Drains] /\ leaked' \subseteq Ids
  <2>1. CASE Sent(c, act, h, wait)
    <3>1. PICK d \in {"no", "blocked"} : drain' = [drain EXCEPT ![c] = d]
      BY <2>1 DEF Sent
    <3> QED BY <2>1, <3>1 DEF Sent, TypeOK, Drains
  <2>2. CASE Unsent(c, next)
    BY <1>1, <2>2 DEF Unsent, TypeOK, Drains
  <2> QED BY <2>1, <2>2
<1>2. wire \in Seq(Requests)
  BY DEF TypeOK, Requests
<1>3. wire' \in Seq(Requests)
  <2>1. [id |-> NewId, act |-> act, h |-> h, by |-> c] \in Requests
    BY <1>1 DEF Requests
  <2> QED BY <1>2, <2>1, AppendFacts DEF Sent, Unsent
<1>4. pending' \subseteq Ids
  BY <1>1 DEF Sent, Unsent, TypeOK
<1>5. rid' \in [Callers -> Ids \cup {None}]
  BY <1>1 DEF Sent, Unsent, TypeOK
<1>6. pc' \in [Callers -> PC]
  <2>1. pc \in [Callers -> PC]
    BY DEF TypeOK
  <2>2. pc' = [pc EXCEPT ![c] = wait] \/ pc' = [pc EXCEPT ![c] = next]
    BY DEF Sent, Unsent
  <2> QED BY <2>1, <2>2
<1>7. fut' \in [Callers -> {"none", "wait", "ok", "err", "gone"}]
  <2>1. fut \in [Callers -> {"none", "wait", "ok", "err", "gone"}]
    BY DEF TypeOK
  <2>2. fut' = [fut EXCEPT ![c] = "wait"] \/ fut' = [fut EXCEPT ![c] = "none"]
    BY DEF Sent, Unsent
  <2> QED BY <2>1, <2>2
<1> QED BY <1>0, <1>3, <1>4, <1>5, <1>6, <1>7

\* What an answer, the end of a wait and a wake-up assign has its type.
LEMMA DoneType ==
  ASSUME TypeOK, NEW c \in Callers, NEW next \in PC, Done(c, next)
  PROVE  /\ pc' \in [Callers -> PC]
         /\ fut' \in [Callers -> {"none", "wait", "ok", "err", "gone"}]
         /\ rid' \in [Callers -> Ids \cup {None}]
BY DEF Done, TypeOK

LEMMA UnregisterType ==
  ASSUME TypeOK, NEW c \in Callers, Unregister(c)
  PROVE  /\ opened' \in [Handles -> Callers \cup {None}]
         /\ target' \in [Callers -> Handles \cup {None}]
BY DEF Unregister, TypeOK

LEMMA CompleteType ==
  ASSUME TypeOK,
         Leave \/ \E c \in Callers, how \in {"ok", "err"} : Complete(c, how)
  PROVE  /\ fut' \in [Callers -> {"none", "wait", "ok", "err", "gone"}]
         /\ ready' \in Seq(Callers \cup {Run})
<1>1. CASE Leave
  BY <1>1 DEF Leave, TypeOK
<1>2. ASSUME NEW c \in Callers, NEW how \in {"ok", "err"}, Complete(c, how)
      PROVE  /\ fut' \in [Callers -> {"none", "wait", "ok", "err", "gone"}]
             /\ ready' \in Seq(Callers \cup {Run})
  BY <1>2 DEF Complete, TypeOK
<1> QED BY <1>1, <1>2

LEMMA DisconnectedType ==
  ASSUME TypeOK, NEW C, Disconnected(C)
  PROVE  /\ held' \in [Callers -> Handles \cup {None}]
         /\ pc' \in [Callers -> PC]
BY DEF Disconnected, TypeOK, PC

\* Every element of a finite set is in each of its orders, once.
LEMMA OrderFacts ==
  ASSUME NEW S, IsFiniteSet(S), NEW order \in SetToSeqs(S)
  PROVE  /\ order \in Seq(S) /\ Len(order) = Cardinality(S) /\ Len(order) \in Nat
         /\ \A i \in 1..Len(order) : order[i] \in S
         /\ \A i, j \in 1..Len(order) : order[i] = order[j] => i = j
         /\ \A c \in S : \E i \in 1..Len(order) : order[i] = c
<1>1. Cardinality(S) \in Nat
  BY FS_CardinalityType
<1>2. /\ order \in [1..Cardinality(S) -> S]
      /\ \A i, j \in 1..Cardinality(S) : order[i] = order[j] => i = j
  BY DEF SetToSeqs
<1>3. order \in Seq(S) /\ Len(order) = Cardinality(S)
  BY <1>1, <1>2
<1>4. order \in Injection(1..Cardinality(S), S)
  BY <1>2 DEF Injection, IsInjective
<1>5. IsFiniteSet(1..Cardinality(S)) /\ Cardinality(1..Cardinality(S)) = Cardinality(S)
  BY <1>1, FS_Interval
<1>6. order \in Surjection(1..Cardinality(S), S)
  BY <1>4, <1>5, FS_Injection
<1> QED BY <1>1, <1>2, <1>3, <1>6 DEF Surjection

LEMMA FlushType ==
  ASSUME TypeOK, ready # <<>>, Flush
  PROVE  /\ ready' \in Seq(Callers \cup {Run})
         /\ leaked' = {} /\ missed' \subseteq Callers
         /\ fut' \in [Callers -> {"none", "wait", "ok", "err", "gone"}]
         /\ opened' \in [Handles -> Callers \cup {None}]
         /\ discCb' \in [Handles -> Callers \cup {None}]
         /\ noteCb' \in [Handles -> Callers \cup {None}]
         /\ pending' = {} /\ mtu' = {}
<1> DEFINE W == {c \in Interrupted : drain[c] = "no"}
<1>1. PICK order \in SetToSeqs(W) : ready' = Tail(ready) \o order
  BY DEF Flush
<1>2. order \in Seq(Callers \cup {Run})
  <2>1. IsFiniteSet(W) /\ W \subseteq Callers
    BY GattAssumption, FS_Subset DEF Interrupted
  <2>2. order \in Seq(W)
    BY <1>1, <2>1, OrderFacts
  <2> HIDE DEF W
  <2> QED BY <2>1, <2>2
<1>3. ready' \in Seq(Callers \cup {Run})
  BY <1>1, <1>2 DEF TypeOK
<1>4. fut' \in [Callers -> {"none", "wait", "ok", "err", "gone"}]
  BY DEF Flush, TypeOK
<1>5. leaked' = {} /\ missed' \subseteq Callers
  BY DEF Flush, TypeOK
<1>6. /\ opened' \in [Handles -> Callers \cup {None}]
      /\ discCb' \in [Handles -> Callers \cup {None}]
      /\ noteCb' \in [Handles -> Callers \cup {None}]
      /\ pending' = {} /\ mtu' = {}
  BY DEF Flush
<1> QED BY <1>3, <1>4, <1>5, <1>6

LEMMA MessageTypes ==
  /\ \A i \in Ids, ok \in BOOLEAN, h \in Handles \cup {None} : Response(i, ok, h) \in Message
  /\ \A k \in {"opened", "closed", "notify"}, h \in Handles \cup {None} : Event(k, h) \in Message
BY DEF Response, Event, Message

LEMMA HeadIsFor ==
  ASSUME TypeOK, IdInv, inbox # <<>>
  PROVE  /\ Head(inbox) \in Message /\ MessageFor(Head(inbox), rid, pc)
         /\ Head(inbox).h \in Handles \cup {None}
         /\ Head(inbox).kind # "resp" => Head(inbox).h \in Handles
<1>1. Head(inbox) \in Message /\ MessageFor(Head(inbox), rid, pc)
  BY TailFacts DEF TypeOK, IdInv
<1> QED BY <1>1 DEF Message, MessageFor

\* Every action preserves the types.
LEMMA TypeStep == TypeOK /\ IdInv /\ [Next]_vars => TypeOK'
<1> SUFFICES ASSUME TypeOK, IdInv, [Next]_vars PROVE TypeOK'
  OBVIOUS
<1> USE GattAssumption DEF session, callers, tables, peer, history
<1>1. CASE UNCHANGED vars
  BY <1>1 DEF vars, TypeOK
<1>2. ready # <<>> /\ ready' = Tail(ready) => ready' \in Seq(Callers \cup {Run})
  BY TailFacts DEF TypeOK
<1>3. \A c \in Callers \cup {Run} : ready' = Append(ready, c) => ready' \in Seq(Callers \cup {Run})
  BY DEF TypeOK
<1>4. inbox # <<>> /\ inbox' = Tail(inbox) =>
        inbox' \in Seq(Message) /\ Head(inbox) \in Message
  BY TailFacts DEF TypeOK
<1>5. ASSUME NEW c \in Callers, Connect(c) PROVE TypeOK'
  <2>1. FreeIds # {}
    BY <1>5, HasId DEF Connect
  <2>2. /\ pc' \in [Callers -> PC]
        /\ fut' \in [Callers -> {"none", "wait", "ok", "err", "gone"}]
        /\ rid' \in [Callers -> Ids \cup {None}]
        /\ pending' \subseteq Ids /\ wire' \in Seq(Requests)
        /\ drain' \in [Callers -> Drains] /\ leaked' \subseteq Ids
    BY <1>5, <2>1, SentType DEF Connect, PC
  <2> QED BY <1>5, <2>2 DEF Connect, TypeOK, Requests, Drains
<1>6. ASSUME NEW c \in Callers, OnConnection(c),
             \/ UNCHANGED noteCb
             \/ noteCb' = [noteCb EXCEPT ![held[c]] = c]
             \/ noteCb' = [noteCb EXCEPT ![held[c]] = None]
      PROVE  TypeOK'
  <2>1. FreeIds # {} /\ held[c] \in Handles
    BY <1>6, HasId DEF OnConnection, TypeOK
  <2>2. /\ pc' \in [Callers -> PC]
        /\ fut' \in [Callers -> {"none", "wait", "ok", "err", "gone"}]
        /\ rid' \in [Callers -> Ids \cup {None}]
        /\ pending' \subseteq Ids /\ wire' \in Seq(Requests)
        /\ drain' \in [Callers -> Drains] /\ leaked' \subseteq Ids
    BY <1>6, <2>1, SentType DEF OnConnection, PC
  <2>3. noteCb' \in [Handles -> Callers \cup {None}]
    BY <1>6 DEF TypeOK
  <2> QED BY <1>6, <2>2, <2>3 DEF OnConnection, TypeOK, Requests, Drains
<1>7. ASSUME NEW c \in Callers, Disconnect(c) PROVE TypeOK'
  <2>1. /\ held' \in [Callers -> Handles \cup {None}]
        /\ discCb' \in [Handles -> Callers \cup {None}]
        /\ noteCb' \in [Handles -> Callers \cup {None}]
    BY <1>7 DEF Disconnect, Forget, TypeOK
  <2>2. /\ pc' \in [Callers -> PC]
        /\ fut' \in [Callers -> {"none", "wait", "ok", "err", "gone"}]
        /\ rid' \in [Callers -> Ids \cup {None}]
        /\ pending' \subseteq Ids /\ wire' \in Seq(Requests)
        /\ drain' \in [Callers -> Drains] /\ leaked' \subseteq Ids
    <3>1. CASE Affords /\ \/ Sent(c, "connClose", held[c], "close")
                             \/ Unsent(c, "idle")
      <4>1. FreeIds # {} /\ held[c] \in Handles
        BY <1>7, <3>1, HasId DEF Disconnect, TypeOK
      <4> QED BY <3>1, <4>1, SentType DEF PC
    <3>2. CASE pc' = [pc EXCEPT ![c] = "idle"] /\ UNCHANGED <<pending, rid, fut, wire, drain, leaked>>
      BY <3>2 DEF TypeOK, PC, Requests, Drains
    <3> QED BY <1>7, <3>1, <3>2 DEF Disconnect
  <2>3. missed' \subseteq Callers
    BY <1>7 DEF Disconnect, TypeOK
  <2> QED BY <1>7, <2>1, <2>2, <2>3 DEF Disconnect, TypeOK, Requests, Drains
<1>8. ASSUME NEW c \in Callers, ResumeGaveUp(c) PROVE TypeOK'
  <2>1. FreeIds # {} /\ target[c] \in Handles \cup {None}
    BY <1>8, HasId DEF ResumeGaveUp, TypeOK
  <2>2. /\ pc' \in [Callers -> PC]
        /\ fut' \in [Callers -> {"none", "wait", "ok", "err", "gone"}]
        /\ rid' \in [Callers -> Ids \cup {None}]
        /\ pending' \subseteq Ids /\ wire' \in Seq(Requests)
        /\ drain' \in [Callers -> Drains] /\ leaked' \subseteq Ids
    BY <1>8, <2>1, SentType DEF ResumeGaveUp, PC
  <2>3. /\ opened' \in [Handles -> Callers \cup {None}]
        /\ target' \in [Callers -> Handles \cup {None}]
    BY <1>8 DEF ResumeGaveUp, Unregister, TypeOK
  <2> QED BY <1>2, <1>8, <2>2, <2>3 DEF ResumeGaveUp, Resumed, TypeOK, Requests, Drains
<1>9. ASSUME NEW c \in Callers, ResumeConnOpen(c) PROVE TypeOK'
  <2>1. /\ pc' \in [Callers -> PC]
        /\ fut' \in [Callers -> {"none", "wait", "ok", "err", "gone"}]
    <3>1. \/ /\ pc' = [pc EXCEPT ![c] = "opening"] /\ fut' = [fut EXCEPT ![c] = "wait"]
          \/ /\ pc' = [pc EXCEPT ![c] = "idle"] /\ fut' = [fut EXCEPT ![c] = "none"]
      BY <1>9 DEF ResumeConnOpen
    <3>2. /\ pc \in [Callers -> PC] /\ "opening" \in PC /\ "idle" \in PC
          /\ fut \in [Callers -> {"none", "wait", "ok", "err", "gone"}]
      BY DEF TypeOK, PC
    <3> QED BY <3>1, <3>2
  <2>2. /\ rid' \in [Callers -> Ids \cup {None}] /\ pending' \subseteq Ids
        /\ target' \in [Callers -> Handles \cup {None}]
    BY <1>9 DEF ResumeConnOpen, Answered, TypeOK
  <2>3. opened' \in [Handles -> Callers \cup {None}]
    BY <1>9 DEF ResumeConnOpen, Register, TypeOK
  <2> QED BY <1>2, <1>9, <2>1, <2>2, <2>3 DEF ResumeConnOpen, Returned, Resumed, NotInDrain, TypeOK
<1>10. ASSUME NEW c \in Callers, ResumeOpened(c) PROVE TypeOK'
  <2>1. /\ held' \in [Callers -> Handles \cup {None}]
        /\ discCb' \in [Handles -> Callers \cup {None}]
    BY <1>10 DEF ResumeOpened, Arm, TypeOK
  <2>2. /\ pc' \in [Callers -> PC]
        /\ fut' \in [Callers -> {"none", "wait", "ok", "err", "gone"}]
        /\ rid' \in [Callers -> Ids \cup {None}]
        /\ opened' \in [Handles -> Callers \cup {None}]
        /\ target' \in [Callers -> Handles \cup {None}]
    BY <1>10, DoneType, UnregisterType DEF ResumeOpened, PC
  <2> QED BY <1>2, <1>10, <2>1, <2>2 DEF ResumeOpened, Returned, Resumed, NotInDrain, TypeOK
<1>11. ASSUME NEW c \in Callers, ResumeRefused(c) \/ ResumeAbort(c) PROVE TypeOK'
  <2>1. /\ pc' \in [Callers -> PC]
        /\ fut' \in [Callers -> {"none", "wait", "ok", "err", "gone"}]
        /\ rid' \in [Callers -> Ids \cup {None}]
        /\ opened' \in [Handles -> Callers \cup {None}]
        /\ target' \in [Callers -> Handles \cup {None}]
    BY <1>11, DoneType, UnregisterType DEF ResumeRefused, ResumeAbort, PC
  <2>2. /\ drain' \in [Callers -> {"no", "blocked", "over", "raised"}]
        /\ ready # <<>> /\ ready' = Tail(ready) /\ pending' \subseteq Ids
    BY <1>11 DEF ResumeRefused, ResumeAbort, Returned, Resumed, NotInDrain, Answered, TypeOK
  <2>3. UNCHANGED <<session, held, discCb, noteCb, mtu, peer, history>>
    BY <1>11 DEF ResumeRefused, ResumeAbort
  <2> QED BY <1>2, <2>1, <2>2, <2>3 DEF TypeOK
<1>12. ASSUME NEW c \in Callers, ResumeRequest(c) PROVE TypeOK'
  <2>1. /\ pc' \in [Callers -> PC]
        /\ fut' \in [Callers -> {"none", "wait", "ok", "err", "gone"}]
        /\ rid' \in [Callers -> Ids \cup {None}]
    BY <1>12, DoneType DEF ResumeRequest, AfterRequest, PC
  <2> QED BY <1>2, <1>12, <2>1 DEF ResumeRequest, Returned, Resumed, NotInDrain, Answered, TypeOK
<1>12a. ASSUME NEW c \in Callers, ResumeDrained(c) PROVE TypeOK'
  BY <1>2, <1>12a DEF ResumeDrained, Resumed, NotInDrain, TypeOK
<1>12b. ASSUME NEW c \in Callers, ResumeCut(c) PROVE TypeOK'
  <2>1. /\ pc' \in [Callers -> PC]
        /\ fut' \in [Callers -> {"none", "wait", "ok", "err", "gone"}]
        /\ rid' \in [Callers -> Ids \cup {None}]
    BY <1>12b, DoneType DEF ResumeCut, AfterRequest, PC
  <2>2. /\ opened' \in [Handles -> Callers \cup {None}]
        /\ target' \in [Callers -> Handles \cup {None}]
    BY <1>12b, UnregisterType DEF ResumeCut, TypeOK
  <2>3. leaked' \subseteq Ids
    BY <1>12b DEF ResumeCut, TypeOK
  <2> QED BY <1>2, <1>12b, <2>1, <2>2, <2>3 DEF ResumeCut, Resumed, NotInDrain, TypeOK
<1>12c. ASSUME NEW c \in Callers, DrainEnds(c) \/ DrainFails(c) PROVE TypeOK'
  <2>1. ready' \in Seq(Callers \cup {Run})
    BY <1>3, <1>12c DEF DrainEnds, DrainFails, TypeOK
  <2>2. drain' \in [Callers -> {"no", "blocked", "over", "raised"}]
    BY <1>12c DEF DrainEnds, DrainFails, TypeOK
  <2>3. UNCHANGED <<session, pc, fut, rid, target, held, tables, peer, history>>
    BY <1>12c DEF DrainEnds, DrainFails
  <2> QED BY <2>1, <2>2, <2>3 DEF TypeOK
<1>13. ASSUME NEW c \in Callers, GiveUp(c) PROVE TypeOK'
  <2>1. ready' \in Seq(Callers \cup {Run})
    BY <1>3, <1>13 DEF GiveUp, TypeOK
  <2> QED BY <1>13, <2>1 DEF GiveUp, TypeOK
<1>14. CASE DispatchResponse
  <2>1. inbox' \in Seq(Message) /\ Head(inbox).h \in Handles \cup {None}
    BY <1>4, <1>14 DEF DispatchResponse, Dispatch, Message
  <2>2. /\ fut' \in [Callers -> {"none", "wait", "ok", "err", "gone"}]
        /\ ready' \in Seq(Callers \cup {Run})
        /\ target' \in [Callers -> Handles \cup {None}]
    <3>1. CASE Leave /\ UNCHANGED target
      BY <3>1 DEF Leave, TypeOK
    <3>2. ASSUME NEW c \in Waiting(Head(inbox)),
                 Complete(c, IF Head(inbox).ok THEN "ok" ELSE "err"),
                 \/ UNCHANGED target
                 \/ target' = [target EXCEPT ![c] = Head(inbox).h]
          PROVE  /\ fut' \in [Callers -> {"none", "wait", "ok", "err", "gone"}]
                 /\ ready' \in Seq(Callers \cup {Run})
                 /\ target' \in [Callers -> Handles \cup {None}]
      BY <1>3, <2>1, <3>2 DEF Complete, Waiting, TypeOK
    <3> QED BY <1>14, <3>1, <3>2 DEF DispatchResponse
  <2> QED BY <1>14, <2>1, <2>2 DEF DispatchResponse, Dispatch, TypeOK
<1>15. CASE DispatchOpened
  <2>1. inbox' \in Seq(Message) /\ Head(inbox).h \in Handles /\ mtu' \subseteq Handles
    BY <1>4, <1>15, HeadIsFor DEF DispatchOpened, Dispatch, TypeOK
  <2>2. /\ fut' \in [Callers -> {"none", "wait", "ok", "err", "gone"}]
        /\ ready' \in Seq(Callers \cup {Run})
    BY <1>15, <2>1, CompleteType DEF DispatchOpened, Awaited, TypeOK
  <2> QED BY <1>15, <2>1, <2>2 DEF DispatchOpened, Dispatch, TypeOK
<1>16. CASE DispatchClosed
  <2>1. inbox' \in Seq(Message) /\ Head(inbox).h \in Handles
    BY <1>4, <1>16, HeadIsFor DEF DispatchClosed, Dispatch
  <2>2. /\ fut' \in [Callers -> {"none", "wait", "ok", "err", "gone"}]
        /\ ready' \in Seq(Callers \cup {Run})
    BY <1>16, <2>1, CompleteType DEF DispatchClosed, Awaited, TypeOK
  <2>3. /\ held' \in [Callers -> Handles \cup {None}]
        /\ pc' \in [Callers -> PC]
    BY <1>16, DisconnectedType DEF DispatchClosed
  <2>4. /\ discCb' \in [Handles -> Callers \cup {None}]
        /\ noteCb' \in [Handles -> Callers \cup {None}]
        /\ mtu' \subseteq Handles
    BY <1>16 DEF DispatchClosed, Drop, Forget, TypeOK
  <2>5. missed' \subseteq Callers
    BY <1>16 DEF DispatchClosed, Unaware, TypeOK
  <2> QED BY <1>16, <2>1, <2>2, <2>3, <2>4, <2>5 DEF DispatchClosed, Dispatch, TypeOK
<1>17. CASE DispatchNotify
  BY <1>4, <1>17 DEF DispatchNotify, Dispatch, Leave, TypeOK
<1>18. CASE Lose \/ RunReleases \/ RunAttaches \/ RunClears \/ WakeRun \/ Close
  <2>1. /\ phase' \in {"down", "up", "lost", "disc", "dead"}
        /\ writer' \in BOOLEAN /\ closing' \in BOOLEAN
    BY <1>18, Zenon DEF Lose, RunReleases, RunAttaches, RunClears, WakeRun, Close,
       Sess!Lose, Sess!Release, Sess!Attach, Sess!Clear, Sess!Abandon, Sess!Close, TypeOK
  <2>2. CASE Lose
    <3>1. ready' \in Seq(Callers \cup {Run})
      BY <1>3, <2>2 DEF Lose
    <3>2. /\ wire' \in Seq(Requests) /\ inbox' \in Seq(Message)
          /\ link' \in [Handles -> {"free", "opening", "open"}]
          /\ owner' \in [Handles -> Callers \cup {None}]
      BY <2>2 DEF Lose, NoTraffic
    <3> QED BY <2>1, <2>2, <3>1, <3>2 DEF Lose, TypeOK, Requests
  <2>3. CASE RunReleases \/ RunAttaches \/ WakeRun \/ Close
    <3>1. ready' \in Seq(Callers \cup {Run})
      BY <1>2, <1>3, <2>3 DEF RunReleases, RunAttaches, WakeRun, Close, Resumed, TypeOK
    <3> QED BY <2>1, <2>3, <3>1 DEF RunReleases, RunAttaches, WakeRun, Close, TypeOK
  <2>4. CASE RunClears
    <3>1. /\ held' \in [Callers -> Handles \cup {None}] /\ pc' \in [Callers -> PC]
      BY <2>4, DisconnectedType DEF RunClears, Flush
    <3>2. /\ ready' \in Seq(Callers \cup {Run})
          /\ fut' \in [Callers -> {"none", "wait", "ok", "err", "gone"}]
          /\ opened' \in [Handles -> Callers \cup {None}]
          /\ discCb' \in [Handles -> Callers \cup {None}]
          /\ noteCb' \in [Handles -> Callers \cup {None}]
          /\ pending' = {} /\ mtu' = {} /\ leaked' = {} /\ missed' \subseteq Callers
      BY <2>4, FlushType DEF RunClears
    <3> QED BY <2>1, <2>4, <3>1, <3>2 DEF RunClears, Flush, TypeOK
  <2> QED BY <1>18, <2>2, <2>3, <2>4
<1>19. ASSUME wire # <<>>, wire' = Tail(wire)
       PROVE  /\ wire' \in Seq(Requests) /\ Head(wire) \in Requests
              /\ Grant.id \in Ids /\ Grant.h \in Handles \cup {None}
              /\ Grant.by \in Callers
  <2>1. wire \in Seq(Requests)
    BY DEF TypeOK, Requests
  <2>2. wire' \in Seq(Requests) /\ Head(wire) \in Requests
    BY <1>19, <2>1, TailFacts
  <2> QED BY <2>2 DEF Grant, Requests
<1>20. \A m \in Message : inbox' = Append(inbox, m) => inbox' \in Seq(Message)
  BY DEF TypeOK
<1>21. CASE ServeConnOpen
  <2>1. /\ wire' \in Seq(Requests) /\ Grant.id \in Ids /\ Grant.by \in Callers
    BY <1>19, <1>21 DEF ServeConnOpen, Serve
  <2>2. inbox' \in Seq(Message)
    BY <1>20, <1>21, <2>1, MessageTypes DEF ServeConnOpen
  <2>3. /\ link' \in [Handles -> {"free", "opening", "open"}]
        /\ owner' \in [Handles -> Callers \cup {None}] 
    <3>1. CASE UNCHANGED <<link, owner>>
      BY <3>1 DEF TypeOK
    <3>2. ASSUME NEW h \in Handles, link' = [link EXCEPT ![h] = "opening"],
                 owner' = [owner EXCEPT ![h] = Grant.by]
          PROVE  /\ link' \in [Handles -> {"free", "opening", "open"}]
                 /\ owner' \in [Handles -> Callers \cup {None}]
      BY <2>1, <3>2 DEF TypeOK
    <3> QED BY <1>21, <3>1, <3>2 DEF ServeConnOpen
  <2> QED BY <1>21, <2>1, <2>2, <2>3 DEF ServeConnOpen, Serve, TypeOK, Requests
<1>22. CASE ServeConnClose
  <2>1. /\ wire' \in Seq(Requests) /\ Grant.id \in Ids /\ Grant.h \in Handles \cup {None}
    BY <1>19, <1>22 DEF ServeConnClose, Serve
  <2>2. inbox' \in Seq(Message)
    <3>1. /\ \A ok \in BOOLEAN : Response(Grant.id, ok, None) \in Message
          /\ Event("closed", Grant.h) \in Message
      BY <2>1, MessageTypes
    <3>2. inbox \in Seq(Message)
      BY DEF TypeOK
    <3>3. \A e, f \in Message : inbox \o <<e, f>> \in Seq(Message)
      BY <3>2, PairFacts
    <3>4. \/ \E e, f \in Message : inbox' = inbox \o <<e, f>>
          \/ \E m \in Message : inbox' = Append(inbox, m)
      BY <1>22, <3>1 DEF ServeConnClose
    <3> QED BY <1>20, <3>3, <3>4
  <2>3. /\ link' \in [Handles -> {"free", "opening", "open"}]
        /\ owner' \in [Handles -> Callers \cup {None}]
    BY <1>22 DEF ServeConnClose, TypeOK
  <2> QED BY <1>22, <2>1, <2>2, <2>3 DEF ServeConnClose, Serve, TypeOK, Requests
<1>23. CASE ServeOp
  <2>1. /\ wire' \in Seq(Requests) /\ Grant.id \in Ids
    BY <1>19, <1>23 DEF ServeOp, Serve
  <2>2. inbox' \in Seq(Message)
    BY <1>20, <1>23, <2>1, MessageTypes DEF ServeOp
  <2> QED BY <1>23, <2>1, <2>2 DEF ServeOp, Serve, TypeOK, Requests
<1>24. ASSUME NEW h \in Handles, LinkOpens(h) \/ LinkDrops(h) \/ LinkNotifies(h)
       PROVE  TypeOK'
  <2>1. inbox' \in Seq(Message)
    BY <1>20, <1>24, MessageTypes DEF LinkOpens, LinkDrops, LinkNotifies
  <2>2. link' \in [Handles -> {"free", "opening", "open"}]
    BY <1>24 DEF LinkOpens, LinkDrops, LinkNotifies, TypeOK
  <2>3. owner' \in [Handles -> Callers \cup {None}]
    BY <1>24 DEF LinkOpens, LinkDrops, LinkNotifies, TypeOK
  <2> QED BY <1>24, <2>1, <2>2, <2>3 DEF LinkOpens, LinkDrops, LinkNotifies, Radio, TypeOK
<1> QED
  BY <1>1, <1>5, <1>6, <1>7, <1>8, <1>9, <1>10, <1>11, <1>12, <1>12a, <1>12b, <1>12c,
     <1>13, <1>14, <1>15, <1>16, <1>17, <1>18, <1>21, <1>22, <1>23, <1>24
  DEF Next, Operate, StartNotify, StopNotify, Resume, Reader, RunTask, Daemon, Terminated

-----------------------------------------------------------------------------
(* Sessions *)

\* What the session has is changed by its own actions alone.
LEMMA SessStep == TypeOK /\ SessInv /\ CallerInv /\ QueueInv /\ [Next]_vars => SessInv'
<1> SUFFICES ASSUME TypeOK, SessInv, CallerInv, QueueInv, [Next]_vars PROVE SessInv'
  OBVIOUS
<1> USE DEF session, callers, tables, peer, history
<1>1. CASE UNCHANGED vars
  BY <1>1 DEF vars, SessInv
<1>2. ASSUME UNCHANGED session, UNCHANGED <<inbox, link, mtu>>, phase # "up" => UNCHANGED wire,
             phase = "down" =>
               /\ UNCHANGED <<pending, leaked, drain>>
               /\ \A h \in Handles : /\ opened'[h] = None /\ discCb'[h] = None
                                     /\ noteCb'[h] = None
      PROVE  SessInv'
  BY <1>2 DEF SessInv
<1>3. ASSUME NEW c \in Callers, Connect(c) PROVE SessInv'
  <2>1. phase # "down"
    BY <1>3 DEF Connect, CanConnect, IsScanning, SessInv
  <2> QED BY <1>2, <1>3, <2>1 DEF Connect, Sent, Unsent
<1>4. ASSUME NEW c \in Callers, OnConnection(c) PROVE SessInv'
  <2>1. phase # "down"
    BY <1>4 DEF OnConnection, IsScanning, SessInv
  <2> QED BY <1>2, <1>4, <2>1 DEF OnConnection, Sent, Unsent
<1>5. ASSUME NEW c \in Callers, Disconnect(c) PROVE SessInv'
  <2>1. phase = "down" => ~IsScanning
    BY DEF IsScanning, SessInv
  <2>2. phase = "down" => UNCHANGED <<pending, leaked, drain, discCb, noteCb, opened>>
    BY <1>5, <2>1 DEF Disconnect
  <2>3. phase # "up" => UNCHANGED wire
    BY <1>5 DEF Disconnect, Sent, Unsent
  <2> QED BY <1>2, <1>5, <2>2, <2>3 DEF Disconnect, SessInv
<1>6. ASSUME NEW c \in Callers, Unregister(c) \/ UNCHANGED opened, phase = "down"
      PROVE  \A h \in Handles : opened'[h] = None
  BY <1>6 DEF Unregister, TypeOK, SessInv
<1>7. ASSUME NEW c \in Callers, ResumeGaveUp(c) PROVE SessInv'
  <2>1. phase = "down" => UNCHANGED <<pending, leaked, drain>>
    BY <1>7 DEF ResumeGaveUp, Sent, Unsent, SessInv
  <2>2. phase # "up" => UNCHANGED wire
    BY <1>7 DEF ResumeGaveUp, Sent, Unsent
  <2> QED BY <1>2, <1>6, <1>7, <2>1, <2>2 DEF ResumeGaveUp, SessInv
<1>0. ASSUME NEW c \in Callers, NotInDrain(c), phase = "down" PROVE UNCHANGED drain
  BY <1>0 DEF NotInDrain, SessInv, TypeOK
<1>8. ASSUME NEW c \in Callers, ResumeConnOpen(c) PROVE SessInv'
  <2>1. phase = "down" => fut[c] # "ok"
    BY DEF QueueInv, SessInv
  <2>2. phase = "down" => UNCHANGED <<pending, leaked, drain, opened>>
    BY <1>0, <1>8, <2>1 DEF ResumeConnOpen, Returned, Answered, SessInv
  <2> QED BY <1>2, <1>8, <2>2 DEF ResumeConnOpen, SessInv
<1>9. ASSUME NEW c \in Callers,
             ResumeOpened(c) \/ ResumeRefused(c) \/ ResumeAbort(c) \/ ResumeRequest(c) \/ GiveUp(c)
      PROVE  SessInv'
  <2>1. phase = "down" => ~ResumeOpened(c)
    BY DEF QueueInv, ResumeOpened, SessInv
  <2>2. phase = "down" => UNCHANGED <<pending, leaked, drain, discCb, noteCb>>
    BY <1>0, <1>9, <2>1 DEF ResumeRefused, ResumeAbort, ResumeRequest, Returned, GiveUp,
       Answered, SessInv
  <2>3. UNCHANGED <<session, inbox, link, mtu, wire>>
    BY <1>9 DEF ResumeOpened, ResumeRefused, ResumeAbort, ResumeRequest, GiveUp
  <2>4. Unregister(c) \/ UNCHANGED opened
    BY <1>9 DEF ResumeOpened, ResumeRefused, ResumeAbort, ResumeRequest, GiveUp
  <2> QED BY <1>2, <1>6, <2>2, <2>3, <2>4 DEF SessInv
<1>9a. ASSUME NEW c \in Callers,
              ResumeDrained(c) \/ ResumeCut(c) \/ DrainEnds(c) \/ DrainFails(c)
       PROVE  SessInv'
  <2>1. phase # "down"
    BY <1>9a DEF ResumeDrained, ResumeCut, DrainEnds, DrainFails, SessInv
  <2>2. UNCHANGED <<session, inbox, link, mtu, wire>>
    BY <1>9a DEF ResumeDrained, ResumeCut, DrainEnds, DrainFails
  <2> QED BY <1>2, <2>1, <2>2
<1>10. CASE Reader
  BY <1>10 DEF Reader, DispatchResponse, DispatchOpened, DispatchClosed, DispatchNotify,
     Dispatch, SessInv
<1>11. CASE Daemon
  BY <1>11 DEF Daemon, ServeConnOpen, ServeConnClose, ServeOp, Serve, LinkOpens, LinkDrops,
     LinkNotifies, Radio, SessInv
<1>12. CASE Lose
  BY <1>12 DEF Lose, Sess!Lose, NoTraffic, SessInv
<1>13. CASE RunReleases \/ RunAttaches \/ WakeRun \/ Close
  BY <1>13 DEF RunReleases, RunAttaches, WakeRun, Close, Sess!Release, Sess!Attach,
     Sess!Close, SessInv
<1>14. CASE RunClears
  <2>1. \/ phase' = "down" /\ phase = "disc" /\ ~writer'
        \/ phase' = "dead" /\ phase # "up" /\ closing'
    BY <1>14 DEF RunClears, Sess!Clear, Sess!Abandon
  <2>2. /\ UNCHANGED <<wire, inbox, link>> /\ pending' = {} /\ mtu' = {} /\ leaked' = {}
        /\ \A h \in Handles : opened'[h] = None /\ discCb'[h] = None /\ noteCb'[h] = None
    BY <1>14 DEF RunClears, Flush
  <2>3. phase' = "down" => \A c \in Callers : drain'[c] = "no"
    BY <1>14 DEF RunClears, Flush, Sess!Clear, Sess!Abandon
  <2> QED BY <2>1, <2>2, <2>3 DEF SessInv
<1> QED
  BY <1>1, <1>3, <1>4, <1>5, <1>7, <1>8, <1>9, <1>9a, <1>10, <1>11, <1>12, <1>13, <1>14
  DEF Next, Operate, StartNotify, StopNotify, Resume, RunTask, Terminated

-----------------------------------------------------------------------------
(* Callers *)

LEMMA SentFacts ==
  ASSUME TypeOK, FreeIds # {}, NEW c \in Callers, NEW act, NEW h, NEW wait, NEW next,
         Sent(c, act, h, wait) \/ Unsent(c, next)
  PROVE  /\ \A d \in Callers \ {c} :
              /\ pc'[d] = pc[d] /\ fut'[d] = fut[d] /\ rid'[d] = rid[d]
              /\ drain'[d] = drain[d]
         /\ \/ /\ pc'[c] = wait /\ fut'[c] = "wait" /\ rid'[c] # None
               /\ drain'[c] \in {"no", "blocked"}
            \/ /\ pc'[c] = next /\ fut'[c] = "none" /\ rid'[c] = None
               /\ drain'[c] = drain[c]
BY NewIdFacts DEF Sent, Unsent, TypeOK

LEMMA CallerStep ==
  TypeOK /\ CallerInv /\ QueueInv /\ IdInv /\ [Next]_vars => CallerInv'
<1> SUFFICES ASSUME TypeOK, CallerInv, QueueInv, IdInv, [Next]_vars PROVE CallerInv'
  OBVIOUS
<1> USE GattAssumption DEF session, callers, tables, peer, history
<1>1. ASSUME UNCHANGED <<pc, fut, rid, target, held, opened>>,
             \A d \in Callers : drain'[d] # "no" => drain[d] # "no"
      PROVE  CallerInv'
  BY <1>1 DEF CallerInv, CallerAt
<1>2. ASSUME NEW c \in Callers, CallerAt(c)', UNCHANGED opened,
             \A h \in Handles : opened[h] # c,
             \A d \in Callers \ {c} :
               /\ pc'[d] = pc[d] /\ fut'[d] = fut[d] /\ rid'[d] = rid[d]
               /\ target'[d] = target[d] /\ held'[d] = held[d]
               /\ drain'[d] = drain[d]
      PROVE  CallerInv'
  <2>1. \A d \in Callers : CallerAt(d)'
    BY <1>2 DEF CallerInv, CallerAt
  <2>2. \A h \in Handles : opened[h] # None => opened[h] \in Callers \ {c}
    BY <1>2 DEF TypeOK
  <2>3. \A h \in Handles : opened'[h] # None =>
          target'[opened'[h]] = h /\ pc'[opened'[h]] \in {"opening", "abort"}
    BY <1>2, <2>2 DEF CallerInv
  <2> QED BY <2>1, <2>3 DEF CallerInv
<1>3. ASSUME NEW c \in Callers, pc[c] \notin {"opening", "abort"}
      PROVE  \A h \in Handles : opened[h] # c
  BY <1>3 DEF CallerInv
<1>4. ASSUME NEW c \in Callers, Unregister(c), CallerAt(c)',
             \A d \in Callers \ {c} :
               /\ pc'[d] = pc[d] /\ fut'[d] = fut[d] /\ rid'[d] = rid[d]
               /\ held'[d] = held[d] /\ drain'[d] = drain[d]
      PROVE  CallerInv'
  <2>1. \A d \in Callers \ {c} : target'[d] = target[d]
    BY <1>4 DEF Unregister, TypeOK
  <2>2. \A d \in Callers : CallerAt(d)'
    BY <1>4, <2>1 DEF CallerInv, CallerAt
  <2>3. \A h \in Handles : opened'[h] # None => opened'[h] = opened[h] /\ opened[h] # c
    BY <1>4 DEF Unregister, TypeOK, CallerInv
  <2>4. \A h \in Handles : opened'[h] # None => opened'[h] \in Callers \ {c}
    BY <2>3 DEF TypeOK
  <2>5. \A h \in Handles : opened'[h] # None =>
          target'[opened'[h]] = h /\ pc'[opened'[h]] \in {"opening", "abort"}
    BY <1>4, <2>1, <2>3, <2>4 DEF CallerInv
  <2> QED BY <2>2, <2>5 DEF CallerInv
<1>5. ASSUME NEW c \in Callers, NotInDrain(c)
      PROVE  /\ drain'[c] = "no" /\ \A d \in Callers \ {c} : drain'[d] = drain[d]
  BY <1>5 DEF NotInDrain, TypeOK
<1>6. ASSUME NEW c \in Callers, Connect(c) PROVE CallerInv'
  <2>1. CallerAt(c) /\ FreeIds # {}
    BY <1>6, HasId DEF Connect, CallerInv
  <2>4. \/ pc'[c] = "connOpen" /\ fut'[c] = "wait" /\ rid'[c] # None
        \/ pc'[c] = "idle" /\ fut'[c] = "none" /\ rid'[c] = None /\ drain'[c] = drain[c]
    <3>1. Sent(c, "connOpen", None, "connOpen") \/ Unsent(c, "idle")
      BY <1>6 DEF Connect
    <3> QED BY <2>1, <3>1, NewIdFacts DEF Sent, Unsent, TypeOK
  <2>2. CallerAt(c)'
    BY <1>6, <2>1, <2>4 DEF Connect, CallerAt, InRequest
  <2>3. \A d \in Callers \ {c} :
          /\ pc'[d] = pc[d] /\ fut'[d] = fut[d] /\ rid'[d] = rid[d] /\ drain'[d] = drain[d]
    BY SentFacts, <1>6, <2>1 DEF Connect
  <2> QED BY <1>2, <1>3, <1>6, <2>2, <2>3 DEF Connect
<1>7. ASSUME NEW c \in Callers, OnConnection(c) PROVE CallerInv'
  <2>1. CallerAt(c) /\ FreeIds # {}
    BY <1>7, HasId DEF OnConnection, CallerInv
  <2>4. \/ pc'[c] = "op" /\ fut'[c] = "wait" /\ rid'[c] # None
        \/ pc'[c] = "held" /\ fut'[c] = "none" /\ rid'[c] = None /\ drain'[c] = drain[c]
    <3>1. Sent(c, "op", held[c], "op") \/ Unsent(c, "held")
      BY <1>7 DEF OnConnection
    <3> QED BY <2>1, <3>1, NewIdFacts DEF Sent, Unsent, TypeOK
  <2>2. CallerAt(c)'
    BY <1>7, <2>1, <2>4 DEF OnConnection, CallerAt, InRequest
  <2>3. \A d \in Callers \ {c} :
          /\ pc'[d] = pc[d] /\ fut'[d] = fut[d] /\ rid'[d] = rid[d] /\ drain'[d] = drain[d]
    BY SentFacts, <1>7, <2>1 DEF OnConnection
  <2> QED BY <1>2, <1>3, <1>7, <2>2, <2>3 DEF OnConnection
<1>8. ASSUME NEW c \in Callers, Disconnect(c) PROVE CallerInv'
  <2>1. CallerAt(c)
    BY DEF CallerInv
  <2>2. held'[c] = None /\ \A d \in Callers \ {c} : held'[d] = held[d]
    BY <1>8 DEF Disconnect, TypeOK
  <2>3. /\ \A d \in Callers \ {c} :
             /\ pc'[d] = pc[d] /\ fut'[d] = fut[d] /\ rid'[d] = rid[d] /\ drain'[d] = drain[d]
        /\ \/ pc'[c] = "close" /\ fut'[c] = "wait" /\ rid'[c] # None
           \/ /\ pc'[c] = "idle" /\ fut'[c] = "none" /\ rid'[c] = None
              /\ drain'[c] = drain[c]
    <3>1. CASE Affords /\ \/ Sent(c, "connClose", held[c], "close")
                             \/ Unsent(c, "idle")
      <4>1. Sent(c, "connClose", held[c], "close") \/ Unsent(c, "idle")
        BY <3>1
      <4>2. FreeIds # {}
        BY <3>1, HasId
      <4>3. CASE Sent(c, "connClose", held[c], "close")
        BY <4>2, <4>3, NewIdFacts DEF Sent, TypeOK
      <4>4. CASE Unsent(c, "idle")
        BY <4>4 DEF Unsent, TypeOK
      <4> QED BY <4>1, <4>3, <4>4
    <3>2. CASE pc' = [pc EXCEPT ![c] = "idle"] /\ UNCHANGED <<pending, rid, fut, wire, drain>>
      <4>1. fut[c] = "none" /\ rid[c] = None
        BY <1>8, <2>1 DEF Disconnect, CallerAt, InRequest
      <4> QED BY <3>2, <4>1 DEF TypeOK
    <3> QED BY <1>8, <3>1, <3>2 DEF Disconnect
  <2>4. CallerAt(c)'
    BY <1>8, <2>1, <2>2, <2>3 DEF Disconnect, CallerAt, InRequest
  <2> QED BY <1>2, <1>3, <1>8, <2>2, <2>3, <2>4 DEF Disconnect
<1>9. ASSUME NEW c \in Callers, ResumeGaveUp(c) PROVE CallerInv'
  <2>1. CallerAt(c) /\ FreeIds # {}
    BY <1>9, HasId DEF ResumeGaveUp, CallerInv
  <2>2. \A d \in Callers \ {c} :
          /\ pc'[d] = pc[d] /\ fut'[d] = fut[d] /\ rid'[d] = rid[d] /\ drain'[d] = drain[d]
    BY SentFacts, <1>9, <2>1 DEF ResumeGaveUp
  <2>3. CASE Sent(c, "connClose", target[c], "abort") /\ UNCHANGED <<opened, target>>
    <3>1. pc'[c] = "abort" /\ fut'[c] = "wait" /\ rid'[c] # None
      BY <2>1, <2>3, NewIdFacts DEF Sent, TypeOK
    <3>2. CallerAt(c)'
      BY <1>9, <2>1, <2>3, <3>1 DEF ResumeGaveUp, CallerAt, InRequest
    <3>3. \A d \in Callers : CallerAt(d)'
      BY <1>9, <2>2, <2>3, <3>2 DEF ResumeGaveUp, CallerInv, CallerAt
    <3>4. \A h \in Handles : opened[h] # None => opened[h] \in Callers
      BY DEF TypeOK
    <3> QED BY <2>2, <2>3, <3>1, <3>3, <3>4 DEF CallerInv
  <2>4. CASE Unsent(c, "idle") /\ Unregister(c)
    <3>1. /\ pc'[c] = "idle" /\ fut'[c] = "none" /\ rid'[c] = None /\ target'[c] = None
          /\ drain' = drain
      BY <2>4 DEF Unsent, Unregister, TypeOK
    <3>2. CallerAt(c)'
      BY <1>9, <2>1, <3>1 DEF ResumeGaveUp, CallerAt, InRequest
    <3> QED BY <1>4, <1>9, <2>2, <2>4, <3>2 DEF ResumeGaveUp
  <2> QED BY <1>9, <2>3, <2>4 DEF ResumeGaveUp
<1>10. ASSUME NEW c \in Callers, ResumeConnOpen(c) PROVE CallerInv'
  <2>1. CallerAt(c)
    BY DEF CallerInv
  <2>2. /\ rid'[c] = None /\ \A d \in Callers \ {c} : rid'[d] = rid[d]
        /\ drain'[c] = "no" /\ \A d \in Callers \ {c} : drain'[d] = drain[d]
    BY <1>5, <1>10 DEF ResumeConnOpen, Returned, TypeOK
  <2>3. \A d \in Callers \ {c} :
          pc'[d] = pc[d] /\ fut'[d] = fut[d] /\ target'[d] = target[d]
    BY <1>10 DEF ResumeConnOpen, TypeOK
  <2>4. CASE fut[c] = "ok"
    <3>1. pc'[c] = "opening" /\ fut'[c] = "wait" /\ target'[c] = target[c] /\ target[c] \in Handles
      BY <1>10, <2>1, <2>4 DEF ResumeConnOpen, CallerAt, TypeOK
    <3>2. \A d \in Callers : CallerAt(d)'
      BY <1>10, <2>1, <2>2, <2>3, <3>1 DEF ResumeConnOpen, CallerInv, CallerAt, InRequest
    <3>3. \A h \in Handles : opened'[h] = IF h = target[c] THEN c ELSE opened[h]
      BY <1>10, <2>4, <3>1 DEF ResumeConnOpen, Register, TypeOK
    <3>4. \A h \in Handles : opened[h] # None => opened[h] \in Callers \ {c}
      BY <1>3, <1>10 DEF ResumeConnOpen, TypeOK
    <3>5. \A h \in Handles : opened'[h] # None =>
            target'[opened'[h]] = h /\ pc'[opened'[h]] \in {"opening", "abort"}
      BY <2>3, <3>1, <3>3, <3>4 DEF CallerInv
    <3> QED BY <3>2, <3>5 DEF CallerInv
  <2>5. CASE fut[c] # "ok"
    <3>1. pc'[c] = "idle" /\ fut'[c] = "none" /\ target'[c] = None /\ UNCHANGED opened
      BY <1>10, <2>5 DEF ResumeConnOpen, TypeOK
    <3>2. CallerAt(c)'
      BY <1>10, <2>1, <2>2, <3>1 DEF ResumeConnOpen, CallerAt, InRequest
    <3> QED BY <1>2, <1>3, <1>10, <2>2, <2>3, <3>1, <3>2 DEF ResumeConnOpen
  <2> QED BY <2>4, <2>5
<1>11. ASSUME NEW c \in Callers, NEW next, Done(c, next)
       PROVE  /\ pc'[c] = next /\ fut'[c] = "none" /\ rid'[c] = None
              /\ \A d \in Callers \ {c} :
                   pc'[d] = pc[d] /\ fut'[d] = fut[d] /\ rid'[d] = rid[d]
  BY <1>11 DEF Done, TypeOK
<1>12. ASSUME NEW c \in Callers, Unregister(c) PROVE target'[c] = None
  BY <1>12 DEF Unregister, TypeOK
<1>13. ASSUME NEW c \in Callers, ResumeOpened(c) PROVE CallerInv'
  <2>1. CallerAt(c)
    BY DEF CallerInv
  <2>2. /\ held'[c] = target[c] /\ \A d \in Callers \ {c} : held'[d] = held[d]
        /\ drain'[c] = "no" /\ \A d \in Callers \ {c} : drain'[d] = drain[d]
    BY <1>5, <1>13 DEF ResumeOpened, Returned, TypeOK
  <2>3. CallerAt(c)'
    BY <1>11, <1>12, <1>13, <2>1, <2>2 DEF ResumeOpened, CallerAt, InRequest
  <2> QED BY <1>4, <1>11, <1>13, <2>2, <2>3 DEF ResumeOpened
<1>14. ASSUME NEW c \in Callers, ResumeRefused(c) \/ ResumeAbort(c) PROVE CallerInv'
  <2>1. CallerAt(c)
    BY DEF CallerInv
  <2>3. drain'[c] = "no" /\ \A d \in Callers \ {c} : drain'[d] = drain[d]
    BY <1>5, <1>14 DEF ResumeRefused, ResumeAbort, Returned
  <2>2. CallerAt(c)'
    BY <1>11, <1>12, <1>14, <2>1, <2>3 DEF ResumeRefused, ResumeAbort, CallerAt, InRequest
  <2> QED BY <1>4, <1>11, <1>14, <2>2, <2>3 DEF ResumeRefused, ResumeAbort
<1>15. ASSUME NEW c \in Callers, ResumeRequest(c) PROVE CallerInv'
  <2>1. CallerAt(c)
    BY DEF CallerInv
  <2>3. drain'[c] = "no" /\ \A d \in Callers \ {c} : drain'[d] = drain[d]
    BY <1>5, <1>15 DEF ResumeRequest, Returned
  <2>2. CallerAt(c)'
    BY <1>11, <1>15, <2>1, <2>3 DEF ResumeRequest, AfterRequest, CallerAt, InRequest
  <2> QED BY <1>2, <1>3, <1>11, <1>15, <2>2, <2>3 DEF ResumeRequest
<1>15a. ASSUME NEW c \in Callers, ResumeDrained(c) \/ DrainEnds(c) \/ DrainFails(c)
        PROVE  CallerInv'
  BY <1>1, <1>15a DEF ResumeDrained, NotInDrain, DrainEnds, DrainFails, TypeOK
<1>15b. ASSUME NEW c \in Callers, ResumeCut(c) PROVE CallerInv'
  <2>1. CallerAt(c) /\ pc[c] \in InRequest
    BY <1>15b DEF CallerInv, CallerAt, ResumeCut
  <2>2. drain'[c] = "no" /\ \A d \in Callers \ {c} : drain'[d] = drain[d]
    BY <1>5, <1>15b DEF ResumeCut
  <2>3. target'[c] = None /\ \A d \in Callers \ {c} : target'[d] = target[d]
    BY <1>15b DEF ResumeCut, Unregister, TypeOK
  <2>4. CallerAt(c)'
    BY <1>11, <1>15b, <2>1, <2>2, <2>3 DEF ResumeCut, AfterRequest, CallerAt, InRequest
  <2>5. CASE Unregister(c)
    BY <1>4, <1>11, <1>15b, <2>2, <2>4, <2>5 DEF ResumeCut
  <2>6. CASE pc[c] # "abort" /\ UNCHANGED opened
    BY <1>2, <1>3, <1>11, <1>15b, <2>1, <2>2, <2>3, <2>4, <2>6 DEF ResumeCut, InRequest
  <2> QED BY <1>15b, <2>5, <2>6 DEF ResumeCut
<1>16. ASSUME NEW c \in Callers, GiveUp(c) PROVE CallerInv'
  <2>1. fut'[c] = "gone" /\ \A d \in Callers \ {c} : fut'[d] = fut[d]
    BY <1>16 DEF GiveUp, TypeOK
  <2>2. UNCHANGED <<pc, rid, target, held, opened, drain>> /\ fut[c] # "none"
    BY <1>16 DEF GiveUp
  <2>3. \A d \in Callers : CallerAt(d)'
    BY <2>1, <2>2 DEF CallerInv, CallerAt
  <2> QED BY <2>2, <2>3 DEF CallerInv
<1>17. CASE DispatchResponse
  <2> DEFINE m == Head(inbox)
  <2>1. UNCHANGED <<pc, rid, held, opened, drain>>
    BY <1>17 DEF DispatchResponse, Dispatch
  <2>2. CASE Leave /\ UNCHANGED target
    BY <1>1, <2>1, <2>2 DEF Leave
  <2>3. ASSUME NEW c \in Waiting(m), Complete(c, IF m.ok THEN "ok" ELSE "err"),
               target' = IF m.h = None THEN target ELSE [target EXCEPT ![c] = m.h]
        PROVE  CallerInv'
    <3>1. c \in Callers /\ rid[c] = m.id /\ fut[c] = "wait" /\ CallerAt(c)
      BY <2>3 DEF Waiting, CallerInv
    <3>2. m.h # None <=> m.ok /\ pc[c] = "connOpen"
      <4>1. inbox # <<>> /\ m.kind = "resp"
        BY <1>17 DEF DispatchResponse, Dispatch
      <4> QED BY <3>1, <4>1, HeadIsFor DEF MessageFor
    <3>3. /\ fut'[c] = IF m.ok THEN "ok" ELSE "err"
          /\ \A d \in Callers \ {c} : fut'[d] = fut[d]
      BY <2>3, <3>1 DEF Complete, TypeOK
    <3>4. /\ target'[c] = IF m.h = None THEN target[c] ELSE m.h
          /\ \A d \in Callers \ {c} : target'[d] = target[d]
      BY <2>3, <3>1 DEF TypeOK
    <3>5. CallerAt(c)'
      BY <2>1, <3>1, <3>2, <3>3, <3>4 DEF CallerAt, InRequest
    <3>6. pc[c] \notin {"opening", "abort"} \/ UNCHANGED target
      BY <2>3, <3>2
    <3>7. CASE UNCHANGED target
      <4>1. \A d \in Callers : CallerAt(d)'
        BY <2>1, <3>3, <3>5, <3>7 DEF CallerInv, CallerAt
      <4> QED BY <2>1, <3>7, <4>1 DEF CallerInv
    <3> QED BY <1>2, <1>3, <2>1, <3>1, <3>3, <3>4, <3>5, <3>6, <3>7
  <2> QED BY <1>17, <2>2, <2>3 DEF DispatchResponse
<1>18. ASSUME NEW h \in Handles, NEW how \in {"ok", "err"},
              IF Awaited(h) THEN Complete(opened[h], how) ELSE Leave
       PROVE  \A d \in Callers : fut'[d] = fut[d] \/ (fut[d] = "wait" /\ fut'[d] = how
                                                       /\ pc[d] = "opening")
  BY <1>18 DEF Awaited, Complete, Leave, TypeOK
<1>19. CASE DispatchOpened
  <2>1. Head(inbox).h \in Handles
    BY <1>19, HeadIsFor DEF DispatchOpened, Dispatch
  <2>2. UNCHANGED <<pc, rid, target, held, opened, drain>>
    BY <1>19 DEF DispatchOpened, Dispatch
  <2>3. \A d \in Callers : fut'[d] = fut[d] \/ (fut[d] = "wait" /\ fut'[d] = "ok"
                                                 /\ pc[d] = "opening")
    BY <1>18, <1>19, <2>1 DEF DispatchOpened
  <2>4. \A d \in Callers : CallerAt(d)'
    BY <2>2, <2>3 DEF CallerInv, CallerAt
  <2> QED BY <2>2, <2>4 DEF CallerInv
<1>20. ASSUME NEW C, Disconnected(C)
       PROVE  \A d \in Callers :
                \/ held'[d] = held[d] /\ pc'[d] = pc[d]
                \/ held'[d] = None /\ pc'[d] = IF pc[d] = "held" THEN "idle" ELSE pc[d]
  BY <1>20 DEF Disconnected
<1>21. CASE DispatchClosed
  <2>1. Head(inbox).h \in Handles
    BY <1>21, HeadIsFor DEF DispatchClosed, Dispatch
  <2>2. UNCHANGED <<rid, target, opened, drain>>
    BY <1>21 DEF DispatchClosed, Dispatch
  <2>3. \A d \in Callers : fut'[d] = fut[d] \/ (fut[d] = "wait" /\ fut'[d] = "err"
                                                 /\ pc[d] = "opening")
    BY <1>18, <1>21, <2>1 DEF DispatchClosed
  <2>4. \A d \in Callers :
          \/ held'[d] = held[d] /\ pc'[d] = pc[d]
          \/ held'[d] = None /\ pc'[d] = IF pc[d] = "held" THEN "idle" ELSE pc[d]
    BY <1>20, <1>21 DEF DispatchClosed
  <2>5. \A d \in Callers : CallerAt(d)'
    BY <2>2, <2>3, <2>4 DEF CallerInv, CallerAt, InRequest
  <2>6. \A h \in Handles : opened[h] # None => opened[h] \in Callers
    BY DEF TypeOK
  <2> QED BY <2>2, <2>4, <2>5, <2>6 DEF CallerInv
<1>22. CASE RunClears
  <2>1. UNCHANGED <<rid, target, drain>> /\ \A h \in Handles : opened'[h] = None
    BY <1>22 DEF RunClears, Flush
  <2>2. \A d \in Callers : fut'[d] = fut[d] \/ (fut[d] = "wait" /\ fut'[d] = "gone")
    BY <1>22 DEF RunClears, Flush, Interrupted
  <2>3. \A d \in Callers :
          \/ held'[d] = held[d] /\ pc'[d] = pc[d]
          \/ held'[d] = None /\ pc'[d] = IF pc[d] = "held" THEN "idle" ELSE pc[d]
    BY <1>20, <1>22 DEF RunClears, Flush
  <2>4. \A d \in Callers : CallerAt(d)'
    BY <2>1, <2>2, <2>3 DEF CallerInv, CallerAt, InRequest
  <2> QED BY <2>1, <2>4 DEF CallerInv
<1>23. CASE DispatchNotify \/ Lose \/ WakeRun \/ RunReleases \/ RunAttaches \/ Close
            \/ Daemon \/ Terminated \/ UNCHANGED vars
  BY <1>1, <1>23 DEF DispatchNotify, Dispatch, Leave, Lose, WakeRun, RunReleases,
     RunAttaches, Close, Daemon, ServeConnOpen, ServeConnClose, ServeOp, Serve,
     LinkOpens, LinkDrops, LinkNotifies, Radio, Terminated, vars
<1> QED
  BY <1>6, <1>7, <1>8, <1>9, <1>10, <1>13, <1>14, <1>15, <1>15a, <1>15b, <1>16, <1>17,
     <1>19, <1>21, <1>22, <1>23
  DEF Next, Operate, StartNotify, StopNotify, Resume, Reader, RunTask

-----------------------------------------------------------------------------
(* Ids *)

\* When a session starts nobody has a request of an earlier one.
LEMMA AttachIsClean ==
  ASSUME TypeOK, SessInv, CallerInv, QueueInv, RunAttaches
  PROVE  \A c \in Callers : rid[c] = None
<1> SUFFICES ASSUME NEW c \in Callers, rid[c] # None PROVE FALSE
  OBVIOUS
<1>1. /\ phase = "down" /\ ready # <<>> /\ Head(ready) = Run
  BY DEF RunAttaches, Resumed, Sess!Attach
<1>2. /\ pc[c] \in InRequest /\ fut[c] # "none" /\ fut[c] \notin {"ok", "err"}
      /\ drain[c] = "no"
  BY <1>1 DEF CallerInv, CallerAt, QueueInv, InRequest, SessInv
<1>3. fut[c] = "gone"
  BY <1>1, <1>2 DEF QueueInv, InRequest, TypeOK
<1>4. PICK i \in 1..Len(ready) : ready[i] = c
  BY <1>2, <1>3 DEF QueueInv, InQueue, Due, Woken
<1>5. ready[1] = Run /\ 1 \in 1..Len(ready) /\ 1 < i
  <2>1. ready[1] = Run /\ 1 \in 1..Len(ready) /\ Len(ready) \in Nat
    BY <1>1, TailFacts DEF TypeOK
  <2> QED BY <1>4, <2>1, GattAssumption
<1>6. pc[c] = "opening"
  BY <1>1, <1>4, <1>5 DEF QueueInv, Behind, After
<1> QED BY <1>2, <1>6 DEF InRequest

\* Requests and messages stay for whom they are for while their ids do not
\* move to another request.
LEMMA IdsKept ==
  ASSUME TypeOK, IdInv,
         \A c \in Callers :
           \/ rid'[c] = None
           \/ rid'[c] = NewId /\ FreeIds # {}
           \/ rid'[c] = rid[c] /\ (pc'[c] = "connOpen" <=> pc[c] = "connOpen")
  PROVE  /\ \A k \in 1..Len(wire) : RequestFor(wire[k], rid', pc')
         /\ \A k \in 1..Len(inbox) : MessageFor(inbox[k], rid', pc')
<1>1. \A k \in 1..Len(wire) : wire[k].id # None
  <2>1. wire \in Seq(Requests)
    BY DEF TypeOK, Requests
  <2>2. \A k \in 1..Len(wire) : wire[k] \in Requests
    BY <2>1
  <2> QED BY <2>2, GattAssumption DEF Requests
<1>2. ASSUME NEW k \in 1..Len(wire) PROVE RequestFor(wire[k], rid', pc')
  <2>1. \A c \in Callers : rid'[c] = wire[k].id =>
          rid'[c] = rid[c] /\ (pc'[c] = "connOpen" <=> pc[c] = "connOpen")
    BY <1>1, NewIdFacts
  <2> QED BY <2>1 DEF IdInv, RequestFor
<1>3. ASSUME NEW k \in 1..Len(inbox) PROVE MessageFor(inbox[k], rid', pc')
  <2>1. MessageFor(inbox[k], rid, pc)
    BY DEF IdInv
  <2>2. \A c \in Callers : inbox[k].kind = "resp" /\ rid'[c] = inbox[k].id =>
          rid'[c] = rid[c] /\ (pc'[c] = "connOpen" <=> pc[c] = "connOpen")
    BY <2>1, NewIdFacts DEF MessageFor
  <2> QED BY <2>1, <2>2 DEF MessageFor
<1> QED BY <1>2, <1>3

LEMMA SentIds ==
  ASSUME TypeOK, IdInv, FreeIds # {}, UNCHANGED phase, UNCHANGED inbox,
         SessInv, NEW c \in Callers, NEW act \in {"connOpen", "connClose", "op"},
         NEW h \in Handles \cup {None}, NEW wait, NEW next,
         act = "connClose" => h # None,
         act = "connOpen" <=> wait = "connOpen",
         pc[c] # "connOpen",
         Sent(c, act, h, wait) \/ Unsent(c, next)
  PROVE  IdInv'
<1>1. NewId \in Ids /\ NewId # None /\ NewId \notin pending
  BY NewIdFacts
<1>2. \A d \in Callers \ {c} : rid'[d] = rid[d] /\ pc'[d] = pc[d]
  BY SentFacts
<1>3. rid'[c] = NewId \/ rid'[c] = None
  BY DEF Sent, Unsent, TypeOK
<1>4. /\ \A k \in 1..Len(wire) : RequestFor(wire[k], rid', pc')
      /\ \A k \in 1..Len(inbox) : MessageFor(inbox[k], rid', pc')
  BY <1>2, <1>3, IdsKept
<1>5. PendingInv'
  <2>1. phase \in {"up", "lost", "disc"} =>
          /\ pending \subseteq pending' /\ leaked' \subseteq pending'
          /\ rid'[c] # None => rid'[c] = NewId /\ NewId \in pending' /\ leaked' = leaked
          /\ leaked' \subseteq leaked \cup {NewId}
    BY <1>1 DEF Sent, Unsent, TypeOK, IdInv, PendingInv
  <2>2. phase \in {"up", "lost", "disc"} => \A d \in Callers \ {c} : rid[d] # NewId
    BY <1>1 DEF IdInv, PendingInv
  <2> QED BY <1>1, <1>2, <1>3, <2>1, <2>2 DEF IdInv, PendingInv
<1>6. \A k \in 1..Len(wire') : RequestFor(wire'[k], rid', pc')
  <2>1. CASE UNCHANGED wire
    BY <1>4, <2>1
  <2>2. CASE Sent(c, act, h, wait) /\ wire' = Append(wire, [id |-> NewId, act |-> act, h |-> h, by |-> c])
    <3> DEFINE w == [id |-> NewId, act |-> act, h |-> h, by |-> c]
    <3>1. w \in Requests /\ wire \in Seq(Requests)
      BY <1>1 DEF Requests, TypeOK
    <3>2. RequestFor(w, rid', pc')
      <4>1. pc'[c] = wait
        BY <2>2 DEF Sent, TypeOK
      <4>2. \A d \in Callers : rid'[d] = NewId /\ phase = "up" => d = c
        BY <1>1, <1>2 DEF IdInv, PendingInv
      <4>3. phase = "up"
        <5>1. Len(Append(wire, w)) = Len(wire) + 1 /\ Len(wire) \in Nat
          BY <3>1, AppendFacts
        <5>2. wire' # wire
          BY <2>2, <5>1
        <5> QED BY <2>2, <5>2 DEF Sent
      <4> QED BY <4>1, <4>2, <4>3 DEF RequestFor
    <3>3. /\ Len(wire') = Len(wire) + 1 /\ wire'[Len(wire) + 1] = w
          /\ \A k \in 1..Len(wire) : wire'[k] = wire[k]
          /\ \A k \in 1..Len(wire) + 1 : k \in 1..Len(wire) \/ k = Len(wire) + 1
      BY <2>2, <3>1, AppendFacts
    <3> QED BY <1>4, <3>2, <3>3
  <2> QED BY <2>1, <2>2 DEF Sent, Unsent
<1> QED BY <1>4, <1>5, <1>6 DEF IdInv

LEMMA IdStep ==
  TypeOK /\ SessInv /\ CallerInv /\ QueueInv /\ IdInv /\ [Next]_vars => IdInv'
<1> SUFFICES ASSUME TypeOK, SessInv, CallerInv, QueueInv, IdInv, [Next]_vars
             PROVE  IdInv'
  OBVIOUS
<1> USE DEF session, callers, tables, peer, history
<1>1. ASSUME NEW c \in Callers, UNCHANGED <<phase, wire, inbox>>,
             rid'[c] = None, \A d \in Callers \ {c} : rid'[d] = rid[d] /\ pc'[d] = pc[d],
             \/ pending' = pending \/ pending' = pending \ {rid[c]},
             \/ UNCHANGED leaked
             \/ UNCHANGED pending /\ leaked' = leaked \cup ({rid[c]} \cap pending)
      PROVE  IdInv'
  <2>1. PendingInv'
    <3>1. CASE phase \notin {"up", "lost", "disc"}
      BY <1>1, <3>1 DEF PendingInv
    <3>2. CASE phase \in {"up", "lost", "disc"}
      <4>1. /\ leaked \subseteq pending
            /\ \A d \in Callers : rid[d] # None => rid[d] \in pending \ leaked
            /\ \A d, e \in Callers : rid[d] # None /\ rid[d] = rid[e] => d = e
        BY <3>2 DEF IdInv, PendingInv
      <4>2. rid[c] \notin leaked
        BY <4>1, GattAssumption DEF TypeOK
      <4>3. leaked' \subseteq pending'
        BY <1>1, <4>1, <4>2
      <4>4. \A d \in Callers : rid'[d] # None => d # c /\ rid'[d] = rid[d]
        BY <1>1
      <4>5. \A d \in Callers : rid'[d] # None => rid'[d] \in pending' \ leaked'
        BY <1>1, <4>1, <4>4
      <4> QED BY <4>1, <4>3, <4>4, <4>5 DEF PendingInv
    <3> QED BY <3>1, <3>2
  <2>2. \A d \in Callers :
           \/ rid'[d] = None
           \/ rid'[d] = rid[d] /\ (pc'[d] = "connOpen" <=> pc[d] = "connOpen")
    BY <1>1
  <2> QED BY <1>1, <2>1, <2>2, IdsKept DEF IdInv
<1>2. ASSUME UNCHANGED <<rid, pending, leaked>>,
             phase' \in {"up", "lost", "disc"} => phase \in {"up", "lost", "disc"},
             \A c \in Callers : pc'[c] = "connOpen" <=> pc[c] = "connOpen"
      PROVE  /\ PendingInv'
             /\ \A k \in 1..Len(wire) : RequestFor(wire[k], rid', pc')
             /\ \A k \in 1..Len(inbox) : MessageFor(inbox[k], rid', pc')
  <2>1. PendingInv'
    BY <1>2 DEF IdInv, PendingInv
  <2> QED BY <1>2, <2>1, IdsKept
<1>3. wire # <<>> /\ wire' = Tail(wire) /\ (\A k \in 1..Len(wire) : RequestFor(wire[k], rid', pc'))
        => \A k \in 1..Len(wire') : RequestFor(wire'[k], rid', pc')
  <2>1. wire \in Seq(Requests)
    BY DEF TypeOK, Requests
  <2> QED BY <2>1, TailFacts
<1>4. inbox # <<>> /\ inbox' = Tail(inbox) /\ (\A k \in 1..Len(inbox) : MessageFor(inbox[k], rid', pc'))
        => \A k \in 1..Len(inbox') : MessageFor(inbox'[k], rid', pc')
  <2>1. inbox \in Seq(Message)
    BY DEF TypeOK
  <2> QED BY <2>1, TailFacts
<1>5. ASSUME \A k \in 1..Len(inbox) : MessageFor(inbox[k], rid', pc'),
             \/ \E e \in Message : MessageFor(e, rid', pc') /\ inbox' = Append(inbox, e)
             \/ \E e, f \in Message : /\ MessageFor(e, rid', pc') /\ MessageFor(f, rid', pc')
                                      /\ inbox' = inbox \o <<e, f>>
      PROVE  \A k \in 1..Len(inbox') : MessageFor(inbox'[k], rid', pc')
  <2>1. inbox \in Seq(Message)
    BY DEF TypeOK
  <2>2. ASSUME NEW e \in Message, MessageFor(e, rid', pc'), inbox' = Append(inbox, e)
        PROVE  \A k \in 1..Len(inbox') : MessageFor(inbox'[k], rid', pc')
    <3>1. /\ Len(inbox') = Len(inbox) + 1 /\ inbox'[Len(inbox) + 1] = e
          /\ \A k \in 1..Len(inbox) : inbox'[k] = inbox[k]
          /\ \A k \in 1..Len(inbox) + 1 : k \in 1..Len(inbox) \/ k = Len(inbox) + 1
      BY <2>1, <2>2, AppendFacts
    <3> QED BY <1>5, <2>2, <3>1
  <2>3. ASSUME NEW e \in Message, NEW f \in Message, MessageFor(e, rid', pc'),
               MessageFor(f, rid', pc'), inbox' = inbox \o <<e, f>>
        PROVE  \A k \in 1..Len(inbox') : MessageFor(inbox'[k], rid', pc')
    <3>1. /\ Len(inbox') = Len(inbox) + 2
          /\ inbox'[Len(inbox) + 1] = e /\ inbox'[Len(inbox) + 2] = f
          /\ \A k \in 1..Len(inbox) : inbox'[k] = inbox[k]
          /\ \A k \in 1..Len(inbox) + 2 :
               k \in 1..Len(inbox) \/ k = Len(inbox) + 1 \/ k = Len(inbox) + 2
      BY <2>1, <2>3, PairFacts
    <3> QED BY <1>5, <2>3, <3>1
  <2> QED BY <1>5, <2>2, <2>3
<1>6. CASE UNCHANGED vars
  BY <1>2, <1>6 DEF vars, IdInv
<1>7. ASSUME NEW c \in Callers, Connect(c) PROVE IdInv'
  <2>1. FreeIds # {}
    BY <1>7, HasId DEF Connect
  <2> QED BY <1>7, <2>1, SentIds DEF Connect
<1>8. ASSUME NEW c \in Callers, OnConnection(c) PROVE IdInv'
  <2>1. FreeIds # {} /\ held[c] \in Handles \cup {None}
    BY <1>8, HasId DEF OnConnection, TypeOK
  <2> QED BY <1>8, <2>1, SentIds DEF OnConnection
<1>9. ASSUME NEW c \in Callers, Disconnect(c) PROVE IdInv'
  <2>1. UNCHANGED <<phase, inbox>> /\ pc[c] = "held" /\ held[c] # None /\ held[c] \in Handles \cup {None}
    BY <1>9 DEF Disconnect, TypeOK
  <2>2. CASE Affords /\ \/ Sent(c, "connClose", held[c], "close")
                           \/ Unsent(c, "idle")
    <3>1. FreeIds # {}
      BY <2>2, HasId
    <3> QED BY <2>1, <2>2, <3>1, SentIds
  <2>3. CASE pc' = [pc EXCEPT ![c] = "idle"] /\ UNCHANGED <<pending, rid, fut, wire, leaked>>
    <3>1. \A d \in Callers : pc'[d] = "connOpen" <=> pc[d] = "connOpen"
      BY <2>1, <2>3 DEF TypeOK
    <3> QED BY <1>2, <2>1, <2>3, <3>1 DEF IdInv
  <2> QED BY <1>9, <2>2, <2>3 DEF Disconnect
<1>10. ASSUME NEW c \in Callers, ResumeGaveUp(c) PROVE IdInv'
  <2>1. FreeIds # {} /\ target[c] \in Handles \cup {None} /\ target[c] # None
    BY <1>10, HasId DEF ResumeGaveUp, CallerInv, CallerAt, TypeOK
  <2>2. Sent(c, "connClose", target[c], "abort") \/ Unsent(c, "idle")
    BY <1>10 DEF ResumeGaveUp
  <2> QED BY <1>10, <2>1, <2>2, SentIds DEF ResumeGaveUp
<1>11. ASSUME NEW c \in Callers,
              \/ ResumeConnOpen(c) \/ ResumeOpened(c) \/ ResumeRefused(c)
              \/ ResumeAbort(c) \/ ResumeRequest(c) \/ ResumeCut(c)
       PROVE  IdInv'
  <2>1. /\ UNCHANGED <<phase, wire, inbox>> /\ (pending' = pending \/ pending' = pending \ {rid[c]})
        /\ \/ UNCHANGED leaked
           \/ UNCHANGED pending /\ leaked' = leaked \cup ({rid[c]} \cap pending)
    BY <1>11 DEF ResumeConnOpen, ResumeOpened, ResumeRefused, ResumeAbort, ResumeRequest,
       ResumeCut, Answered
  <2>2. rid'[c] = None /\ \A d \in Callers \ {c} : rid'[d] = rid[d] /\ pc'[d] = pc[d]
    BY <1>11 DEF ResumeConnOpen, ResumeOpened, ResumeRefused, ResumeAbort, ResumeRequest,
       ResumeCut, Done, TypeOK
  <2> QED BY <1>1, <2>1, <2>2
<1>12. ASSUME NEW c \in Callers,
              GiveUp(c) \/ DrainEnds(c) \/ DrainFails(c) \/ ResumeDrained(c)
       PROVE  IdInv'
  BY <1>2, <1>12 DEF GiveUp, DrainEnds, DrainFails, ResumeDrained, IdInv
<1>13. CASE Reader
  <2>1. UNCHANGED <<rid, pending, leaked, phase, wire>> /\ inbox # <<>> /\ inbox' = Tail(inbox)
    BY <1>13 DEF Reader, DispatchResponse, DispatchOpened, DispatchClosed, DispatchNotify, Dispatch
  <2>2. \A c \in Callers : pc'[c] = "connOpen" <=> pc[c] = "connOpen"
    BY <1>13 DEF Reader, DispatchResponse, DispatchOpened, DispatchClosed, DispatchNotify,
       Disconnected
  <2> QED BY <1>2, <1>4, <2>1, <2>2 DEF IdInv
<1>14. CASE Lose
  <2>1. wire' = <<>> /\ inbox' = <<>> /\ UNCHANGED <<rid, pc, pending, leaked>> /\ phase = "up"
    BY <1>14 DEF Lose, NoTraffic, Sess!Lose
  <2> QED BY <1>2, <2>1 DEF IdInv
<1>15. CASE WakeRun \/ RunReleases \/ Close \/ Terminated
  <2>1. UNCHANGED <<rid, pc, pending, leaked, wire, inbox>>
        /\ (phase' \in {"up", "lost", "disc"} => phase \in {"up", "lost", "disc"})
    BY <1>15 DEF WakeRun, RunReleases, Close, Terminated, vars, Sess!Release, Sess!Close
  <2> QED BY <1>2, <2>1 DEF IdInv
<1>16. CASE RunAttaches
  <2>1. UNCHANGED <<rid, pc, pending, wire, inbox>>
    BY <1>16 DEF RunAttaches
  <2>2. PendingInv'
    <3>1. leaked' = {}
      BY <1>16 DEF RunAttaches, Sess!Attach, SessInv
    <3> QED BY <1>16, <2>1, <3>1, AttachIsClean DEF PendingInv
  <2> QED BY <2>1, <2>2 DEF IdInv
<1>17. CASE RunClears
  <2>1. UNCHANGED <<rid, wire, inbox>> /\ phase' \in {"down", "dead"}
        /\ \A c \in Callers : pc'[c] = "connOpen" <=> pc[c] = "connOpen"
    BY <1>17 DEF RunClears, Flush, Disconnected, Sess!Clear, Sess!Abandon
  <2>2. PendingInv'
    BY <2>1 DEF PendingInv
  <2>3. /\ \A k \in 1..Len(wire) : RequestFor(wire[k], rid', pc')
        /\ \A k \in 1..Len(inbox) : MessageFor(inbox[k], rid', pc')
    BY <2>1, IdsKept
  <2> QED BY <2>1, <2>2, <2>3 DEF IdInv
<1>18. ASSUME UNCHANGED <<rid, pc, pending, leaked, phase>> PROVE
         /\ PendingInv'
         /\ \A k \in 1..Len(wire) : RequestFor(wire[k], rid', pc')
         /\ \A k \in 1..Len(inbox) : MessageFor(inbox[k], rid', pc')
  BY <1>2, <1>18
<1>19. ASSUME wire # <<>>
       PROVE  /\ Grant.id \in Ids /\ Grant.id # None /\ RequestFor(Grant, rid, pc)
              /\ Grant.h \in Handles \cup {None}
  <2>1. wire \in Seq(Requests)
    BY DEF TypeOK, Requests
  <2>2. Grant \in Requests /\ RequestFor(Grant, rid, pc)
    BY <1>19, <2>1, TailFacts DEF Grant, IdInv
  <2> QED BY <2>2, GattAssumption DEF Requests
<1>20. CASE ServeConnOpen
  <2>1. /\ wire # <<>> /\ wire' = Tail(wire) /\ UNCHANGED <<rid, pc, pending, leaked, phase>>
        /\ Grant.act = "connOpen"
    BY <1>20 DEF ServeConnOpen, Serve, Grant
  <2>2. \A h \in Handles : MessageFor(Response(Grant.id, TRUE, h), rid', pc')
    BY <1>19, <2>1, GattAssumption DEF RequestFor, MessageFor, Response
  <2>3. MessageFor(Response(Grant.id, FALSE, None), rid', pc')
    BY <1>19, <2>1 DEF RequestFor, MessageFor, Response
  <2>4. \E e \in Message : MessageFor(e, rid', pc') /\ inbox' = Append(inbox, e)
    <3>1. CASE inbox' = Append(inbox, Response(Grant.id, FALSE, None))
      BY <1>19, <2>1, <2>3, <3>1, MessageTypes
    <3>2. ASSUME NEW h \in Handles, inbox' = Append(inbox, Response(Grant.id, TRUE, h))
          PROVE  \E e \in Message : MessageFor(e, rid', pc') /\ inbox' = Append(inbox, e)
      BY <1>19, <2>1, <2>2, <3>2, MessageTypes
    <3> QED BY <1>20, <3>1, <3>2 DEF ServeConnOpen
  <2> QED BY <1>3, <1>5, <1>18, <2>1, <2>4 DEF IdInv
<1>21. CASE ServeOp
  <2>1. /\ wire # <<>> /\ wire' = Tail(wire) /\ UNCHANGED <<rid, pc, pending, leaked, phase>>
        /\ Grant.act = "op"
    BY <1>21 DEF ServeOp, Serve, Grant
  <2>2. \A ok \in BOOLEAN : MessageFor(Response(Grant.id, ok, None), rid', pc')
    BY <1>19, <2>1 DEF RequestFor, MessageFor, Response
  <2>3. \E e \in Message : MessageFor(e, rid', pc') /\ inbox' = Append(inbox, e)
    BY <1>19, <1>21, <2>1, <2>2, MessageTypes DEF ServeOp
  <2> QED BY <1>3, <1>5, <1>18, <2>1, <2>3 DEF IdInv
<1>22. CASE ServeConnClose
  <2>1. /\ wire # <<>> /\ wire' = Tail(wire) /\ UNCHANGED <<rid, pc, pending, leaked, phase>>
        /\ Grant.act = "connClose"
    BY <1>22 DEF ServeConnClose, Serve, Grant
  <2>2. \A ok \in BOOLEAN : MessageFor(Response(Grant.id, ok, None), rid', pc')
    BY <1>19, <2>1 DEF RequestFor, MessageFor, Response
  <2>3. MessageFor(Event("closed", Grant.h), rid', pc')
    BY <1>19, <2>1 DEF RequestFor, MessageFor, Event
  <2>4. /\ Response(Grant.id, TRUE, None) \in Message /\ Response(Grant.id, FALSE, None) \in Message
        /\ Event("closed", Grant.h) \in Message
    BY <1>19, <2>1, MessageTypes
  <2>5. \/ inbox' = inbox \o <<Response(Grant.id, TRUE, None), Event("closed", Grant.h)>>
        \/ inbox' = inbox \o <<Event("closed", Grant.h), Response(Grant.id, TRUE, None)>>
        \/ inbox' = Append(inbox, Response(Grant.id, FALSE, None))
    BY <1>22 DEF ServeConnClose
  <2>6. \/ \E e \in Message : MessageFor(e, rid', pc') /\ inbox' = Append(inbox, e)
        \/ \E e, f \in Message : /\ MessageFor(e, rid', pc') /\ MessageFor(f, rid', pc')
                                 /\ inbox' = inbox \o <<e, f>>
    BY <2>2, <2>3, <2>4, <2>5
  <2> QED BY <1>3, <1>5, <1>18, <2>1, <2>6 DEF IdInv
<1>23. ASSUME NEW h \in Handles, LinkOpens(h) \/ LinkDrops(h) \/ LinkNotifies(h)
       PROVE  IdInv'
  <2>1. UNCHANGED <<rid, pc, pending, leaked, phase, wire>>
    BY <1>23 DEF LinkOpens, LinkDrops, LinkNotifies, Radio
  <2>2. \A k \in {"opened", "closed", "notify"} :
          Event(k, h) \in Message /\ MessageFor(Event(k, h), rid', pc')
    BY MessageTypes, GattAssumption DEF MessageFor, Event
  <2>3. \E e \in Message : MessageFor(e, rid', pc') /\ inbox' = Append(inbox, e)
    BY <1>23, <2>2 DEF LinkOpens, LinkDrops, LinkNotifies
  <2> QED BY <1>5, <1>18, <2>1, <2>3 DEF IdInv
<1> QED
  BY <1>6, <1>7, <1>8, <1>9, <1>10, <1>11, <1>12, <1>13, <1>14, <1>15, <1>16, <1>17,
     <1>20, <1>21, <1>22, <1>23
  DEF Next, Operate, StartNotify, StopNotify, Resume, RunTask, Daemon

-----------------------------------------------------------------------------
(* The queue of woken tasks *)

Tasks == Callers \cup {Run}

LEMMA QueueTail ==
  ASSUME NEW r \in Seq(Tasks), r # <<>>, NEW f, NEW g, InQueue(r, f),
         \A d \in Callers : d # Head(r) => (d \in g <=> d \in f),
         Head(r) \in Callers => Head(r) \notin g
  PROVE  /\ InQueue(Tail(r), g)
         /\ \A x \in Tasks, d \in Callers : After(Tail(r), x, d) => After(r, x, d) /\ d # Head(r)
         /\ \A x \in Tasks, d \in Callers : After(r, x, d) /\ x # Head(r) => After(Tail(r), x, d)
         /\ Head(r) = Run => \A i \in 1..Len(Tail(r)) : Tail(r)[i] # Run
         /\ (\A i \in 1..Len(r) : r[i] # Run) => \A i \in 1..Len(Tail(r)) : Tail(r)[i] # Run
<1>1. /\ Len(Tail(r)) = Len(r) - 1 /\ Len(r) \in Nat /\ Len(r) > 0 /\ 1 \in 1..Len(r)
      /\ Head(r) = r[1] /\ Head(r) \in Tasks
      /\ \A i \in 1..Len(Tail(r)) : Tail(r)[i] = r[i + 1] /\ i + 1 \in 1..Len(r)
  BY TailFacts
<1>2. \A i, j \in 1..Len(Tail(r)) : Tail(r)[i] = Tail(r)[j] => i = j
  BY <1>1 DEF InQueue
<1>3. \A i \in 1..Len(Tail(r)) : Tail(r)[i] # Head(r)
  BY <1>1 DEF InQueue
<1>4. \A i \in 1..Len(r) : r[i] # Head(r) => i - 1 \in 1..Len(Tail(r)) /\ Tail(r)[i - 1] = r[i]
  BY <1>1
<1>5. ASSUME NEW d \in Callers
      PROVE  d \in g <=> \E i \in 1..Len(Tail(r)) : Tail(r)[i] = d
  <2>1. CASE d = Head(r)
    BY <1>3, <2>1
  <2>2. CASE d # Head(r)
    <3>1. (\E i \in 1..Len(Tail(r)) : Tail(r)[i] = d) <=> \E i \in 1..Len(r) : r[i] = d
      BY <1>1, <1>4, <2>2
    <3> QED BY <2>2, <3>1 DEF InQueue
  <2> QED BY <2>1, <2>2
<1>6. InQueue(Tail(r), g)
  BY <1>2, <1>5 DEF InQueue
<1>7. ASSUME NEW x \in Tasks, NEW d \in Callers, After(Tail(r), x, d)
      PROVE  After(r, x, d) /\ d # Head(r)
  <2>1. PICK i, j \in 1..Len(Tail(r)) : Tail(r)[i] = x /\ i < j /\ Tail(r)[j] = d
    BY <1>7 DEF After
  <2>2. /\ i + 1 \in 1..Len(r) /\ j + 1 \in 1..Len(r) /\ i + 1 < j + 1
        /\ r[i + 1] = x /\ r[j + 1] = d
    BY <1>1, <2>1
  <2> QED BY <1>3, <2>1, <2>2 DEF After
<1>8. ASSUME NEW x \in Tasks, NEW d \in Callers, After(r, x, d), x # Head(r)
      PROVE  After(Tail(r), x, d)
  <2>1. PICK i, j \in 1..Len(r) : r[i] = x /\ i < j /\ r[j] = d
    BY <1>8 DEF After
  <2>2. d # Head(r)
    BY <1>1, <2>1 DEF InQueue
  <2>3. /\ i - 1 \in 1..Len(Tail(r)) /\ j - 1 \in 1..Len(Tail(r)) /\ i - 1 < j - 1
        /\ Tail(r)[i - 1] = x /\ Tail(r)[j - 1] = d
    BY <1>1, <1>4, <1>8, <2>1, <2>2
  <2> QED BY <2>3 DEF After
<1> QED BY <1>1, <1>3, <1>6, <1>7, <1>8

LEMMA QueueAppend ==
  ASSUME NEW r \in Seq(Tasks), NEW e \in Tasks, NEW f, NEW g, InQueue(r, f),
         \A i \in 1..Len(r) : r[i] # e,
         \A d \in Callers \ {e} : d \in g <=> d \in f,
         e \in Callers => e \in g
  PROVE  /\ InQueue(Append(r, e), g)
         /\ \A x \in Tasks, d \in Callers : After(Append(r, e), x, d) <=>
              After(r, x, d) \/ (d = e /\ \E i \in 1..Len(r) : r[i] = x)
         /\ e # Run /\ (\A i \in 1..Len(r) : r[i] # Run) =>
              \A i \in 1..Len(Append(r, e)) : Append(r, e)[i] # Run
<1> DEFINE s == Append(r, e)
<1>1. /\ Len(s) = Len(r) + 1 /\ Len(r) \in Nat /\ s[Len(r) + 1] = e
      /\ \A i \in 1..Len(r) : s[i] = r[i] /\ i \in 1..Len(s)
      /\ \A i \in 1..Len(s) : i \in 1..Len(r) \/ i = Len(r) + 1
      /\ Len(r) + 1 \in 1..Len(s)
  BY AppendFacts
<1> HIDE DEF s
<1>2. \A i, j \in 1..Len(s) : s[i] = s[j] => i = j
  BY <1>1 DEF InQueue
<1>3. ASSUME NEW d \in Callers
      PROVE  d \in g <=> \E i \in 1..Len(s) : s[i] = d
  <2>1. CASE d = e
    BY <1>1, <2>1
  <2>2. CASE d # e
    <3>1. (\E i \in 1..Len(s) : s[i] = d) <=> \E i \in 1..Len(r) : r[i] = d
      BY <1>1, <2>2
    <3> QED BY <2>2, <3>1 DEF InQueue
  <2> QED BY <2>1, <2>2
<1>4. InQueue(s, g)
  BY <1>2, <1>3 DEF InQueue
<1>5. ASSUME NEW x \in Tasks, NEW d \in Callers
      PROVE  After(s, x, d) <=> After(r, x, d) \/ (d = e /\ \E i \in 1..Len(r) : r[i] = x)
  <2>1. ASSUME After(s, x, d)
        PROVE  After(r, x, d) \/ (d = e /\ \E i \in 1..Len(r) : r[i] = x)
    <3>1. PICK i, j \in 1..Len(s) : s[i] = x /\ i < j /\ s[j] = d
      BY <2>1 DEF After
    <3>2. i \in 1..Len(r) /\ r[i] = x
      BY <1>1, <3>1
    <3>3. CASE j \in 1..Len(r)
      BY <1>1, <3>1, <3>2, <3>3 DEF After
    <3>4. CASE j = Len(r) + 1
      BY <1>1, <3>1, <3>2, <3>4
    <3> QED BY <1>1, <3>3, <3>4
  <2>2. ASSUME After(r, x, d) PROVE After(s, x, d)
    <3>1. PICK i, j \in 1..Len(r) : r[i] = x /\ i < j /\ r[j] = d
      BY <2>2 DEF After
    <3>2. i \in 1..Len(s) /\ j \in 1..Len(s) /\ s[i] = x /\ s[j] = d
      BY <1>1, <3>1
    <3> QED BY <3>1, <3>2 DEF After
  <2>3. ASSUME d = e, NEW i \in 1..Len(r), r[i] = x PROVE After(s, x, d)
    <3>1. i < Len(r) + 1 /\ i \in 1..Len(s) /\ s[i] = x
      BY <1>1, <2>3
    <3> QED BY <1>1, <2>3, <3>1 DEF After
  <2> QED BY <2>1, <2>2, <2>3
<1>6. e # Run /\ (\A i \in 1..Len(r) : r[i] # Run) => \A i \in 1..Len(s) : s[i] # Run
  BY <1>1
<1> QED BY <1>4, <1>5, <1>6 DEF s

LEMMA ConcatFacts ==
  ASSUME NEW S, NEW s \in Seq(S), NEW t \in Seq(S)
  PROVE  /\ Len(s \o t) = Len(s) + Len(t) /\ Len(s) \in Nat /\ Len(t) \in Nat
         /\ \A i \in 1..Len(s) : (s \o t)[i] = s[i]
         /\ \A i \in 1..Len(t) : (s \o t)[Len(s) + i] = t[i] /\ Len(s) + i \in 1..Len(s \o t)
         /\ \A i \in 1..Len(s \o t) :
              i \in 1..Len(s) \/ (i - Len(s) \in 1..Len(t) /\ (s \o t)[i] = t[i - Len(s)])
OBVIOUS

\* The flush puts everybody it interrupts behind those in the queue.
LEMMA QueueFlush ==
  ASSUME TypeOK, QueueInv, RunClears
  PROVE  /\ InQueue(ready', Due')
         /\ \A i \in 1..Len(ready') : ready'[i] # Run
<1> DEFINE W == {c \in Interrupted : drain[c] = "no"}
<1>1. PICK order \in SetToSeqs(W) : ready' = Tail(ready) \o order
  BY DEF RunClears, Flush
<1> DEFINE n == Cardinality(W)
           t == Tail(ready)
<1>2. IsFiniteSet(W) /\ W \subseteq Callers /\ n \in Nat
  <2>1. IsFiniteSet(W) /\ W \subseteq Callers
    BY GattAssumption, FS_Subset DEF Interrupted
  <2> QED BY <2>1, FS_CardinalityType
<1>3. order \in Seq(W) /\ Len(order) = n
  BY <1>1, <1>2, OrderFacts
<1>3a. \A i \in 1..n : order[i] \in W
  BY <1>1, <1>2, OrderFacts
<1>3b. \A i, j \in 1..n : order[i] = order[j] => i = j
  BY <1>1, <1>2, OrderFacts
<1>4. \A c \in W : \E i \in 1..n : order[i] = c
  <2> HIDE DEF W
  <2> QED BY <1>1, <1>2, OrderFacts
<1>5. /\ ready # <<>> /\ Head(ready) = Run /\ ready \in Seq(Tasks)
      /\ fut' = [c \in Callers |-> IF c \in Interrupted THEN "gone" ELSE fut[c]]
      /\ UNCHANGED drain /\ \A c \in Interrupted : fut[c] = "wait"
  BY DEF RunClears, Flush, Interrupted, TypeOK, Tasks
<1>5a. \A c \in Callers : c \in Due' <=> c \in W \/ c \in Due
  BY <1>5 DEF Due, Woken, OutOfDrain
<1>5b. \A c \in W : c \notin Due
  BY <1>5 DEF Due, Woken, OutOfDrain
<1>6. InQueue(t, Due) /\ \A i \in 1..Len(t) : t[i] # Run
  BY <1>5, QueueTail, GattAssumption DEF QueueInv
<1>7. t \in Seq(Tasks) /\ order \in Seq(Tasks)
  <2>1. t \in Seq(Tasks)
    BY <1>5, TailFacts
  <2>2. order \in Seq(Tasks)
    BY <1>2, <1>3 DEF Tasks
  <2> QED BY <2>1, <2>2
<1> HIDE DEF n, W
<1>7a. ready' = t \o order
  BY <1>1
<1> HIDE DEF t
<1>8. /\ Len(ready') = Len(t) + n /\ Len(t) \in Nat
      /\ \A i \in 1..Len(t) : ready'[i] = t[i]
  <2>1. Len(t \o order) = Len(t) + Len(order) /\ Len(t) \in Nat
    BY <1>7, ConcatFacts
  <2>2. \A i \in 1..Len(t) : (t \o order)[i] = t[i]
    BY <1>7, ConcatFacts
  <2> QED BY <1>3, <1>7a, <2>1, <2>2
<1>8a. \A i \in 1..Len(ready') : i \notin 1..Len(t) => i - Len(t) \in 1..n /\ ready'[i] = order[i - Len(t)]
  <2>1. \A i \in 1..Len(t \o order) :
          i \in 1..Len(t) \/ (i - Len(t) \in 1..Len(order) /\ (t \o order)[i] = order[i - Len(t)])
    BY <1>7, ConcatFacts
  <2> QED BY <1>3, <1>7a, <2>1
<1>8b. \A i \in 1..n : ready'[Len(t) + i] = order[i] /\ Len(t) + i \in 1..Len(ready')
  <2>1. \A i \in 1..Len(order) : (t \o order)[Len(t) + i] = order[i] /\ Len(t) + i \in 1..Len(t \o order)
    BY <1>7, ConcatFacts
  <2> QED BY <1>3, <1>7a, <2>1
<1>8c. \A i \in 1..Len(ready') : i \notin 1..Len(t) => ready'[i] \in W
  BY <1>3a, <1>8a
<1>9. \A i \in 1..Len(t) : t[i] \notin W
  BY <1>2, <1>5b, <1>6 DEF InQueue
<1>10. \A i, j \in 1..Len(ready') : ready'[i] = ready'[j] => i = j
  <2> SUFFICES ASSUME NEW i \in 1..Len(ready'), NEW j \in 1..Len(ready'), ready'[i] = ready'[j]
               PROVE  i = j
    OBVIOUS
  <2>1. CASE i \in 1..Len(t) /\ j \in 1..Len(t)
    BY <1>6, <1>8, <2>1 DEF InQueue
  <2>2. CASE i \notin 1..Len(t) /\ j \notin 1..Len(t)
    <3>1. /\ i - Len(t) \in 1..n /\ j - Len(t) \in 1..n
          /\ order[i - Len(t)] = order[j - Len(t)]
      BY <1>8a, <2>2
    <3>2. i - Len(t) = j - Len(t)
      BY <1>3b, <3>1
    <3> QED BY <1>8, <3>2
  <2>3. CASE i \in 1..Len(t) /\ j \notin 1..Len(t)
    <3>1. ready'[i] \notin W /\ ready'[j] \in W
      BY <1>8, <1>8c, <1>9, <2>3
    <3> QED BY <3>1
  <2>4. CASE i \notin 1..Len(t) /\ j \in 1..Len(t)
    <3>1. ready'[j] \notin W /\ ready'[i] \in W
      BY <1>8, <1>8c, <1>9, <2>4
    <3> QED BY <3>1
  <2> QED BY <2>1, <2>2, <2>3, <2>4
<1>11. \A c \in Callers : c \in Due' <=> \E i \in 1..Len(ready') : ready'[i] = c
  <2> SUFFICES ASSUME NEW c \in Callers
               PROVE  c \in Due' <=> \E i \in 1..Len(ready') : ready'[i] = c
    OBVIOUS
  <2>1. CASE c \in W
    <3>1. c \in Due'
      BY <1>5a, <2>1
    <3>2. PICK i \in 1..n : order[i] = c
      BY <1>4, <2>1
    <3>3. ready'[Len(t) + i] = c /\ Len(t) + i \in 1..Len(ready')
      BY <1>8b, <3>2
    <3> QED BY <3>1, <3>3
  <2>2. CASE c \notin W
    <3>1. (\E i \in 1..Len(ready') : ready'[i] = c) <=> \E i \in 1..Len(t) : t[i] = c
      <4>1. \A i \in 1..Len(ready') : ready'[i] = c => i \in 1..Len(t) /\ t[i] = c
        BY <1>8, <1>8c, <2>2
      <4>2. \A i \in 1..Len(t) : i \in 1..Len(ready') /\ ready'[i] = t[i]
        BY <1>2, <1>8
      <4> QED BY <4>1, <4>2
    <3> QED BY <1>5a, <1>6, <2>2, <3>1 DEF InQueue
  <2> QED BY <2>1, <2>2
<1>12. \A i \in 1..Len(ready') : ready'[i] # Run
  <2>1. Run \notin W
    BY <1>2, GattAssumption
  <2> QED BY <1>6, <1>8, <1>8c, <2>1
<1> QED BY <1>10, <1>11, <1>12 DEF InQueue

LEMMA QueueStep ==
  TypeOK /\ SessInv /\ CallerInv /\ QueueInv /\ IdInv /\ [Next]_vars => QueueInv'
<1> SUFFICES ASSUME TypeOK, SessInv, CallerInv, QueueInv, IdInv, [Next]_vars
             PROVE  QueueInv'
  OBVIOUS
<1> USE GattAssumption DEF session, callers, tables, peer, history
<1>1. ready \in Seq(Tasks) /\ Run \in Tasks /\ Callers \subseteq Tasks
  BY DEF TypeOK, Tasks
<1>0. \A d \in Callers : Behind(ready, d) => d \in Due
  BY DEF QueueInv, InQueue, Behind, After
\* Nobody is woken and nobody runs.
<1>2. ASSUME UNCHANGED <<ready, phase>>,
             \A d \in Callers :
               \/ UNCHANGED <<fut[d], drain[d]>> /\ (pc'[d] = pc[d] \/ fut[d] = "none")
               \/ /\ fut[d] = "none" /\ fut'[d] \in {"none", "wait"} /\ phase # "down"
                  /\ drain[d] = "no" /\ drain'[d] \in {"no", "blocked"}
               \/ /\ fut[d] \in Woken /\ fut'[d] = "gone" /\ pc'[d] = pc[d]
                  /\ UNCHANGED drain[d]
               \/ drain[d] \in OutOfDrain /\ drain'[d] \in OutOfDrain /\ UNCHANGED <<fut[d], pc[d]>>
      PROVE  QueueInv'
  <2>1. \A d \in Callers : d \in Due' <=> d \in Due
    BY <1>2 DEF Due, Woken, OutOfDrain
  <2>2. InQueue(ready', Due')
    BY <1>2, <2>1 DEF QueueInv, InQueue
  <2>4. \A d \in Callers : Behind(ready', d) <=> Behind(ready, d)
    BY <1>2
  <2>5. phase' = "lost" => \A d \in Callers :
          Behind(ready', d) /\ drain'[d] = "no" => fut'[d] = "gone"
    BY <1>0, <1>2, <2>4 DEF QueueInv, Woken, OutOfDrain, Due
  <2>6. phase' \in {"disc", "down", "dead"} => \A d \in Callers :
          drain'[d] = "no" => fut'[d] \notin {"ok", "err"}
    BY <1>2 DEF QueueInv, OutOfDrain
  <2>7. phase' = "down" => \A d \in Callers :
          fut'[d] = "wait" \/ Behind(ready', d) => pc'[d] = "opening"
    BY <1>0, <1>2, <2>4 DEF QueueInv, Woken, OutOfDrain, Due, SessInv
  <2>8. phase' = "up" => \A i \in 1..Len(ready') : ready'[i] # Run
    BY <1>2 DEF QueueInv
  <2> QED BY <2>2, <2>5, <2>6, <2>7, <2>8 DEF QueueInv
\* A caller runs.
<1>3. ASSUME NEW c \in Callers, Resumed(c), UNCHANGED phase,
             \/ fut'[c] = "none" /\ drain'[c] = "no"
             \/ fut'[c] = "wait" /\ drain'[c] \in {"no", "blocked"} /\ phase # "down",
             \A d \in Callers \ {c} : UNCHANGED <<fut[d], pc[d], drain[d]>>
      PROVE  QueueInv'
  <2>1. ready # <<>> /\ Head(ready) = c /\ ready' = Tail(ready)
    BY <1>3 DEF Resumed
  <2>2. c \notin Due' /\ \A d \in Callers \ {c} : d \in Due' <=> d \in Due
    BY <1>3 DEF Due, Woken, OutOfDrain
  <2>3. /\ InQueue(ready', Due')
        /\ \A d \in Callers : Behind(ready', d) => Behind(ready, d) /\ d # c
        /\ (\A i \in 1..Len(ready) : ready[i] # Run) => \A i \in 1..Len(ready') : ready'[i] # Run
    <3>1. InQueue(ready, Due)
      BY DEF QueueInv
    <3> QED BY <1>1, <2>1, <2>2, <3>1, QueueTail DEF Behind
  <2> QED BY <1>3, <2>3 DEF QueueInv
\* A caller is woken.
<1>4. ASSUME NEW c \in Callers, c \notin Due, c \in Due', fut[c] # "none",
             ready' = Append(ready, c), UNCHANGED phase,
             phase = "up" \/ fut'[c] = "gone" \/ drain'[c] # "no",
             \A d \in Callers \ {c} : UNCHANGED <<fut[d], drain[d]>>,
             \A d \in Callers : pc'[d] = pc[d] \/ phase = "up",
             phase = "down" => pc[c] = "opening"
      PROVE  QueueInv'
  <2>1. \A i \in 1..Len(ready) : ready[i] # c
    BY <1>4 DEF QueueInv, InQueue
  <2>0. \A d \in Callers \ {c} : d \in Due' <=> d \in Due
    BY <1>4 DEF Due
  <2>2. /\ InQueue(ready', Due')
        /\ \A d \in Callers : Behind(ready', d) => Behind(ready, d) \/ d = c
        /\ (\A i \in 1..Len(ready) : ready[i] # Run) => \A i \in 1..Len(ready') : ready'[i] # Run
    <3>1. InQueue(ready, Due) /\ c \in Tasks /\ c # Run
      BY DEF QueueInv, Tasks
    <3> QED BY <1>1, <1>4, <2>0, <2>1, <3>1, QueueAppend DEF Behind
  <2>4. phase' = "lost" => \A d \in Callers :
          Behind(ready', d) /\ drain'[d] = "no" => fut'[d] = "gone"
    BY <1>4, <2>2 DEF QueueInv
  <2>5. phase' \in {"disc", "down", "dead"} => \A d \in Callers :
          drain'[d] = "no" => fut'[d] \notin {"ok", "err"}
    BY <1>4 DEF QueueInv
  <2>6. phase' = "down" => \A d \in Callers :
          fut'[d] = "wait" \/ Behind(ready', d) => pc'[d] = "opening"
    BY <1>4, <2>2 DEF QueueInv
  <2> QED BY <1>4, <2>2, <2>4, <2>5, <2>6 DEF QueueInv
<1>5. ASSUME NEW c \in Callers, Connect(c) \/ OnConnection(c) PROVE QueueInv'
  <2>1. fut[c] = "none" /\ drain[c] = "no" /\ phase # "down" /\ FreeIds # {}
    BY <1>5, HasId DEF Connect, OnConnection, CanConnect, IsScanning, SessInv, CallerInv,
       CallerAt, InRequest
  <2>2. \/ Sent(c, "connOpen", None, "connOpen") \/ Unsent(c, "idle")
        \/ Sent(c, "op", held[c], "op") \/ Unsent(c, "held")
    BY <1>5 DEF Connect, OnConnection
  <2>3. /\ fut'[c] \in {"none", "wait"} /\ drain'[c] \in {"no", "blocked"}
        /\ \A d \in Callers \ {c} : UNCHANGED <<fut[d], pc[d], drain[d]>>
    BY <2>1, <2>2 DEF Sent, Unsent, TypeOK
  <2> QED BY <1>2, <1>5, <2>1, <2>3 DEF Connect, OnConnection
<1>6. ASSUME NEW c \in Callers, Disconnect(c) PROVE QueueInv'
  <2>1. fut[c] = "none" /\ drain[c] = "no" /\ UNCHANGED <<ready, phase>>
    BY <1>6 DEF Disconnect, CallerInv, CallerAt, InRequest
  <2>2. CASE IsScanning /\ \/ Sent(c, "connClose", held[c], "close")
                           \/ Unsent(c, "idle")
    <3>1. /\ fut'[c] \in {"none", "wait"} /\ drain'[c] \in {"no", "blocked"}
          /\ \A d \in Callers \ {c} : UNCHANGED <<fut[d], pc[d], drain[d]>>
      BY <2>1, <2>2 DEF Sent, Unsent, TypeOK
    <3>2. phase # "down"
      BY <2>2 DEF IsScanning, SessInv
    <3> QED BY <1>2, <2>1, <3>1, <3>2
  <2>3. CASE pc' = [pc EXCEPT ![c] = "idle"] /\ UNCHANGED <<fut, drain>>
    <3>1. \A d \in Callers : UNCHANGED <<fut[d], drain[d]>> /\ (pc'[d] = pc[d] \/ fut[d] = "none")
      BY <2>1, <2>3 DEF TypeOK
    <3> QED BY <1>2, <2>1, <3>1
  <2> QED BY <1>6, <2>2, <2>3 DEF Disconnect
<1>7. ASSUME NEW c \in Callers, ResumeGaveUp(c) PROVE QueueInv'
  <2>1. phase = "down" => ~Sent(c, "connClose", target[c], "abort")
    BY DEF Sent, SessInv
  <2>0. drain[c] = "no"
    BY <1>7 DEF ResumeGaveUp, CallerInv, CallerAt, InRequest
  <2>2. \A d \in Callers \ {c} : UNCHANGED <<fut[d], pc[d], drain[d]>>
    BY <1>7 DEF ResumeGaveUp, Sent, Unsent, TypeOK
  <2>3. \/ fut'[c] = "none" /\ drain'[c] = "no"
        \/ fut'[c] = "wait" /\ drain'[c] \in {"no", "blocked"} /\ phase # "down"
    BY <1>7, <2>0, <2>1 DEF ResumeGaveUp, Sent, Unsent, TypeOK
  <2> QED BY <1>3, <1>7, <2>2, <2>3 DEF ResumeGaveUp
<1>8. ASSUME NEW c \in Callers, Resume(c), ~ResumeGaveUp(c)
      PROVE  QueueInv'
  <2>1. Resumed(c) /\ UNCHANGED phase /\ NotInDrain(c)
    BY <1>8 DEF Resume, ResumeConnOpen, ResumeOpened, ResumeRefused, ResumeAbort, ResumeRequest,
       ResumeDrained, ResumeCut, Returned
  <2>2. \A d \in Callers \ {c} : UNCHANGED <<fut[d], pc[d]>>
    BY <1>8 DEF Resume, ResumeConnOpen, ResumeOpened, ResumeRefused, ResumeAbort, ResumeRequest,
       ResumeDrained, ResumeCut, Done, TypeOK
  <2>3. drain'[c] = "no" /\ \A d \in Callers \ {c} : UNCHANGED drain[d]
    BY <2>1 DEF NotInDrain, TypeOK
  <2>4. fut'[c] = "none" \/ (fut'[c] = "wait" /\ (fut[c] = "ok" \/ drain[c] = "over"))
    BY <1>8 DEF Resume, ResumeConnOpen, ResumeOpened, ResumeRefused, ResumeAbort, ResumeRequest,
       ResumeDrained, ResumeCut, Done, TypeOK
  <2>5. fut'[c] = "none" \/ (fut'[c] = "wait" /\ phase # "down")
    BY <2>4 DEF QueueInv, SessInv
  <2> QED BY <1>3, <2>1, <2>2, <2>3, <2>5
<1>9. ASSUME NEW c \in Callers, GiveUp(c) PROVE QueueInv'
  <2>1. /\ fut[c] \in {"wait", "ok", "err"} /\ fut'[c] = "gone" /\ UNCHANGED <<phase, pc, drain>>
        /\ drain[c] = "no"
        /\ \A d \in Callers \ {c} : fut'[d] = fut[d]
    BY <1>9 DEF GiveUp, TypeOK
  <2>2. CASE fut[c] = "wait"
    <3>1. ready' = Append(ready, c)
      BY <1>9, <2>2 DEF GiveUp
    <3>2. c \notin Due /\ c \in Due' /\ (phase = "down" => pc[c] = "opening")
      BY <2>1, <2>2 DEF Due, Woken, OutOfDrain, QueueInv
    <3> QED BY <1>4, <2>1, <2>2, <3>1, <3>2
  <2>3. CASE fut[c] # "wait"
    <3>1. UNCHANGED ready
      BY <1>9, <2>3 DEF GiveUp
    <3>2. fut[c] \in Woken
      BY <2>1, <2>3 DEF Woken
    <3> QED BY <1>2, <2>1, <3>1, <3>2
  <2> QED BY <2>2, <2>3
<1>9a. ASSUME NEW c \in Callers, DrainEnds(c) \/ DrainFails(c) PROVE QueueInv'
  <2>1. /\ drain[c] \in {"blocked", "over"} /\ drain'[c] \in OutOfDrain
        /\ UNCHANGED <<phase, pc, fut>> /\ phase # "down"
        /\ \A d \in Callers \ {c} : drain'[d] = drain[d]
    BY <1>9a DEF DrainEnds, DrainFails, TypeOK, OutOfDrain, SessInv
  <2>2. CASE drain[c] = "blocked"
    <3>1. ready' = Append(ready, c)
      BY <1>9a, <2>2 DEF DrainEnds, DrainFails
    <3>2. c \notin Due /\ c \in Due' /\ fut[c] # "none" /\ drain'[c] # "no"
      BY <2>1, <2>2 DEF Due, OutOfDrain, CallerInv, CallerAt, InRequest
    <3> QED BY <1>4, <2>1, <3>1, <3>2
  <2>3. CASE drain[c] = "over"
    <3>1. UNCHANGED ready /\ drain[c] \in OutOfDrain
      BY <1>9a, <2>3 DEF DrainEnds, DrainFails, OutOfDrain
    <3> QED BY <1>2, <2>1, <3>1
  <2> QED BY <2>1, <2>2, <2>3
\* The reader completes a future.
<1>10. ASSUME UNCHANGED <<phase, drain>>, phase = "up",
              \/ Leave
              \/ \E c \in Callers, how \in {"ok", "err"} : fut[c] = "wait" /\ Complete(c, how)
       PROVE  QueueInv'
  <2>1. CASE Leave
    <3>1. UNCHANGED <<fut, ready>>
      BY <2>1 DEF Leave
    <3>2. Due' = Due
      BY <1>10, <3>1 DEF Due
    <3> QED BY <1>10, <3>1, <3>2 DEF QueueInv, InQueue
  <2>2. ASSUME NEW c \in Callers, NEW how \in {"ok", "err"}, fut[c] = "wait", Complete(c, how)
        PROVE  QueueInv'
    <3>1. /\ fut'[c] = how /\ \A d \in Callers \ {c} : fut'[d] = fut[d]
      BY <2>2 DEF Complete, TypeOK
    <3>2. CASE drain[c] = "no"
      <4>1. ready' = Append(ready, c)
        BY <2>2, <3>2 DEF Complete
      <4>2. c \notin Due /\ c \in Due'
        BY <1>10, <2>2, <3>1, <3>2 DEF Due, Woken, OutOfDrain
      <4> QED BY <1>4, <1>10, <2>2, <3>1, <4>1, <4>2
    <3>3. CASE drain[c] # "no"
      <4>1. UNCHANGED ready
        BY <2>2, <3>3 DEF Complete
      <4>2. \A d \in Callers : d \in Due' <=> d \in Due
        BY <1>10, <3>1, <3>3 DEF Due
      <4> QED BY <1>10, <4>1, <4>2 DEF QueueInv, InQueue
    <3> QED BY <3>2, <3>3
  <2> QED BY <1>10, <2>1, <2>2
<1>11. CASE Reader
  <2>1. UNCHANGED <<phase, drain>> /\ phase = "up" /\ inbox # <<>>
    BY <1>11 DEF Reader, DispatchResponse, DispatchOpened, DispatchClosed, DispatchNotify, Dispatch
  <2>2. CASE DispatchResponse
    <3>1. \A c \in Waiting(Head(inbox)) : c \in Callers /\ fut[c] = "wait"
      BY DEF Waiting
    <3> QED BY <1>10, <2>1, <2>2, <3>1 DEF DispatchResponse
  <2>3. \A h \in Handles : Awaited(h) => opened[h] \in Callers /\ fut[opened[h]] = "wait"
    BY DEF Awaited, TypeOK
  <2>4. CASE DispatchOpened
    <3>1. Head(inbox).h \in Handles
      BY <2>1, <2>4, HeadIsFor DEF DispatchOpened, Dispatch
    <3> QED BY <1>10, <2>1, <2>3, <2>4, <3>1 DEF DispatchOpened
  <2>5. CASE DispatchClosed
    <3>1. Head(inbox).h \in Handles
      BY <2>1, <2>5, HeadIsFor DEF DispatchClosed, Dispatch
    <3> QED BY <1>10, <2>1, <2>3, <2>5, <3>1 DEF DispatchClosed
  <2>6. CASE DispatchNotify
    BY <1>10, <2>1, <2>6 DEF DispatchNotify
  <2> QED BY <1>11, <2>2, <2>4, <2>5, <2>6 DEF Reader
<1>12. ASSUME ready' = Append(ready, Run), UNCHANGED <<fut, drain>>,
              \A i \in 1..Len(ready) : ready[i] # Run
       PROVE  /\ InQueue(ready', Due')
              /\ \A d \in Callers : ~Behind(ready', d)
  <2>1. \A d \in Callers : d \in Due' <=> d \in Due
    BY <1>12 DEF Due
  <2>2. /\ InQueue(ready', Due')
        /\ \A d \in Callers : Behind(ready', d) => Behind(ready, d) \/ d = Run
    <3>1. InQueue(ready, Due) /\ Run \notin Callers
      BY DEF QueueInv
    <3> QED BY <1>1, <1>12, <2>1, <3>1, QueueAppend DEF Behind
  <2>3. \A d \in Callers : ~Behind(ready, d) /\ d # Run
    BY <1>12 DEF Behind, After
  <2> QED BY <2>2, <2>3
<1>13. CASE Lose
  <2>1. /\ phase' = "lost" /\ ready' = Append(ready, Run) /\ UNCHANGED <<fut, drain>>
        /\ phase = "up"
    BY <1>13 DEF Lose, Sess!Lose
  <2> QED BY <1>12, <2>1 DEF QueueInv
<1>14. CASE WakeRun
  <2>1. /\ UNCHANGED <<phase, fut, pc, drain>> /\ phase \in {"disc", "down"}
        /\ ready' = Append(ready, Run) /\ \A i \in 1..Len(ready) : ready[i] # Run
    BY <1>14 DEF WakeRun
  <2> QED BY <1>12, <2>1 DEF QueueInv
\* run() runs.
<1>15. ASSUME ready # <<>>, Head(ready) = Run
       PROVE  /\ InQueue(Tail(ready), Due)
              /\ \A d \in Callers : Behind(Tail(ready), d) => Behind(ready, d)
              /\ \A i \in 1..Len(Tail(ready)) : Tail(ready)[i] # Run
              /\ \A d \in Callers : d \in Due => Behind(ready, d)
  <2>1. InQueue(ready, Due) /\ Head(ready) \notin Callers
    BY <1>15 DEF QueueInv
  <2>2. /\ InQueue(Tail(ready), Due)
        /\ \A d \in Callers : Behind(Tail(ready), d) => Behind(ready, d)
        /\ \A i \in 1..Len(Tail(ready)) : Tail(ready)[i] # Run
    BY <1>1, <1>15, <2>1, QueueTail DEF Behind
  <2>3. ready[1] = Run /\ 1 \in 1..Len(ready) /\ Len(ready) \in Nat
    BY <1>1, <1>15, TailFacts
  <2>4. ASSUME NEW d \in Callers, d \in Due PROVE Behind(ready, d)
    <3>1. PICK i \in 1..Len(ready) : ready[i] = d
      BY <2>1, <2>4 DEF InQueue
    <3>2. 1 < i
      BY <2>3, <3>1
    <3> QED BY <2>3, <3>1, <3>2 DEF Behind, After
  <2> QED BY <2>2, <2>4
<1>16. ASSUME ready # <<>>, Head(ready) = Run, phase # "up"
       PROVE  \A d \in Callers : drain[d] = "no" => fut[d] \notin {"ok", "err"}
  <2>1. CASE phase = "lost"
    BY <1>15, <1>16, <2>1 DEF QueueInv, Due, Woken
  <2> QED BY <1>16, <2>1 DEF QueueInv, TypeOK
<1>17. CASE RunReleases
  <2>1. /\ ready # <<>> /\ Head(ready) = Run /\ ready' = Tail(ready) /\ UNCHANGED <<fut, drain>>
        /\ phase = "lost" /\ phase' = "disc" /\ Due' = Due
    BY <1>17 DEF RunReleases, Resumed, Sess!Release, Due
  <2> QED BY <1>15, <1>16, <2>1 DEF QueueInv
<1>18. CASE RunAttaches
  <2>1. /\ ready # <<>> /\ Head(ready) = Run /\ ready' = Tail(ready) /\ UNCHANGED <<fut, drain>>
        /\ phase' = "up" /\ Due' = Due
    BY <1>18 DEF RunAttaches, Resumed, Sess!Attach, Due
  <2> QED BY <1>15, <2>1 DEF QueueInv
<1>19. CASE RunClears
  <2>1. /\ ready # <<>> /\ Head(ready) = Run /\ UNCHANGED <<rid, target, drain>>
        /\ \/ phase = "disc" /\ phase' = "down"
           \/ phase # "up" /\ phase' = "dead"
        /\ \A d \in Callers : fut'[d] = IF d \in Interrupted THEN "gone" ELSE fut[d]
        /\ \A d \in Callers : pc'[d] = pc[d] \/ pc[d] = "held"
    BY <1>19 DEF RunClears, Flush, Disconnected, Sess!Clear, Sess!Abandon
  <2>2. /\ InQueue(ready', Due')
        /\ \A i \in 1..Len(ready') : ready'[i] # Run
    BY <1>19, QueueFlush
  <2>3. \A d \in Callers : drain'[d] = "no" => fut'[d] \notin {"ok", "err"}
    BY <1>16, <2>1
  <2>4. \A d \in Callers : ~Behind(ready', d)
    BY <2>2 DEF Behind, After
  <2>5. ASSUME phase' = "down", NEW d \in Callers, fut'[d] = "wait" PROVE pc'[d] = "opening"
    <3>1. d \notin Interrupted /\ fut[d] = "wait" /\ phase = "disc"
      BY <2>1, <2>5
    <3>2. rid[d] = None
      BY <3>1 DEF Interrupted, IdInv, PendingInv
    <3>3. pc[d] = "opening"
      <4>1. CallerAt(d) /\ pc[d] \in PC
        BY DEF CallerInv, TypeOK
      <4> QED BY <3>1, <3>2, <4>1 DEF CallerAt, InRequest, PC
    <3> QED BY <2>1, <3>3
  <2> QED BY <2>1, <2>2, <2>3, <2>4, <2>5 DEF QueueInv
<1>20. CASE Close \/ Terminated \/ Daemon \/ UNCHANGED vars
  <2>1. UNCHANGED <<ready, fut, pc, phase, drain>>
    BY <1>20 DEF Close, Sess!Close, Terminated, vars, Daemon, ServeConnOpen, ServeConnClose,
       ServeOp, Serve, LinkOpens, LinkDrops, LinkNotifies, Radio
  <2> QED BY <1>2, <2>1
<1> QED
  BY <1>5, <1>6, <1>7, <1>8, <1>9, <1>9a, <1>11, <1>13, <1>14, <1>17, <1>18, <1>19, <1>20
  DEF Next, Operate, StartNotify, StopNotify, RunTask

LEMMA PendingStep ==
  /\ TypeOK /\ SessInv /\ CallerInv /\ QueueInv /\ IdInv
  /\ PendingIsAwaited /\ [Next]_vars
  => PendingIsAwaited'
<1> DEFINE Exact == pending = ({rid[c] : c \in Callers} \ {None}) \cup leaked
<1> SUFFICES ASSUME TypeOK, SessInv, CallerInv, QueueInv, IdInv, PendingIsAwaited,
                    [Next]_vars, phase' = "up"
             PROVE  Exact'
  BY DEF PendingIsAwaited
<1> USE DEF session, callers, tables, peer, history
<1>0. phase = "up" => Exact
  BY DEF PendingIsAwaited
<1>1. ASSUME phase = "up", UNCHANGED <<pending, rid, leaked>> PROVE Exact'
  BY <1>0, <1>1
<1>2. ASSUME NEW c \in Callers, phase = "up", FreeIds # {}, rid[c] = None,
             pending' = pending \cup {NewId},
             \/ rid'[c] = NewId /\ UNCHANGED leaked
             \/ rid'[c] = None /\ leaked' = leaked \cup {NewId},
             \A d \in Callers \ {c} : rid'[d] = rid[d]
      PROVE  Exact'
  <2>1. Exact /\ NewId # None
    BY <1>0, <1>2, NewIdFacts
  <2>2. {rid'[d] : d \in Callers} = {rid[d] : d \in Callers \ {c}} \cup {rid'[c]}
    BY <1>2
  <2>3. {rid[d] : d \in Callers} = {rid[d] : d \in Callers \ {c}} \cup {None}
    BY <1>2
  <2> QED BY <1>2, <2>1, <2>2, <2>3
<1>3. ASSUME NEW c \in Callers, phase = "up",
             \/ pending' = pending \ {rid[c]} /\ UNCHANGED leaked
             \/ UNCHANGED pending /\ leaked' = leaked \cup ({rid[c]} \cap pending),
             rid'[c] = None, \A d \in Callers \ {c} : rid'[d] = rid[d]
      PROVE  Exact'
  <2>1. Exact
    BY <1>0, <1>3
  <2>2. \A d \in Callers \ {c} : rid[d] # None => rid[d] # rid[c]
    BY <1>3 DEF IdInv, PendingInv
  <2>3. rid[c] # None => rid[c] \in pending \ leaked
    BY <1>3 DEF IdInv, PendingInv
  <2>4. None \notin pending
    BY GattAssumption DEF TypeOK
  <2>5. {rid'[d] : d \in Callers} = {rid[d] : d \in Callers \ {c}} \cup {None}
    BY <1>3
  <2>6. {rid[d] : d \in Callers} = {rid[d] : d \in Callers \ {c}} \cup {rid[c]}
    OBVIOUS
  <2>7. rid[c] # None => rid[c] \notin {rid[d] : d \in Callers \ {c}}
    BY <2>2
  <2> QED BY <1>3, <2>1, <2>3, <2>4, <2>5, <2>6, <2>7
<1>4. ASSUME NEW c \in Callers, NEW act, NEW h, NEW wait, NEW next, phase = "up",
             pc[c] \in {"idle", "held", "opening"}, FreeIds # {},
             Sent(c, act, h, wait) \/ Unsent(c, next)
      PROVE  Exact'
  <2>1. rid[c] = None /\ writer
    BY <1>4 DEF CallerInv, CallerAt, InRequest, SessInv
  <2>2. /\ pending' = pending \cup {NewId}
        /\ \/ rid'[c] = NewId /\ UNCHANGED leaked
           \/ rid'[c] = None /\ leaked' = leaked \cup {NewId}
        /\ \A d \in Callers \ {c} : rid'[d] = rid[d]
    BY <1>4, <2>1 DEF Sent, Unsent, TypeOK
  <2> QED BY <1>2, <1>4, <2>1, <2>2
<1>5. ASSUME NEW c \in Callers, Connect(c) \/ OnConnection(c) \/ Disconnect(c) \/ ResumeGaveUp(c)
      PROVE  Exact'
  <2>1. phase = "up" /\ pc[c] \in {"idle", "held", "opening"}
    BY <1>5 DEF Connect, OnConnection, Disconnect, ResumeGaveUp
  <2>2. CASE UNCHANGED <<pending, rid, leaked>>
    BY <1>1, <2>1, <2>2
  <2>3. CASE ~UNCHANGED <<pending, rid, leaked>>
    <3>1. FreeIds # {}
      BY <1>5, <2>3, HasId DEF Connect, OnConnection, Disconnect, ResumeGaveUp
    <3>2. CASE Sent(c, "connOpen", None, "connOpen") \/ Unsent(c, "idle")
      BY <1>4, <2>1, <3>1, <3>2
    <3>3. CASE Sent(c, "op", held[c], "op") \/ Unsent(c, "held")
      BY <1>4, <2>1, <3>1, <3>3
    <3>4. CASE Sent(c, "connClose", held[c], "close") \/ Unsent(c, "idle")
      BY <1>4, <2>1, <3>1, <3>4
    <3>5. CASE Sent(c, "connClose", target[c], "abort") \/ Unsent(c, "idle")
      BY <1>4, <2>1, <3>1, <3>5
    <3> QED BY <1>5, <2>3, <3>2, <3>3, <3>4, <3>5
        DEF Connect, OnConnection, Disconnect, ResumeGaveUp
  <2> QED BY <2>2, <2>3
<1>6. ASSUME NEW c \in Callers,
             ResumeConnOpen(c) \/ ResumeAbort(c) \/ ResumeRequest(c) \/ ResumeCut(c)
      PROVE  Exact'
  <2>1. /\ phase = "up"
        /\ \/ pending' = pending \ {rid[c]} /\ UNCHANGED leaked
           \/ UNCHANGED pending /\ leaked' = leaked \cup ({rid[c]} \cap pending)
    BY <1>6 DEF ResumeConnOpen, ResumeAbort, ResumeRequest, ResumeCut, Answered
  <2>2. rid'[c] = None /\ \A d \in Callers \ {c} : rid'[d] = rid[d]
    BY <1>6 DEF ResumeConnOpen, ResumeAbort, ResumeRequest, ResumeCut, Done, TypeOK
  <2> QED BY <1>3, <2>1, <2>2
<1>7. ASSUME NEW c \in Callers, ResumeOpened(c) \/ ResumeRefused(c) PROVE Exact'
  <2>1. rid[c] = None
    BY <1>7 DEF ResumeOpened, ResumeRefused, CallerInv, CallerAt, InRequest
  <2>2. phase = "up" /\ UNCHANGED <<pending, rid, leaked>>
    BY <1>7, <2>1 DEF ResumeOpened, ResumeRefused, Done, TypeOK
  <2> QED BY <1>1, <2>2
<1>8. CASE RunAttaches
  <2>1. pending = {} /\ leaked = {} /\ UNCHANGED <<pending, rid, leaked>>
    BY <1>8 DEF RunAttaches, Sess!Attach, SessInv
  <2> QED BY <1>8, <2>1, AttachIsClean
<1>9. CASE Lose \/ RunReleases \/ RunClears
  BY <1>9 DEF Lose, RunReleases, RunClears, Sess!Lose, Sess!Release, Sess!Clear, Sess!Abandon
<1>10. ASSUME NEW c \in Callers, GiveUp(c) \/ DrainEnds(c) \/ DrainFails(c) \/ ResumeDrained(c)
       PROVE  Exact'
  <2>1. phase = "up" /\ UNCHANGED <<pending, rid, leaked>>
    BY <1>10 DEF GiveUp, DrainEnds, DrainFails, ResumeDrained
  <2> QED BY <1>1, <2>1
<1>11. CASE Reader \/ Close \/ WakeRun \/ Daemon \/ Terminated \/ UNCHANGED vars
  <2>1. UNCHANGED <<pending, rid, phase, leaked>>
    BY <1>11 DEF Reader, DispatchResponse, DispatchOpened, DispatchClosed, DispatchNotify,
       Dispatch, Close, Sess!Close, WakeRun, Terminated, vars, Daemon, ServeConnOpen,
       ServeConnClose, ServeOp, Serve, LinkOpens, LinkDrops, LinkNotifies, Radio
  <2> QED BY <1>1, <2>1
<1> QED
  BY <1>5, <1>6, <1>7, <1>8, <1>9, <1>10, <1>11
  DEF Next, Operate, StartNotify, StopNotify, Resume, RunTask

-----------------------------------------------------------------------------
(* Open connections *)

LEMMA OpenAfterTail ==
  ASSUME NEW b \in Seq(Message), b # <<>>, NEW m, NEW n, NEW h,
         CASE Head(b).kind = "opened" /\ Head(b).h = h -> h \in n
           [] Head(b).kind = "closed" /\ Head(b).h = h -> h \notin n
           [] OTHER -> h \in n <=> h \in m
  PROVE  OpenAfter(Tail(b), n, h) <=> OpenAfter(b, m, h)
<1> DEFINE t == Tail(b)
<1>1. /\ Len(t) = Len(b) - 1 /\ Len(b) \in Nat /\ Len(b) > 0 /\ Head(b) = b[1]
      /\ \A i \in 1..Len(t) : t[i] = b[i + 1]
  BY TailFacts
<1> HIDE DEF t
<1>2. \A i \in 1..Len(b) : ClosedIn(t, i, Len(t), h) <=> ClosedIn(b, i + 1, Len(b), h)
  <2> SUFFICES ASSUME NEW i \in 1..Len(b)
               PROVE  ClosedIn(t, i, Len(t), h) <=> ClosedIn(b, i + 1, Len(b), h)
    OBVIOUS
  <2>1. ASSUME NEW k \in i..Len(t), At(t, k, "closed", h)
        PROVE  ClosedIn(b, i + 1, Len(b), h)
    <3>1. k + 1 \in (i + 1)..Len(b) /\ At(b, k + 1, "closed", h)
      BY <1>1, <2>1 DEF At
    <3> QED BY <3>1 DEF ClosedIn
  <2>2. ASSUME NEW k \in (i + 1)..Len(b), At(b, k, "closed", h)
        PROVE  ClosedIn(t, i, Len(t), h)
    <3>1. k - 1 \in i..Len(t) /\ At(t, k - 1, "closed", h)
      BY <1>1, <2>2 DEF At
    <3> QED BY <3>1 DEF ClosedIn
  <2> QED BY <2>1, <2>2 DEF ClosedIn
<1>3. ClosedIn(b, 1, Len(b), h) <=> At(b, 1, "closed", h) \/ ClosedIn(b, 2, Len(b), h)
  BY <1>1 DEF ClosedIn
<1>4. ClosedIn(t, 1, Len(t), h) <=> ClosedIn(b, 2, Len(b), h)
  BY <1>1, <1>2
<1>5. (\E i \in 1..Len(t) : At(t, i, "opened", h) /\ ~ClosedIn(t, i + 1, Len(t), h))
        <=> \E i \in 2..Len(b) : At(b, i, "opened", h) /\ ~ClosedIn(b, i + 1, Len(b), h)
  <2>1. ASSUME NEW i \in 1..Len(t), At(t, i, "opened", h), ~ClosedIn(t, i + 1, Len(t), h)
        PROVE  \E j \in 2..Len(b) : At(b, j, "opened", h) /\ ~ClosedIn(b, j + 1, Len(b), h)
    <3>1. i + 1 \in 2..Len(b) /\ i + 1 \in 1..Len(b) /\ At(b, i + 1, "opened", h)
      BY <1>1, <2>1 DEF At
    <3>2. ~ClosedIn(b, (i + 1) + 1, Len(b), h)
      BY <1>2, <2>1, <3>1
    <3> QED BY <3>1, <3>2
  <2>2. ASSUME NEW i \in 2..Len(b), At(b, i, "opened", h), ~ClosedIn(b, i + 1, Len(b), h)
        PROVE  \E j \in 1..Len(t) : At(t, j, "opened", h) /\ ~ClosedIn(t, j + 1, Len(t), h)
    <3>1. i - 1 \in 1..Len(t) /\ i \in 1..Len(b) /\ At(t, i - 1, "opened", h)
      BY <1>1, <2>2 DEF At
    <3>2. ~ClosedIn(t, (i - 1) + 1, Len(t), h)
      BY <1>2, <2>2, <3>1
    <3> QED BY <3>1, <3>2
  <2> QED BY <2>1, <2>2
<1>6. (\E i \in 1..Len(b) : At(b, i, "opened", h) /\ ~ClosedIn(b, i + 1, Len(b), h))
        <=> \/ At(b, 1, "opened", h) /\ ~ClosedIn(b, 2, Len(b), h)
            \/ \E i \in 2..Len(b) : At(b, i, "opened", h) /\ ~ClosedIn(b, i + 1, Len(b), h)
  <2>1. 1 \in 1..Len(b) /\ 1 + 1 = 2 /\ \A i \in 1..Len(b) : i = 1 \/ i \in 2..Len(b)
    BY <1>1
  <2>2. \A i \in 2..Len(b) : i \in 1..Len(b)
    OBVIOUS
  <2> QED BY <2>1, <2>2
<1>7. /\ At(b, 1, "opened", h) => h \in n
      /\ At(b, 1, "closed", h) => h \notin n
      /\ ~At(b, 1, "opened", h) /\ ~At(b, 1, "closed", h) => (h \in n <=> h \in m)
      /\ ~(At(b, 1, "opened", h) /\ At(b, 1, "closed", h))
  BY <1>1 DEF At
<1> QED BY <1>3, <1>4, <1>5, <1>6, <1>7 DEF OpenAfter, t

LEMMA OpenAfterAppend ==
  ASSUME NEW b \in Seq(Message), NEW e \in Message, NEW m, NEW h
  PROVE  OpenAfter(Append(b, e), m, h) <=>
           \/ e.kind = "opened" /\ e.h = h
           \/ ~(e.kind = "closed" /\ e.h = h) /\ OpenAfter(b, m, h)
<1> DEFINE s == Append(b, e)
<1>1. /\ Len(s) = Len(b) + 1 /\ Len(b) \in Nat /\ s[Len(b) + 1] = e
      /\ \A i \in 1..Len(b) : s[i] = b[i]
      /\ \A i \in 1..Len(b) + 1 : i \in 1..Len(b) \/ i = Len(b) + 1
  BY AppendFacts
<1> HIDE DEF s
<1>2. ASSUME NEW i \in 1..Len(b) + 1
      PROVE  ClosedIn(s, i, Len(s), h) <=>
               ClosedIn(b, i, Len(b), h) \/ (e.kind = "closed" /\ e.h = h)
  <2>1. ASSUME NEW k \in i..Len(s), At(s, k, "closed", h)
        PROVE  ClosedIn(b, i, Len(b), h) \/ (e.kind = "closed" /\ e.h = h)
    <3>1. CASE k = Len(b) + 1
      BY <1>1, <2>1, <3>1 DEF At
    <3>2. CASE k # Len(b) + 1
      <4>1. k \in i..Len(b) /\ At(b, k, "closed", h)
        BY <1>1, <2>1, <3>2 DEF At
      <4> QED BY <4>1 DEF ClosedIn
    <3> QED BY <3>1, <3>2
  <2>2. ASSUME NEW k \in i..Len(b), At(b, k, "closed", h) PROVE ClosedIn(s, i, Len(s), h)
    <3>1. k \in i..Len(s) /\ At(s, k, "closed", h)
      BY <1>1, <2>2 DEF At
    <3> QED BY <3>1 DEF ClosedIn
  <2>3. ASSUME e.kind = "closed", e.h = h PROVE ClosedIn(s, i, Len(s), h)
    <3>1. Len(b) + 1 \in i..Len(s) /\ At(s, Len(b) + 1, "closed", h)
      BY <1>1, <2>3 DEF At
    <3> QED BY <3>1 DEF ClosedIn
  <2> QED BY <2>1, <2>2, <2>3 DEF ClosedIn
<1>3. ClosedIn(s, 1, Len(s), h) <=> ClosedIn(b, 1, Len(b), h) \/ (e.kind = "closed" /\ e.h = h)
  BY <1>1, <1>2
<1>4. ~ClosedIn(s, (Len(b) + 1) + 1, Len(s), h)
  BY <1>1 DEF ClosedIn
<1>5. At(s, Len(b) + 1, "opened", h) <=> e.kind = "opened" /\ e.h = h
  BY <1>1 DEF At
<1>6. \A i \in 1..Len(b) :
        /\ At(s, i, "opened", h) <=> At(b, i, "opened", h)
        /\ ClosedIn(s, i + 1, Len(s), h) <=>
             ClosedIn(b, i + 1, Len(b), h) \/ (e.kind = "closed" /\ e.h = h)
  <2> SUFFICES ASSUME NEW i \in 1..Len(b)
               PROVE  /\ At(s, i, "opened", h) <=> At(b, i, "opened", h)
                      /\ ClosedIn(s, i + 1, Len(s), h) <=>
                           ClosedIn(b, i + 1, Len(b), h) \/ (e.kind = "closed" /\ e.h = h)
    OBVIOUS
  <2>1. i + 1 \in 1..Len(b) + 1
    BY <1>1
  <2> QED BY <1>1, <1>2, <2>1 DEF At
<1>7. (\E i \in 1..Len(s) : At(s, i, "opened", h) /\ ~ClosedIn(s, i + 1, Len(s), h)) <=>
        \/ e.kind = "opened" /\ e.h = h
        \/ /\ ~(e.kind = "closed" /\ e.h = h)
           /\ \E i \in 1..Len(b) : At(b, i, "opened", h) /\ ~ClosedIn(b, i + 1, Len(b), h)
  <2>1. Len(b) + 1 \in 1..Len(s) /\ \A i \in 1..Len(b) : i \in 1..Len(s)
    BY <1>1
  <2>2. \A i \in 1..Len(s) : i \in 1..Len(b) \/ i = Len(b) + 1
    BY <1>1
  <2> QED BY <1>4, <1>5, <1>6, <2>1, <2>2
<1>8. ~(e.kind = "opened" /\ e.kind = "closed")
  OBVIOUS
<1> QED BY <1>3, <1>7, <1>8 DEF OpenAfter, s

LEMMA PairIsAppends ==
  ASSUME NEW S, NEW b \in Seq(S), NEW e \in S, NEW f \in S
  PROVE  b \o <<e, f>> = Append(Append(b, e), f) /\ Append(b, e) \in Seq(S)
OBVIOUS

LEMMA ActiveStep ==
  TypeOK /\ SessInv /\ IdInv /\ ActiveInv /\ [Next]_vars => ActiveInv'
<1> SUFFICES ASSUME TypeOK, SessInv, IdInv, ActiveInv, [Next]_vars, phase' = "up",
                    NEW h \in Handles
             PROVE  link'[h] = "open" <=> OpenAfter(inbox', mtu', h)
  BY DEF ActiveInv
<1> USE DEF session, callers, tables, peer, history
<1>1. inbox \in Seq(Message) /\ wire \in Seq(Requests)
  BY DEF TypeOK, Requests
<1>2. ASSUME phase = "up", UNCHANGED <<inbox, mtu, link>>
      PROVE  link'[h] = "open" <=> OpenAfter(inbox', mtu', h)
  BY <1>2 DEF ActiveInv
\* bleconnd appends an event with what it tells, or something else.
<1>3. ASSUME phase = "up", UNCHANGED mtu, NEW e \in Message, inbox' = Append(inbox, e),
             IF e.kind = "opened" /\ e.h = h THEN link'[h] = "open"
             ELSE IF e.kind = "closed" /\ e.h = h THEN link'[h] # "open"
             ELSE link'[h] = "open" <=> link[h] = "open"
      PROVE  link'[h] = "open" <=> OpenAfter(inbox', mtu', h)
  <2>1. OpenAfter(inbox', mtu', h) <=>
           \/ e.kind = "opened" /\ e.h = h
           \/ ~(e.kind = "closed" /\ e.h = h) /\ OpenAfter(inbox, mtu, h)
    BY <1>1, <1>3, OpenAfterAppend
  <2>2. ~(e.kind = "opened" /\ e.kind = "closed")
    OBVIOUS
  <2> QED BY <1>3, <2>1, <2>2 DEF ActiveInv
\* The reader takes a message.
<1>4. ASSUME phase = "up", inbox # <<>>, inbox' = Tail(inbox), UNCHANGED link,
             CASE Head(inbox).kind = "opened" /\ Head(inbox).h = h -> h \in mtu'
               [] Head(inbox).kind = "closed" /\ Head(inbox).h = h -> h \notin mtu'
               [] OTHER -> h \in mtu' <=> h \in mtu
      PROVE  link'[h] = "open" <=> OpenAfter(inbox', mtu', h)
  <2>1. OpenAfter(inbox', mtu', h) <=> OpenAfter(inbox, mtu, h)
    BY <1>1, <1>4, OpenAfterTail
  <2> QED BY <1>4, <2>1 DEF ActiveInv
<1>5. ASSUME NEW c \in Callers,
             \/ Connect(c) \/ OnConnection(c) \/ Disconnect(c) \/ GiveUp(c)
             \/ DrainEnds(c) \/ DrainFails(c) \/ Resume(c)
      PROVE  link'[h] = "open" <=> OpenAfter(inbox', mtu', h)
  <2>1. UNCHANGED <<phase, inbox, mtu, link>>
    BY <1>5 DEF Connect, OnConnection, Disconnect, GiveUp, Resume, ResumeConnOpen,
       ResumeOpened, ResumeRefused, ResumeGaveUp, ResumeAbort, ResumeRequest, ResumeDrained,
       ResumeCut, DrainEnds, DrainFails
  <2> QED BY <1>2, <2>1
<1>6. CASE WakeRun \/ Close \/ Terminated \/ UNCHANGED vars
  <2>1. UNCHANGED <<phase, inbox, mtu, link>>
    BY <1>6 DEF WakeRun, Close, Sess!Close, Terminated, vars
  <2> QED BY <1>2, <2>1
<1>7. CASE Lose \/ RunReleases \/ RunClears
  BY <1>7 DEF Lose, RunReleases, RunClears, Sess!Lose, Sess!Release, Sess!Clear, Sess!Abandon
<1>8. CASE RunAttaches
  <2>1. inbox' = <<>> /\ mtu' = {} /\ link'[h] = "free"
    BY <1>8 DEF RunAttaches, Sess!Attach, SessInv
  <2> QED BY <2>1 DEF OpenAfter
<1>9. CASE DispatchResponse \/ DispatchNotify
  <2>1. /\ phase = "up" /\ inbox # <<>> /\ inbox' = Tail(inbox) /\ UNCHANGED <<link, mtu>>
        /\ Head(inbox).kind \in {"resp", "notify"}
    BY <1>9 DEF DispatchResponse, DispatchNotify, Dispatch
  <2> QED BY <1>4, <2>1
<1>10. CASE DispatchOpened
  <2>1. /\ phase = "up" /\ inbox # <<>> /\ inbox' = Tail(inbox) /\ UNCHANGED link
        /\ Head(inbox).kind = "opened" /\ mtu' = mtu \cup {Head(inbox).h}
    BY <1>10 DEF DispatchOpened, Dispatch
  <2> QED BY <1>4, <2>1
<1>11. CASE DispatchClosed
  <2>1. /\ phase = "up" /\ inbox # <<>> /\ inbox' = Tail(inbox) /\ UNCHANGED link
        /\ Head(inbox).kind = "closed" /\ mtu' = mtu \ {Head(inbox).h}
    BY <1>11 DEF DispatchClosed, Dispatch, Drop
  <2> QED BY <1>4, <2>1
<1>12. ASSUME wire # <<>>
       PROVE  /\ Grant.id \in Ids /\ Grant.h \in Handles \cup {None}
              /\ Grant.act = "connClose" => Grant.h \in Handles
  <2>1. Grant \in Requests /\ RequestFor(Grant, rid, pc)
    BY <1>1, <1>12, TailFacts DEF Grant, IdInv
  <2> QED BY <2>1 DEF Requests, RequestFor
<1>13. CASE ServeConnOpen \/ ServeOp
  <2>1. phase = "up" /\ UNCHANGED mtu /\ Grant.id \in Ids
    BY <1>12, <1>13 DEF ServeConnOpen, ServeOp, Serve
  <2>2. link'[h] = "open" <=> link[h] = "open"
    <3>1. CASE ServeOp \/ UNCHANGED link
      BY <1>13, <3>1 DEF ServeOp
    <3>2. ASSUME NEW g \in Handles, link[g] = "free", link' = [link EXCEPT ![g] = "opening"]
          PROVE  link'[h] = "open" <=> link[h] = "open"
      BY <3>2 DEF TypeOK
    <3> QED BY <1>13, <3>1, <3>2 DEF ServeConnOpen
  <2>3. \E e \in Message : e.kind = "resp" /\ inbox' = Append(inbox, e)
    <3>1. ASSUME NEW ok \in BOOLEAN, NEW g \in Handles \cup {None},
                 inbox' = Append(inbox, Response(Grant.id, ok, g))
          PROVE  \E e \in Message : e.kind = "resp" /\ inbox' = Append(inbox, e)
      BY <2>1, <3>1, MessageTypes DEF Response
    <3> QED BY <1>13, <3>1 DEF ServeConnOpen, ServeOp
  <2> QED BY <1>3, <2>1, <2>2, <2>3
<1>14. CASE ServeConnClose
  <2>1. phase = "up" /\ UNCHANGED mtu /\ Grant.id \in Ids /\ Grant.h \in Handles
    BY <1>12, <1>14 DEF ServeConnClose, Serve, Grant
  <2> DEFINE r == Response(Grant.id, TRUE, None)
             e == Event("closed", Grant.h)
             f == Response(Grant.id, FALSE, None)
  <2>2. /\ r \in Message /\ e \in Message /\ f \in Message
        /\ r.kind = "resp" /\ f.kind = "resp" /\ e.kind = "closed" /\ e.h = Grant.h
    BY <2>1, MessageTypes DEF Response, Event
  <2>3. CASE inbox' = Append(inbox, f) /\ UNCHANGED link
    BY <1>3, <2>1, <2>2, <2>3
  <2>4. CASE link' = [link EXCEPT ![Grant.h] = "free"]
             /\ inbox' \in {inbox \o <<r, e>>, inbox \o <<e, r>>}
    <3>1. link'[h] = IF Grant.h = h THEN "free" ELSE link[h]
      BY <2>1, <2>4 DEF TypeOK
    <3> HIDE DEF r, e, f
    <3>2. OpenAfter(inbox', mtu, h) <=> Grant.h # h /\ OpenAfter(inbox, mtu, h)
      <4>1. CASE inbox' = inbox \o <<r, e>>
        <5>1. inbox' = Append(Append(inbox, r), e) /\ Append(inbox, r) \in Seq(Message)
          BY <1>1, <2>2, <4>1, PairIsAppends
        <5>2. OpenAfter(Append(inbox, r), mtu, h) <=> OpenAfter(inbox, mtu, h)
          BY <1>1, <2>2, OpenAfterAppend
        <5>3. OpenAfter(Append(Append(inbox, r), e), mtu, h) <=>
                Grant.h # h /\ OpenAfter(Append(inbox, r), mtu, h)
          BY <2>2, <5>1, OpenAfterAppend
        <5> QED BY <5>1, <5>2, <5>3
      <4>2. CASE inbox' = inbox \o <<e, r>>
        <5>1. inbox' = Append(Append(inbox, e), r) /\ Append(inbox, e) \in Seq(Message)
          BY <1>1, <2>2, <4>2, PairIsAppends
        <5>2. OpenAfter(Append(inbox, e), mtu, h) <=> Grant.h # h /\ OpenAfter(inbox, mtu, h)
          BY <1>1, <2>2, OpenAfterAppend
        <5>3. OpenAfter(Append(Append(inbox, e), r), mtu, h) <=>
                OpenAfter(Append(inbox, e), mtu, h)
          BY <2>2, <5>1, OpenAfterAppend
        <5> QED BY <5>1, <5>2, <5>3
      <4> QED BY <2>4, <4>1, <4>2
    <3> QED BY <2>1, <3>1, <3>2 DEF ActiveInv
  <2> QED BY <1>14, <2>3, <2>4 DEF ServeConnClose
<1>15. ASSUME NEW g \in Handles, LinkOpens(g) \/ LinkDrops(g) \/ LinkNotifies(g)
       PROVE  link'[h] = "open" <=> OpenAfter(inbox', mtu', h)
  <2>1. phase = "up" /\ UNCHANGED mtu
    BY <1>15 DEF LinkOpens, LinkDrops, LinkNotifies, Radio
  <2>2. \A k \in {"opened", "closed", "notify"} :
          Event(k, g) \in Message /\ Event(k, g).kind = k /\ Event(k, g).h = g
    BY MessageTypes DEF Event
  <2>3. CASE LinkOpens(g)
    <3>1. inbox' = Append(inbox, Event("opened", g)) /\ link'[h] = IF g = h THEN "open" ELSE link[h]
      BY <2>3 DEF LinkOpens, TypeOK
    <3> QED BY <1>3, <2>1, <2>2, <3>1
  <2>4. CASE LinkDrops(g)
    <3>1. inbox' = Append(inbox, Event("closed", g)) /\ link'[h] = IF g = h THEN "free" ELSE link[h]
      BY <2>4 DEF LinkDrops, TypeOK
    <3> QED BY <1>3, <2>1, <2>2, <3>1
  <2>5. CASE LinkNotifies(g)
    <3>1. inbox' = Append(inbox, Event("notify", g)) /\ UNCHANGED link
      BY <2>5 DEF LinkNotifies
    <3> QED BY <1>3, <2>1, <2>2, <3>1
  <2> QED BY <1>15, <2>3, <2>4, <2>5
<1> QED
  BY <1>5, <1>6, <1>7, <1>8, <1>9, <1>10, <1>11, <1>13, <1>14, <1>15
  DEF Next, Operate, StartNotify, StopNotify, Reader, RunTask, Daemon

-----------------------------------------------------------------------------

LEMMA BaseStart == Init => BaseInv
<1> SUFFICES ASSUME Init PROVE BaseInv
  OBVIOUS
<1> USE GattAssumption
<1>1. /\ phase = "down" /\ writer = FALSE /\ closing = FALSE
  BY DEF Init, Sess!Init
<1>2. TypeOK
  <2>1. /\ pc \in [Callers -> PC]
        /\ fut \in [Callers -> {"none", "wait", "ok", "err", "gone"}]
        /\ rid \in [Callers -> Ids \cup {None}]
        /\ target \in [Callers -> Handles \cup {None}]
        /\ held \in [Callers -> Handles \cup {None}]
        /\ drain \in [Callers -> {"no", "blocked", "over", "raised"}]
    BY DEF Init, PC
  <2>2. /\ opened \in [Handles -> Callers \cup {None}]
        /\ discCb \in [Handles -> Callers \cup {None}]
        /\ noteCb \in [Handles -> Callers \cup {None}]
        /\ link \in [Handles -> {"free", "opening", "open"}]
        /\ owner \in [Handles -> Callers \cup {None}]
    BY DEF Init
  <2>3. /\ ready \in Seq(Callers \cup {Run}) /\ inbox \in Seq(Message)
        /\ wire \in Seq([id : Ids, act : {"connOpen", "connClose", "op"},
                         h : Handles \cup {None}, by : Callers])
        /\ pending \subseteq Ids /\ mtu \subseteq Handles
        /\ missed \subseteq Callers /\ leaked \subseteq Ids
    BY DEF Init
  <2>4. /\ phase \in {"down", "up", "lost", "disc", "dead"}
        /\ writer \in BOOLEAN /\ closing \in BOOLEAN
    BY <1>1
  <2> QED BY <2>1, <2>2, <2>3, <2>4 DEF TypeOK
<1>3. SessInv
  BY <1>1 DEF Init, SessInv
<1>4. CallerInv
  BY DEF Init, CallerInv, CallerAt, InRequest
<1>5. QueueInv
  BY <1>1 DEF Init, QueueInv, InQueue, Due, Behind, After, Woken, OutOfDrain
<1>6. IdInv
  BY <1>1 DEF Init, IdInv, PendingInv
<1>7. ActiveInv /\ PendingIsAwaited
  BY <1>1 DEF ActiveInv, PendingIsAwaited
<1> QED BY <1>2, <1>3, <1>4, <1>5, <1>6, <1>7 DEF BaseInv

LEMMA BaseStep == BaseInv /\ [Next]_vars => BaseInv'
BY TypeStep, SessStep, CallerStep, QueueStep, IdStep, ActiveStep, PendingStep
DEF BaseInv

THEOREM BaseInvariance == Spec => []BaseInv
BY BaseStart, BaseStep, PTL DEF Spec

-----------------------------------------------------------------------------
(* Claims *)

LEMMA BaseTypes ==
  ASSUME BaseInv
  PROVE  /\ pc \in [Callers -> PC]
         /\ fut \in [Callers -> {"none", "wait", "ok", "err", "gone"}]
         /\ rid \in [Callers -> Ids \cup {None}]
         /\ target \in [Callers -> Handles \cup {None}]
         /\ held \in [Callers -> Handles \cup {None}]
         /\ drain \in [Callers -> {"no", "blocked", "over", "raised"}]
         /\ opened \in [Handles -> Callers \cup {None}]
         /\ discCb \in [Handles -> Callers \cup {None}]
         /\ noteCb \in [Handles -> Callers \cup {None}]
         /\ missed \subseteq Callers /\ mtu \subseteq Handles
         /\ \A c \in Callers : CallerAt(c)
         /\ \A h \in Handles : opened[h] # None =>
              target[opened[h]] = h /\ pc[opened[h]] \in {"opening", "abort"}
BY DEF BaseInv, TypeOK, CallerInv

\* Who waits in gatt_connect for the event is not in a request, and holds
\* nothing.
LEMMA OpeningFacts ==
  ASSUME BaseInv, NEW c \in Callers, pc[c] = "opening"
  PROVE  /\ rid[c] = None /\ drain[c] = "no" /\ held[c] = None
         /\ target[c] \in Handles /\ fut[c] # "none"
<1>1. CallerAt(c)
  BY BaseTypes
<1> QED BY <1>1, BaseTypes DEF CallerAt, InRequest

\* A claim is made by connOpened alone.
LEMMA ExpectsStep ==
  ASSUME BaseInv, [Next]_vars, NEW c \in Callers, NEW h \in Handles, Expects(c, h)'
  PROVE  \/ Expects(c, h)
         \/ DispatchOpened /\ Head(inbox).h = h /\ Awaited(h) /\ c = opened[h]
<1> USE GattAssumption DEF session, callers, tables, peer, history
<1>1. ASSUME NEW d \in Callers, Connect(d) \/ OnConnection(d) \/ Disconnect(d) \/ ResumeGaveUp(d)
      PROVE  Expects(c, h)
  <2>1. c # d /\ pc'[c] = pc[c]
    BY <1>1, BaseTypes DEF Expects, Connect, OnConnection, Disconnect, ResumeGaveUp, Sent, Unsent
  <2>2. fut'[c] = fut[c] /\ target'[c] = target[c]
    BY <1>1, <2>1, BaseTypes DEF Connect, OnConnection, Disconnect, ResumeGaveUp, Sent, Unsent,
       Unregister
  <2> QED BY <2>1, <2>2 DEF Expects
<1>2. ASSUME NEW d \in Callers,
             \/ ResumeConnOpen(d) \/ ResumeOpened(d) \/ ResumeRefused(d) \/ ResumeAbort(d)
             \/ ResumeRequest(d) \/ ResumeCut(d)
      PROVE  Expects(c, h)
  <2>1. c # d
    BY <1>2, BaseTypes DEF Expects, ResumeConnOpen, ResumeOpened, ResumeRefused, ResumeAbort,
       ResumeRequest, ResumeCut, Done
  <2>2. pc'[c] = pc[c] /\ fut'[c] = fut[c]
    BY <1>2, <2>1, BaseTypes DEF ResumeConnOpen, ResumeOpened, ResumeRefused, ResumeAbort,
       ResumeRequest, ResumeCut, Done
  <2>3. target'[c] = target[c]
    BY <1>2, <2>1, BaseTypes DEF ResumeConnOpen, ResumeOpened, ResumeRefused, ResumeAbort,
       ResumeRequest, ResumeCut, Unregister
  <2> QED BY <2>2, <2>3 DEF Expects
<1>3. ASSUME NEW d \in Callers, GiveUp(d) \/ ResumeDrained(d) \/ DrainEnds(d) \/ DrainFails(d)
      PROVE  Expects(c, h)
  BY <1>3, BaseTypes DEF Expects, GiveUp, ResumeDrained, DrainEnds, DrainFails
<1>4. CASE DispatchResponse
  <2>1. pc[c] = "opening" /\ rid[c] = None
    BY <1>4, OpeningFacts DEF DispatchResponse, Expects
  <2>2. Head(inbox).id # None
    BY <1>4, HeadIsFor DEF DispatchResponse, Dispatch, MessageFor, BaseInv
  <2>3. c \notin Waiting(Head(inbox))
    BY <2>1, <2>2 DEF Waiting
  <2>4. fut'[c] = fut[c] /\ target'[c] = target[c]
    BY <1>4, <2>3, BaseTypes DEF DispatchResponse, Complete, Leave
  <2> QED BY <1>4, <2>4 DEF DispatchResponse, Expects
<1>5. CASE DispatchOpened
  <2>1. Head(inbox).h \in Handles /\ pc'[c] = pc[c] /\ target'[c] = target[c]
    BY <1>5, HeadIsFor DEF DispatchOpened, Dispatch, BaseInv
  <2>2. CASE Awaited(Head(inbox).h) /\ c = opened[Head(inbox).h]
    BY <1>5, <2>1, <2>2, BaseTypes DEF Expects, Awaited
  <2>3. CASE ~(Awaited(Head(inbox).h) /\ c = opened[Head(inbox).h])
    <3>1. fut'[c] = fut[c]
      BY <1>5, <2>3, BaseTypes DEF DispatchOpened, Complete, Leave
    <3> QED BY <2>1, <3>1 DEF Expects
  <2> QED BY <2>2, <2>3
<1>6. CASE DispatchClosed
  <2>1. pc'[c] = pc[c] /\ target'[c] = target[c]
    BY <1>6, BaseTypes DEF Expects, DispatchClosed, Disconnected
  <2>2. fut'[c] = fut[c]
    <3>1. fut' = fut \/ fut' = [fut EXCEPT ![opened[Head(inbox).h]] = "err"]
      BY <1>6 DEF DispatchClosed, Complete, Leave
    <3> QED BY <3>1, BaseTypes DEF Expects
  <2> QED BY <2>1, <2>2 DEF Expects
<1>7. CASE RunClears
  <2>1. pc'[c] = pc[c] /\ target'[c] = target[c]
    BY <1>7, BaseTypes DEF Expects, RunClears, Flush, Disconnected
  <2>2. fut'[c] = fut[c]
    BY <1>7, BaseTypes DEF Expects, RunClears, Flush
  <2> QED BY <2>1, <2>2 DEF Expects
<1>8. CASE DispatchNotify \/ Lose \/ WakeRun \/ RunReleases \/ RunAttaches \/ Close \/ Daemon
           \/ Terminated \/ UNCHANGED vars
  BY <1>8 DEF Expects, DispatchNotify, Dispatch, Leave, Lose, WakeRun, RunReleases, RunAttaches,
     Close, Daemon, ServeConnOpen, ServeConnClose, ServeOp, Serve, LinkOpens, LinkDrops,
     LinkNotifies, Radio, Terminated, vars
<1> QED
  BY <1>1, <1>2, <1>3, <1>4, <1>5, <1>6, <1>7, <1>8
  DEF Next, Operate, StartNotify, StopNotify, Resume, Reader, RunTask

\* A handle is held from the return of gatt_connect to disconnect() or to
\* _on_disconnected.
LEMMA HeldStep ==
  ASSUME BaseInv, [Next]_vars, NEW c \in Callers
  PROVE  \/ held'[c] = held[c]
         \/ ResumeOpened(c) /\ held'[c] = target[c] /\ Expects(c, target[c])
         \/ held'[c] = None /\ Disconnect(c)
         \/ held'[c] = None /\ DispatchClosed /\ c = discCb[Head(inbox).h]
         \/ held'[c] = None /\ RunClears /\ c \in Told
<1> USE GattAssumption DEF session, callers, tables, peer, history
<1>1. ASSUME NEW d \in Callers,
             \/ Connect(d) \/ OnConnection(d) \/ ResumeGaveUp(d) \/ ResumeConnOpen(d)
             \/ ResumeRefused(d) \/ ResumeAbort(d) \/ ResumeRequest(d) \/ ResumeCut(d)
             \/ GiveUp(d) \/ ResumeDrained(d) \/ DrainEnds(d) \/ DrainFails(d)
      PROVE  held'[c] = held[c]
  BY <1>1 DEF Connect, OnConnection, ResumeGaveUp, ResumeConnOpen, ResumeRefused, ResumeAbort,
     ResumeRequest, ResumeCut, GiveUp, ResumeDrained, DrainEnds, DrainFails
<1>2. ASSUME NEW d \in Callers, Disconnect(d)
      PROVE  held'[c] = held[c] \/ (held'[c] = None /\ d = c)
  BY <1>2, BaseTypes DEF Disconnect
<1>3. ASSUME NEW d \in Callers, ResumeOpened(d)
      PROVE  held'[c] = held[c] \/ (held'[c] = target[c] /\ d = c /\ Expects(c, target[c]))
  BY <1>3, BaseTypes DEF ResumeOpened, Expects
<1>4. CASE DispatchClosed
  BY <1>4, BaseTypes DEF DispatchClosed, Disconnected
<1>5. CASE RunClears
  BY <1>5, BaseTypes DEF RunClears, Flush, Disconnected
<1>6. CASE DispatchResponse \/ DispatchOpened \/ DispatchNotify \/ Lose \/ WakeRun
           \/ RunReleases \/ RunAttaches \/ Close \/ Daemon \/ Terminated \/ UNCHANGED vars
  BY <1>6 DEF DispatchResponse, DispatchOpened, DispatchNotify, Dispatch, Lose, WakeRun,
     RunReleases, RunAttaches, Close, Daemon, ServeConnOpen, ServeConnClose, ServeOp, Serve,
     LinkOpens, LinkDrops, LinkNotifies, Radio, Terminated, vars
<1> QED
  BY <1>1, <1>2, <1>3, <1>4, <1>5, <1>6
  DEF Next, Operate, StartNotify, StopNotify, Resume, Reader, RunTask

LEMMA ClaimsStep ==
  ASSUME BaseInv, [Next]_vars, NEW c \in Callers, NEW h \in Handles, Claims(c, h)'
  PROVE  \/ Claims(c, h)
         \/ Expects(c, h)' /\ DispatchOpened /\ Head(inbox).h = h /\ Awaited(h) /\ c = opened[h]
<1>1. CASE Expects(c, h)'
  BY <1>1, ExpectsStep DEF Claims
<1>2. CASE held'[c] = h
  <2>1. held'[c] # None
    BY <1>2, GattAssumption
  <2> QED BY <1>2, <2>1, HeldStep DEF Claims
<1> QED BY <1>1, <1>2 DEF Claims

\* When run() is about to flush, nobody has been answered without having run.
LEMMA NobodyAnswered ==
  ASSUME BaseInv, ready # <<>>, Head(ready) = Run, NEW c \in Callers, drain[c] = "no"
  PROVE  fut[c] \notin {"ok", "err"}
<1>1. ready[1] = Run /\ 1 \in 1..Len(ready) /\ Len(ready) \in Nat
  BY TailFacts DEF BaseInv, TypeOK
<1>2. phase # "up"
  BY <1>1 DEF BaseInv, QueueInv
<1>3. CASE phase = "lost"
  <2> SUFFICES ASSUME fut[c] \in {"ok", "err"} PROVE FALSE
    OBVIOUS
  <2>1. c \in Due
    BY DEF Due, Woken
  <2>2. PICK i \in 1..Len(ready) : ready[i] = c
    BY <2>1 DEF BaseInv, QueueInv, InQueue
  <2>3. 1 < i
    BY <1>1, <2>2, GattAssumption
  <2>4. Behind(ready, c)
    BY <1>1, <2>2, <2>3 DEF Behind, After
  <2> QED BY <1>3, <2>4 DEF BaseInv, QueueInv
<1> QED BY <1>2, <1>3 DEF BaseInv, QueueInv, TypeOK

\* The order of two callers in the queue changes when the first of them runs.
LEMMA AfterStep ==
  ASSUME BaseInv, [Next]_vars, NEW c \in Callers, NEW d \in Callers, After(ready, c, d)
  PROVE  After(ready', c, d) \/ (Resume(c) /\ Resumed(c))
<1> USE GattAssumption DEF session, callers, tables, peer, history
<1>1. PICK i, j \in 1..Len(ready) : ready[i] = c /\ i < j /\ ready[j] = d
  BY DEF After
<1>2. ready \in Seq(Tasks) /\ ready # <<>>
  BY <1>1 DEF BaseInv, TypeOK, Tasks
<1>3. UNCHANGED ready => After(ready', c, d)
  BY DEF After
<1>4. ASSUME NEW x \in Tasks, ready' = Append(ready, x) PROVE After(ready', c, d)
  <2>1. /\ ready'[i] = c /\ ready'[j] = d /\ i \in 1..Len(ready') /\ j \in 1..Len(ready')
    BY <1>1, <1>2, <1>4, AppendFacts
  <2> QED BY <1>1, <2>1 DEF After
<1>5. ASSUME NEW t \in Seq(Tasks), ready' = Tail(ready) \o t, Head(ready) # c
      PROVE  After(ready', c, d)
  <2>1. i # 1
    BY <1>1, <1>2, <1>5
  <2>2. /\ Tail(ready) \in Seq(Tasks) /\ Len(Tail(ready)) = Len(ready) - 1
        /\ Tail(ready)[i - 1] = c /\ Tail(ready)[j - 1] = d
        /\ i - 1 \in 1..Len(Tail(ready)) /\ j - 1 \in 1..Len(Tail(ready)) /\ i - 1 < j - 1
    BY <1>1, <1>2, <2>1
  <2>3. /\ ready'[i - 1] = c /\ ready'[j - 1] = d
        /\ i - 1 \in 1..Len(ready') /\ j - 1 \in 1..Len(ready')
    BY <1>5, <2>2, ConcatFacts
  <2> QED BY <2>2, <2>3 DEF After
<1>6. ready' = Tail(ready) /\ Head(ready) # c => After(ready', c, d)
  <2>1. <<>> \in Seq(Tasks) /\ Tail(ready) \o <<>> = Tail(ready)
    BY <1>2
  <2> QED BY <1>5, <2>1
<1>7. ASSUME NEW x \in Callers, Resume(x)
      PROVE  After(ready', c, d) \/ (Resume(c) /\ Resumed(c))
  <2>1. Resumed(x)
    BY <1>7 DEF Resume, ResumeConnOpen, ResumeOpened, ResumeRefused, ResumeGaveUp,
       ResumeAbort, ResumeRequest, ResumeDrained, ResumeCut, Returned
  <2>2. CASE x = c
    BY <1>7, <2>1, <2>2
  <2>3. CASE x # c
    BY <1>6, <2>1, <2>3 DEF Resumed
  <2> QED BY <2>2, <2>3
<1>8. ASSUME NEW x \in Callers, GiveUp(x) \/ DrainEnds(x) \/ DrainFails(x)
      PROVE  After(ready', c, d)
  BY <1>3, <1>4, <1>8 DEF GiveUp, DrainEnds, DrainFails, Tasks
<1>9. CASE DispatchResponse \/ DispatchOpened \/ DispatchClosed
  <2>1. ready' = ready \/ \E x \in Callers : ready' = Append(ready, x)
    <3>1. CASE DispatchResponse
      BY <3>1 DEF DispatchResponse, Leave, Complete, Waiting
    <3>2. CASE DispatchOpened
      BY <3>2, HeadIsFor, BaseTypes DEF DispatchOpened, Dispatch, Leave, Complete, Awaited, BaseInv
    <3>3. CASE DispatchClosed
      BY <3>3, HeadIsFor, BaseTypes DEF DispatchClosed, Dispatch, Leave, Complete, Awaited, BaseInv
    <3> QED BY <1>9, <3>1, <3>2, <3>3
  <2> QED BY <1>3, <1>4, <2>1 DEF Tasks
<1>10. CASE RunReleases \/ RunAttaches
  BY <1>6, <1>10 DEF RunReleases, RunAttaches, Resumed
<1>11. CASE RunClears
  <2> DEFINE W == {x \in Interrupted : drain[x] = "no"}
  <2>1. PICK order \in SetToSeqs(W) : ready' = Tail(ready) \o order
    BY <1>11 DEF RunClears, Flush
  <2>2. IsFiniteSet(W) /\ W \subseteq Tasks
    BY FS_Subset DEF Interrupted, Tasks
  <2>3. order \in Seq(Tasks)
    <3> HIDE DEF W
    <3>1. order \in Seq(W)
      BY <2>1, <2>2, OrderFacts
    <3> QED BY <2>2, <3>1
  <2>4. Head(ready) # c
    BY <1>11 DEF RunClears
  <2> QED BY <1>5, <2>1, <2>3, <2>4
<1>12. CASE Lose \/ WakeRun
  BY <1>4, <1>12 DEF Lose, WakeRun, Tasks
<1>13. ASSUME NEW x \in Callers, Connect(x) \/ OnConnection(x) \/ Disconnect(x)
       PROVE  After(ready', c, d)
  <2>1. UNCHANGED ready
    BY <1>13 DEF Connect, OnConnection, Disconnect
  <2> QED BY <1>3, <2>1
<1>14. CASE DispatchNotify \/ Close \/ Daemon \/ Terminated \/ UNCHANGED vars
  <2>1. UNCHANGED ready
    BY <1>14 DEF DispatchNotify, Leave, Close, Daemon, ServeConnOpen, ServeConnClose,
       ServeOp, Serve, LinkOpens, LinkDrops, LinkNotifies, Radio, Terminated, vars
  <2> QED BY <1>3, <2>1
<1> QED
  BY <1>7, <1>8, <1>9, <1>10, <1>11, <1>12, <1>13, <1>14
  DEF Next, Operate, StartNotify, StopNotify, Reader, RunTask

\* Who leaves missed has no claim any more.
LEMMA MissedLeaves ==
  ASSUME BaseInv, LeaseInv, [Next]_vars, NEW c \in missed, c \notin missed', NEW h \in Handles
  PROVE  ~Claims(c, h)'
<1> USE GattAssumption DEF session, callers, tables, peer, history
<1>1. c \in Callers
  BY BaseTypes
<1>2. ASSUME NEW d \in Callers, Disconnect(d) PROVE ~Claims(c, h)'
  <2>1. d = c
    BY <1>2 DEF Disconnect
  <2> QED BY <1>1, <1>2, <2>1, BaseTypes DEF Disconnect, Sent, Unsent, Claims, Expects
<1>3. ASSUME NEW d \in Callers, GiveUp(d) PROVE ~Claims(c, h)'
  <2>1. d = c /\ held[c] = None /\ UNCHANGED held
    BY <1>3 DEF GiveUp
  <2> QED BY <1>1, <1>3, <2>1, BaseTypes DEF GiveUp, Claims, Expects
<1>4. ASSUME NEW g \in Handles, c = discCb[g], held'[c] = None PROVE ~Claims(c, h)'
  <2>1. pc[c] # "opening"
    BY <1>1, <1>4, OpeningFacts DEF LeaseInv, CallbackIsHeld
  <2>2. ~Expects(c, h)'
    <3>1. ~Expects(c, h) /\ \A k \in Handles : opened[k] = c => ~Awaited(k)
      BY <2>1 DEF Expects, Awaited
    <3> QED BY <1>1, <3>1, ExpectsStep, HeadIsFor
  <2> QED BY <1>4, <2>2 DEF Claims
<1>5. CASE DispatchClosed
  <2>1. c = discCb[Head(inbox).h] /\ Head(inbox).h \in Handles
    BY <1>5, HeadIsFor DEF DispatchClosed, Dispatch, BaseInv
  <2>2. held'[c] = None
    BY <1>1, <1>5, <2>1 DEF DispatchClosed, Disconnected
  <2> QED BY <1>4, <2>1, <2>2
<1>6. CASE RunClears
  <2>1. PICK g \in Handles : c = discCb[g]
    BY <1>6 DEF RunClears, Flush, Told
  <2>2. held'[c] = None
    BY <1>1, <1>6, <2>1 DEF RunClears, Flush, Disconnected, Told
  <2> QED BY <1>4, <2>1, <2>2
<1>7. ASSUME NEW d \in Callers, Connect(d) \/ OnConnection(d) \/ Resume(d) \/ DrainEnds(d) \/ DrainFails(d)
      PROVE  FALSE
  BY <1>7 DEF Connect, OnConnection, Resume, ResumeConnOpen, ResumeOpened, ResumeRefused,
     ResumeGaveUp, ResumeAbort, ResumeRequest, ResumeDrained, ResumeCut, DrainEnds, DrainFails
<1>8. CASE DispatchResponse \/ DispatchOpened \/ DispatchNotify \/ Lose \/ WakeRun
           \/ RunReleases \/ RunAttaches \/ Close \/ Daemon \/ Terminated \/ UNCHANGED vars
  BY <1>8 DEF DispatchResponse, DispatchOpened, DispatchNotify, Dispatch, Lose, WakeRun,
     RunReleases, RunAttaches, Close, Daemon, ServeConnOpen, ServeConnClose, ServeOp, Serve,
     LinkOpens, LinkDrops, LinkNotifies, Radio, Terminated, vars
<1> QED
  BY <1>2, <1>3, <1>5, <1>6, <1>7, <1>8
  DEF Next, Operate, StartNotify, StopNotify, Reader, RunTask

\* The connClosed of a handle, and the flush, end every claim there is, but for
\* those they miss.
LEMMA ClosedEndsClaims ==
  ASSUME BaseInv, LeaseInv, [Next]_vars, NEW c \in Callers \ missed, c \notin missed',
         NEW h \in Handles, Claims(c, h),
         (DispatchClosed /\ Head(inbox).h = h) \/ RunClears
  PROVE  ~Claims(c, h)'
<1> USE GattAssumption
<1>1. CASE held[c] = h
  <2>1. discCb[h] = c
    BY <1>1 DEF LeaseInv, DropIsTold
  <2>2. held'[c] = None
    BY <2>1 DEF DispatchClosed, RunClears, Flush, Told, Disconnected
  <2>3. pc[c] # "opening"
    BY <1>1, OpeningFacts
  <2>4. ~Expects(c, h)'
    <3>1. ~Expects(c, h) /\ \A k \in Handles : opened[k] = c => ~Awaited(k)
      BY <2>3 DEF Expects, Awaited
    <3> QED BY <3>1, ExpectsStep, HeadIsFor
  <2> QED BY <2>2, <2>4 DEF Claims
<1>2. CASE Expects(c, h)
  <2>1. ~(DispatchClosed /\ Head(inbox).h = h)
    BY <1>2 DEF DispatchClosed, Unaware, Expects
  <2>2. RunClears
    BY <2>1
  <2>3. drain[c] = "no" /\ fut[c] = "ok"
    BY <1>2, OpeningFacts DEF Expects
  <2> QED BY <2>2, <2>3, NobodyAnswered DEF RunClears
<1> QED BY <1>1, <1>2 DEF Claims

\* A handle that is granted to a caller has no claim yet.
LEMMA OpenedIsUnclaimed ==
  ASSUME BaseInv, LeaseInv, DispatchOpened, NEW c \in Callers \ missed
  PROVE  ~Claims(c, Head(inbox).h)
<1> DEFINE h == Head(inbox).h
<1>1. phase = "up" /\ inbox # <<>> /\ Head(inbox).kind = "opened" /\ h \in Handles
  BY HeadIsFor DEF DispatchOpened, Dispatch, BaseInv
<1>2. 1 \in 1..Len(inbox) /\ inbox[1] = Head(inbox) /\ 1..(1 - 1) = {}
  BY <1>1, TailFacts DEF BaseInv, TypeOK
<1>3. h \notin mtu
  BY <1>1, <1>2 DEF LeaseInv, Alternate, Alternates, At, ClosedIn
<1> QED BY <1>1, <1>3 DEF LeaseInv, OneClaim

\* Only events and the flush change _conn_mtu.
LEMMA MtuStep ==
  ASSUME [Next]_vars
  PROVE  UNCHANGED mtu \/ DispatchOpened \/ DispatchClosed \/ RunClears
<1> USE DEF session, callers, tables, peer, history
<1>1. ASSUME NEW c \in Callers,
             \/ Connect(c) \/ OnConnection(c) \/ Disconnect(c) \/ GiveUp(c)
             \/ DrainEnds(c) \/ DrainFails(c) \/ Resume(c)
      PROVE  UNCHANGED mtu
  BY <1>1 DEF Connect, OnConnection, Disconnect, GiveUp, DrainEnds, DrainFails, Resume,
     ResumeConnOpen, ResumeOpened, ResumeRefused, ResumeGaveUp, ResumeAbort, ResumeRequest,
     ResumeDrained, ResumeCut
<1>2. CASE DispatchResponse \/ DispatchNotify \/ Lose \/ WakeRun
           \/ RunReleases \/ RunAttaches \/ Close \/ Daemon \/ Terminated \/ UNCHANGED vars
  BY <1>2 DEF DispatchResponse, DispatchNotify, Lose, WakeRun,
     RunReleases, RunAttaches, Close, Daemon, ServeConnOpen, ServeConnClose, ServeOp, Serve,
     LinkOpens, LinkDrops, LinkNotifies, Radio, Terminated, vars
<1> QED
  BY <1>1, <1>2 DEF Next, Operate, StartNotify, StopNotify, Reader, RunTask

LEMMA OneClaimStep == BaseInv /\ LeaseInv /\ [Next]_vars => OneClaim'
<1> SUFFICES ASSUME BaseInv, LeaseInv, [Next]_vars, NEW h \in Handles,
                    NEW c \in Callers, NEW d \in Callers,
                    c \notin missed', d \notin missed', Claims(c, h)'
             PROVE  h \in mtu' /\ (Claims(d, h)' => c = d)
  BY DEF OneClaim
<1>1. c \notin missed /\ (Claims(d, h)' => d \notin missed)
  BY MissedLeaves
<1>2. CASE Claims(c, h)
  <2>1. h \in mtu
    BY <1>1, <1>2 DEF LeaseInv, OneClaim
  <2>2. ~(DispatchClosed /\ Head(inbox).h = h) /\ ~RunClears
    BY <1>1, <1>2, ClosedEndsClaims
  <2>3. h \in mtu'
    <3>1. UNCHANGED mtu \/ DispatchOpened \/ DispatchClosed
      BY <2>2, MtuStep
    <3> QED BY <2>1, <2>2, <3>1 DEF DispatchOpened, DispatchClosed, Drop
  <2>4. ASSUME Claims(d, h)' PROVE c = d
    <3>1. Claims(d, h) \/ (DispatchOpened /\ Head(inbox).h = h)
      BY <2>4, ClaimsStep
    <3>2. Claims(d, h)
      BY <1>1, <1>2, <3>1, OpenedIsUnclaimed
    <3> QED BY <1>1, <1>2, <2>4, <3>2 DEF LeaseInv, OneClaim
  <2> QED BY <2>3, <2>4
<1>3. CASE ~Claims(c, h)
  <2>1. DispatchOpened /\ Head(inbox).h = h /\ c = opened[h]
    BY <1>3, ClaimsStep
  <2>2. h \in mtu'
    BY <2>1 DEF DispatchOpened
  <2>3. ASSUME Claims(d, h)' PROVE c = d
    <3>1. ~Claims(d, h)
      BY <1>1, <2>1, <2>3, OpenedIsUnclaimed
    <3> QED BY <2>1, <2>3, <3>1, ClaimsStep
  <2> QED BY <2>2, <2>3
<1> QED BY <1>2, <1>3

\* Callers are added to missed by the disconnect() of another holder, and by a
\* connClosed that comes before they ran.
LEMMA MissedStep ==
  ASSUME [Next]_vars, NEW c \in missed', c \notin missed
  PROVE  \/ \E x \in Callers : Disconnect(x) /\ c \in Callers /\ held[c] = held[x]
         \/ DispatchClosed /\ c \in Unaware(Head(inbox).h)
<1> USE DEF session, callers, tables, peer, history
<1>1. ASSUME NEW d \in Callers,
             \/ Connect(d) \/ OnConnection(d) \/ GiveUp(d)
             \/ DrainEnds(d) \/ DrainFails(d) \/ Resume(d)
      PROVE  FALSE
  BY <1>1 DEF Connect, OnConnection, GiveUp, DrainEnds, DrainFails, Resume,
     ResumeConnOpen, ResumeOpened, ResumeRefused, ResumeGaveUp, ResumeAbort, ResumeRequest,
     ResumeDrained, ResumeCut
<1>2. CASE DispatchResponse \/ DispatchOpened \/ DispatchNotify \/ Lose \/ WakeRun
           \/ RunTask \/ Close \/ Daemon \/ Terminated \/ UNCHANGED vars
  BY <1>2 DEF DispatchResponse, DispatchOpened, DispatchNotify, Dispatch, Lose, WakeRun, RunTask,
     RunReleases, RunAttaches, RunClears, Flush, Close, Daemon, ServeConnOpen, ServeConnClose,
     ServeOp, Serve, LinkOpens, LinkDrops, LinkNotifies, Radio, Terminated, vars
<1>3. CASE DispatchClosed
  BY <1>3 DEF DispatchClosed
<1>4. ASSUME NEW d \in Callers, Disconnect(d)
      PROVE  \E x \in Callers : Disconnect(x) /\ c \in Callers /\ held[c] = held[x]
  BY <1>4 DEF Disconnect
<1> QED
  BY <1>1, <1>2, <1>3, <1>4 DEF Next, Operate, StartNotify, StopNotify, Reader

\* Who was told that its connection is open runs next, unless it gives up.
LEMMA OpeningStep ==
  ASSUME BaseInv, [Next]_vars, NEW c \in Callers, c \in missed', held[c] = None,
         pc[c] = "opening", fut[c] = "ok"
  PROVE  held'[c] # None \/ (pc'[c] = "opening" /\ fut'[c] = "ok")
<1> USE GattAssumption DEF session, callers, tables, peer, history
<1>1. rid[c] = None /\ drain[c] = "no" /\ target[c] \in Handles
  BY OpeningFacts
<1>2. ASSUME NEW d \in Callers,
             \/ Connect(d) \/ OnConnection(d) \/ Disconnect(d) \/ ResumeGaveUp(d)
             \/ ResumeConnOpen(d) \/ ResumeRefused(d) \/ ResumeAbort(d) \/ ResumeRequest(d)
             \/ ResumeCut(d) \/ ResumeDrained(d) \/ DrainEnds(d) \/ DrainFails(d) \/ GiveUp(d)
      PROVE  pc'[c] = pc[c] /\ fut'[c] = fut[c]
  <2>1. d # c
    BY <1>1, <1>2 DEF Connect, OnConnection, Disconnect, ResumeGaveUp, ResumeConnOpen,
       ResumeRefused, ResumeAbort, ResumeRequest, ResumeCut, ResumeDrained, DrainEnds,
       DrainFails, GiveUp
  <2>2. CASE Connect(d) \/ OnConnection(d) \/ Disconnect(d) \/ ResumeGaveUp(d)
    BY <2>1, <2>2, BaseTypes DEF Connect, OnConnection, Disconnect, ResumeGaveUp, Sent, Unsent
  <2>3. CASE ~(Connect(d) \/ OnConnection(d) \/ Disconnect(d) \/ ResumeGaveUp(d))
    BY <1>2, <2>1, <2>3, BaseTypes DEF ResumeConnOpen, ResumeRefused, ResumeAbort, ResumeRequest,
       ResumeCut, ResumeDrained, DrainEnds, DrainFails, GiveUp, Done
  <2> QED BY <2>2, <2>3
<1>3. ASSUME NEW d \in Callers, ResumeOpened(d)
      PROVE  held'[c] # None \/ (pc'[c] = pc[c] /\ fut'[c] = fut[c])
  BY <1>1, <1>3, BaseTypes DEF ResumeOpened, Done
<1>4. CASE DispatchResponse
  <2>1. Head(inbox).id # None
    BY <1>4, HeadIsFor DEF DispatchResponse, Dispatch, MessageFor, BaseInv
  <2>2. c \notin Waiting(Head(inbox))
    BY <1>1, <2>1 DEF Waiting
  <2> QED BY <1>4, <2>2, BaseTypes DEF DispatchResponse, Complete, Leave
<1>5. CASE DispatchOpened \/ DispatchClosed
  <2>1. pc'[c] = pc[c]
    BY <1>5, BaseTypes DEF DispatchOpened, DispatchClosed, Disconnected
  <2>2. fut'[c] = fut[c]
    <3>1. \/ fut' = fut
          \/ Awaited(Head(inbox).h) /\ \E how \in {"ok", "err"} :
               fut' = [fut EXCEPT ![opened[Head(inbox).h]] = how]
      BY <1>5 DEF DispatchOpened, DispatchClosed, Complete, Leave
    <3> QED BY <3>1, BaseTypes DEF Awaited
  <2> QED BY <2>1, <2>2
<1>6. CASE RunClears
  BY <1>6, BaseTypes DEF RunClears, Flush, Disconnected, Interrupted
<1>7. CASE DispatchNotify \/ Lose \/ WakeRun \/ RunReleases \/ RunAttaches \/ Close \/ Daemon
           \/ Terminated \/ UNCHANGED vars
  BY <1>7 DEF DispatchNotify, Dispatch, Leave, Lose, WakeRun, RunReleases, RunAttaches,
     Close, Daemon, ServeConnOpen, ServeConnClose, ServeOp, Serve, LinkOpens, LinkDrops,
     LinkNotifies, Radio, Terminated, vars
<1> QED
  BY <1>2, <1>3, <1>4, <1>5, <1>6, <1>7
  DEF Next, Operate, StartNotify, StopNotify, Resume, Reader, RunTask

\* Callers that are told of h in one turn run in that order.
LEMMA MissedRunFirstStep == BaseInv /\ LeaseInv /\ [Next]_vars => MissedRunFirst'
<1> SUFFICES ASSUME BaseInv, LeaseInv, [Next]_vars PROVE MissedRunFirst'
  OBVIOUS
<1>0. TypeOK'
  BY BaseStep DEF BaseInv
<1> SUFFICES ASSUME NEW h \in Handles,
                    NEW c \in Callers, NEW d \in Callers,
                    c \in missed', d \notin missed', Expects(c, h)', Claims(d, h)'
             PROVE  Expects(d, h)' /\ After(ready', c, d)
  BY <1>0 DEF MissedRunFirst, TypeOK
<1> USE GattAssumption
<1>1. d \notin missed
  BY MissedLeaves
<1>2. ASSUME Expects(d, h), ~ResumeOpened(d) PROVE Expects(d, h)'
  BY <1>2, HeldStep, OpeningFacts DEF Claims, Expects
<1>3. CASE c \in missed /\ Expects(c, h)
  <2>1. CASE Claims(d, h)
    <3>1. Expects(d, h) /\ After(ready, c, d)
      BY <1>1, <1>3, <2>1 DEF LeaseInv, MissedRunFirst
    <3>2. ~ResumeOpened(d)
      <4>1. PICK i, j \in 1..Len(ready) : ready[i] = c /\ i < j /\ ready[j] = d
        BY <3>1 DEF After
      <4>2. \A k \in 1..Len(ready) : ready[k] = d => k = j
        BY <4>1 DEF BaseInv, QueueInv, InQueue
      <4>3. Head(ready) = ready[1] /\ 1 \in 1..Len(ready)
        BY <4>1
      <4>4. Head(ready) # d
        BY <4>1, <4>2, <4>3
      <4> QED BY <4>4 DEF ResumeOpened, Returned, Resumed
    <3>3. ~Resume(c)
      <4>1. ~ResumeOpened(c)
        BY BaseTypes DEF ResumeOpened, Done, Expects
      <4>2. pc[c] = "opening" /\ fut[c] = "ok" /\ drain[c] = "no"
        BY <1>3, OpeningFacts DEF Expects
      <4> QED BY <4>1, <4>2 DEF Resume, ResumeConnOpen, ResumeRefused, ResumeGaveUp,
            ResumeAbort, ResumeRequest, ResumeDrained, ResumeCut
    <3>4. After(ready', c, d)
      BY <3>1, <3>3, AfterStep
    <3> QED BY <1>2, <3>1, <3>2, <3>4
  <2>2. CASE ~Claims(d, h)
    <3>1. Expects(d, h)' /\ DispatchOpened /\ Head(inbox).h = h /\ Awaited(h) /\ d = opened[h]
      BY <2>2, ClaimsStep
    <3>2. drain[d] = "no" /\ drain[c] = "no" /\ fut[c] = "ok"
      BY <1>3, <3>1, OpeningFacts DEF Awaited, Expects
    <3>3. ready' = Append(ready, d)
      BY <3>1, <3>2 DEF DispatchOpened, Complete
    <3>4. PICK i \in 1..Len(ready) : ready[i] = c
      BY <3>2 DEF BaseInv, QueueInv, InQueue, Due, Woken
    <3>5. ready \in Seq(Tasks) /\ d \in Tasks
      BY DEF BaseInv, TypeOK, Tasks
    <3>6. /\ ready'[i] = c /\ ready'[Len(ready) + 1] = d /\ Len(ready) \in Nat
          /\ Len(ready') = Len(ready) + 1
      BY <3>3, <3>4, <3>5, AppendFacts
    <3>7. i \in 1..Len(ready') /\ Len(ready) + 1 \in 1..Len(ready') /\ i < Len(ready) + 1
      BY <3>4, <3>6
    <3> QED BY <3>1, <3>6, <3>7 DEF After
  <2> QED BY <2>1, <2>2
<1>4. CASE c \in missed /\ ~Expects(c, h)
  <2>1. Awaited(h) /\ c = opened[h]
    BY <1>4, ExpectsStep
  <2>2. held[c] = None /\ fut[c] = "wait"
    BY <2>1, OpeningFacts DEF Awaited
  <2> QED BY <1>4, <2>2 DEF LeaseInv, MissedClaim
<1>5. CASE c \notin missed
  <2>1. \/ \E x \in Callers : Disconnect(x) /\ held[c] = held[x]
        \/ DispatchClosed /\ c \in Unaware(Head(inbox).h)
    BY <1>5, MissedStep
  <2>2. ASSUME NEW x \in Callers, Disconnect(x), held[c] = held[x] PROVE FALSE
    <3>1. held[c] # None /\ ~DispatchOpened
      BY <2>2 DEF Disconnect, DispatchOpened, Dispatch
    <3>2. Expects(c, h)
      BY <3>1, ExpectsStep
    <3> QED BY <3>1, <3>2, OpeningFacts DEF Expects
  <2>3. CASE DispatchClosed /\ c \in Unaware(Head(inbox).h)
    <3>1. Expects(c, Head(inbox).h) /\ target'[c] = target[c] /\ ~DispatchOpened
      BY <2>3 DEF Unaware, Expects, DispatchClosed, DispatchOpened, Dispatch
    <3>2. Head(inbox).h = h
      BY <3>1 DEF Expects
    <3>3. Claims(d, h)
      BY <3>1, ClaimsStep
    <3> QED BY <1>1, <2>3, <3>2, <3>3, ClosedEndsClaims
  <2> QED BY <2>1, <2>2, <2>3
<1> QED BY <1>3, <1>4, <1>5

LEMMA MissedClaimStep == BaseInv /\ LeaseInv /\ [Next]_vars => MissedClaim'
<1> SUFFICES ASSUME BaseInv, LeaseInv, [Next]_vars PROVE MissedClaim'
  OBVIOUS
<1>0. TypeOK'
  BY BaseStep DEF BaseInv
<1> SUFFICES ASSUME NEW c \in Callers, c \in missed'
             PROVE  held'[c] # None \/ (pc'[c] = "opening" /\ fut'[c] = "ok")
  BY <1>0 DEF MissedClaim, TypeOK
<1> USE GattAssumption
<1>1. CASE held[c] # None
  <2> SUFFICES ASSUME held'[c] = None PROVE FALSE
    OBVIOUS
  <2>1. \/ ResumeOpened(c) /\ held'[c] = target[c]
        \/ Disconnect(c)
        \/ DispatchClosed /\ c = discCb[Head(inbox).h]
        \/ RunClears /\ c \in Told
    BY <1>1, HeldStep
  <2>2. pc[c] # "opening"
    BY <1>1, OpeningFacts
  <2> QED BY <2>1, <2>2 DEF ResumeOpened, Disconnect, DispatchClosed, Unaware, RunClears, Flush
<1>2. CASE held[c] = None
  <2>1. \/ c \in missed /\ pc[c] = "opening" /\ fut[c] = "ok"
        \/ DispatchClosed /\ c \in Unaware(Head(inbox).h)
    <3>1. CASE c \in missed
      BY <1>2, <3>1 DEF LeaseInv, MissedClaim
    <3>2. CASE c \notin missed
      BY <1>2, <3>2, MissedStep DEF Disconnect
    <3> QED BY <3>1, <3>2
  <2>2. pc[c] = "opening" /\ fut[c] = "ok" /\ drain[c] = "no" /\ target[c] \in Handles
    BY <2>1, OpeningFacts DEF Unaware
  <2> QED BY <1>2, <2>2, OpeningStep
<1> QED BY <1>1, <1>2

\* What changes the callbacks, the flags of the client and its phase, and who
\* leaves idle.
LEMMA DiscCbStep ==
  ASSUME [Next]_vars
  PROVE  \/ UNCHANGED discCb \/ DispatchClosed \/ RunClears
         \/ \E x \in Callers : Disconnect(x) \/ ResumeOpened(x)
<1> USE DEF session, callers, tables, peer, history
<1>1. ASSUME NEW d \in Callers,
             \/ Connect(d) \/ OnConnection(d) \/ GiveUp(d) \/ DrainEnds(d) \/ DrainFails(d)
             \/ ResumeConnOpen(d) \/ ResumeRefused(d) \/ ResumeGaveUp(d) \/ ResumeAbort(d)
             \/ ResumeRequest(d) \/ ResumeDrained(d) \/ ResumeCut(d)
      PROVE  UNCHANGED discCb
  BY <1>1 DEF Connect, OnConnection, GiveUp, DrainEnds, DrainFails,
     ResumeConnOpen, ResumeRefused, ResumeGaveUp, ResumeAbort, ResumeRequest,
     ResumeDrained, ResumeCut
<1>2. CASE DispatchResponse \/ DispatchOpened \/ DispatchNotify \/ Lose \/ WakeRun
           \/ RunReleases \/ RunAttaches \/ Close \/ Daemon \/ Terminated \/ UNCHANGED vars
  BY <1>2 DEF DispatchResponse, DispatchOpened, DispatchNotify, Lose, WakeRun,
     RunReleases, RunAttaches, Close, Daemon, ServeConnOpen, ServeConnClose, ServeOp, Serve,
     LinkOpens, LinkDrops, LinkNotifies, Radio, Terminated, vars
<1> QED
  BY <1>1, <1>2 DEF Next, Operate, StartNotify, StopNotify, Resume, Reader, RunTask

LEMMA NoteCbStep ==
  ASSUME BaseInv, [Next]_vars, NEW c \in Callers, NEW h \in Handles, noteCb'[h] = c
  PROVE  noteCb[h] = c \/ (StartNotify(c) /\ held[c] = h)
<1> USE GattAssumption DEF session, callers, tables, peer, history
<1>1. ASSUME NEW d \in Callers,
             \/ Connect(d) \/ Operate(d) \/ GiveUp(d) \/ DrainEnds(d) \/ DrainFails(d)
             \/ Resume(d)
      PROVE  UNCHANGED noteCb
  BY <1>1 DEF Connect, Operate, GiveUp, DrainEnds, DrainFails, Resume, ResumeOpened,
     ResumeConnOpen, ResumeRefused, ResumeGaveUp, ResumeAbort, ResumeRequest,
     ResumeDrained, ResumeCut
<1>2. ASSUME NEW d \in Callers, StartNotify(d)
      PROVE  noteCb[h] = c \/ (StartNotify(c) /\ held[c] = h)
  BY <1>2, BaseTypes DEF StartNotify
<1>3. ASSUME NEW d \in Callers, StopNotify(d) \/ Disconnect(d)
      PROVE  noteCb[h] = c
  BY <1>3, BaseTypes DEF StopNotify, Disconnect, Forget
<1>4. CASE DispatchClosed \/ RunClears
  BY <1>4, BaseTypes DEF DispatchClosed, Drop, Forget, RunClears, Flush
<1>5. CASE DispatchResponse \/ DispatchOpened \/ DispatchNotify \/ Lose \/ WakeRun
           \/ RunReleases \/ RunAttaches \/ Close \/ Daemon \/ Terminated \/ UNCHANGED vars
  BY <1>5 DEF DispatchResponse, DispatchOpened, DispatchNotify, Lose, WakeRun,
     RunReleases, RunAttaches, Close, Daemon, ServeConnOpen, ServeConnClose, ServeOp, Serve,
     LinkOpens, LinkDrops, LinkNotifies, Radio, Terminated, vars
<1> QED
  BY <1>1, <1>2, <1>3, <1>4, <1>5 DEF Next, Reader, RunTask

LEMMA PhaseSteps ==
  ASSUME [Next]_vars
  PROVE  \/ UNCHANGED session \/ Lose \/ RunReleases \/ RunAttaches \/ RunClears \/ Close
<1> USE DEF callers, tables, peer, history
<1>1. ASSUME NEW d \in Callers,
             \/ Connect(d) \/ OnConnection(d) \/ Disconnect(d) \/ GiveUp(d) \/ DrainEnds(d)
             \/ DrainFails(d) \/ Resume(d)
      PROVE  UNCHANGED session
  BY <1>1 DEF Connect, OnConnection, Disconnect, GiveUp, DrainEnds, DrainFails, Resume,
     ResumeOpened, ResumeConnOpen, ResumeRefused, ResumeGaveUp, ResumeAbort, ResumeRequest,
     ResumeDrained, ResumeCut
<1>2. CASE DispatchResponse \/ DispatchOpened \/ DispatchClosed \/ DispatchNotify \/ WakeRun
           \/ Daemon \/ Terminated \/ UNCHANGED vars
  BY <1>2 DEF DispatchResponse, DispatchOpened, DispatchClosed, DispatchNotify, Dispatch,
     WakeRun, Daemon, ServeConnOpen, ServeConnClose, ServeOp, Serve, LinkOpens, LinkDrops,
     LinkNotifies, Radio, Terminated, vars
<1> QED
  BY <1>1, <1>2 DEF Next, Operate, StartNotify, StopNotify, Reader, RunTask

LEMMA ClosingStep == ASSUME [Next]_vars, closing PROVE closing'
BY PhaseSteps DEF session, Lose, RunReleases, RunAttaches, RunClears, Close,
   Sess!Lose, Sess!Release, Sess!Attach, Sess!Clear, Sess!Abandon, Sess!Close

LEMMA PhaseStep ==
  ASSUME [Next]_vars, phase' \in {"down", "dead"}, ~RunClears
  PROVE  phase \in {"down", "dead"}
BY PhaseSteps DEF session, Lose, RunReleases, RunAttaches, Close,
   Sess!Lose, Sess!Release, Sess!Attach, Sess!Close

LEMMA ScanningStep ==
  ASSUME [Next]_vars, IsScanning', phase # "down", ~RunClears
  PROVE  IsScanning
<1>1. CASE UNCHANGED session
  <2>1. writer' = writer /\ closing' = closing
    BY <1>1 DEF session
  <2> QED BY <2>1 DEF IsScanning
<1>2. CASE Lose \/ RunReleases
  <2>1. writer' = writer /\ closing' = closing
    BY <1>2 DEF Lose, RunReleases, Sess!Lose, Sess!Release
  <2> QED BY <2>1 DEF IsScanning
<1>3. ~RunAttaches /\ ~Close
  BY DEF IsScanning, RunAttaches, Sess!Attach, Close, Sess!Close
<1> QED BY <1>1, <1>2, <1>3, PhaseSteps

LEMMA IdleStep ==
  ASSUME BaseInv, [Next]_vars, NEW c \in Callers, pc[c] = "idle", ~Connect(c)
  PROVE  pc'[c] = "idle"
<1> USE GattAssumption DEF session, callers, tables, peer, history
<1>0. fut[c] = "none" /\ drain[c] = "no" /\ held[c] = None
  BY BaseTypes DEF CallerAt, InRequest
<1>1. ASSUME NEW d \in Callers, Connect(d) \/ OnConnection(d) \/ Disconnect(d) \/ ResumeGaveUp(d)
      PROVE  pc'[c] = "idle"
  <2>1. d # c
    BY <1>1 DEF OnConnection, Disconnect, ResumeGaveUp
  <2> QED BY <1>1, <2>1, BaseTypes DEF Connect, OnConnection, Disconnect, ResumeGaveUp, Sent, Unsent
<1>2. ASSUME NEW d \in Callers,
             \/ ResumeConnOpen(d) \/ ResumeOpened(d) \/ ResumeRefused(d) \/ ResumeAbort(d)
             \/ ResumeRequest(d) \/ ResumeCut(d) \/ GiveUp(d) \/ ResumeDrained(d)
             \/ DrainEnds(d) \/ DrainFails(d)
      PROVE  pc'[c] = "idle"
  BY <1>0, <1>2, BaseTypes DEF ResumeConnOpen, ResumeOpened, ResumeRefused, ResumeAbort,
     ResumeRequest, ResumeCut, GiveUp, ResumeDrained, DrainEnds, DrainFails, Done
<1>3. CASE DispatchClosed \/ RunClears
  BY <1>3 DEF DispatchClosed, RunClears, Flush, Disconnected
<1>4. CASE DispatchResponse \/ DispatchOpened \/ DispatchNotify \/ Lose \/ WakeRun
           \/ RunReleases \/ RunAttaches \/ Close \/ Daemon \/ Terminated \/ UNCHANGED vars
  BY <1>4 DEF DispatchResponse, DispatchOpened, DispatchNotify, Dispatch, Lose, WakeRun,
     RunReleases, RunAttaches, Close, Daemon, ServeConnOpen, ServeConnClose, ServeOp, Serve,
     LinkOpens, LinkDrops, LinkNotifies, Radio, Terminated, vars
<1> QED
  BY <1>1, <1>2, <1>3, <1>4
  DEF Next, Operate, StartNotify, StopNotify, Resume, Reader, RunTask

\* Whoever holds a connection keeps its callback until it is told.
LEMMA ToldStep == BaseInv /\ LeaseInv /\ [Next]_vars => DropIsTold'
<1> SUFFICES ASSUME BaseInv, LeaseInv, [Next]_vars PROVE DropIsTold'
  OBVIOUS
<1>0. TypeOK'
  BY BaseStep DEF BaseInv
<1> SUFFICES ASSUME NEW c \in Callers, NEW h \in Handles,
                    held'[c] = h, c \notin missed'
             PROVE  discCb'[h] = c
  BY <1>0 DEF DropIsTold, TypeOK
<1> USE GattAssumption
<1>1. c \notin missed
  BY MissedLeaves DEF Claims
<1>2. CASE held[c] = h
  <2>1. discCb[h] = c
    BY <1>1, <1>2 DEF LeaseInv, DropIsTold
  <2>2. ~(DispatchClosed /\ Head(inbox).h = h) /\ ~RunClears
    BY <1>1, <1>2, ClosedEndsClaims DEF Claims
  <2>3. ASSUME NEW x \in Callers, Disconnect(x) PROVE discCb'[h] = c
    <3>1. x # c
      BY <1>2, <2>3, BaseTypes DEF Disconnect
    <3>2. held[x] # h \/ UNCHANGED discCb
      BY <1>2, <2>3, <3>1 DEF Disconnect
    <3> QED BY <2>1, <2>3, <3>2, BaseTypes DEF Disconnect, Forget
  <2>4. ASSUME NEW x \in Callers, ResumeOpened(x) PROVE discCb'[h] = c
    <3>1. pc[x] = "opening" /\ Expects(x, target[x]) /\ pc[c] # "opening"
      BY <1>2, <2>4, OpeningFacts DEF ResumeOpened, Expects
    <3>2. target[x] # h
      BY <1>1, <1>2, <3>1 DEF LeaseInv, OneClaim, MissedRunFirst, Claims, Expects
    <3> QED BY <2>1, <2>4, <3>2, BaseTypes DEF ResumeOpened, Arm
  <2>5. CASE DispatchClosed
    BY <2>1, <2>2, <2>5, BaseTypes DEF DispatchClosed, Drop, Forget
  <2>6. CASE UNCHANGED discCb
    BY <2>1, <2>6
  <2> QED BY <2>2, <2>3, <2>4, <2>5, <2>6, DiscCbStep
<1>3. CASE held[c] # h
  <2>1. ResumeOpened(c) /\ target[c] = h
    BY <1>3, HeldStep
  <2> QED BY <2>1, BaseTypes DEF ResumeOpened, Arm
<1> QED BY <1>2, <1>3

\* A callback is armed for who gets the connection, and is dropped with it.
LEMMA CallbackStep == BaseInv /\ LeaseInv /\ [Next]_vars => CallbackIsHeld'
<1> SUFFICES ASSUME BaseInv, LeaseInv, [Next]_vars PROVE CallbackIsHeld'
  OBVIOUS
<1>0. TypeOK'
  BY BaseStep DEF BaseInv
<1> SUFFICES ASSUME NEW c \in Callers, NEW h \in Handles,
                    discCb'[h] = c
             PROVE  held'[c] = h \/ (closing' /\ pc'[c] = "idle")
  BY <1>0 DEF CallbackIsHeld, TypeOK
<1> USE GattAssumption
<1>1. CASE discCb[h] # c
  <2>1. PICK x \in Callers : ResumeOpened(x)
    <3>1. ~(\E x \in Callers : Disconnect(x)) /\ ~DispatchClosed /\ ~RunClears
      BY <1>1, BaseTypes DEF Disconnect, Forget, DispatchClosed, Drop, RunClears, Flush
    <3> QED BY <1>1, <3>1, DiscCbStep
  <2>2. x = c /\ target[c] = h
    BY <1>1, <2>1, BaseTypes DEF ResumeOpened, Arm
  <2> QED BY <2>1, <2>2, BaseTypes DEF ResumeOpened
<1>2. CASE discCb[h] = c
  <2>1. closing => closing'
    BY ClosingStep
  <2>2. ~RunClears /\ ~(DispatchClosed /\ Head(inbox).h = h)
    <3>1. ~RunClears
      BY DEF RunClears, Flush
    <3>2. ~Forget(h)
      BY BaseTypes DEF Forget
    <3> QED BY <3>1, <3>2 DEF DispatchClosed, Drop
  <2>3. phase # "down"
    BY <1>2 DEF BaseInv, SessInv
  <2>4. held[c] = h \/ (closing /\ pc[c] = "idle")
    BY <1>2 DEF LeaseInv, CallbackIsHeld
  <2>5. CASE held[c] = h
    <3>1. pc[c] \notin {"idle", "opening"}
      BY <2>5, BaseTypes DEF CallerAt
    <3>2. held'[c] = h \/ Disconnect(c)
      <4>1. ~(DispatchClosed /\ c = discCb[Head(inbox).h])
        <5> SUFFICES ASSUME DispatchClosed, c = discCb[Head(inbox).h] PROVE FALSE
          OBVIOUS
        <5>1. Head(inbox).h \in Handles
          BY HeadIsFor DEF DispatchClosed, Dispatch, BaseInv
        <5> QED BY <2>2, <2>5, <3>1, <5>1 DEF LeaseInv, CallbackIsHeld
      <4> QED BY <2>2, <2>5, <3>1, <4>1, HeldStep DEF Expects
    <3>3. CASE Disconnect(c)
      <4>1. ~IsScanning /\ pc'[c] = "idle" /\ UNCHANGED closing
        <5>1. ~Forget(h)
          BY BaseTypes DEF Forget
        <5>2. ~IsScanning /\ pc' = [pc EXCEPT ![c] = "idle"]
          BY <2>5, <3>3, <5>1 DEF Disconnect
        <5>3. UNCHANGED closing
          BY <3>3 DEF Disconnect, session
        <5> QED BY <5>2, <5>3, BaseTypes
      <4>2. closing
        BY <2>3, <4>1 DEF IsScanning, BaseInv, SessInv, TypeOK
      <4> QED BY <4>1, <4>2
    <3> QED BY <3>2, <3>3
  <2>6. CASE closing /\ pc[c] = "idle"
    <3>1. ~Connect(c)
      BY <2>6 DEF Connect, CanConnect, IsScanning
    <3>2. pc'[c] = "idle"
      BY <2>6, <3>1, IdleStep
    <3> QED BY <2>1, <2>6, <3>2
  <2> QED BY <2>4, <2>5, <2>6
<1> QED BY <1>1, <1>2

\* A notification callback is that of a holder.
LEMMA NotifyStep == BaseInv /\ LeaseInv /\ [Next]_vars => NotifyIsRouted'
<1> SUFFICES ASSUME BaseInv, LeaseInv, [Next]_vars PROVE NotifyIsRouted'
  OBVIOUS
<1>0. TypeOK'
  BY BaseStep DEF BaseInv
<1> SUFFICES ASSUME NEW c \in Callers, NEW h \in Handles,
                    IsScanning', noteCb'[h] = c
             PROVE  held'[c] = h
  BY <1>0 DEF NotifyIsRouted, TypeOK
<1> USE GattAssumption
<1>1. CASE noteCb[h] # c
  <2>1. StartNotify(c) /\ held[c] = h
    BY <1>1, NoteCbStep
  <2> QED BY <2>1 DEF StartNotify, OnConnection
<1>2. CASE noteCb[h] = c
  <2>1. ~RunClears /\ ~(DispatchClosed /\ Head(inbox).h = h)
    <3>1. ~RunClears
      BY DEF RunClears, Flush
    <3>2. ~Forget(h)
      BY BaseTypes DEF Forget
    <3> QED BY <3>1, <3>2 DEF DispatchClosed, Drop
  <2>2. IsScanning
    <3>1. phase # "down"
      BY <1>2 DEF BaseInv, SessInv
    <3> QED BY <2>1, <3>1, ScanningStep
  <2>3. held[c] = h
    BY <1>2, <2>2 DEF LeaseInv, NotifyIsRouted
  <2>4. ~Disconnect(c)
    <3>1. ~Forget(h)
      BY BaseTypes DEF Forget
    <3> QED BY <2>2, <2>3, <3>1 DEF Disconnect
  <2>5. ~(DispatchClosed /\ c = discCb[Head(inbox).h])
    <3> SUFFICES ASSUME DispatchClosed, c = discCb[Head(inbox).h] PROVE FALSE
      OBVIOUS
    <3>1. Head(inbox).h \in Handles
      BY HeadIsFor DEF DispatchClosed, Dispatch, BaseInv
    <3> QED BY <2>1, <2>2, <2>3, <3>1 DEF LeaseInv, CallbackIsHeld, IsScanning
  <2>6. pc[c] # "opening"
    BY <2>3, OpeningFacts
  <2> QED BY <2>1, <2>3, <2>4, <2>5, <2>6, HeldStep DEF Expects
<1> QED BY <1>1, <1>2

\* The flush tells every holder that is not in missed.
LEMMA NothingHeldStep == BaseInv /\ LeaseInv /\ [Next]_vars => NothingHeld'
<1> SUFFICES ASSUME BaseInv, LeaseInv, [Next]_vars PROVE NothingHeld'
  OBVIOUS
<1>0. TypeOK'
  BY BaseStep DEF BaseInv
<1> SUFFICES ASSUME NEW c \in Callers, NEW h \in Handles,
                    phase' \in {"down", "dead"}, c \notin missed', held'[c] = h
             PROVE  FALSE
  BY <1>0 DEF NothingHeld, TypeOK
<1> USE GattAssumption
<1>1. c \notin missed
  BY MissedLeaves DEF Claims
<1>2. held[c] = h \/ (ResumeOpened(c) /\ Expects(c, h))
  BY HeldStep
<1>3. ~RunClears
  BY <1>1, <1>2, ClosedEndsClaims DEF Claims
<1>4. phase \in {"down", "dead"}
  BY <1>3, PhaseStep
<1>5. CASE held[c] = h
  BY <1>1, <1>4, <1>5 DEF LeaseInv, NothingHeld
<1>6. CASE Expects(c, h)
  <2>1. drain[c] = "no" /\ fut[c] = "ok"
    BY <1>6, OpeningFacts DEF Expects
  <2> QED BY <1>4, <2>1 DEF BaseInv, QueueInv
<1> QED BY <1>2, <1>5, <1>6

-----------------------------------------------------------------------------
(* Between two connOpened *)

LEMMA ClosedExtends ==
  ASSUME NEW b, NEW d, NEW h, NEW i \in Nat \ {0}, NEW j \in Nat, NEW n \in Nat,
         j <= n, \A k \in 1..n : d[k] = b[k], ClosedIn(b, i, j, h)
  PROVE  ClosedIn(d, i, j, h)
BY DEF ClosedIn, At

LEMMA ClosedInTail ==
  ASSUME NEW b \in Seq(Message), b # <<>>, NEW h, NEW i \in Nat \ {0}, NEW j \in Nat,
         j <= Len(b), ClosedIn(b, i + 1, j, h)
  PROVE  ClosedIn(Tail(b), i, j - 1, h)
<1>1. PICK k \in i + 1..j : At(b, k, "closed", h)
  BY DEF ClosedIn
<1>2. k - 1 \in i..j - 1 /\ k - 1 \in 1..Len(Tail(b)) /\ (k - 1) + 1 = k
  BY TailFacts
<1>3. Tail(b)[k - 1] = b[k]
  BY <1>2, TailFacts
<1> QED BY <1>1, <1>2, <1>3 DEF ClosedIn, At

\* A connOpened may follow when the handle is not in _conn_mtu once everything
\* before it has been dispatched; other messages always may.
LEMMA AlternatesAppend ==
  ASSUME NEW b \in Seq(Message), NEW e \in Message, NEW m, Alternates(b, m),
         e.kind = "opened" => ~OpenAfter(b, m, e.h)
  PROVE  Alternates(Append(b, e), m)
<1> DEFINE n == Len(b)
           d == Append(b, e)
<1>1. /\ n \in Nat /\ Len(d) = n + 1 /\ d[n + 1] = e
      /\ \A k \in 1..n : d[k] = b[k]
  BY AppendFacts
<1>2. ASSUME NEW h \in Handles, NEW i \in Nat \ {0}, NEW j \in 1..n + 1, ClosedIn(b, i, j - 1, h)
      PROVE  ClosedIn(d, i, j - 1, h)
  <2>1. j - 1 \in Nat /\ j - 1 <= n
    BY <1>1
  <2> HIDE DEF d, n
  <2> QED BY <1>1, <1>2, <2>1, ClosedExtends
<1> HIDE DEF d
<1>3. SUFFICES ASSUME NEW h \in Handles, NEW j \in 1..n + 1, At(d, j, "opened", h)
               PROVE  /\ h \in m => ClosedIn(d, 1, j - 1, h)
                      /\ \A i \in 1..j - 1 : At(d, i, "opened", h) => ClosedIn(d, i + 1, j - 1, h)
  BY <1>1 DEF Alternates, d
<1>4. /\ h \in m => ClosedIn(b, 1, j - 1, h)
      /\ \A i \in 1..j - 1 : At(b, i, "opened", h) => ClosedIn(b, i + 1, j - 1, h)
  <2>1. CASE j \in 1..n
    <3>1. At(b, j, "opened", h)
      BY <1>1, <1>3, <2>1 DEF At
    <3> QED BY <2>1, <3>1 DEF Alternates
  <2>2. CASE j = n + 1
    <3>1. e.kind = "opened" /\ e.h = h
      BY <1>1, <1>3, <2>2 DEF At
    <3>2. ~OpenAfter(b, m, h) /\ j - 1 = n
      BY <1>1, <2>2, <3>1
    <3> QED BY <3>2 DEF OpenAfter
  <2> QED BY <1>1, <2>1, <2>2
<1>5. \A i \in 1..j - 1 : At(d, i, "opened", h) => At(b, i, "opened", h)
  BY <1>1 DEF At
<1>6. \A i \in 1..j - 1 : i + 1 \in Nat \ {0}
  BY <1>1
<1> QED BY <1>2, <1>4, <1>5, <1>6

\* What the dispatch of the first message leaves.
LEMMA AlternatesTail ==
  ASSUME NEW b \in Seq(Message), b # <<>>, NEW m, NEW p, Alternates(b, m),
         \A h \in Handles : h \in p =>
           \/ h \in m /\ ~At(b, 1, "closed", h)
           \/ At(b, 1, "opened", h)
  PROVE  Alternates(Tail(b), p)
<1>1. /\ Len(b) \in Nat /\ Len(Tail(b)) = Len(b) - 1
      /\ \A i \in 1..Len(Tail(b)) : Tail(b)[i] = b[i + 1] /\ i + 1 \in 1..Len(b)
  BY TailFacts
<1> SUFFICES ASSUME NEW h \in Handles, NEW j \in 1..Len(Tail(b)), At(Tail(b), j, "opened", h)
             PROVE  /\ h \in p => ClosedIn(Tail(b), 1, j - 1, h)
                    /\ \A i \in 1..j - 1 :
                         At(Tail(b), i, "opened", h) => ClosedIn(Tail(b), i + 1, j - 1, h)
  BY DEF Alternates
<1>2. /\ j \in Nat /\ j <= Len(b) /\ j + 1 \in 1..Len(b) /\ (j + 1) - 1 = j
      /\ At(b, j + 1, "opened", h)
  BY <1>1 DEF At
<1>3. /\ h \in m => ClosedIn(b, 1, j, h)
      /\ \A i \in 1..j : At(b, i, "opened", h) => ClosedIn(b, i + 1, j, h)
  BY <1>2 DEF Alternates
<1>4. ASSUME h \in p PROVE ClosedIn(Tail(b), 1, j - 1, h)
  <2>1. ClosedIn(b, 1 + 1, j, h)
    <3>1. CASE h \in m /\ ~At(b, 1, "closed", h)
      <4>1. PICK k \in 1..j : At(b, k, "closed", h)
        BY <1>3, <3>1 DEF ClosedIn
      <4>2. k \in 2..j
        BY <1>2, <3>1, <4>1
      <4> QED BY <4>1, <4>2 DEF ClosedIn
    <3>2. CASE At(b, 1, "opened", h)
      BY <1>2, <1>3, <3>2
    <3> QED BY <1>4, <3>1, <3>2
  <2> QED BY <1>2, <2>1, ClosedInTail
<1>5. ASSUME NEW i \in 1..j - 1, At(Tail(b), i, "opened", h)
      PROVE  ClosedIn(Tail(b), i + 1, j - 1, h)
  <2>1. i + 1 \in 1..j /\ i + 1 \in Nat \ {0} /\ At(b, i + 1, "opened", h)
    BY <1>1, <1>2, <1>5 DEF At
  <2>2. ClosedIn(b, (i + 1) + 1, j, h)
    BY <1>3, <2>1
  <2> QED BY <1>2, <2>1, <2>2, ClosedInTail
<1> QED BY <1>4, <1>5

LEMMA AlternateStep == BaseInv /\ LeaseInv /\ [Next]_vars => Alternate'
<1> SUFFICES ASSUME BaseInv, LeaseInv, [Next]_vars, phase' = "up"
             PROVE  Alternates(inbox', mtu')
  BY DEF Alternate
<1> USE GattAssumption DEF session, callers, tables, peer, history
<1>1. /\ inbox \in Seq(Message) /\ wire \in Seq(Requests)
      /\ mtu \subseteq Handles
      /\ phase = "up" => Alternates(inbox, mtu)
  BY DEF BaseInv, TypeOK, Requests, LeaseInv, Alternate
<1>2. ASSUME UNCHANGED <<phase, inbox, mtu>> PROVE Alternates(inbox', mtu')
  BY <1>1, <1>2
<1>3. ASSUME NEW c \in Callers,
             \/ Connect(c) \/ OnConnection(c) \/ Disconnect(c) \/ GiveUp(c)
             \/ DrainEnds(c) \/ DrainFails(c) \/ Resume(c)
      PROVE  Alternates(inbox', mtu')
  <2>1. UNCHANGED <<phase, inbox, mtu>>
    BY <1>3 DEF Connect, OnConnection, Disconnect, GiveUp, DrainEnds, DrainFails, Resume,
       ResumeConnOpen, ResumeOpened, ResumeRefused, ResumeGaveUp, ResumeAbort, ResumeRequest,
       ResumeDrained, ResumeCut
  <2> QED BY <1>2, <2>1
<1>4. CASE Reader
  <2>1. phase = "up" /\ inbox # <<>> /\ inbox' = Tail(inbox)
    BY <1>4 DEF Reader, DispatchResponse, DispatchOpened, DispatchClosed, DispatchNotify, Dispatch
  <2>2. Head(inbox) = inbox[1]
    BY <1>1, <2>1
  <2>3. \A h \in Handles : h \in mtu' =>
          \/ h \in mtu /\ ~At(inbox, 1, "closed", h)
          \/ At(inbox, 1, "opened", h)
    <3>1. CASE DispatchOpened
      BY <2>2, <3>1 DEF DispatchOpened, Dispatch, At
    <3>2. CASE DispatchClosed
      BY <2>2, <3>2 DEF DispatchClosed, Drop, Dispatch, At
    <3>3. CASE DispatchResponse \/ DispatchNotify
      BY <2>2, <3>3 DEF DispatchResponse, DispatchNotify, Dispatch, At
    <3> QED BY <1>4, <3>1, <3>2, <3>3 DEF Reader
  <2> QED BY <1>1, <2>1, <2>3, AlternatesTail
<1>5. CASE Daemon
  <2>1. phase = "up" /\ UNCHANGED <<phase, mtu>>
    BY <1>5 DEF Daemon, ServeConnOpen, ServeConnClose, ServeOp, Serve, LinkOpens, LinkDrops,
       LinkNotifies, Radio
  <2>2. ASSUME NEW e \in Message, e.kind # "opened", inbox' = Append(inbox, e)
        PROVE  Alternates(inbox', mtu')
    BY <1>1, <2>1, <2>2, AlternatesAppend
  <2>3. ASSUME Serve("connOpen") \/ Serve("connClose") \/ Serve("op")
        PROVE  Grant.id \in Ids /\ Grant.h \in Handles \cup {None}
    <3>1. wire # <<>>
      BY <2>3 DEF Serve
    <3>2. Head(wire) \in Requests
      BY <1>1, <3>1, TailFacts
    <3> QED BY <3>2 DEF Grant, Requests
  <2>4. CASE ServeConnOpen
    <3>1. /\ \A h \in Handles : Response(Grant.id, TRUE, h) \in Message
          /\ Response(Grant.id, FALSE, None) \in Message
      BY <2>3, <2>4, MessageTypes DEF ServeConnOpen
    <3> QED BY <2>2, <2>4, <3>1 DEF ServeConnOpen, Response
  <2>5. CASE ServeConnClose
    <3> DEFINE r == Response(Grant.id, TRUE, None)
               q == Event("closed", Grant.h)
    <3>1. r \in Message /\ q \in Message /\ Response(Grant.id, FALSE, None) \in Message
      BY <2>3, <2>5, MessageTypes DEF ServeConnClose
    <3>2. r.kind # "opened" /\ q.kind # "opened" /\ Response(Grant.id, FALSE, None).kind # "opened"
      BY DEF Response, Event
    <3> HIDE DEF r, q
    <3>3. ASSUME NEW e \in {r, q}, NEW f \in {r, q}, inbox' = inbox \o <<e, f>>
          PROVE  Alternates(inbox', mtu')
      <4>1. inbox' = Append(Append(inbox, e), f) /\ Append(inbox, e) \in Seq(Message)
        BY <1>1, <3>1, <3>3, PairIsAppends
      <4>2. Alternates(Append(inbox, e), mtu)
        BY <1>1, <2>1, <3>1, <3>2, AlternatesAppend
      <4> QED BY <2>1, <3>1, <3>2, <4>1, <4>2, AlternatesAppend
    <3>4. \/ inbox' = inbox \o <<r, q>> \/ inbox' = inbox \o <<q, r>>
          \/ inbox' = Append(inbox, Response(Grant.id, FALSE, None))
      BY <2>5 DEF ServeConnClose, r, q
    <3> QED BY <2>2, <3>1, <3>2, <3>3, <3>4
  <2>6. CASE ServeOp
    <3>1. Response(Grant.id, TRUE, None) \in Message
      BY <2>3, <2>6, MessageTypes DEF ServeOp
    <3> QED BY <2>2, <2>6, <3>1 DEF ServeOp, Response
  <2>7. ASSUME NEW h \in Handles, LinkOpens(h) PROVE Alternates(inbox', mtu')
    <3>1. ~OpenAfter(inbox, mtu, h)
      BY <2>1, <2>7 DEF LinkOpens, BaseInv, ActiveInv
    <3>2. Event("opened", h) \in Message /\ Event("opened", h).h = h
      BY MessageTypes DEF Event
    <3> QED BY <1>1, <2>1, <2>7, <3>1, <3>2, AlternatesAppend DEF LinkOpens
  <2>8. ASSUME NEW h \in Handles, LinkDrops(h) \/ LinkNotifies(h)
        PROVE  Alternates(inbox', mtu')
    <3>1. /\ Event("closed", h) \in Message /\ Event("notify", h) \in Message
          /\ Event("closed", h).kind # "opened" /\ Event("notify", h).kind # "opened"
      BY MessageTypes DEF Event
    <3> QED BY <2>2, <2>8, <3>1 DEF LinkDrops, LinkNotifies
  <2> QED BY <1>5, <2>4, <2>5, <2>6, <2>7, <2>8 DEF Daemon
<1>6. CASE RunAttaches
  <2>1. inbox' = <<>>
    BY <1>6 DEF RunAttaches, Sess!Attach, BaseInv, SessInv
  <2>2. 1..Len(inbox') = {}
    BY <2>1
  <2> QED BY <2>2 DEF Alternates
<1>7. CASE Lose \/ RunReleases \/ RunClears
  BY <1>7 DEF Lose, RunReleases, RunClears, Sess!Lose, Sess!Release, Sess!Clear, Sess!Abandon
<1>8. CASE WakeRun \/ Close \/ Terminated \/ UNCHANGED vars
  BY <1>2, <1>8 DEF WakeRun, Close, Sess!Close, Terminated, vars
<1> QED
  BY <1>3, <1>4, <1>5, <1>6, <1>7, <1>8
  DEF Next, Operate, StartNotify, StopNotify, RunTask

LEMMA LeaseStart == Init => LeaseInv
<1> SUFFICES ASSUME Init PROVE LeaseInv
  OBVIOUS
<1> USE GattAssumption
<1>1. phase = "down"
  BY DEF Init, Sess!Init
<1>2. \A c \in Callers, h \in Handles : ~Claims(c, h)
  BY DEF Init, Claims, Expects
<1> QED BY <1>1, <1>2 DEF Init, LeaseInv, OneClaim, MissedRunFirst, MissedClaim, DropIsTold,
     CallbackIsHeld, NotifyIsRouted, NothingHeld, Alternate

LEMMA LeaseStep == BaseInv /\ LeaseInv /\ [Next]_vars => LeaseInv'
BY OneClaimStep, MissedRunFirstStep, MissedClaimStep, ToldStep, CallbackStep, NotifyStep,
   NothingHeldStep, AlternateStep DEF LeaseInv

\* Claims of a handle, told or missed, as the connection behind it comes and
\* goes: see LeaseInv.
THEOREM LeaseInvariance == Spec => []LeaseInv
BY LeaseStart, LeaseStep, BaseInvariance, PTL DEF Spec

-----------------------------------------------------------------------------
(* What follows from the invariants *)

\* Every variable has its type.
THEOREM TypeCorrect == Spec => []TypeOK
<1>1. BaseInv => TypeOK
  BY DEF BaseInv
<1> QED BY <1>1, BaseInvariance, PTL

\* active_connections counts exactly the open connections once everything
\* bleconnd sent has been dispatched, whatever opened, failed or dropped.
THEOREM ActiveExact == Spec => []ActiveIsOpen
<1>1. BaseInv => ActiveIsOpen
  <2> SUFFICES ASSUME BaseInv, phase = "up", inbox = <<>>
               PROVE  mtu = {h \in Handles : link[h] = "open"}
    BY DEF ActiveIsOpen, CaughtUp
  <2>1. 1..Len(inbox) = {}
    OBVIOUS
  <2>2. \A h \in Handles : OpenAfter(inbox, mtu, h) <=> h \in mtu
    BY <2>1 DEF OpenAfter, ClosedIn
  <2>3. \A h \in Handles : link[h] = "open" <=> h \in mtu
    BY <2>2 DEF BaseInv, ActiveInv
  <2>4. mtu \subseteq Handles
    BY DEF BaseInv, TypeOK
  <2> QED BY <2>3, <2>4
<1> QED BY <1>1, BaseInvariance, PTL

\* While a session is up _pending holds the requests that are awaited, and of
\* the others those alone whose write() or drain() raised in _request, before
\* its try: its finally clause removes whatever timed out or was cancelled, and
\* _fail_pending the rest.
THEOREM PendingExact == Spec => []PendingIsAwaited
<1>1. BaseInv => PendingIsAwaited
  BY DEF BaseInv
<1> QED BY <1>1, BaseInvariance, PTL

\* Whoever holds a connection will be told when it drops (set_disconnect_callback,
\* _fail_pending), but for who armed its callback when it was closed already,
\* or lost it to the disconnect() of such a caller.
THEOREM HoldersAreTold == Spec => []DropIsTold
<1>1. LeaseInv => DropIsTold
  BY DEF LeaseInv
<1> QED BY <1>1, LeaseInvariance, PTL

\* Notifications reach a caller that holds the handle: gatt_disconnect and
\* connClosed leave no callback of a previous connection.
THEOREM NotificationsAreRouted == Spec => []NotifyIsRouted
<1>1. LeaseInv => NotifyIsRouted
  BY DEF LeaseInv
<1> QED BY <1>1, LeaseInvariance, PTL

-----------------------------------------------------------------------------
(* Leases *)

Tries == {c \in Callers : pc[c] \in {"connOpen", "opening", "abort"}}
InSession == phase \in {"up", "lost", "disc"}
LeaseOf == [c \in Callers |-> IF c \in missed THEN None ELSE held[c]]

\* What each step is to the users of the access point.
LEMMA LeaseSteps ==
  ASSUME BaseInv, LeaseInv, [Next]_vars
  PROVE  [Lease!Next]_(Lease!vars)
<1> USE GattAssumption DEF session, callers, tables, peer, history
<1> DEFINE waits == {"connOpen", "opening", "abort"}
<1>1. Tries \subseteq Callers /\ Tries' \subseteq Callers
  BY DEF Tries
<1>2. ASSUME LeaseOf' = LeaseOf, InSession' = InSession,
             \A d \in Callers : pc'[d] \in waits <=> pc[d] \in waits
      PROVE  UNCHANGED Lease!vars
  <2>1. Tries' = Tries
    BY <1>2 DEF Tries
  <2> QED BY <1>2, <2>1 DEF Lease!vars, Tries, InSession, LeaseOf
<1>3. ASSUME NEW c \in Callers, LeaseOf' = LeaseOf, UNCHANGED phase, pc'[c] \notin waits,
             \A d \in Callers \ {c} : pc'[d] = pc[d]
      PROVE  Lease!Fail(c)
  <2>1. Tries' = Tries \ {c}
    BY <1>3 DEF Tries
  <2> QED BY <1>3, <2>1 DEF Lease!Fail, Tries, LeaseOf
<1>4. UNCHANGED <<held, missed>> => LeaseOf' = LeaseOf
  BY DEF LeaseOf
<1>5. ASSUME NEW c \in Callers, InSession, UNCHANGED phase,
             LeaseOf' = [LeaseOf EXCEPT ![c] = None],
             \A d \in Callers : pc'[d] \in waits <=> pc[d] \in waits
      PROVE  Lease!Release(c)
  <2>1. Tries' = Tries
    BY <1>5 DEF Tries
  <2> QED BY <1>5, <2>1 DEF Lease!Release, Tries, InSession, LeaseOf
<1>6. ASSUME NEW c \in Callers, Connect(c) PROVE [Lease!Next]_(Lease!vars)
  <2>1. /\ UNCHANGED <<held, missed, phase>> /\ pc[c] = "idle"
        /\ Sent(c, "connOpen", None, "connOpen") \/ Unsent(c, "idle")
    BY <1>6 DEF Connect
  <2>2. InSession
    BY <1>6 DEF Connect, CanConnect, IsScanning, BaseInv, SessInv, TypeOK, InSession
  <2>3. \A d \in Callers \ {c} : pc'[d] = pc[d]
    BY <2>1, BaseTypes DEF Sent, Unsent
  <2>4. CASE pc'[c] = "connOpen"
    <3>1. Tries' = Tries \cup {c}
      BY <2>3, <2>4 DEF Tries
    <3>2. LeaseOf[c] = None
      BY <2>1, BaseTypes DEF CallerAt, LeaseOf
    <3>3. Lease!Try(c)
      BY <1>4, <2>1, <2>2, <3>1, <3>2 DEF Lease!Try, Tries, InSession, LeaseOf
    <3> QED BY <3>3 DEF Lease!Next
  <2>5. CASE pc'[c] = "idle"
    <3>1. \A d \in Callers : pc'[d] \in waits <=> pc[d] \in waits
      BY <2>1, <2>3, <2>5
    <3> QED BY <1>2, <1>4, <2>1, <3>1 DEF InSession
  <2>6. pc'[c] = "connOpen" \/ pc'[c] = "idle"
    BY <2>1, BaseTypes DEF Sent, Unsent
  <2> QED BY <2>4, <2>5, <2>6
<1>7. ASSUME NEW c \in Callers, OnConnection(c) \/ ResumeRequest(c) \/ ResumeDrained(c)
                                \/ DrainEnds(c) \/ DrainFails(c)
      PROVE  UNCHANGED Lease!vars
  <2>1. UNCHANGED <<held, missed, phase>>
    BY <1>7 DEF OnConnection, ResumeRequest, ResumeDrained, DrainEnds, DrainFails
  <2>2. \A d \in Callers : pc'[d] \in waits <=> pc[d] \in waits
    BY <1>7, BaseTypes DEF OnConnection, ResumeRequest, ResumeDrained, DrainEnds, DrainFails,
       Sent, Unsent, Done, AfterRequest
  <2> QED BY <1>2, <1>4, <2>1, <2>2 DEF InSession
<1>8. ASSUME NEW c \in Callers, GiveUp(c) PROVE UNCHANGED Lease!vars
  <2>1. /\ UNCHANGED <<pc, held, phase>>
        /\ missed' = IF held[c] = None THEN missed \ {c} ELSE missed
    BY <1>8 DEF GiveUp
  <2>2. LeaseOf' = LeaseOf
    BY <2>1 DEF LeaseOf
  <2> QED BY <1>2, <2>1, <2>2 DEF InSession
<1>9. ASSUME NEW c \in Callers, Disconnect(c) PROVE [Lease!Next]_(Lease!vars)
  <2>1. /\ held[c] \in Handles /\ held' = [held EXCEPT ![c] = None] /\ UNCHANGED phase
        /\ pc[c] = "held"
    BY <1>9, BaseTypes DEF Disconnect
  <2>2. \A d \in Callers : pc'[d] \in waits <=> pc[d] \in waits
    BY <1>9, BaseTypes DEF Disconnect, Sent, Unsent
  <2>3. \A d, e \in Callers \ missed : held[d] = held[c] /\ held[e] = held[c] => d = e
    BY <2>1 DEF LeaseInv, OneClaim, Claims
  <2>4. CASE IsScanning /\ missed' = (missed \cup {d \in Callers : held[d] = held[c]}) \ {c}
    <3>1. InSession
      BY <2>4 DEF IsScanning, BaseInv, SessInv, TypeOK, InSession
    <3>2. PICK x \in Callers : \A d \in Callers \ missed : held[d] = held[c] => d = x
      BY <2>3
    <3>3. LeaseOf' = [d \in Callers |-> IF held[d] = held[c] THEN None ELSE LeaseOf[d]]
      BY <2>1, <2>4, BaseTypes DEF LeaseOf
    <3>4. \E y \in Callers : LeaseOf' = [LeaseOf EXCEPT ![y] = None]
      <4>1. CASE x \notin missed /\ held[x] = held[c]
        <5>1. LeaseOf' = [LeaseOf EXCEPT ![x] = None]
          BY <3>2, <3>3, <4>1 DEF LeaseOf
        <5> QED BY <5>1
      <4>2. CASE ~(x \notin missed /\ held[x] = held[c])
        <5>1. \A d \in Callers : held[d] = held[c] => LeaseOf[d] = None
          BY <3>2, <4>2 DEF LeaseOf
        <5>2. LeaseOf' = [LeaseOf EXCEPT ![c] = None]
          BY <3>3, <5>1 DEF LeaseOf
        <5> QED BY <5>2
      <4> QED BY <4>1, <4>2
    <3> QED BY <1>5, <2>1, <2>2, <3>1, <3>4 DEF Lease!Next
  <2>5. CASE missed' = missed \ {c}
    <3>1. LeaseOf' = [LeaseOf EXCEPT ![c] = None]
      BY <2>1, <2>5, BaseTypes DEF LeaseOf
    <3>2. CASE InSession
      BY <1>5, <2>1, <2>2, <3>1, <3>2 DEF Lease!Next
    <3>3. CASE ~InSession
      <4>1. c \in missed
        BY <2>1, <3>3 DEF LeaseInv, NothingHeld, InSession, BaseInv, TypeOK
      <4>2. LeaseOf' = LeaseOf
        BY <3>1, <4>1 DEF LeaseOf
      <4> QED BY <1>2, <2>1, <2>2, <4>2 DEF InSession
    <3> QED BY <3>2, <3>3
  <2> QED BY <1>9, <2>4, <2>5 DEF Disconnect
<1>10. ASSUME NEW c \in Callers,
              \/ ResumeConnOpen(c) \/ ResumeRefused(c) \/ ResumeGaveUp(c) \/ ResumeAbort(c)
              \/ ResumeCut(c)
       PROVE  [Lease!Next]_(Lease!vars)
  <2>1. UNCHANGED <<held, missed, phase>>
    BY <1>10 DEF ResumeConnOpen, ResumeRefused, ResumeGaveUp, ResumeAbort, ResumeCut
  <2>2. \A d \in Callers \ {c} : pc'[d] = pc[d]
    BY <1>10, BaseTypes DEF ResumeConnOpen, ResumeRefused, ResumeGaveUp, ResumeAbort,
       ResumeCut, Sent, Unsent, Done
  <2>3. pc[c] \in waits \/ pc'[c] \notin waits
    BY <1>10, BaseTypes DEF ResumeConnOpen, ResumeRefused, ResumeGaveUp, ResumeAbort,
       ResumeCut, Sent, Unsent, Done, AfterRequest
  <2>4. CASE pc'[c] \in waits
    <3>1. \A d \in Callers : pc'[d] \in waits <=> pc[d] \in waits
      BY <2>2, <2>3, <2>4
    <3> QED BY <1>2, <1>4, <2>1, <3>1 DEF InSession
  <2>5. CASE pc'[c] \notin waits
    BY <1>3, <1>4, <2>1, <2>2, <2>5 DEF Lease!Next
  <2> QED BY <2>4, <2>5
<1>11. ASSUME NEW c \in Callers, ResumeOpened(c) PROVE [Lease!Next]_(Lease!vars)
  <2>1. /\ pc[c] = "opening" /\ fut[c] = "ok" /\ UNCHANGED <<phase, missed>>
        /\ held' = [held EXCEPT ![c] = target[c]]
        /\ pc' = [pc EXCEPT ![c] = "held"]
    BY <1>11 DEF ResumeOpened, Done
  <2>2. target[c] \in Handles /\ held[c] = None /\ drain[c] = "no"
    BY <2>1, OpeningFacts
  <2>3. InSession
    BY <2>1, <2>2 DEF BaseInv, QueueInv, TypeOK, InSession
  <2>4. CASE c \in missed
    <3>1. LeaseOf' = LeaseOf
      BY <2>1, <2>4 DEF LeaseOf
    <3>2. pc'[c] \notin waits /\ \A d \in Callers \ {c} : pc'[d] = pc[d]
      BY <2>1, BaseTypes
    <3> QED BY <1>3, <2>1, <3>1, <3>2 DEF Lease!Next
  <2>5. CASE c \notin missed
    <3>1. \A d \in Callers : LeaseOf[d] # target[c]
      <4> SUFFICES ASSUME NEW d \in Callers, LeaseOf[d] = target[c] PROVE FALSE
        OBVIOUS
      <4>1. d \notin missed /\ held[d] = target[c]
        BY <2>2 DEF LeaseOf
      <4>2. Claims(c, target[c]) /\ Claims(d, target[c])
        BY <2>1, <4>1 DEF Claims, Expects
      <4>3. c = d
        BY <2>2, <2>5, <4>1, <4>2 DEF LeaseInv, OneClaim
      <4> QED BY <2>2, <4>1, <4>3
    <3>2. c \in Tries /\ Tries' = Tries \ {c}
      BY <2>1, BaseTypes DEF Tries
    <3>3. LeaseOf' = [LeaseOf EXCEPT ![c] = target[c]]
      BY <2>1, <2>5, BaseTypes DEF LeaseOf
    <3>4. target[c] \in Lease!Free
      BY <2>2, <3>1 DEF Lease!Free, LeaseOf
    <3>5. Lease!Grant(c)
      BY <2>1, <2>3, <3>2, <3>3, <3>4 DEF Lease!Grant, Tries, InSession, LeaseOf
    <3> QED BY <3>5 DEF Lease!Next
  <2> QED BY <2>4, <2>5
<1>12. CASE DispatchClosed
  <2> DEFINE h == Head(inbox).h
  <2>1. UNCHANGED phase /\ InSession /\ h \in Handles
    BY <1>12, HeadIsFor DEF DispatchClosed, Dispatch, BaseInv, InSession
  <2>2. /\ held' = [c \in Callers |-> IF c \in {discCb[h]} \ {None} THEN None ELSE held[c]]
        /\ missed' = (missed \ {discCb[h]}) \cup Unaware(h)
        /\ \A c \in Callers : pc'[c] \in waits <=> pc[c] \in waits
    BY <1>12 DEF DispatchClosed, Disconnected
  <2>3. \A c \in Unaware(h) : held[c] = None
    BY OpeningFacts DEF Unaware
  <2>4. CASE discCb[h] = None
    <3>1. LeaseOf' = LeaseOf
      BY <2>2, <2>3, <2>4, BaseTypes DEF LeaseOf
    <3> QED BY <1>2, <2>1, <2>2, <3>1 DEF InSession
  <2>5. CASE discCb[h] # None
    <3>1. PICK x \in Callers : discCb[h] = x
      BY <2>1, <2>5, BaseTypes
    <3>2. /\ held' = [held EXCEPT ![x] = None]
          /\ missed' = (missed \ {x}) \cup Unaware(h)
      <4>1. x # None /\ held \in [Callers -> Handles \cup {None}]
        BY BaseTypes
      <4> HIDE DEF h
      <4> QED BY <2>2, <3>1, <4>1
    <3>3. LeaseOf' = [LeaseOf EXCEPT ![x] = None]
      BY <2>3, <3>2, BaseTypes DEF LeaseOf
    <3>4. Lease!Release(x)
      BY <1>5, <2>1, <2>2, <3>3
    <3> QED BY <3>4 DEF Lease!Next
  <2> QED BY <2>4, <2>5
<1>13. CASE RunClears
  <2>1. /\ ~InSession' /\ phase' \in {"down", "dead"}
        /\ \A c \in Callers : pc'[c] \in waits <=> pc[c] \in waits
    BY <1>13 DEF RunClears, Flush, Disconnected, Sess!Clear, Sess!Abandon, InSession
  <2>2. LeaseOf' = [c \in Callers |-> None]
    BY <2>1, NothingHeldStep DEF NothingHeld, LeaseOf
  <2>3. Tries' = Tries
    BY <2>1 DEF Tries
  <2>4. Lease!End
    BY <2>1, <2>2, <2>3 DEF Lease!End, Tries, InSession, LeaseOf
  <2> QED BY <2>4 DEF Lease!Next
<1>14. CASE RunAttaches
  <2>1. UNCHANGED <<pc, held, missed>> /\ ~InSession /\ InSession'
    BY <1>14 DEF RunAttaches, Sess!Attach, InSession
  <2>2. Lease!Begin
    BY <1>4, <2>1 DEF Lease!Begin, InSession, LeaseOf
  <2> QED BY <2>2 DEF Lease!Next
<1>15. CASE DispatchResponse \/ DispatchOpened \/ DispatchNotify \/ Lose \/ WakeRun \/ RunReleases
            \/ Close \/ Daemon \/ Terminated \/ UNCHANGED vars
  <2>1. UNCHANGED <<pc, held, missed>>
    BY <1>15 DEF DispatchResponse, DispatchOpened, DispatchNotify, Dispatch, Lose,
       WakeRun, RunReleases, Close, Daemon, ServeConnOpen, ServeConnClose, ServeOp, Serve,
       LinkOpens, LinkDrops, LinkNotifies, Radio, Terminated, vars
  <2>2. UNCHANGED phase \/ (phase \in {"up", "lost"} /\ phase' \in {"lost", "disc"})
    BY <1>15 DEF DispatchResponse, DispatchOpened, DispatchNotify, Dispatch, Lose, Sess!Lose,
       WakeRun, RunReleases, Sess!Release, Close, Sess!Close, Daemon, ServeConnOpen,
       ServeConnClose, ServeOp, Serve, LinkOpens, LinkDrops, LinkNotifies, Radio, Terminated,
       vars
  <2>3. InSession' = InSession
    BY <2>2 DEF InSession
  <2> QED BY <1>2, <1>4, <2>1, <2>3
<1>16. ASSUME NEW c \in Callers,
              \/ Connect(c) \/ OnConnection(c) \/ Disconnect(c) \/ GiveUp(c)
              \/ DrainEnds(c) \/ DrainFails(c) \/ Resume(c)
       PROVE  [Lease!Next]_(Lease!vars)
  <2>1. CASE Connect(c) \/ Disconnect(c) \/ ResumeOpened(c)
    BY <1>6, <1>9, <1>11, <2>1
  <2>2. CASE GiveUp(c) \/ OnConnection(c) \/ ResumeRequest(c) \/ ResumeDrained(c)
             \/ DrainEnds(c) \/ DrainFails(c)
    BY <1>7, <1>8, <2>2
  <2>3. CASE \/ ResumeConnOpen(c) \/ ResumeRefused(c) \/ ResumeGaveUp(c) \/ ResumeAbort(c)
             \/ ResumeCut(c)
    BY <1>10, <2>3
  <2> QED BY <1>16, <2>1, <2>2, <2>3 DEF Resume
<1> QED
  BY <1>12, <1>13, <1>14, <1>15, <1>16
  DEF Next, Operate, StartNotify, StopNotify, Reader, RunTask

\* The GATT layer leases connections, as ConnLease says: to all callers but
\* those that hold a handle whose end they missed.
THEOREM LeaseRefinement == Spec => ImplementsLease
<1>1. Init => Lease!Init
  BY DEF Init, Sess!Init, Lease!Init
<1>2. BaseInv /\ LeaseInv /\ [Next]_vars => [Lease!Next]_(Lease!vars)
  BY LeaseSteps
<1> QED
  BY <1>1, <1>2, BaseInvariance, LeaseInvariance, PTL DEF Spec, ImplementsLease, Lease!Spec

\* What holding a lease means: a handle has one holder and no lease outlives
\* its session, in every behaviour of the abstract specification.
LEMMA LeaseShapeStep ==
  Lease!TypeOK /\ Lease!Exclusive /\ [Lease!Next]_(Lease!vars) => (Lease!TypeOK /\ Lease!Exclusive)'
<1> SUFFICES ASSUME Lease!TypeOK, Lease!Exclusive, [Lease!Next]_(Lease!vars)
             PROVE  (Lease!TypeOK /\ Lease!Exclusive)'
  OBVIOUS
<1> DEFINE open == phase \in {"up", "lost", "disc"}
           lease == LeaseOf
           Shape == /\ lease \in [Callers -> Handles \cup {None}]
                    /\ \A c, d \in Callers : lease[c] # None /\ lease[c] = lease[d] => c = d
                    /\ ~open => \A c \in Callers : lease[c] = None
<1>1. Shape
  BY DEF Lease!TypeOK, Lease!Exclusive, LeaseOf
<1>2. Shape' => (Lease!TypeOK /\ Lease!Exclusive)'
  BY DEF Lease!TypeOK, Lease!Exclusive, LeaseOf
<1>3. \/ open' /\ UNCHANGED lease
      \/ UNCHANGED <<open, lease>>
      \/ lease' = [c \in Callers |-> None]
      \/ \E c \in Callers : lease' = [lease EXCEPT ![c] = None] /\ open' = open
      \/ \E c \in Callers, h \in Handles \ {lease[d] : d \in Callers} :
           lease' = [lease EXCEPT ![c] = h] /\ open
            /\ open' = open
  <2>1. CASE Lease!Begin \/ Lease!End
    BY <2>1 DEF Lease!Begin, Lease!End, LeaseOf
  <2>2. ASSUME NEW c \in Callers, Lease!Try(c) \/ Lease!Fail(c)
        PROVE  UNCHANGED <<open, lease>>
    BY <2>2 DEF Lease!Try, Lease!Fail, LeaseOf
  <2>3. ASSUME NEW c \in Callers, Lease!Release(c)
        PROVE  lease' = [lease EXCEPT ![c] = None] /\ open' = open
    BY <2>3 DEF Lease!Release, LeaseOf
  <2>4. ASSUME NEW c \in Callers, Lease!Grant(c)
        PROVE  \E h \in Handles \ {lease[d] : d \in Callers} :
                 lease' = [lease EXCEPT ![c] = h] /\ open /\ open' = open
    BY <2>4 DEF Lease!Grant, Lease!Free, LeaseOf
  <2>5. CASE UNCHANGED Lease!vars
    BY <2>5 DEF Lease!vars, LeaseOf
  <2> QED BY <2>1, <2>2, <2>3, <2>4, <2>5 DEF Lease!Next
<1> HIDE DEF open, lease
<1>4. Shape'
  BY <1>1, <1>3
<1> QED BY <1>2, <1>4

\* ConnLease keeps handles apart: what makes it right for UnifiBleakClient to
\* act on its _conn_handle without asking.
THEOREM LeaseIsExclusive == Lease!Spec => []Lease!Exclusive
<1>1. Lease!Init => Lease!TypeOK /\ Lease!Exclusive
  BY DEF Lease!Init, Lease!TypeOK, Lease!Exclusive
<1> QED BY <1>1, LeaseShapeStep, PTL DEF Lease!Spec

\* So does the GATT layer, with its tables, callbacks and futures: of the bleak
\* clients that hold one handle at most one did not miss its end, and none holds
\* one of an old session that was not missed.
THEOREM HandlesAreExclusive == Spec => []Lease!Exclusive
<1>1. Spec => Lease!Spec
  BY LeaseRefinement DEF ImplementsLease
<1> QED BY <1>1, LeaseIsExclusive, PTL
=============================================================================
