------------------------ MODULE SshTransport_proofs ------------------------
(***************************************************************************)
(* No SSH connection is lost, and a jump host's outlives the one it        *)
(* carries, for any number of connections.                                 *)
(***************************************************************************)
EXTENDS SshTransport, TLAPS

-----------------------------------------------------------------------------
(* The invariant *)

\* A connection that anything refers to has been opened.
UsedInv ==
  /\ \A c \in {ap, jump, tunnel} \ {NoConn} : state[c] # "unused"
  /\ \A c \in Conns : via[c] # NoConn => state[c] # "unused" /\ state[via[c]] # "unused"

\* What the task and stop() are doing, in each place they can be.
TaskInv ==
  /\ task = "probe" => /\ ~closing /\ stopper = "idle" /\ cancel = "no"
                       /\ pc \notin {"delay", "final", "done"}
  /\ task = "run" => pc \notin {"ready", "failed"}
  /\ stopper # "idle" => closing
  /\ stopper # "disc" => todo["stop"] = Nothing
  /\ pc \notin {"disc", "final"} => todo["task"] = Nothing

\* connect() is about to open a connection through the one to the jump host,
\* which carries no other.
RoundInv ==
  /\ pc = "jump" => Jump
  /\ ~Jump => jump = NoConn /\ tunnel = NoConn
  /\ ap = jump => ap = NoConn
  /\ pc = "ap" =>
       /\ ap = tunnel => ap = NoConn
       /\ \A c \in Conns : via[c] = tunnel => tunnel = NoConn
       /\ Jump => tunnel # NoConn /\ via[tunnel] = NoConn /\ jump \in {tunnel, NoConn}

\* What connect() overwrites is not open, but for what was left by one that
\* raised.
LeftInv ==
  /\ pc \in {"jump", "delay", "ready", "failed"} => Open \cap {ap, jump} \subseteq abandoned
  /\ pc = "ap" => Open \cap {ap} \subseteq abandoned
  /\ stopper = "idle" /\ pc \notin {"disc", "final", "done"} =>
       \A c \in {ap, jump} \ {NoConn} : state[c] # "closing"

\* What is open is referred to, and stop() does not forget what it has not
\* closed, if nothing was left.
KeptInv ==
  abandoned = {} \/ stopper = "idle" =>
    /\ \A c \in Open : c \in {ap, jump} \cup abandoned \/ ~Carried(c)
    /\ stopper = "disc" =>
         /\ \A c \in Open \cap {ap, jump} :
              c \in {todo["stop"][1], todo["stop"][2]} \/ ~Carried(c)
         /\ pc \notin {"jump", "delay"}
         /\ pc = "ap" => Jump /\ state[tunnel] \in {"closing", "closed"}

\* Nor does the task.
EndInv ==
  /\ pc \in {"disc", "final"} =>
       Open \cap {ap, jump} \subseteq {todo["task"][1], todo["task"][2]}
  /\ pc = "done" /\ cancel # "cut" => ap = NoConn /\ jump = NoConn

\* Whoever closes a tunnel has first closed, or will, what goes through it.
TunnelInv ==
  abandoned = {} \/ stopper = "idle" =>
    \A c, j \in Conns :
      via[c] = j /\ state[j] = "open" /\ state[c] \in {"open", "closing"} =>
        /\ ap # j /\ (jump = j => ap = c)
        /\ \A p \in {"task", "stop"} : todo[p][1] # j /\ (todo[p][2] = j => todo[p][1] = c)

IInv ==
  /\ TypeOK /\ UsedInv /\ TaskInv /\ RoundInv
  /\ LeftInv /\ KeptInv /\ EndInv /\ TunnelInv

-----------------------------------------------------------------------------
(* disconnect() *)

Ref == Conns \cup {NoConn}
Pairs == Ref \X Ref
Who == {"task", "stop"}
States == {"unused", "open", "closing", "closed"}

LEMMA LiveFacts ==
  ASSUME NEW c \in Ref
  PROVE  /\ Live(c) \in {c, NoConn}
         /\ c \in Open => Live(c) = c
         /\ Live(c) = NoConn => c = NoConn \/ state[c] = "closed"
         /\ Live(c) # NoConn => state[c] # "closed"
BY SshAssumption DEF Live, Open, Ref

\* What is still to be closed of the two references a disconnect() starts
\* with, and of what one is about to go on with.
LEMMA ToCloseFacts ==
  ASSUME NEW a \in Ref, NEW j \in Ref, a = j => a = NoConn
  PROVE  LET t == Unclosed(ToClose(a, j)) IN
           /\ t \in Pairs /\ t[1] = Live(a) /\ t[2] = Live(j)
           /\ t[1] = t[2] => t = Nothing
           /\ Open \cap {a, j} \subseteq {t[1], t[2]}
           /\ t = Nothing => Open \cap {a, j} = {}
<1> DEFINE t == Unclosed(ToClose(a, j))
<1>1. t = <<Live(a), Live(j)>> /\ Live(a) \in {a, NoConn} /\ Live(j) \in {j, NoConn}
  BY LiveFacts DEF Unclosed, ToClose
<1>2. t \in Pairs /\ t[1] = Live(a) /\ t[2] = Live(j)
  BY <1>1 DEF Pairs, Ref
<1>3. t[1] = t[2] => t = Nothing
  BY <1>1 DEF Nothing
<1>4. Open \cap {a, j} \subseteq {t[1], t[2]}
  BY <1>2, LiveFacts
<1>5. t = Nothing => Open \cap {a, j} = {}
  BY <1>2, <1>4, SshAssumption DEF Nothing, Open
<1> QED BY <1>2, <1>3, <1>4, <1>5

LEMMA RestFacts ==
  ASSUME TypeOK, NEW p \in Who, state[First(todo[p])] = "closed"
  PROVE  LET t == Unclosed(Rest(todo[p])) IN
           /\ t \in Pairs /\ t[1] = NoConn /\ t[2] \in {todo[p][2], NoConn}
           /\ t[2] # NoConn => First(todo[p]) = todo[p][1] /\ state[t[2]] # "closed"
           /\ t[1] = t[2] => t = Nothing
           /\ Open \cap {todo[p][1], todo[p][2]} \subseteq {t[1], t[2]}
           /\ t = Nothing => Open \cap {todo[p][1], todo[p][2]} = {}
<1> DEFINE s == todo[p]
           t == Unclosed(Rest(s))
<1>1. s \in Pairs /\ s[1] \in Ref /\ s[2] \in Ref
  BY DEF TypeOK, Pairs, Ref, Who
<1>2. CASE s[1] = NoConn
  <2>1. First(s) = s[2] /\ Rest(s) = Nothing
    BY <1>2 DEF First, Rest
  <2>2. t = <<NoConn, NoConn>>
    BY <2>1 DEF Unclosed, Nothing, Live
  <2>3. Open \cap {s[1], s[2]} = {}
    BY <1>2, <2>1, SshAssumption DEF Open
  <2> QED BY <2>2, <2>3 DEF Pairs, Ref, Nothing
<1>3. CASE s[1] # NoConn
  <2>1. First(s) = s[1] /\ Rest(s) = <<NoConn, s[2]>>
    BY <1>3 DEF First, Rest
  <2>2. t = <<NoConn, Live(s[2])>>
    BY <2>1 DEF Unclosed, Live
  <2>3. /\ Live(s[2]) \in {s[2], NoConn}
        /\ Live(s[2]) # NoConn => state[s[2]] # "closed"
        /\ s[2] \in Open => Live(s[2]) = s[2]
    BY <1>1, LiveFacts
  <2>4. s[1] \notin Open
    BY <2>1 DEF Open
  <2>5. t \in Pairs /\ t[1] = NoConn /\ t[2] = Live(s[2])
    BY <1>1, <2>2, <2>3 DEF Pairs, Ref
  <2>6. Open \cap {s[1], s[2]} \subseteq {t[1], t[2]}
    BY <2>3, <2>4, <2>5
  <2>7. t = Nothing => Open \cap {s[1], s[2]} = {}
    BY <2>5, <2>6, SshAssumption DEF Nothing, Open
  <2>8. t[1] = t[2] => t = Nothing
    BY <2>2, <2>5 DEF Nothing
  <2> QED BY <2>1, <2>3, <2>5, <2>6, <2>7, <2>8
<1> QED BY <1>2, <1>3

\* Closing changes the state of one connection at most, and opens none.
LEMMA ClosesFacts ==
  ASSUME TypeOK, NEW p \in Who, NEW t \in Pairs, t[1] = t[2] => t = Nothing, Closes(p, t)
  PROVE  /\ todo' \in [Who -> Pairs] /\ todo'[p] = t
         /\ \A q \in Who \ {p} : todo'[q] = todo[q]
         /\ state' \in [Conns -> States]
         /\ \A c \in Conns : state'[c] = state[c] \/ (state'[c] = "closing" /\ c = First(t))
         /\ t = Nothing => UNCHANGED state
         /\ t # Nothing => First(t) \in Conns /\ state'[First(t)] = "closing"
         /\ Open' \subseteq Open
<1>1. todo \in [Who -> Pairs] /\ state \in [Conns -> States]
  BY DEF TypeOK, Who, Pairs, Ref, States
<1>2. todo' \in [Who -> Pairs] /\ todo'[p] = t /\ \A q \in Who \ {p} : todo'[q] = todo[q]
  BY <1>1 DEF Closes
<1>3. t # Nothing => First(t) \in Conns
  <2>1. t = <<t[1], t[2]>> /\ t[1] \in Ref /\ t[2] \in Ref
    BY DEF Pairs
  <2> QED BY <2>1 DEF Nothing, First, Ref
<1>4. /\ state' \in [Conns -> States]
      /\ \A c \in Conns : state'[c] = state[c] \/ (state'[c] = "closing" /\ c = First(t))
      /\ t = Nothing => UNCHANGED state
      /\ t # Nothing => state'[First(t)] = "closing"
  BY <1>1, <1>3 DEF Closes, States
<1>5. Open' \subseteq Open
  BY <1>4 DEF Open
<1> QED BY <1>2, <1>3, <1>4, <1>5

-----------------------------------------------------------------------------
(* What the task does about its connections *)

TaskCloses == ChannelOk \/ ConnectFail \/ SessionEnds \/ ConnClosed \/ FinalConnClosed
              \/ DelayOver \/ Cancelled

\* What a disconnect() that is called, or goes on, has left to close.
Left(p, t) ==
  \/ t = Nothing
  \/ t = Unclosed(ToClose(ap, jump))
  \/ t = Unclosed(Rest(todo[p])) /\ state[First(todo[p])] = "closed"

Closed(t) ==
  /\ Left("task", t) /\ Closes("task", t)
  /\ t # Nothing <=> pc' \in {"disc", "final"}
  /\ \/ UNCHANGED <<ap, jump>> /\ (t # Nothing => Open \cap {ap, jump} \subseteq {t[1], t[2]})
     \/ Forgotten /\ Open \cap {ap, jump} = {}

\* Between two sessions.
Idle == {"delay", "ready", "failed"}

Moved ==
  /\ pc' \in PC \ {"channel"}
  /\ pc' \in {"jump", "ap"} => pc = "delay" /\ pc' = Start /\ tunnel' = NoConn /\ ~closing'
  /\ pc' \in Idle => ~closing' /\ Open \cap {ap', jump'} \subseteq abandoned'
  /\ pc' = "done" => cancel' = "cut" \/ Forgotten
  /\ pc' \notin {"disc", "final", "done"} => pc \notin {"disc", "final", "done"} \/ Forgotten
  /\ closing => closing'
  /\ task = "probe" => ~closing' /\ cancel' = "no" /\ pc' \notin {"delay", "final", "done"}
  /\ task = "run" => pc' \notin {"ready", "failed"}

LEMMA SomeFacts ==
  ASSUME IInv
  PROVE  /\ ap \in Ref /\ jump \in Ref /\ tunnel \in Ref
         /\ ap = jump => ap = NoConn
         /\ Open \cap {NoConn} = {} /\ Nothing \in Pairs
         /\ "task" \in Who /\ "stop" \in Who /\ todo \in [Who -> Pairs]
         /\ \A p \in Who : todo[p][1] = todo[p][2] => todo[p] = Nothing
         /\ state \in [Conns -> States] /\ abandoned \subseteq Conns
BY SshAssumption DEF IInv, TypeOK, RoundInv, Ref, Open, Pairs, Nothing, Who, States

\* A disconnect() that the task calls with the references it has.
LEMMA CallFacts ==
  ASSUME IInv
  PROVE  LET t == Unclosed(ToClose(ap, jump)) IN
           /\ t \in Pairs /\ (t[1] = t[2] => t = Nothing) /\ Left("task", t)
           /\ Open \cap {ap, jump} \subseteq {t[1], t[2]}
           /\ t = Nothing => Open \cap {ap, jump} = {}
BY SomeFacts, ToCloseFacts DEF Left

\* ... and one it goes on with.
LEMMA GoOnFacts ==
  ASSUME IInv, pc \in {"disc", "final"}, state[First(todo["task"])] = "closed"
  PROVE  LET t == Unclosed(Rest(todo["task"])) IN
           /\ t \in Pairs /\ (t[1] = t[2] => t = Nothing) /\ Left("task", t)
           /\ Open \cap {ap, jump} \subseteq {t[1], t[2]}
           /\ t = Nothing => Open \cap {ap, jump} = {}
<1> DEFINE t == Unclosed(Rest(todo["task"]))
           s == todo["task"]
<1>1. TypeOK /\ EndInv /\ "task" \in Who
  BY SomeFacts DEF IInv
<1>2. Open \cap {ap, jump} \subseteq {s[1], s[2]}
  BY <1>1 DEF EndInv
<1>3. /\ t \in Pairs /\ (t[1] = t[2] => t = Nothing)
      /\ Open \cap {s[1], s[2]} \subseteq {t[1], t[2]}
      /\ t = Nothing => Open \cap {s[1], s[2]} = {}
  BY <1>1, RestFacts
<1> QED BY <1>2, <1>3 DEF Left

\* The disconnect() of run()'s finally clause.
LEMMA FinalFacts ==
  ASSUME IInv, NEW a \in Ref, NEW j \in Ref, Final(a, j),
         \/ a = ap /\ j = jump
         \/ a = NoConn /\ j = NoConn /\ Open \cap {ap, jump} = {}
  PROVE  /\ \E t \in Pairs : (t[1] = t[2] => t = Nothing) /\ Closed(t)
         /\ closing' = TRUE /\ pc' \in {"final", "done"} /\ (pc' = "done" => Forgotten)
<1>1. CASE a = ap /\ j = jump
  BY <1>1, CallFacts DEF Final, Closed, Refs, Forgotten
<1>2. CASE a = NoConn /\ j = NoConn /\ Open \cap {ap, jump} = {}
  <2>1. Unclosed(ToClose(NoConn, NoConn)) = Nothing
    BY DEF Unclosed, ToClose, Live, Nothing
  <2> QED BY <1>2, <2>1, SomeFacts DEF Final, Closed, Left, Forgotten
<1> QED BY <1>1, <1>2

\* The step of the task in which a disconnect() is over, or a connect() raised.
LEMMA RoundFacts ==
  ASSUME IInv, NEW a \in Ref, NEW j \in Ref, task = "run", RoundOver(a, j),
         \/ a = ap /\ j = jump
         \/ a = NoConn /\ j = NoConn /\ Open \cap {ap, jump} = {}
  PROVE  /\ \E t \in Pairs : (t[1] = t[2] => t = Nothing) /\ Closed(t)
         /\ \/ closing' = TRUE /\ pc' \in {"final", "done"} /\ (pc' = "done" => Forgotten)
            \/ ~closing /\ UNCHANGED closing /\ pc' = "delay" /\ Refs(a, j)
<1>1. CASE Final(a, j)
  BY <1>1, FinalFacts
<1>2. CASE /\ ~closing /\ pc' = "delay" /\ Refs(a, j) /\ Closes("task", Nothing)
           /\ UNCHANGED closing
  BY <1>2, SomeFacts DEF Closed, Left, Refs, Forgotten
<1> QED BY <1>1, <1>2 DEF RoundOver

\* How a disconnect() leaves the task, when nothing cancels it.
After ==
  \/ closing' = TRUE /\ pc' \in {"final", "done"} /\ task = "run" /\ (pc' = "done" => Forgotten)
  \/ UNCHANGED closing /\ pc' = "disc"
  \/ ~closing /\ UNCHANGED closing /\ pc' = "delay" /\ Forgotten /\ task = "run"
  \/ UNCHANGED closing /\ pc' \in {"ready", "failed"} /\ Forgotten /\ task = "probe"

LEMMA DisconnectFacts ==
  ASSUME IInv, NEW t \in Pairs, t[1] = t[2] => t = Nothing, Left("task", t), Disconnecting(t),
         Open \cap {ap, jump} \subseteq {t[1], t[2]},
         t = Nothing => Open \cap {ap, jump} = {}
  PROVE  /\ \E s \in Pairs : (s[1] = s[2] => s = Nothing) /\ Closed(s)
         /\ After
<1>1. CASE t = Nothing /\ task = "run" /\ RoundOver(NoConn, NoConn)
  BY <1>1, RoundFacts DEF Forgotten, Ref, After
<1>2. CASE t = Nothing /\ task = "probe" /\ pc' \in {"ready", "failed"} /\ Forgotten
           /\ Closes("task", Nothing) /\ UNCHANGED closing
  BY <1>2, SomeFacts DEF Closed, Left, After
<1>3. CASE t # Nothing /\ pc' = "disc" /\ Closes("task", t) /\ UNCHANGED <<ap, jump, closing>>
  BY <1>3 DEF Closed, After
<1> QED BY <1>1, <1>2, <1>3 DEF Disconnecting, AfterDisconnect

\* A step that closes nothing.
LEMMA NothingFacts ==
  ASSUME IInv, pc \notin {"disc", "final"}, pc' \notin {"disc", "final"},
         UNCHANGED <<ap, jump, state, todo>>
  PROVE  \E t \in Pairs : (t[1] = t[2] => t = Nothing) /\ Closed(t)
<1>1. todo["task"] = Nothing
  BY DEF IInv, TaskInv
<1>2. Closes("task", Nothing)
  BY <1>1, SomeFacts DEF Closes
<1> QED BY <1>2, SomeFacts DEF Closed, Left

LEMMA AfterMoves ==
  ASSUME IInv, pc \in {"channel", "up", "disc"}, UNCHANGED <<task, tunnel, cancel, abandoned>>, After
  PROVE  Moved /\ closing' \in BOOLEAN
<1>0. TaskInv /\ closing \in BOOLEAN
  BY DEF IInv, TypeOK
<1>1. CASE closing' = TRUE /\ pc' \in {"final", "done"} /\ task = "run" /\ (pc' = "done" => Forgotten)
  BY <1>0, <1>1 DEF Moved, PC, Connecting, Idle, TaskInv, After
<1>2. CASE UNCHANGED closing /\ pc' = "disc"
  BY <1>0, <1>2 DEF Moved, PC, Connecting, Idle, TaskInv
<1>3. CASE ~closing /\ UNCHANGED closing /\ pc' = "delay" /\ Forgotten /\ task = "run"
  <2>1. Open \cap {ap', jump'} = {}
    BY <1>3, SomeFacts DEF Forgotten, Refs
  <2>2. closing' \in BOOLEAN
    BY <1>0, <1>3 DEF After, Final
  <2> QED BY <1>0, <1>3, <2>1, <2>2 DEF Moved, PC, Connecting, Idle, TaskInv
<1>4. CASE UNCHANGED closing /\ pc' \in {"ready", "failed"} /\ Forgotten /\ task = "probe"
  <2>1. Open \cap {ap', jump'} = {}
    BY <1>4, SomeFacts DEF Forgotten, Refs
  <2> QED BY <1>0, <1>4, <2>1 DEF Moved, PC, Connecting, Idle, TaskInv
<1> QED BY <1>1, <1>2, <1>3, <1>4 DEF After

LEMMA TaskStep ==
  ASSUME IInv, TaskCloses
  PROVE  /\ \E t \in Pairs : (t[1] = t[2] => t = Nothing) /\ Closed(t)
         /\ UNCHANGED <<task, via, stopper>> /\ tunnel' \in {tunnel, NoConn}
         /\ abandoned \subseteq abandoned' /\ abandoned' \subseteq Conns
         /\ closing' \in BOOLEAN /\ cancel' \in {"no", "asked", "taken", "cut"}
         /\ Moved
<1> DEFINE C == \E t \in Pairs : (t[1] = t[2] => t = Nothing) /\ Closed(t)
<1>0. /\ task \in {"probe", "run"} /\ pc \in PC /\ closing \in BOOLEAN
      /\ cancel \in {"no", "asked", "taken", "cut"} /\ TaskInv
  BY DEF IInv, TypeOK
<1> USE <1>0, SomeFacts
<1>1. CASE ChannelOk
  <2>1. CASE ~closing /\ pc' = "up" /\ UNCHANGED <<ap, jump, state, todo, closing>>
    <3>1. pc = "channel" /\ C /\ UNCHANGED <<task, via, tunnel, stopper, cancel, abandoned>>
      BY <1>1, <2>1, NothingFacts DEF ChannelOk
    <3> QED BY <2>1, <3>1 DEF Moved, PC, Connecting, Idle, TaskInv
  <2>2. CASE Disconnecting(Unclosed(ToClose(ap, jump)))
    <3>1. pc = "channel" /\ UNCHANGED <<task, via, tunnel, stopper, cancel, abandoned>>
      BY <1>1 DEF ChannelOk
    <3>2. C /\ After
      BY <2>2, CallFacts, DisconnectFacts
    <3> QED BY <3>1, <3>2, AfterMoves
  <2> QED BY <1>1, <2>1, <2>2 DEF ChannelOk
<1>2. CASE ConnectFail
  <2>1. /\ pc \in Connecting /\ UNCHANGED <<task, via, tunnel, stopper, cancel>>
        /\ abandoned' = IF closing THEN abandoned ELSE abandoned \cup (Open \cap {ap, jump})
    BY <1>2 DEF ConnectFail
  <2>2. abandoned \subseteq abandoned' /\ abandoned' \subseteq Conns
    BY <2>1 DEF Open
  <2>3. CASE task = "run" /\ RoundOver(ap, jump)
    <3>1. C /\ (\/ closing' = TRUE /\ pc' \in {"final", "done"} /\ (pc' = "done" => Forgotten)
                \/ ~closing /\ UNCHANGED closing /\ pc' = "delay" /\ Refs(ap, jump))
      BY <2>3, RoundFacts
    <3>2. CASE closing' = TRUE /\ pc' \in {"final", "done"} /\ (pc' = "done" => Forgotten)
      BY <2>1, <2>2, <2>3, <3>1, <3>2 DEF Moved, PC, Connecting, Idle, TaskInv
    <3>3. CASE ~closing /\ UNCHANGED closing /\ pc' = "delay" /\ Refs(ap, jump)
      <4>1. Open \cap {ap', jump'} \subseteq abandoned'
        BY <2>1, <3>3 DEF Refs
      <4> QED BY <2>1, <2>2, <2>3, <3>1, <3>3, <4>1 DEF Moved, PC, Connecting, Idle, TaskInv
    <3> QED BY <3>1, <3>2, <3>3
  <2>4. CASE task = "probe" /\ pc' = "failed" /\ UNCHANGED <<ap, jump, state, todo, closing>>
    <3>1. C
      BY <2>1, <2>4, NothingFacts DEF Connecting
    <3>2. Open \cap {ap', jump'} \subseteq abandoned' /\ ~closing
      BY <2>1, <2>4 DEF TaskInv
    <3> QED BY <2>1, <2>2, <2>4, <3>1, <3>2 DEF Moved, PC, Connecting, Idle, TaskInv
  <2> QED BY <1>2, <2>3, <2>4 DEF ConnectFail
<1>3. CASE SessionEnds
  <2>1. pc = "up" /\ UNCHANGED <<task, via, tunnel, stopper, cancel, abandoned>>
    BY <1>3 DEF SessionEnds
  <2>2. C /\ After
    BY <1>3, CallFacts, DisconnectFacts DEF SessionEnds
  <2> QED BY <2>1, <2>2, AfterMoves
<1>4. CASE ConnClosed
  <2>1. pc = "disc" /\ UNCHANGED <<task, via, tunnel, stopper, cancel, abandoned>>
    BY <1>4 DEF ConnClosed
  <2>2. C /\ After
    BY <1>4, <2>1, GoOnFacts, DisconnectFacts DEF ConnClosed
  <2> QED BY <2>1, <2>2, AfterMoves
<1>5. CASE FinalConnClosed
  <2>1. pc = "final" /\ UNCHANGED <<task, via, tunnel, closing, stopper, cancel, abandoned>>
    BY <1>5 DEF FinalConnClosed
  <2>2. C /\ ((pc' = "done" /\ Forgotten) \/ UNCHANGED <<pc, ap, jump>>)
    BY <1>5, <2>1, GoOnFacts DEF FinalConnClosed, Closed
  <2> QED BY <2>1, <2>2 DEF Moved, PC, Connecting, Idle, TaskInv
<1>6. CASE DelayOver
  <2>1. pc = "delay" /\ tunnel' = NoConn /\ UNCHANGED <<task, via, stopper, cancel, abandoned>>
    BY <1>6 DEF DelayOver
  <2>2. CASE Final(ap, jump)
    <3>1. C /\ closing' = TRUE /\ pc' \in {"final", "done"} /\ (pc' = "done" => Forgotten)
      BY <2>2, FinalFacts
    <3> QED BY <2>1, <3>1 DEF Moved, PC, Connecting, Idle, TaskInv
  <2>3. CASE ~closing /\ pc' = Start /\ UNCHANGED <<ap, jump, state, todo, closing>>
    <3>1. C /\ pc' \in {"jump", "ap"}
      BY <2>1, <2>3, NothingFacts DEF Start
    <3> QED BY <2>1, <2>3, <3>1 DEF Moved, PC, Connecting, Idle, TaskInv
  <2> QED BY <1>6, <2>2, <2>3 DEF DelayOver
<1>7. CASE Cancelled
  <2>0. cancel = "asked" /\ UNCHANGED <<task, via, tunnel, stopper, abandoned>> /\ task = "run"
    BY <1>7 DEF Cancelled, TaskInv
  <2>1. CASE pc \in Connecting \cup {"disc", "delay"} /\ cancel' = "taken" /\ Final(ap, jump)
    <3>1. C /\ closing' = TRUE /\ pc' \in {"final", "done"} /\ (pc' = "done" => Forgotten)
      BY <2>1, FinalFacts
    <3> QED BY <2>0, <2>1, <3>1 DEF Moved, PC, Connecting, Idle, TaskInv
  <2>2. CASE /\ pc = "up" /\ cancel' = "taken"
             /\ LET t == Unclosed(ToClose(ap, jump)) IN
                IF t = Nothing THEN Final(NoConn, NoConn)
                               ELSE pc' = "disc" /\ Closes("task", t) /\ UNCHANGED <<ap, jump, closing>>
    <3>1. CASE Final(NoConn, NoConn) /\ Open \cap {ap, jump} = {}
      <4>1. C /\ closing' = TRUE /\ pc' \in {"final", "done"} /\ (pc' = "done" => Forgotten)
        BY <3>1, FinalFacts DEF Ref
      <4> QED BY <2>0, <2>2, <4>1 DEF Moved, PC, Connecting, Idle, TaskInv
    <3>2. CASE /\ pc' = "disc" /\ UNCHANGED <<ap, jump, closing>>
               /\ LET t == Unclosed(ToClose(ap, jump)) IN t # Nothing /\ Closes("task", t)
      <4>1. C
        BY <3>2, CallFacts DEF Closed
      <4> QED BY <2>0, <2>2, <3>2, <4>1 DEF Moved, PC, Connecting, Idle, TaskInv
    <3> QED BY <2>2, <3>1, <3>2, CallFacts
  <2>3. CASE /\ pc = "final" /\ cancel' = "cut" /\ pc' = "done" /\ Closes("task", Nothing)
             /\ UNCHANGED <<ap, jump, closing>>
    <3>1. C
      BY <2>3 DEF Closed, Left
    <3> QED BY <2>0, <2>3, <3>1 DEF Moved, PC, Connecting, Idle, TaskInv
  <2>4. CASE pc = "done" /\ cancel' = "taken" /\ UNCHANGED <<pc, ap, jump, state, todo, closing>>
    <3>1. C
      BY <2>4, NothingFacts
    <3>2. Forgotten
      BY <2>0, <2>4 DEF IInv, EndInv, Forgotten, Refs
    <3> QED BY <2>0, <2>4, <3>1, <3>2 DEF Moved, PC, Connecting, Idle, TaskInv
  <2> QED BY <1>7, <2>1, <2>2, <2>3, <2>4 DEF Cancelled
<1> QED BY <1>1, <1>2, <1>3, <1>4, <1>5, <1>6, <1>7 DEF TaskCloses

-----------------------------------------------------------------------------
(* What stop() does about them *)

StopStep ==
  \E t \in Pairs :
    /\ t[1] = t[2] => t = Nothing
    /\ Left("stop", t) /\ Closes("stop", t)
    /\ \/ t = Nothing /\ stopper' = "done" /\ Forgotten
       \/ t # Nothing /\ stopper' = "disc" /\ UNCHANGED <<ap, jump>>
    /\ abandoned = {} => \A c \in Open \cap {ap, jump} : c \in {t[1], t[2]} \/ ~Carried(c)
    /\ abandoned = {} /\ t # Nothing =>
         /\ pc \notin {"jump", "delay"}
         /\ pc = "ap" => Jump /\ (state[tunnel] \in {"closing", "closed"} \/ First(t) = tunnel)

LEMMA StopFacts ==
  ASSUME IInv, Stop \/ StopConnClosed
  PROVE  /\ StopStep /\ task = "run" /\ closing' = TRUE
         /\ UNCHANGED <<task, pc, via, tunnel, cancel, abandoned>>
<1> USE SomeFacts
<1>1. CASE Stop
  <2> DEFINE t == Unclosed(ToClose(ap, jump))
  <2>1. /\ task = "run" /\ stopper = "idle" /\ closing' = TRUE /\ Stopping(t)
        /\ UNCHANGED <<task, pc, via, tunnel, cancel, abandoned>>
    BY <1>1 DEF Stop
  <2>2. /\ t \in Pairs /\ t[1] = Live(ap) /\ t[2] = Live(jump)
        /\ t[1] = t[2] => t = Nothing
        /\ Open \cap {ap, jump} \subseteq {t[1], t[2]}
    BY ToCloseFacts
  <2>3. ASSUME NEW c \in {ap, jump}, Live(c) # NoConn, pc \in {"jump", "delay", "ap"}
        PROVE  c \in Open
    <3>1. c \in Conns /\ state[c] # "closed"
      BY <2>3, LiveFacts DEF Ref, Live
    <3>2. state[c] \notin {"unused", "closing"}
      BY <2>1, <2>3, <3>1, SshAssumption DEF IInv, UsedInv, LeftInv
    <3> QED BY <3>1, <3>2 DEF Open, States
  <2>4. ASSUME abandoned = {}, t # Nothing
        PROVE  /\ pc \notin {"jump", "delay"}
               /\ pc = "ap" => Jump /\ First(t) = tunnel
    <3>1. t = <<t[1], t[2]>> /\ (t[1] # NoConn \/ t[2] # NoConn)
      BY <2>2, <2>4 DEF Pairs, Nothing
    <3>2. pc \notin {"jump", "delay"}
      BY <2>2, <2>3, <2>4, <3>1 DEF IInv, LeftInv
    <3>3. ASSUME pc = "ap" PROVE Jump /\ First(t) = tunnel
      <4>1. t[1] = NoConn /\ t[2] # NoConn /\ First(t) = t[2]
        BY <2>2, <2>3, <2>4, <3>1, <3>3 DEF IInv, LeftInv, First
      <4>2. t[2] = jump
        BY <2>2, <4>1, LiveFacts
      <4> QED BY <3>3, <4>1, <4>2 DEF IInv, RoundInv
    <3> QED BY <3>2, <3>3
  <2> QED BY <2>1, <2>2, <2>4 DEF Stopping, StopStep, Left
<1>2. CASE StopConnClosed
  <2> DEFINE t == Unclosed(Rest(todo["stop"]))
             s == todo["stop"]
  <2>1. /\ stopper = "disc" /\ state[First(s)] = "closed" /\ Stopping(t)
        /\ UNCHANGED <<task, pc, via, tunnel, closing, cancel, abandoned>>
    BY <1>2 DEF StopConnClosed
  <2>2. task = "run" /\ closing = TRUE
    BY <2>1 DEF IInv, TaskInv, TypeOK
  <2>3. /\ t \in Pairs /\ (t[1] = t[2] => t = Nothing)
        /\ Open \cap {s[1], s[2]} \subseteq {t[1], t[2]}
    BY <2>1, RestFacts DEF IInv
  <2>4. ASSUME abandoned = {}
        PROVE  /\ \A c \in Open \cap {ap, jump} : c \in {t[1], t[2]} \/ ~Carried(c)
               /\ pc \notin {"jump", "delay"}
               /\ pc = "ap" => Jump /\ state[tunnel] \in {"closing", "closed"}
    BY <2>1, <2>3, <2>4 DEF IInv, KeptInv
  <2> QED BY <2>1, <2>2, <2>3, <2>4 DEF Stopping, StopStep, Left
<1> QED BY <1>1, <1>2

-----------------------------------------------------------------------------
(* Steps that open nothing *)

\* A disconnect() does not close a tunnel before what goes through it.
LEMMA LeftTunnel ==
  ASSUME IInv, abandoned = {} \/ stopper = "idle",
         NEW p \in Who, NEW t \in Pairs, Left(p, t),
         NEW c \in Conns, NEW j \in Conns, via[c] = j, state[j] = "open",
         state[c] \in {"open", "closing"}
  PROVE  t[1] # j /\ (t[2] = j => t[1] = c)
<1> USE SomeFacts, SshAssumption
<1>1. /\ ap # j /\ (jump = j => ap = c)
      /\ todo[p][1] # j /\ (todo[p][2] = j => todo[p][1] = c)
  BY DEF IInv, TunnelInv, Who
<1>2. CASE t = Nothing
  BY <1>2 DEF Nothing
<1>3. CASE t = Unclosed(ToClose(ap, jump))
  <2>1. t[1] = Live(ap) /\ t[2] = Live(jump)
    BY <1>3, ToCloseFacts
  <2>2. Live(c) = c
    BY DEF Live
  <2> QED BY <1>1, <2>1, <2>2, LiveFacts
<1>4. CASE t = Unclosed(Rest(todo[p])) /\ state[First(todo[p])] = "closed"
  <2>1. t[1] = NoConn /\ t[2] \in {todo[p][2], NoConn}
        /\ (t[2] # NoConn => First(todo[p]) = todo[p][1])
    BY <1>4, RestFacts DEF IInv
  <2> QED BY <1>1, <1>4, <2>1
<1> QED BY <1>2, <1>3, <1>4 DEF Left

LEMMA FirstTunnel ==
  ASSUME IInv, abandoned = {} \/ stopper = "idle",
         NEW p \in Who, NEW t \in Pairs, Left(p, t), t # Nothing,
         NEW c \in Conns, NEW j \in Conns, via[c] = j, state[j] = "open",
         state[c] \in {"open", "closing"}
  PROVE  First(t) # j
<1>1. t[1] # j /\ (t[2] = j => t[1] = c)
  BY LeftTunnel
<1> QED BY <1>1, SshAssumption DEF First

\* No connection is opened, and none that was closed comes back.
Ebbs ==
  /\ state' \in [Conns -> States] /\ UNCHANGED via
  /\ \A c \in Conns : /\ state'[c] = "unused" => state[c] = "unused"
                      /\ state'[c] = "open" => state[c] = "open"
                      /\ state[c] \in {"closing", "closed"} => state'[c] \in {"closing", "closed"}

LEMMA EbbsFacts ==
  ASSUME IInv, Ebbs
  PROVE  /\ Open' \subseteq Open
         /\ \A c \in Conns : ~Carried(c) => ~Carried(c)'
         /\ \A c \in Conns : via[c] # NoConn => state[c] # "unused" /\ via[c] \in Conns
         /\ ap' \in {ap, NoConn} /\ jump' \in {jump, NoConn} /\ tunnel' \in {tunnel, NoConn}
               => UsedInv'
<1>1. \A c \in Conns : via[c] # NoConn => /\ state[c] # "unused" /\ via[c] \in Conns
                                           /\ state[via[c]] # "unused"
  BY DEF IInv, TypeOK, UsedInv
<1>2. Open' \subseteq Open
  BY DEF Open, Ebbs
<1>3. ASSUME NEW c \in Conns, ~Carried(c) PROVE ~Carried(c)'
  BY <1>1, <1>3 DEF Carried, Ebbs
<1>4. ASSUME ap' \in {ap, NoConn}, jump' \in {jump, NoConn}, tunnel' \in {tunnel, NoConn}
      PROVE  UsedInv'
  BY <1>1, <1>4, SomeFacts DEF IInv, UsedInv, Ebbs, Ref
<1> QED BY <1>1, <1>2, <1>3, <1>4

\* What is closed has been opened and is not closed yet.
LEMMA ClosesEbbs ==
  ASSUME IInv, NEW p \in Who, NEW t \in Pairs, t[1] = t[2] => t = Nothing, Left(p, t),
         Closes(p, t), UNCHANGED via
  PROVE  Ebbs
<1>1. /\ state' \in [Conns -> States]
      /\ \A c \in Conns : state'[c] = state[c] \/ state'[c] = "closing"
  BY ClosesFacts, SomeFacts DEF IInv
<1> QED BY <1>1, SomeFacts DEF Ebbs, States

\* The tunnels of whoever closes something.
LEMMA ClosesTunnels ==
  ASSUME IInv, NEW p \in Who, NEW t \in Pairs, t[1] = t[2] => t = Nothing, Left(p, t),
         Closes(p, t), UNCHANGED via, (ap' = ap /\ jump' = jump) \/ Forgotten,
         abandoned \subseteq abandoned', stopper' = "idle" => stopper = "idle"
  PROVE  TunnelInv'
<1> SUFFICES ASSUME abandoned' = {} \/ stopper' = "idle", NEW c \in Conns, NEW j \in Conns,
                    via'[c] = j, state'[j] = "open", state'[c] \in {"open", "closing"}
             PROVE  /\ ap' # j /\ (jump' = j => ap' = c)
                    /\ \A q \in Who : todo'[q][1] # j /\ (todo'[q][2] = j => todo'[q][1] = c)
  BY DEF TunnelInv, Who
<1>1. (abandoned = {} \/ stopper = "idle") /\ via[c] = j
  OBVIOUS
<1>2. /\ todo'[p] = t /\ \A q \in Who \ {p} : todo'[q] = todo[q]
      /\ \A d \in Conns : state'[d] = state[d] \/ (state'[d] = "closing" /\ d = First(t))
      /\ t = Nothing => UNCHANGED state
      /\ t # Nothing => First(t) \in Conns
  BY ClosesFacts DEF IInv
<1>3. state[j] = "open"
  BY <1>2
<1>4. state[c] \in {"open", "closing"}
  <2>1. CASE state'[c] = state[c]
    BY <2>1
  <2>2. CASE t # Nothing /\ c = First(t)
    <3>1. state[c] # "unused"
      BY <1>1, EbbsFacts, ClosesEbbs, SshAssumption
    <3>2. Live(c) = c
      <4>1. CASE t = Unclosed(ToClose(ap, jump))
        BY <2>2, <4>1, ToCloseFacts, SomeFacts, LiveFacts, SshAssumption DEF First, Live
      <4>2. CASE t = Unclosed(Rest(todo[p])) /\ state[First(todo[p])] = "closed"
        BY <2>2, <4>2, RestFacts, SshAssumption DEF First, Live, IInv
      <4> QED BY <2>2, <4>1, <4>2 DEF Left
    <3>3. state[c] # "closed"
      BY <3>2, SshAssumption DEF Live
    <3> QED BY <3>1, <3>3, SomeFacts DEF States
  <2> QED BY <1>2, <2>1, <2>2
<1>5. t[1] # j /\ (t[2] = j => t[1] = c)
  BY <1>1, <1>3, <1>4, LeftTunnel
<1>6. /\ ap # j /\ (jump = j => ap = c)
      /\ \A q \in Who : todo[q][1] # j /\ (todo[q][2] = j => todo[q][1] = c)
  BY <1>1, <1>3, <1>4 DEF IInv, TunnelInv, Who
<1>7. ap' # j /\ (jump' = j => ap' = c)
  BY <1>6, SshAssumption DEF Forgotten, Refs
<1> QED BY <1>2, <1>5, <1>6, <1>7

-----------------------------------------------------------------------------
(* Every step preserves the invariant *)

LEMMA TaskPreserves ==
  ASSUME IInv, TaskCloses
  PROVE  IInv'
<1>0. /\ UNCHANGED <<task, via, stopper>> /\ tunnel' \in {tunnel, NoConn}
      /\ abandoned \subseteq abandoned' /\ abandoned' \subseteq Conns
      /\ closing' \in BOOLEAN /\ cancel' \in {"no", "asked", "taken", "cut"}
      /\ Moved
  BY TaskStep
<1>1. PICK t \in Pairs : (t[1] = t[2] => t = Nothing) /\ Closed(t)
  BY TaskStep
<1>2. /\ todo' \in [Who -> Pairs] /\ todo'["task"] = t /\ todo'["stop"] = todo["stop"]
      /\ state' \in [Conns -> States] /\ (t = Nothing => UNCHANGED state)
  BY <1>1, ClosesFacts, SomeFacts DEF Closed, IInv, Who
<1>3. Ebbs
  BY <1>0, <1>1, ClosesEbbs, SomeFacts DEF Closed
<1>4. /\ (ap' = ap /\ jump' = jump) \/ (ap' = NoConn /\ jump' = NoConn)
      /\ t # Nothing <=> pc' \in {"disc", "final"}
  BY <1>1 DEF Closed, Forgotten, Refs
<1>5. /\ Open' \subseteq Open /\ \A c \in Conns : ~Carried(c) => ~Carried(c)'
  BY <1>3, EbbsFacts
<1> USE SomeFacts
<1>6. TypeOK'
  BY <1>0, <1>1, <1>2, <1>4 DEF IInv, TypeOK, Moved, Who, Pairs, Ref, States
<1>7. UsedInv'
  BY <1>0, <1>3, <1>4, EbbsFacts
<1>8. TaskInv'
  BY <1>0, <1>2, <1>4 DEF IInv, TaskInv, Moved
<1>9. RoundInv'
  BY <1>0, <1>4 DEF IInv, RoundInv, Moved, Start
<1>10. LeftInv'
  <2>1. /\ pc' \in Idle => Open' \cap {ap', jump'} \subseteq abandoned'
        /\ pc' \in {"jump", "ap"} => Open' \cap {ap', jump'} \subseteq abandoned'
    BY <1>0, <1>4, <1>5 DEF IInv, LeftInv, Moved
  <2>2. ASSUME stopper' = "idle", pc' \notin {"disc", "final", "done"},
               NEW c \in {ap', jump'} \ {NoConn}
        PROVE  state'[c] # "closing"
    <3>1. UNCHANGED <<state, ap, jump>> /\ pc \notin {"disc", "final", "done"}
      BY <1>0, <1>2, <1>4, <2>2 DEF Moved, Forgotten, Refs
    <3> QED BY <1>0, <2>2, <3>1 DEF IInv, LeftInv
  <2> QED BY <2>1, <2>2 DEF LeftInv, Idle
<1>11. KeptInv'
  <2> SUFFICES ASSUME abandoned' = {} \/ stopper' = "idle" PROVE KeptInv!2'
    BY DEF KeptInv
  <2>1. abandoned = {} \/ stopper = "idle"
    BY <1>0
  <2>2. \A c \in Open' : c \in {ap', jump'} \cup abandoned' \/ ~Carried(c)'
    <3> SUFFICES ASSUME NEW c \in Open' PROVE c \in {ap', jump'} \cup abandoned' \/ ~Carried(c)'
      OBVIOUS
    <3>1. c \in Open /\ c \in Conns /\ (~Carried(c) => ~Carried(c)')
      BY <1>5 DEF Open
    <3>2. c \in {ap, jump} \cup abandoned \/ ~Carried(c)
      BY <2>1, <3>1 DEF IInv, KeptInv
    <3> QED BY <1>0, <1>1, <3>1, <3>2 DEF Closed
  <2>3. ASSUME stopper' = "disc"
        PROVE  /\ \A c \in Open' \cap {ap', jump'} :
                    c \in {todo'["stop"][1], todo'["stop"][2]} \/ ~Carried(c)'
               /\ pc' \notin {"jump", "delay", "ap"}
    <3>1. closing'
      BY <1>0, <2>3 DEF IInv, TaskInv, Moved
    <3>2. pc' \notin {"jump", "delay", "ap"}
      BY <1>0, <3>1 DEF Moved, Idle
    <3>3. ASSUME NEW c \in Open' \cap {ap', jump'}
          PROVE  c \in {todo'["stop"][1], todo'["stop"][2]} \/ ~Carried(c)'
      <4>1. c \in Open \cap {ap, jump} /\ c \in Conns /\ (~Carried(c) => ~Carried(c)')
        BY <1>4, <1>5 DEF Open
      <4>2. c \in {todo["stop"][1], todo["stop"][2]} \/ ~Carried(c)
        BY <1>0, <2>1, <2>3, <4>1 DEF IInv, KeptInv
      <4> QED BY <1>2, <4>1, <4>2
    <3> QED BY <3>2, <3>3
  <2> QED BY <2>2, <2>3
<1>12. EndInv'
  <2>1. pc' \in {"disc", "final"} => Open' \cap {ap', jump'} \subseteq {t[1], t[2]}
    BY <1>1, <1>4, <1>5 DEF Closed
  <2>2. pc' = "done" /\ cancel' # "cut" => ap' = NoConn /\ jump' = NoConn
    BY <1>0 DEF Moved, Forgotten, Refs
  <2> QED BY <1>2, <2>1, <2>2 DEF EndInv
<1>13. TunnelInv'
  BY <1>0, <1>1, ClosesTunnels DEF Closed
<1> QED BY <1>6, <1>7, <1>8, <1>9, <1>10, <1>11, <1>12, <1>13 DEF IInv

LEMMA StopPreserves ==
  ASSUME IInv, Stop \/ StopConnClosed
  PROVE  IInv'
<1>0. /\ task = "run" /\ closing' = TRUE
      /\ UNCHANGED <<task, pc, via, tunnel, cancel, abandoned>>
  BY StopFacts
<1>1. PICK t \in Pairs :
        /\ t[1] = t[2] => t = Nothing
        /\ Left("stop", t) /\ Closes("stop", t)
        /\ \/ t = Nothing /\ stopper' = "done" /\ Forgotten
           \/ t # Nothing /\ stopper' = "disc" /\ UNCHANGED <<ap, jump>>
        /\ abandoned = {} => \A c \in Open \cap {ap, jump} : c \in {t[1], t[2]} \/ ~Carried(c)
        /\ abandoned = {} /\ t # Nothing =>
             /\ pc \notin {"jump", "delay"}
             /\ pc = "ap" => Jump /\ (state[tunnel] \in {"closing", "closed"} \/ First(t) = tunnel)
  BY StopFacts DEF StopStep
<1>2. /\ todo' \in [Who -> Pairs] /\ todo'["stop"] = t /\ todo'["task"] = todo["task"]
      /\ state' \in [Conns -> States]
      /\ t # Nothing => state'[First(t)] = "closing"
  BY <1>1, ClosesFacts, SomeFacts DEF IInv, Who
<1>3. Ebbs
  BY <1>0, <1>1, ClosesEbbs, SomeFacts
<1>4. (ap' = ap /\ jump' = jump) \/ (ap' = NoConn /\ jump' = NoConn)
  BY <1>1 DEF Forgotten, Refs
<1>5. /\ Open' \subseteq Open /\ \A c \in Conns : ~Carried(c) => ~Carried(c)'
  BY <1>3, EbbsFacts
<1> USE SomeFacts
<1>6. TypeOK'
  BY <1>0, <1>1, <1>2, <1>4 DEF IInv, TypeOK, Who, Pairs, Ref, States
<1>7. UsedInv'
  BY <1>0, <1>3, <1>4, EbbsFacts
<1>8. TaskInv'
  BY <1>0, <1>1, <1>2 DEF IInv, TaskInv
<1>9. RoundInv'
  BY <1>0, <1>4 DEF IInv, RoundInv
<1>10. LeftInv'
  BY <1>0, <1>1, <1>4, <1>5 DEF IInv, LeftInv
<1>11. KeptInv'
  <2> SUFFICES ASSUME abandoned' = {} PROVE KeptInv!2'
    BY <1>1 DEF KeptInv
  <2>1. abandoned = {}
    BY <1>0
  <2>2. Nothing[1] = NoConn /\ Nothing[2] = NoConn
    BY DEF Nothing
  <2>3. \A c \in Open' : c \in {ap', jump'} \cup abandoned' \/ ~Carried(c)'
    <3> SUFFICES ASSUME NEW c \in Open' PROVE c \in {ap', jump'} \cup abandoned' \/ ~Carried(c)'
      OBVIOUS
    <3>1. c \in Open /\ c \in Conns /\ (~Carried(c) => ~Carried(c)')
      BY <1>5 DEF Open
    <3>2. c \in {ap, jump} \cup abandoned \/ ~Carried(c)
      BY <2>1, <3>1 DEF IInv, KeptInv
    <3> QED BY <1>0, <1>1, <2>1, <2>2, <3>1, <3>2, SshAssumption
  <2>4. ASSUME stopper' = "disc"
        PROVE  /\ \A c \in Open' \cap {ap', jump'} :
                    c \in {todo'["stop"][1], todo'["stop"][2]} \/ ~Carried(c)'
               /\ pc' \notin {"jump", "delay"}
               /\ pc' = "ap" => Jump /\ state'[tunnel'] \in {"closing", "closed"}
    <3>1. t # Nothing /\ ap' = ap /\ jump' = jump
      BY <1>1, <2>4
    <3>2. \A c \in Open' \cap {ap', jump'} :
             c \in {todo'["stop"][1], todo'["stop"][2]} \/ ~Carried(c)'
      BY <1>1, <1>2, <1>5, <2>1, <3>1 DEF Open
    <3>3. pc' \notin {"jump", "delay"}
      BY <1>0, <1>1, <2>1, <3>1
    <3>4. ASSUME pc' = "ap" PROVE Jump /\ state'[tunnel'] \in {"closing", "closed"}
      <4>1. Jump /\ (state[tunnel] \in {"closing", "closed"} \/ First(t) = tunnel)
        BY <1>0, <1>1, <2>1, <3>1, <3>4
      <4>2. tunnel \in Conns
        BY <1>0, <3>4, <4>1 DEF IInv, RoundInv, Ref
      <4> QED BY <1>0, <1>2, <1>3, <3>1, <4>1, <4>2 DEF Ebbs
    <3> QED BY <3>2, <3>3, <3>4
  <2> QED BY <2>3, <2>4
<1>12. EndInv'
  BY <1>0, <1>2, <1>4, <1>5 DEF IInv, EndInv
<1>13. TunnelInv'
  BY <1>0, <1>1, ClosesTunnels
<1> QED BY <1>6, <1>7, <1>8, <1>9, <1>10, <1>11, <1>12, <1>13 DEF IInv

LEMMA JumpPreserves ==
  ASSUME IInv, NEW n \in Conns, JumpOk(n)
  PROVE  IInv'
<1>0. /\ pc = "jump" /\ pc' = "ap" /\ state[n] = "unused" /\ jump' = n /\ tunnel' = n
      /\ state' = [state EXCEPT ![n] = "open"] /\ via' = [via EXCEPT ![n] = NoConn]
      /\ UNCHANGED <<task, ap, todo, closing, stopper, cancel, abandoned>>
  BY DEF JumpOk, Opened
<1>1. /\ state' \in [Conns -> States] /\ state'[n] = "open" /\ via'[n] = NoConn
      /\ \A c \in Conns \ {n} : state'[c] = state[c] /\ via'[c] = via[c]
      /\ via \in [Conns -> Ref] /\ n # NoConn
  BY <1>0, SomeFacts, SshAssumption DEF IInv, TypeOK, States, Ref
<1>2. /\ \A c \in Conns : via[c] # NoConn => c # n /\ via[c] # n /\ via[c] \in Conns /\ state[via[c]] # "unused"
      /\ ap # n /\ jump # n
  BY <1>0, <1>1 DEF IInv, UsedInv, Ref
<1>3. Open' = Open \cup {n}
  BY <1>0, <1>1 DEF Open
<1> USE SomeFacts
<1>4. TypeOK'
  BY <1>0, <1>1 DEF IInv, TypeOK, PC, Connecting, States, Ref
<1>5. UsedInv'
  BY <1>0, <1>1, <1>2 DEF IInv, UsedInv, Ref
<1>6. TaskInv'
  BY <1>0 DEF IInv, TaskInv
<1>7. RoundInv'
  BY <1>0, <1>1, <1>2 DEF IInv, RoundInv
<1>8. LeftInv'
  BY <1>0, <1>1, <1>2, <1>3 DEF IInv, LeftInv, Ref
<1>9. KeptInv'
  <2> SUFFICES ASSUME abandoned = {} \/ stopper = "idle", NEW c \in Open'
               PROVE  /\ c \in {ap', jump'} \cup abandoned' \/ ~Carried(c)'
                      /\ stopper # "disc"
    BY <1>0, <1>3 DEF KeptInv
  <2>1. stopper # "disc"
    BY <1>0 DEF IInv, KeptInv
  <2>2. CASE c = n
    BY <1>0, <2>1, <2>2
  <2>3. CASE c \in Open \ {n}
    <3>1. c \in {ap, jump} \cup abandoned \/ ~Carried(c)
      BY <2>3 DEF IInv, KeptInv
    <3>2. c = jump => c \in abandoned
      BY <1>0, <2>3 DEF IInv, LeftInv
    <3>3. ~Carried(c) => ~Carried(c)'
      BY <1>1, <1>2, <2>3 DEF Carried, Open
    <3> QED BY <1>0, <2>1, <3>1, <3>2, <3>3
  <2> QED BY <1>3, <2>2, <2>3
<1>10. EndInv'
  BY <1>0 DEF EndInv
<1>11. TunnelInv'
  <2> SUFFICES ASSUME abandoned = {} \/ stopper = "idle", NEW c \in Conns, NEW j \in Conns,
                      via'[c] = j, state'[j] = "open", state'[c] \in {"open", "closing"}
               PROVE  /\ ap' # j /\ (jump' = j => ap' = c)
                      /\ \A q \in Who : todo'[q][1] # j /\ (todo'[q][2] = j => todo'[q][1] = c)
    BY <1>0 DEF TunnelInv, Who
  <2>1. c # n
    BY <1>1, SshAssumption
  <2>2. via[c] = j /\ j # n /\ state[j] = "open" /\ state[c] \in {"open", "closing"}
    BY <1>1, <1>2, <2>1, SshAssumption
  <2>3. /\ ap # j
        /\ \A q \in Who : todo[q][1] # j /\ (todo[q][2] = j => todo[q][1] = c)
    BY <2>2 DEF IInv, TunnelInv, Who
  <2> QED BY <1>0, <2>2, <2>3
<1> QED BY <1>4, <1>5, <1>6, <1>7, <1>8, <1>9, <1>10, <1>11 DEF IInv

LEMMA ApPreserves ==
  ASSUME IInv, NEW n \in Conns, ApOk(n)
  PROVE  IInv'
<1>0. /\ pc = "ap" /\ pc' = "channel" /\ state[n] = "unused" /\ ap' = n
      /\ state' = [state EXCEPT ![n] = "open"] /\ via' = [via EXCEPT ![n] = tunnel]
      /\ UNCHANGED <<task, jump, tunnel, todo, closing, stopper, cancel, abandoned>>
  BY DEF ApOk, Opened
<1>1. /\ state' \in [Conns -> States] /\ state'[n] = "open" /\ via'[n] = tunnel
      /\ \A c \in Conns \ {n} : state'[c] = state[c] /\ via'[c] = via[c]
      /\ via \in [Conns -> Ref] /\ n # NoConn
  BY <1>0, SomeFacts, SshAssumption DEF IInv, TypeOK, States, Ref
<1>2. /\ \A c \in Conns : via[c] # NoConn => c # n /\ via[c] # n /\ via[c] \in Conns /\ state[via[c]] # "unused"
      /\ ap # n /\ jump # n /\ tunnel # n /\ (tunnel # NoConn => tunnel \in Conns /\ state[tunnel] # "unused")
  BY <1>0, <1>1, SomeFacts DEF IInv, UsedInv, Ref
<1>3. Open' = Open \cup {n}
  BY <1>0, <1>1 DEF Open
<1> USE SomeFacts
<1>4. TypeOK'
  BY <1>0, <1>1 DEF IInv, TypeOK, PC, Connecting, States, Ref
<1>5. UsedInv'
  BY <1>0, <1>1, <1>2 DEF IInv, UsedInv, Ref
<1>6. TaskInv'
  BY <1>0 DEF IInv, TaskInv
<1>7. RoundInv'
  BY <1>0, <1>1, <1>2 DEF IInv, RoundInv
<1>8. LeftInv'
  BY <1>0, <1>1, <1>2, <1>3 DEF IInv, LeftInv, Ref
<1>9. KeptInv'
  <2> SUFFICES ASSUME abandoned = {} \/ stopper = "idle", NEW c \in Open'
               PROVE  /\ c \in {ap', jump'} \cup abandoned' \/ ~Carried(c)'
                      /\ stopper = "disc" /\ c \in {ap', jump'} =>
                           c \in {todo["stop"][1], todo["stop"][2]} \/ ~Carried(c)'
    BY <1>0, <1>3 DEF KeptInv
  <2>1. CASE c = n
    <3>1. ASSUME stopper = "disc" PROVE ~Carried(c)'
      <4>1. Jump /\ state[tunnel] \in {"closing", "closed"}
        BY <1>0, <3>1 DEF IInv, KeptInv
      <4>2. tunnel \in Conns /\ tunnel # NoConn
        BY <1>0, <4>1, SshAssumption DEF IInv, RoundInv, Ref
      <4> QED BY <1>1, <1>2, <2>1, <4>1, <4>2 DEF Carried
    <3> QED BY <1>0, <2>1, <3>1
  <2>2. CASE c \in Open \ {n}
    <3>1. c \in {ap, jump} \cup abandoned \/ ~Carried(c)
      BY <2>2 DEF IInv, KeptInv
    <3>2. c = ap => c \in abandoned
      BY <1>0, <2>2 DEF IInv, LeftInv
    <3>3. ~Carried(c) => ~Carried(c)'
      BY <1>1, <1>2, <2>2 DEF Carried, Open
    <3>4. stopper = "disc" /\ c = jump => c \in {todo["stop"][1], todo["stop"][2]} \/ ~Carried(c)
      BY <2>2 DEF IInv, KeptInv
    <3> QED BY <1>0, <2>2, <3>1, <3>2, <3>3, <3>4
  <2> QED BY <1>3, <2>1, <2>2
<1>10. EndInv'
  BY <1>0 DEF EndInv
<1>11. TunnelInv'
  <2> SUFFICES ASSUME abandoned = {} \/ stopper = "idle", NEW c \in Conns, NEW j \in Conns,
                      via'[c] = j, state'[j] = "open", state'[c] \in {"open", "closing"}
               PROVE  /\ ap' # j /\ (jump' = j => ap' = c)
                      /\ \A q \in Who : todo'[q][1] # j /\ (todo'[q][2] = j => todo'[q][1] = c)
    BY <1>0 DEF TunnelInv, Who
  <2>1. todo["task"] = Nothing /\ (stopper # "disc" => todo["stop"] = Nothing)
    BY <1>0 DEF IInv, TaskInv
  <2>2. Nothing[1] # j /\ Nothing[2] # j
    BY SshAssumption DEF Nothing
  <2>3. CASE c = n
    <3>1. j = tunnel /\ state[tunnel] = "open"
      BY <1>0, <1>1, <1>2, <2>3
    <3>2. stopper # "disc"
      BY <1>0, <3>1 DEF IInv, KeptInv
    <3> QED BY <1>0, <1>2, <2>1, <2>2, <2>3, <3>1, <3>2 DEF Who
  <2>4. CASE c # n
    <3>1. via[c] = j /\ j # n /\ state[j] = "open" /\ state[c] \in {"open", "closing"}
      BY <1>1, <1>2, <2>4, SshAssumption
    <3>2. /\ ap # j /\ (jump = j => ap = c)
          /\ \A q \in Who : todo[q][1] # j /\ (todo[q][2] = j => todo[q][1] = c)
      BY <3>1 DEF IInv, TunnelInv, Who
    <3>3. jump # j
      BY <1>0, <3>1, SshAssumption DEF IInv, RoundInv
    <3> QED BY <1>0, <3>1, <3>2, <3>3
  <2> QED BY <2>3, <2>4
<1> QED BY <1>4, <1>5, <1>6, <1>7, <1>8, <1>9, <1>10, <1>11 DEF IInv

\* The steps of the other ends, and a cancellation that is only asked for.
Quiet ==
  /\ Ebbs /\ \A c \in Conns : state'[c] = state[c] \/ state'[c] = "closed"
  /\ UNCHANGED <<task, pc, ap, jump, tunnel, todo, closing, stopper, abandoned>>
  /\ \/ UNCHANGED cancel
     \/ task = "run" /\ pc # "done" /\ cancel' = "asked"

LEMMA QuietPreserves ==
  ASSUME IInv, Quiet
  PROVE  IInv'
<1>0. /\ UNCHANGED <<task, pc, ap, jump, tunnel, via, todo, closing, stopper, abandoned>> /\ Ebbs
      /\ state' \in [Conns -> States]
  BY DEF Quiet, Ebbs
<1>1. Open' \subseteq Open /\ \A c \in Conns : ~Carried(c) => ~Carried(c)'
  BY <1>0, EbbsFacts
<1> USE SomeFacts
<1>2. TypeOK'
  BY <1>0 DEF IInv, TypeOK, Quiet, States
<1>3. UsedInv'
  BY <1>0, EbbsFacts
<1>4. TaskInv'
  BY <1>0 DEF IInv, TaskInv, Quiet
<1>5. RoundInv'
  BY <1>0 DEF IInv, RoundInv
<1>6. LeftInv'
  <2>1. \A c \in Conns : state'[c] = "closing" => state[c] = "closing"
    BY DEF Quiet
  <2> QED BY <1>0, <1>1, <2>1 DEF IInv, LeftInv, Ref
<1>7. KeptInv'
  <2> SUFFICES ASSUME abandoned = {} \/ stopper = "idle" PROVE KeptInv!2'
    BY <1>0 DEF KeptInv
  <2>1. ASSUME NEW c \in Open'
        PROVE  /\ c \in {ap', jump'} \cup abandoned' \/ ~Carried(c)'
               /\ stopper' = "disc" /\ c \in {ap', jump'} =>
                    c \in {todo'["stop"][1], todo'["stop"][2]} \/ ~Carried(c)'
    <3>1. c \in Open /\ c \in Conns /\ (~Carried(c) => ~Carried(c)')
      BY <1>1 DEF Open
    <3>2. /\ c \in {ap, jump} \cup abandoned \/ ~Carried(c)
          /\ stopper = "disc" /\ c \in {ap, jump} =>
               c \in {todo["stop"][1], todo["stop"][2]} \/ ~Carried(c)
      BY <3>1 DEF IInv, KeptInv
    <3> QED BY <1>0, <3>1, <3>2
  <2>2. stopper' = "disc" =>
          /\ pc' \notin {"jump", "delay"}
          /\ pc' = "ap" => Jump /\ state[tunnel] \in {"closing", "closed"} /\ tunnel \in Conns
    BY <1>0, SshAssumption DEF IInv, KeptInv, RoundInv, Ref
  <2> QED BY <1>0, <2>1, <2>2 DEF Ebbs
<1>8. EndInv'
  BY <1>0, <1>1 DEF IInv, EndInv, Quiet
<1>9. TunnelInv'
  <2>1. \A c \in Conns : /\ state'[c] = "open" => state[c] = "open"
                         /\ state'[c] \in {"open", "closing"} => state[c] \in {"open", "closing"}
    BY DEF Quiet
  <2> QED BY <1>0, <2>1 DEF IInv, TunnelInv
<1> QED BY <1>2, <1>3, <1>4, <1>5, <1>6, <1>7, <1>8, <1>9 DEF IInv

\* The task starts a round with the references of the one before, or with none.
LEMMA StartPreserves ==
  ASSUME IInv, SetupAgain \/ RunStarts
  PROVE  IInv'
<1>0. /\ pc \in {"failed", "ready"} /\ pc' = Start /\ pc' \in {"jump", "ap"} /\ tunnel' = NoConn
      /\ task' \in {task, "run"}
      /\ (ap' = ap /\ jump' = jump) \/ (pc = "failed" /\ ap' = NoConn /\ jump' = NoConn)
      /\ UNCHANGED <<state, via, todo, closing, stopper, cancel, abandoned>>
  BY DEF SetupAgain, RunStarts, Start, Forgotten, Refs
<1>1. task = "probe" /\ stopper = "idle" /\ cancel = "no" /\ ~closing
  BY <1>0 DEF IInv, TypeOK, TaskInv
<1>2. Open' = Open
  BY <1>0 DEF Open
<1>3. Open \cap {ap', jump'} \subseteq abandoned
  BY <1>0, SomeFacts DEF IInv, LeftInv
<1> USE SomeFacts
<1>4. TypeOK'
  BY <1>0 DEF IInv, TypeOK, PC, Connecting
<1>5. UsedInv'
  BY <1>0 DEF IInv, UsedInv
<1>6. TaskInv'
  BY <1>0, <1>1 DEF IInv, TaskInv
<1>7. RoundInv'
  BY <1>0 DEF IInv, RoundInv, Start
<1>8. LeftInv'
  <2>1. \A c \in {ap', jump'} \ {NoConn} : state[c] # "closing"
    BY <1>0, <1>1 DEF IInv, LeftInv
  <2> QED BY <1>0, <1>2, <1>3, <2>1 DEF LeftInv
<1>9. KeptInv'
  <2>1. ASSUME NEW c \in Open
        PROVE  c \in {ap', jump'} \cup abandoned \/ ~Carried(c)'
    <3>1. c \in {ap, jump} \cup abandoned \/ ~Carried(c)
      BY <1>1 DEF IInv, KeptInv
    <3>2. ~Carried(c)' = ~Carried(c)
      BY <1>0 DEF Carried
    <3>3. pc = "failed" /\ c \in {ap, jump} => c \in abandoned
      BY DEF IInv, LeftInv
    <3> QED BY <1>0, <3>1, <3>2, <3>3
  <2> QED BY <1>0, <1>1, <1>2, <2>1 DEF KeptInv
<1>10. EndInv'
  BY <1>0 DEF EndInv
<1>11. TunnelInv'
  <2> SUFFICES ASSUME abandoned = {} \/ stopper = "idle", NEW c \in Conns, NEW j \in Conns,
                      via[c] = j, state[j] = "open", state[c] \in {"open", "closing"}
               PROVE  /\ ap' # j /\ (jump' = j => ap' = c)
                      /\ \A q \in Who : todo[q][1] # j /\ (todo[q][2] = j => todo[q][1] = c)
    BY <1>0 DEF TunnelInv, Who
  <2>1. /\ ap # j /\ (jump = j => ap = c)
        /\ \A q \in Who : todo[q][1] # j /\ (todo[q][2] = j => todo[q][1] = c)
    BY DEF IInv, TunnelInv, Who
  <2> QED BY <1>0, <2>1, SshAssumption
<1> QED BY <1>4, <1>5, <1>6, <1>7, <1>8, <1>9, <1>10, <1>11 DEF IInv

LEMMA InitHolds == Init => IInv
<1> SUFFICES ASSUME Init PROVE IInv
  OBVIOUS
<1>1. \A c \in Conns : via[c] = NoConn /\ state[c] = "unused"
  BY DEF Init
<1>2. \A p \in Who : todo[p] = Nothing
  BY DEF Init, Who
<1>3. Nothing[1] = NoConn /\ Nothing[2] = NoConn /\ Open = {}
  BY <1>1 DEF Nothing, Open
<1>4. TypeOK
  BY <1>2, <1>3 DEF Init, TypeOK, PC, Connecting, Start, Who, Nothing
<1>5. UsedInv /\ TaskInv
  BY <1>1, <1>2 DEF Init, UsedInv, TaskInv, Start, Who
<1>6. RoundInv /\ LeftInv /\ KeptInv /\ EndInv
  BY <1>1, <1>3 DEF Init, RoundInv, LeftInv, KeptInv, EndInv, Start
<1>7. TunnelInv
  BY <1>1 DEF TunnelInv
<1> QED BY <1>4, <1>5, <1>6, <1>7 DEF IInv

LEMMA NextPreserves ==
  ASSUME IInv, [Next]_vars
  PROVE  IInv'
<1>1. ASSUME NEW c \in Conns, JumpOk(c) PROVE IInv'
  BY <1>1, JumpPreserves
<1>2. ASSUME NEW c \in Conns, ApOk(c) PROVE IInv'
  BY <1>2, ApPreserves
<1>3. ASSUME NEW c \in Conns, PeerCloses(c) \/ CloseEnds(c) PROVE IInv'
  <2>1. Quiet
    BY <1>3, SomeFacts DEF PeerCloses, CloseEnds, Quiet, Ebbs, States
  <2> QED BY <2>1, QuietPreserves
<1>4. CASE TaskCloses
  BY <1>4, TaskPreserves
<1>5. CASE Stop \/ StopConnClosed
  BY <1>5, StopPreserves
<1>6. CASE SetupAgain \/ RunStarts
  BY <1>6, StartPreserves
<1>7. CASE Cancel \/ UNCHANGED vars
  <2>1. Quiet
    BY <1>7, SomeFacts DEF Cancel, vars, Quiet, Ebbs, States
  <2> QED BY <2>1, QuietPreserves
<1> QED BY <1>1, <1>2, <1>3, <1>4, <1>5, <1>6, <1>7 DEF Next, TaskCloses, Terminated

\* The invariant holds of every behaviour of connect(), disconnect(), run() and
\* stop() on one transport, with and without a jump host.
THEOREM Invariance == Spec => []IInv
<1>1. Init => IInv
  BY InitHolds
<1>2. IInv /\ [Next]_vars => IInv'
  BY NextPreserves
<1> QED BY <1>1, <1>2, PTL DEF Spec

-----------------------------------------------------------------------------
(* What follows *)

\* Every variable of the transport and of its callers has its type, in every
\* behaviour.
THEOREM TypeCorrect == Spec => []TypeOK
<1>1. IInv => TypeOK
  BY DEF IInv
<1> QED BY <1>1, Invariance, PTL

\* No SSH connection is lost: what is open is referred to by the transport, is
\* still to be closed by a disconnect() in progress or dies with its tunnel,
\* wherever stop() and the cancellation of the task hit connect(), the session
\* and the disconnect() calls of both, until a connect() raises.
THEOREM OpenOwned == Spec => []OpenIsOwned
<1>1. IInv => OpenIsOwned
  <2> SUFFICES ASSUME IInv, abandoned = {} \/ stopper = "idle", NEW c \in Open
               PROVE  Owned(c) \/ c \in abandoned
    BY DEF OpenIsOwned
  <2>1. c \in {ap, jump} \cup abandoned \/ ~Carried(c)
    BY DEF IInv, KeptInv
  <2> QED BY <2>1 DEF Owned
<1> QED BY <1>1, Invariance, PTL

\* When run() and stop() have both ended, every SSH connection of the transport
\* has been closed, except by a cancellation of run()'s last disconnect(); of
\* those that were open when a connect() raised some may stay, and if stop() was
\* called after that, others too.
THEOREM EndsAllClosed == Spec => []EndsClosed
<1>1. IInv => EndsClosed
  <2> SUFFICES ASSUME IInv, pc = "done", cancel # "cut", abandoned = {} \/ stopper = "idle", NEW c \in Open
               PROVE  ~Carried(c) \/ c \in abandoned
    BY DEF EndsClosed
  <2>1. c \in {ap, jump} \cup abandoned \/ ~Carried(c)
    BY DEF IInv, KeptInv
  <2>2. c \notin {ap, jump}
    BY SshAssumption DEF IInv, EndInv, Open
  <2> QED BY <2>1, <2>2
<1> QED BY <1>1, Invariance, PTL

\* disconnect() closes the access point's connection and waits for it before
\* the jump host's, also when run() and stop() close the same pair at once,
\* unless a stop() comes after a connect() that raised with connections open.
THEOREM TunnelIsLast == Spec => TunnelLast
<1>1. ASSUME IInv, [Next]_vars
      PROVE  [\A j, c \in Conns :
                (abandoned = {} \/ stopper' = "idle") /\ state[j] = "open" /\ state'[j] = "closing" /\ via[c] = j
                  => state[c] \in {"closed", "unused"}]_vars
  <2> SUFFICES ASSUME NEW j \in Conns, NEW c \in Conns, abandoned = {} \/ stopper' = "idle",
                      state[j] = "open", state'[j] = "closing", via[c] = j, state[c] \in {"open", "closing"}
               PROVE  FALSE
    BY <1>1, SomeFacts DEF States
  <2>1. ASSUME abandoned = {} \/ stopper = "idle",
               NEW p \in Who, NEW t \in Pairs, t[1] = t[2] => t = Nothing,
               Left(p, t), Closes(p, t)
        PROVE  FALSE
    <3>1. t # Nothing /\ First(t) = j
      BY <1>1, <2>1, ClosesFacts DEF IInv
    <3> QED BY <1>1, <2>1, <3>1, FirstTunnel
  <2>2. CASE TaskCloses
    <3>1. stopper' = stopper
      BY <1>1, <2>2, TaskStep
    <3>2. PICK t \in Pairs : (t[1] = t[2] => t = Nothing) /\ Closed(t)
      BY <1>1, <2>2, TaskStep
    <3>3. Left("task", t) /\ Closes("task", t) /\ "task" \in Who
      BY <3>2 DEF Closed, Who
    <3> QED BY <2>1, <3>1, <3>2, <3>3
  <2>3. CASE Stop \/ StopConnClosed
    <3>1. PICK t \in Pairs : /\ t[1] = t[2] => t = Nothing
                             /\ Left("stop", t) /\ Closes("stop", t)
                             /\ stopper' \in {"disc", "done"}
      BY <1>1, <2>3, StopFacts DEF StopStep
    <3>2. "stop" \in Who /\ (abandoned = {} \/ stopper = "idle")
      BY <3>1 DEF Who
    <3> QED BY <2>1, <3>1, <3>2
  <2>4. ASSUME NEW n \in Conns, JumpOk(n) \/ ApOk(n) \/ PeerCloses(n) \/ CloseEnds(n)
        PROVE  FALSE
    BY <1>1, <2>4, SomeFacts DEF JumpOk, ApOk, PeerCloses, CloseEnds, Opened
  <2>5. CASE SetupAgain \/ RunStarts \/ Cancel \/ UNCHANGED vars
    BY <2>5 DEF SetupAgain, RunStarts, Cancel, vars
  <2> QED BY <1>1, <2>2, <2>3, <2>4, <2>5 DEF Next, TaskCloses, Terminated
<1> QED BY <1>1, Invariance, PTL DEF Spec, TunnelLast
=============================================================================
