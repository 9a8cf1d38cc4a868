----------------------- MODULE BleConnSession_proofs -----------------------
(***************************************************************************)
(* The safety of one client, for every interleaving of its tasks: types,   *)
(* the session invariants, and the refinement of SessionPhase.             *)
(***************************************************************************)
EXTENDS BleConnSession, TLAPS

\* What relates run()'s position to the state it leaves behind.
Inv ==
  /\ OneSession
  /\ pc \in Session => writer
  /\ pc \in {"disc", "raced", "final"} => link \in {"none", "eof"}
  /\ pc \in {"final", "done"} => closing
  /\ pc = "done" => link \in {"none", "eof"} \/ (raised = "final" /\ cancel = "taken")

USE DEF Running, IsScanning, Session, Body, Handshake, PC, Link, Closed,
        AfterRequest, Uncancelled, EnterFinal, EndOfRound, MayRaise,
        AfterSession, EnterFinally

\* Types and Inv together are inductive.
LEMMA Inductive == Spec => [](TypeOK /\ Inv)
<1>1. Init => TypeOK /\ Inv
  BY DEF Init, TypeOK, Inv, OneSession
<1>2. TypeOK /\ Inv /\ [Next]_vars => (TypeOK /\ Inv)'
  <2> SUFFICES ASSUME TypeOK, Inv, [Next]_vars PROVE (TypeOK /\ Inv)'
    OBVIOUS
  <2> USE DEF TypeOK, Inv, OneSession
  <2>1. CASE ConnectOk
    BY <2>1 DEF ConnectOk
  <2>2. CASE ConnectFail
    BY <2>2 DEF ConnectFail
  <2>3. CASE ChannelRaced
    BY <2>3 DEF ChannelRaced
  <2>4. CASE ChannelOk
    BY <2>4 DEF ChannelOk
  <2>5. CASE HandshakeStep
    BY <2>5 DEF HandshakeStep
  <2>6. CASE HandshakeRefused
    BY <2>6 DEF HandshakeRefused
  <2>7. CASE RequestFails
    BY <2>7 DEF RequestFails
  <2>8. CASE PumpEnds
    BY <2>8 DEF PumpEnds
  <2>9. CASE Joined
    BY <2>9 DEF Joined
  <2>10. CASE Disconnected
    BY <2>10 DEF Disconnected
  <2>11. CASE RacedDone
    BY <2>11 DEF RacedDone
  <2>12. CASE DelayOver
    <3>1. CASE closing /\ EnterFinal(link)
      BY <2>12, <3>1 DEF DelayOver
    <3>2. CASE ~closing /\ pc' = "connect" /\ UNCHANGED <<link, closing>>
      BY <2>12, <3>2 DEF DelayOver
    <3> QED
      BY <2>12, <3>1, <3>2 DEF DelayOver
  <2>13. CASE FinalDone
    BY <2>13 DEF FinalDone
  <2>14. CASE Cancelled
    BY <2>14 DEF Cancelled
  <2>15. CASE ReaderFails
    BY <2>15 DEF ReaderFails
  <2>16. CASE ReaderCancelled
    BY <2>16 DEF ReaderCancelled
  <2>17. CASE Answered
    BY <2>17 DEF Answered
  <2>18. CASE Stop
    BY <2>18 DEF Stop
  <2>19. CASE StopDone
    BY <2>19 DEF StopDone
  <2>20. CASE Cancel
    BY <2>20 DEF Cancel
  <2>21. CASE PeerCloses
    BY <2>21 DEF PeerCloses
  <2>22. CASE PeerVanishes
    BY <2>22 DEF PeerVanishes
  <2>23. CASE Terminated \/ UNCHANGED vars
    BY <2>23 DEF Terminated, vars
  <2>24. QED
    BY <2>1, <2>2, <2>3, <2>4, <2>5, <2>6, <2>7, <2>8, <2>9, <2>10, <2>11,
       <2>12, <2>13, <2>14, <2>15, <2>16, <2>17, <2>18, <2>19, <2>20, <2>21,
       <2>22, <2>23 DEF Next, RunStep, ReaderStep
<1>3. QED
  BY <1>1, <1>2, PTL DEF Spec

\* Every variable keeps its type.
THEOREM TypeCorrect == Spec => []TypeOK
<1>1. TypeOK /\ Inv => TypeOK
  OBVIOUS
<1>2. QED
  BY <1>1, Inductive, PTL

\* A reader never outlives its session and is_scanning never reports one that
\* is over, even when disconnect callbacks raise.
THEOREM SessionsAreSeparate == Spec => []OneSession
<1>1. TypeOK /\ Inv => OneSession
  BY DEF Inv
<1>2. QED
  BY <1>1, Inductive, PTL

\* When run() has ended, nothing it opened is left open, except when it was
\* cancelled and a disconnect callback raised in the last _fail_pending: the
\* disconnect() after it is then skipped.
THEOREM EndsClosed == Spec => []DoneIsClosed
<1>1. TypeOK /\ Inv => DoneIsClosed
  BY DEF Inv, OneSession, DoneIsClosed, TypeOK
<1>2. QED
  BY <1>1, Inductive, PTL

\* A closing client publishes no session and starts no reader.
THEOREM ClosingIsFinal == Spec => NoSessionWhileClosing
<1>1. ASSUME TypeOK, Inv, [Next]_vars
      PROVE  [closing => /\ writer' => writer
                         /\ reader' = "reading" => reader = "reading"]_vars
  <2>1. CASE UNCHANGED vars
    BY <2>1 DEF vars
  <2>2. CASE RunStep
    BY <2>2 DEF RunStep, ConnectOk, ConnectFail, ChannelRaced, ChannelOk,
                HandshakeStep, HandshakeRefused, RequestFails, PumpEnds,
                Joined, Disconnected, RacedDone, DelayOver, FinalDone,
                Cancelled
  <2>3. CASE ReaderStep
    BY <2>3 DEF ReaderStep, ReaderFails, ReaderCancelled, Answered
  <2>4. CASE Stop \/ StopDone \/ Cancel \/ PeerCloses \/ PeerVanishes
    BY <2>4 DEF Stop, StopDone, Cancel, PeerCloses, PeerVanishes
  <2>5. CASE Terminated
    BY <2>5 DEF Terminated
  <2>6. QED
    BY <1>1, <2>1, <2>2, <2>3, <2>4, <2>5 DEF Next
<1>2. TypeOK /\ Inv /\ [Next]_vars =>
        [closing => /\ writer' => writer
                    /\ reader' = "reading" => reader = "reading"]_vars
  BY <1>1
<1>3. QED
  BY <1>2, Inductive, PTL DEF Spec, NoSessionWhileClosing

-----------------------------------------------------------------------------
(* The refinement of SessionPhase, action by action. *)

USE DEF PhaseOf

\* Steps that keep the phase and publish nothing new.
Quiet == UNCHANGED <<PhaseOf, writer, closing>>

LEMMA ContractStep ==
  ASSUME TypeOK, Inv, [Next]_vars
  PROVE  [Phase!Next]_Phase!vars
<1> USE DEF TypeOK, Inv, OneSession
<1>1. SUFFICES ASSUME ~Quiet
               PROVE  Phase!Next
  BY DEF Phase!vars, Quiet
<1>2. CASE ConnectOk \/ ChannelRaced \/ HandshakeStep \/ FinalDone
  BY <1>1, <1>2 DEF ConnectOk, ChannelRaced, HandshakeStep, FinalDone, Quiet
<1>3. CASE ConnectFail \/ RacedDone \/ DelayOver
  <2>1. Phase!Abandon
    BY <1>1, <1>3 DEF ConnectFail, RacedDone, DelayOver, Quiet, Phase!Abandon
  <2>2. QED
    BY <2>1 DEF Phase!Next
<1>4. CASE ChannelOk
  <2>1. Phase!Attach
    BY <1>4 DEF ChannelOk, Phase!Attach
  <2>2. QED
    BY <2>1 DEF Phase!Next
<1>5. CASE HandshakeRefused \/ RequestFails \/ PumpEnds
  <2>1. Phase!Lose
    BY <1>1, <1>5
    DEF HandshakeRefused, RequestFails, PumpEnds, Quiet, Phase!Lose
  <2>2. QED
    BY <2>1 DEF Phase!Next
<1>6. CASE Joined
  <2>1. Phase!Release
    BY <1>6 DEF Joined, Phase!Release
  <2>2. QED
    BY <2>1 DEF Phase!Next
<1>7. CASE Disconnected
  <2>1. CASE pc' = "delay"
    BY <1>7, <2>1 DEF Disconnected, Phase!Clear, Phase!Next
  <2>2. CASE pc' # "delay"
    BY <1>7, <2>2 DEF Disconnected, Phase!Abandon, Phase!Next
  <2>3. QED
    BY <2>1, <2>2
<1>8. CASE Cancelled
  <2>1. CASE pc \in Body
    BY <1>1, <1>8, <2>1 DEF Cancelled, Quiet, Phase!Lose, Phase!Next
  <2>2. CASE pc \notin Body
    BY <1>1, <1>8, <2>2 DEF Cancelled, Quiet, Phase!Abandon, Phase!Next
  <2>3. QED
    BY <2>1, <2>2
<1>9. CASE ReaderStep
  <2>1. Phase!Lose
    BY <1>1, <1>9
    DEF ReaderStep, ReaderFails, ReaderCancelled, Answered, Quiet, Phase!Lose
  <2>2. QED
    BY <2>1 DEF Phase!Next
<1>10. CASE Stop
  BY <1>10 DEF Stop, Phase!Close, Phase!Next
<1>11. CASE StopDone \/ Cancel \/ PeerCloses \/ PeerVanishes
  BY <1>1, <1>11 DEF StopDone, Cancel, PeerCloses, PeerVanishes, Quiet
<1>12. CASE Terminated \/ UNCHANGED vars
  BY <1>1, <1>12 DEF Terminated, vars, Quiet
<1>13. QED
  BY <1>2, <1>3, <1>4, <1>5, <1>6, <1>7, <1>8, <1>9, <1>10, <1>11, <1>12
  DEF Next, RunStep

\* Every behaviour of the client is one of the contract in SessionPhase, so
\* what the GATT layer proves from the contract holds of the client.
THEOREM ImplementsContract == Spec => KeepsContract
<1>1. Init => Phase!Init
  BY DEF Init, Phase!Init
<1>2. TypeOK /\ Inv /\ [Next]_vars => [Phase!Next]_Phase!vars
  BY ContractStep
<1>3. QED
  BY <1>1, <1>2, Inductive, PTL DEF Spec, KeepsContract, Phase!Spec
=============================================================================
