----------------------------- MODULE ConnLease -----------------------------
(***************************************************************************)
(* What the GATT layer promises to the users of an access point: a         *)
(* connection is leased.  A caller that asked for one may be granted a     *)
(* handle nobody else holds, while the session the handle belongs to is    *)
(* open; it keeps the lease until it gives it back or is told that it was  *)
(* dropped; and the end of a session ends every lease in that same step.   *)
(* BleConnGatt implements this with its tables, callbacks and futures.     *)
(***************************************************************************)

CONSTANTS Callers, Handles, None

VARIABLES
  open,      \* a session is open: its state has not been flushed
  trying,    \* the callers that wait for a connection
  lease      \* the handle each caller holds

vars == <<open, trying, lease>>

Init ==
  /\ open = FALSE
  /\ trying = {}
  /\ lease = [c \in Callers |-> None]

Begin == ~open /\ open' = TRUE /\ UNCHANGED <<trying, lease>>

Try(c) ==
  /\ open /\ lease[c] = None
  /\ trying' = trying \cup {c}
  /\ UNCHANGED <<open, lease>>

Free == Handles \ {lease[c] : c \in Callers}

Grant(c) ==
  /\ open /\ c \in trying
  /\ \E h \in Free : lease' = [lease EXCEPT ![c] = h]
  /\ trying' = trying \ {c}
  /\ UNCHANGED open

Fail(c) ==
  /\ trying' = trying \ {c}
  /\ UNCHANGED <<open, lease>>

\* c gives its connection back, or is told that it was dropped.
Release(c) ==
  /\ open
  /\ lease' = [lease EXCEPT ![c] = None]
  /\ UNCHANGED <<open, trying>>

\* The session is flushed, with callers still trying: their attempts fail
\* later, each in its own time.
End ==
  /\ open' = FALSE
  /\ lease' = [c \in Callers |-> None]
  /\ UNCHANGED trying

Next ==
  \/ Begin \/ End
  \/ \E c \in Callers : Try(c) \/ Grant(c) \/ Fail(c) \/ Release(c)

Spec == Init /\ [][Next]_vars

-----------------------------------------------------------------------------
(* Properties *)

\* Every variable has its type.
TypeOK ==
  /\ open \in BOOLEAN /\ trying \subseteq Callers
  /\ lease \in [Callers -> Handles \cup {None}]

\* A handle has one holder, and without a session nobody holds any: a bleak
\* client with a lease never acts on another's connection (client.py,
\* _require_conn), nor on one of a session that is over.
Exclusive ==
  /\ \A c, d \in Callers : lease[c] # None /\ lease[c] = lease[d] => c = d
  /\ ~open => \A c \in Callers : lease[c] = None
=============================================================================
