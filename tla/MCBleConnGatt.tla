--------------------------- MODULE MCBleConnGatt ---------------------------
(***************************************************************************)
(* BleConnGatt for TLC.  Callers and handles are interchangeable; ids are  *)
(* not, because NewId picks one with CHOOSE.  Runs that check liveness use *)
(* no symmetry.                                                            *)
(***************************************************************************)
EXTENDS BleConnGatt, TLC

\* Callers are interchangeable: that the attempts of one end says so of all.
AttemptsEndOfOne == AttemptsEnd(CHOOSE c \in Callers : TRUE)

Interchangeable == Permutations(Callers) \cup Permutations(Handles)
=============================================================================
