-------------------------- MODULE MCSshTransport --------------------------
(***************************************************************************)
(* SshTransport for TLC: connections are interchangeable.                  *)
(***************************************************************************)
EXTENDS SshTransport, TLC

ConnSymmetry == Permutations(Conns)
=============================================================================
