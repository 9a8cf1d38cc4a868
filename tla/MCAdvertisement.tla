-------------------------- MODULE MCAdvertisement --------------------------
(***************************************************************************)
(* Bodies for TLC: up to three structures of every kind, with values below,*)
(* at and above each length that matters, the same UUID in all its widths, *)
(* and the boundary values of the signed power.                            *)
(***************************************************************************)
EXTENDS Advertisement

\* The UUIDs 0x0102 and 0x0103 as 16, 32 and 128 little-endian bits.
S(b) == <<b, 1>>
M(b) == <<b, 1, 0, 0>>
L(b) == <<251, 52, 155, 95, 128, 0, 0, 128, 0, 16, 0, 0, b, 1, 0, 0>>

Structures ==
  [type : {9}, value : {<<>>, <<65>>, <<66>>, BadHex, NoString}] \cup
  [type : {3}, value : {<<2>>, S(2), S(3) \o S(2), S(2) \o <<3>>}] \cup
  [type : {4}, value : {S(3) \o <<0>>, M(2) \o M(3), M(3) \o <<0>>}] \cup
  [type : {7}, value : {L(2) \o L(3) \o <<1>>, SubSeq(L(2), 1, 15)}] \cup
  [type : {10}, value : {<<>>, <<127>>, <<128, 1>>, <<255>>}] \cup
  [type : {22}, value : {<<2>>, S(2), S(2) \o <<7>>}] \cup
  [type : {32}, value : {M(2) \o <<8>>, S(2) \o <<8>>}] \cup
  [type : {33}, value : {L(2) \o <<9>>, SubSeq(L(3), 1, 15)}] \cup
  [type : {255}, value : {<<76>>, <<76, 0>>, <<76, 0, 1>>, <<0, 76>>}] \cup
  [type : {1, None}, value : {<<6>>}]

MCBodies ==
  [mac : {12}, data : UNION {[1..n -> Structures] : n \in 0..3}] \cup
  [mac : {None, 11, 13}, data : {<<[type |-> 9, value |-> <<65>>]>>}]
=============================================================================
