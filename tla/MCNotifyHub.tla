----------------------------- MODULE MCNotifyHub -----------------------------
(***************************************************************************)
(* Instances of NotifyHub for TLC.                                         *)
(***************************************************************************)
EXTENDS NotifyHub, TLC

CONSTANTS u1, u2, s1, s2, s3, p1, p2, p3, g1

Interchangeable ==
  Permutations(Users) \cup Permutations(Streams) \cup Permutations(Publishers)
=============================================================================
