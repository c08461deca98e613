-------------------------- MODULE MCRequestLifecycle --------------------------
(***************************************************************************)
(* Instances of RequestLifecycle for TLC.                                  *)
(***************************************************************************)
EXTENDS RequestLifecycle, TLC

CONSTANTS r1, r2, r3, s1, s2

Interchangeable == Permutations(Requests) \cup Permutations(Sessions)
=============================================================================
