------------------------------ MODULE MCSurface ------------------------------
(***************************************************************************)
(* Instances of Surface for TLC: two users who follow each other.          *)
(***************************************************************************)
EXTENDS Surface, TLC

CONSTANTS u1, u2, r1, r2, r3, j1, s1, s2, n1

Mutual == [u \in Users |-> Users \ {u}]

\* Requests are interchangeable; so are users, who follow each other.
Interchangeable == Permutations(Requests) \cup Permutations(Users)
=============================================================================
