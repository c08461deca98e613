---------------------------- MODULE MCSocialGraph ----------------------------
(***************************************************************************)
(* Instances of SocialGraph for TLC: two users, both on the roster.        *)
(***************************************************************************)
EXTENDS SocialGraph

CONSTANTS v, x, c1, c2, c3

EachOther == <<<<v, x>>, <<x, v>>>>
=============================================================================
