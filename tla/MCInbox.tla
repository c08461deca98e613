------------------------------- MODULE MCInbox -------------------------------
(***************************************************************************)
(* Instances of Inbox for TLC.                                             *)
(***************************************************************************)
EXTENDS Inbox

CONSTANTS u1, s1, p1, p2, g1, c1, c2

\* The rows that were there first are older.
Times == [p \in Publishers |-> IF p \in Old THEN 1 ELSE 2]
=============================================================================
