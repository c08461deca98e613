---------------------------- MODULE MCMagicLogin ----------------------------
(***************************************************************************)
(* Instances of MagicLogin for TLC.                                        *)
(***************************************************************************)
EXTENDS MagicLogin, TLC

CONSTANTS c1, c2, a1, a2, s1, m1, m2, n1, n2, n3

\* All mailboxes have the same local part: their accounts compete for the handles.
\* Enough of them for a free one, with two mailboxes:
SameNames == [m \in Mailboxes |-> <<n1, n2, n3>>]

\* One that may be taken for good, where nobody has to be answered:
SameName == [m \in Mailboxes |-> <<n1>>]

\* The script's one entry may find the account with its handle, or with its mailbox.
OneMember == <<[handle |-> n1, mail |-> m1]>>

\* Redeems and administrators' calls are interchangeable; solicits are not
\* (their links have an order in the heap).
Interchangeable == Permutations(Redeems) \cup Permutations(Admins)
=============================================================================
