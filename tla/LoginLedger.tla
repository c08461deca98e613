----------------------------- MODULE LoginLedger -----------------------------
(***************************************************************************)
(* What passwordless sign-in promises, with no transactions, locks or      *)
(* handlers: one-time links are issued to mailboxes, each is spent by one  *)
(* session or voided, and only the issue of a newer link to the same       *)
(* mailbox voids it, or a revoke of that mailbox, once for each revoke.    *)
(***************************************************************************)
CONSTANTS Links, Sessions, Revokes, Mailboxes

VARIABLES
  state,   \* state[t]: "none", "live", "consumed" or "purged"
  owner,   \* the mailbox a link was issued to (meaningless while "none")
  spentBy, \* the sessions opened with a link
  revoked  \* the revokes that have taken effect

ledger == <<state, owner, spentBy, revoked>>

Init ==
  /\ state = [t \in Links |-> "none"]
  /\ owner = [t \in Links |-> "nobody"]
  /\ spentBy = [t \in Links |-> {}]
  /\ revoked = {}

LiveFor(m) == {t \in Links : state[t] = "live" /\ owner[t] = m}

Voided(V) == [t \in Links |-> IF t \in V THEN "purged" ELSE state[t]]

Issue(t, m, V) ==
  /\ state[t] = "none"
  /\ V \subseteq LiveFor(m)
  /\ state' = [Voided(V) EXCEPT ![t] = "live"]
  /\ owner' = [owner EXCEPT ![t] = m]
  /\ UNCHANGED <<spentBy, revoked>>

Revoke(a, m, V) ==
  /\ a \notin revoked
  /\ V \subseteq LiveFor(m)
  /\ state' = Voided(V)
  /\ revoked' = revoked \cup {a}
  /\ UNCHANGED <<owner, spentBy>>

Spend(t, c) ==
  /\ state[t] = "live"
  /\ \A u \in Links : c \notin spentBy[u]
  /\ state' = [state EXCEPT ![t] = "consumed"]
  /\ spentBy' = [spentBy EXCEPT ![t] = {c}]
  /\ UNCHANGED <<owner, revoked>>

Next ==
  \/ \E t \in Links, m \in Mailboxes, V \in SUBSET Links : Issue(t, m, V)
  \/ \E a \in Revokes, m \in Mailboxes, V \in SUBSET Links : Revoke(a, m, V)
  \/ \E t \in Links, c \in Sessions : Spend(t, c)

Spec == Init /\ [][Next]_ledger
=============================================================================
