-------------------------- MODULE MagicLoginProofs --------------------------
(***************************************************************************)
(* Proofs about MagicLogin for any number of requests and mailboxes.       *)
(*                                                                         *)
(* The invariant IInv relates a row's lock to where its holder stands:     *)
(* only outstanding links are locked, a redeem holds exactly the link it   *)
(* presents, and a solicit or revoke past its DELETE holds every row that  *)
(* the DELETE found and that is still outstanding.                         *)
(***************************************************************************)
EXTENDS MagicLogin, FiniteSetTheorems, TLAPS

Deleters == Solicits \cup Admins
Holding == {"holder", "allowed", "commit"}

\* A locked link is outstanding.
LockedIsLive == \A q \in Solicits : linkLock[q] # None => link[q] = "live"

\* A redeem holds the link it presents from the SELECT ... FOR UPDATE to the
\* end of its transaction, and no other link ever.
RedeemHolds ==
  \A c \in Redeems :
    /\ pc[c] \in {"select"} \cup Holding => ticket[c] \in Solicits
    /\ pc[c] \in Holding => linkLock[ticket[c]] = c
    /\ \A q \in Solicits :
         linkLock[q] = c => pc[c] \in Holding /\ ticket[c] = q

\* A deleter holds links of its own mailbox only, from its DELETE to its end.
DeleterHolds ==
  \A p \in Deleters, q \in Solicits :
    linkLock[q] = p =>
      pc[p] \in {"purging", "mail", "commit"} /\ box[q] = box[p]

\* A link exists once its solicit has committed; found rows exist and are of
\* the deleter's mailbox; a redeem, or a request not begun, has looked at none.
RowsExist ==
  /\ \A r \in Solicits : link[r] # "none" <=> pc[r] = "accepted"
  /\ \A p \in Transactions : \A q \in seen[p] : link[q] # "none" /\ box[q] = box[p]
  /\ \A p \in Transactions : p \in Redeems \/ pc[p] = "idle" => seen[p] = {}

\* Past its DELETE, a deleter holds the found rows that are outstanding.
FoundRowsHeld ==
  \A p \in Deleters :
    pc[p] \in {"mail", "commit"} =>
      \A q \in seen[p] : link[q] = "live" => linkLock[q] = p

\* Sessions belong to redeems that answered "signed_in" with a used link.
SessionsPaid ==
  \A c \in sessions : pc[c] = "signed_in" /\ ticket[c] \in Solicits

IInv ==
  /\ TypeOK
  /\ LockedIsLive
  /\ RedeemHolds
  /\ DeleterHolds
  /\ RowsExist
  /\ FoundRowsHeld
  /\ SessionsPaid
  /\ SingleUse
  /\ PurgeHolds
  /\ LateSessionIsUnseen

-----------------------------------------------------------------------------
\* Unlocking keeps a lock table a lock table.
LEMMA FreedType ==
  ASSUME NEW S, NEW T, NEW lock \in [S -> T \cup {None}], NEW p
  PROVE  Freed(lock, p) \in [S -> T \cup {None}]
BY DEF Freed

\* A solicit or an administrator's call that is under way knows its mailbox, and
\* a seed script that is at an entry of the roster has one.
BoxKnown == \A p \in Deleters : pc[p] \in Busy => box[p] \in Mailboxes

AtEntry == {"seed_row", "seed_mail", "seed_unlist", "seed_allow"}
EntryKnown ==
  \A s \in Seeds :
    /\ pc[s] = "idle" => entry[s] = 1
    /\ pc[s] \in AtEntry => entry[s] \in 1..Len(Roster)
    /\ pc[s] = "seed_commit" => entry[s] = Len(Roster) + 1

TInv == TypeOK /\ BoxKnown /\ EntryKnown

LEMMA RosterRows ==
  /\ Len(Roster) \in Nat /\ DOMAIN Roster = 1..Len(Roster)
  /\ \A i \in 1..Len(Roster) : Roster[i].handle \in Handles /\ Roster[i].mail \in Mailboxes
<1> DEFINE S == [handle : Handles, mail : Mailboxes]
<1>1. Roster \in Seq(S)
  BY RosterKnown
<1>2. \A e \in S : e.handle \in Handles /\ e.mail \in Mailboxes
  OBVIOUS
<1> HIDE DEF S
<1>3. Len(Roster) \in Nat /\ DOMAIN Roster = 1..Len(Roster)
  BY <1>1
<1>4. \A i \in 1..Len(Roster) : Roster[i] \in S
  BY <1>1
<1> QED BY <1>2, <1>3, <1>4

\* What the script's upserts leave in users is a table of accounts.
LEMMA UpsertedType ==
  ASSUME TypeOK, NEW k \in 0..Len(Roster)
  PROVE  Upserted(k) \in [Mailboxes -> Handles \cup {None}]
<1> SUFFICES ASSUME NEW m \in Mailboxes PROVE Upserted(k)[m] \in Handles \cup {None}
  BY DEF Upserted
<1>1. ASSUME NEW i \in 1..k PROVE Roster[i].handle \in Handles
  BY RosterRows, RosterKnown
<1>2. CASE \E i \in 1..k : Roster[i].mail = m
  <2> DEFINE e == CHOOSE e \in {Roster[i] : i \in 1..k} : e.mail = m
  <2>1. e \in {Roster[i] : i \in 1..k}
    BY <1>2
  <2>2. e.handle \in Handles
    BY <1>1, <2>1
  <2> QED BY <1>2, <2>2 DEF Upserted
<1>3. CASE ~\E i \in 1..k : Roster[i].mail = m
  BY <1>3 DEF Upserted, TypeOK
<1> QED BY <1>2, <1>3

\* The variables keep their types: every answer, lock and row the handlers write.
LEMMA TypeStep == TInv /\ [Next]_vars => TypeOK'
<1> SUFFICES ASSUME TInv, [Next]_vars PROVE TypeOK'
  OBVIOUS
<1> USE RequestKinds DEF TInv, TypeOK, Transactions, Requests, Answers, tables, locks, locals
<1> DEFINE Rows == Transactions \cup {None}
           Lockable == Requests \cup {None}
           Labels == {"idle"} \cup Busy \cup Answers
<1>0. ASSUME NEW p \in Transactions, Release(p)
      PROVE  /\ rowLock' \in [Handles -> Rows] /\ mailLock' \in [Mailboxes -> Rows]
             /\ allowLock' \in [Mailboxes -> Rows] /\ linkLock' \in [Solicits -> Lockable]
  BY <1>0, FreedType DEF Release
<1>a. ASSUME NEW p, NEW l \in Labels, Goto(p, l) PROVE pc' \in [Transactions -> Labels]
  BY <1>a DEF Goto
<1>b. ASSUME NEW p \in Transactions, NEW l \in Labels, Rollback(p, l)
      PROVE  /\ rowLock' \in [Handles -> Rows] /\ mailLock' \in [Mailboxes -> Rows]
             /\ allowLock' \in [Mailboxes -> Rows] /\ linkLock' \in [Solicits -> Lockable]
             /\ pc' \in [Transactions -> Labels]
  BY <1>0, <1>a, <1>b DEF Rollback
<1>1. ASSUME NEW r \in Solicits, NEW m \in Mailboxes, SolicitBegin(r, m) PROVE TypeOK'
  <2>1. PICK l \in {"screen", "provision", "user_not_found"} : Goto(r, l)
    BY <1>1 DEF SolicitBegin
  <2> QED BY <1>1, <1>a, <2>1 DEF SolicitBegin, Busy
<1>2. ASSUME NEW p \in Requests, BadAddress(p) PROVE TypeOK'
  BY <1>2, <1>a DEF BadAddress, Busy
<1>3. ASSUME NEW r \in Solicits, Provision(r) PROVE TypeOK'
  <2>1. box[r] \in Mailboxes
    BY <1>3 DEF Provision, BoxKnown, Deleters, Busy
  <2>2. PICK k \in DOMAIN Candidates[box[r]] : row' = [row EXCEPT ![r] = Candidates[box[r]][k]]
    BY <1>3 DEF Provision
  <2>3. Candidates[box[r]] \in Seq(Handles)
    BY <2>1, CandidatesKnown
  <2>4. Candidates[box[r]][k] \in Handles
    BY <2>2, <2>3
  <2>5. row' \in [Requests -> Handles \cup {None}]
    BY <2>2, <2>4
  <2> QED BY <1>3, <1>a, <2>5 DEF Provision, Busy
<1>4. ASSUME NEW r \in Solicits, InsertRow(r) PROVE TypeOK'
  <2>1. CASE Rollback(r, "reread")
    BY <1>4, <1>b, <2>1 DEF InsertRow, Busy
  <2>2. CASE /\ rowLock' = [rowLock EXCEPT ![row[r]] = r] /\ Goto(r, "insert_mail")
             /\ UNCHANGED <<mailLock, allowLock, linkLock>>
    BY <1>4, <1>a, <2>2 DEF InsertRow, Busy
  <2> QED BY <1>4, <2>1, <2>2 DEF InsertRow
<1>5. ASSUME NEW r \in Solicits, InsertMail(r) PROVE TypeOK'
  <2>1. CASE Rollback(r, "reread")
    BY <1>5, <1>b, <2>1 DEF InsertMail, Busy
  <2>2. CASE /\ mailLock' = [mailLock EXCEPT ![box[r]] = r] /\ Goto(r, "screen")
             /\ UNCHANGED <<rowLock, allowLock, linkLock>>
    BY <1>5, <1>a, <2>2 DEF InsertMail, Busy
  <2> QED BY <1>5, <2>1, <2>2 DEF InsertMail
<1>6. ASSUME NEW r \in Solicits, Reread(r) PROVE TypeOK'
  <2>1. PICK l \in {"screen", "error"} : Goto(r, l)
    BY <1>6 DEF Reread
  <2> QED BY <1>6, <1>a, <2>1 DEF Reread, Busy
<1>7. ASSUME NEW r \in Solicits, Screen(r) PROVE TypeOK'
  <2>1. CASE Rollback(r, "not_allowlisted")
    BY <1>7, <1>b, <2>1 DEF Screen
  <2>2. CASE \E l \in {"purge", "enlist"} : Goto(r, l) /\ UNCHANGED locks
    BY <1>7, <1>a, <2>2 DEF Screen, Busy
  <2> QED BY <1>7, <2>1, <2>2 DEF Screen
<1>8. ASSUME NEW p \in Requests, NEW label, Enlist(p, label) PROVE TypeOK'
  <2>1. CASE Rollback(p, "error")
    BY <1>8, <1>b, <2>1 DEF Enlist
  <2>2. CASE /\ allowLock' = [allowLock EXCEPT ![box[p]] = p] /\ Goto(p, "refer")
             /\ UNCHANGED <<rowLock, mailLock, linkLock>>
    BY <1>8, <1>a, <2>2 DEF Enlist, Busy
  <2> QED BY <1>8, <2>1, <2>2 DEF Enlist
<1>9. ASSUME NEW p \in Requests, Refer(p) PROVE TypeOK'
  <2>1. CASE Rollback(p, "error")
    BY <1>9, <1>b, <2>1 DEF Refer
  <2>2. CASE \E l \in {"purge", "grant_commit"} : Goto(p, l) /\ UNCHANGED locks
    BY <1>9, <1>a, <2>2 DEF Refer, Busy
  <2> QED BY <1>9, <2>1, <2>2 DEF Refer
<1>10. ASSUME NEW p \in Requests, Purge(p) PROVE TypeOK'
  BY <1>10, <1>a DEF Purge, Busy
<1>11. ASSUME NEW p \in Requests, PurgeRow(p) PROVE TypeOK'
  <2>1. PICK q \in Solicits : linkLock' = [linkLock EXCEPT ![q] = p]
    BY <1>11 DEF PurgeRow, Unvisited
  <2> QED BY <1>11, <2>1 DEF PurgeRow
<1>12. ASSUME NEW p \in Requests, PurgeEnd(p) PROVE TypeOK'
  BY <1>12, <1>a DEF PurgeEnd, Busy
<1>13. ASSUME NEW r \in Solicits, Mail(r) PROVE TypeOK'
  <2>1. mailed' \subseteq Solicits
    BY <1>13 DEF Mail
  <2>2. CASE Rollback(r, "email_delivery_failed")
    BY <1>13, <1>b, <2>1, <2>2 DEF Mail
  <2>3. CASE Goto(r, "commit") /\ UNCHANGED locks
    BY <1>13, <1>a, <2>1, <2>3 DEF Mail, Busy
  <2> QED BY <1>13, <2>2, <2>3 DEF Mail
<1>14. ASSUME NEW r \in Solicits, SolicitCommit(r) PROVE TypeOK'
  <2>1. handle' \in [Mailboxes -> Handles \cup {None}] /\ allow' \subseteq Mailboxes
    BY <1>14 DEF SolicitCommit
  <2>2. link' \in [Solicits -> {"none", "live", "consumed", "purged"}]
    BY <1>14 DEF SolicitCommit
  <2> QED BY <1>14, <1>0, <1>a, <2>1, <2>2 DEF SolicitCommit
<1>15. ASSUME NEW c \in Redeems, NEW t \in Solicits, RedeemBegin(c, t) PROVE TypeOK'
  BY <1>15, <1>a DEF RedeemBegin, Busy
<1>16. ASSUME NEW c \in Redeems, RedeemSelect(c) PROVE TypeOK'
  <2>1. PICK l \in {"magic_link_invalid", "holder"} : Goto(c, l)
    BY <1>16 DEF RedeemSelect
  <2>2. linkLock' \in [Solicits -> Lockable]
    BY <1>16 DEF RedeemSelect
  <2> QED BY <1>16, <1>a, <2>1, <2>2 DEF RedeemSelect, Busy
<1>17. ASSUME NEW c \in Redeems, RedeemHolder(c) PROVE TypeOK'
  <2>1. CASE Rollback(c, "user_missing") /\ UNCHANGED row
    BY <1>17, <1>b, <2>1 DEF RedeemHolder
  <2>2. CASE /\ box[ticket[c]] \in users /\ row' = [row EXCEPT ![c] = handle[box[ticket[c]]]]
             /\ Goto(c, "allowed") /\ UNCHANGED locks
    <3>1. row' \in [Requests -> Handles \cup {None}]
      BY <2>2 DEF users
    <3> QED BY <1>17, <1>a, <2>2, <3>1 DEF RedeemHolder, Busy
  <2> QED BY <1>17, <2>1, <2>2 DEF RedeemHolder
<1>18. ASSUME NEW c \in Redeems, RedeemAllowed(c) PROVE TypeOK'
  <2>1. CASE Rollback(c, "magic_login_revoked")
    BY <1>18, <1>b, <2>1 DEF RedeemAllowed
  <2>2. CASE Goto(c, "commit") /\ UNCHANGED locks
    BY <1>18, <1>a, <2>2 DEF RedeemAllowed, Busy
  <2> QED BY <1>18, <2>1, <2>2 DEF RedeemAllowed
<1>19. ASSUME NEW c \in Redeems, RedeemCommit(c) PROVE TypeOK'
  BY <1>19, <1>0, <1>a DEF RedeemCommit
<1>20. ASSUME NEW a \in Admins, NEW m \in Mailboxes, GrantBegin(a, m) PROVE TypeOK'
  <2>1. PICK l \in {"grant_check", "user_not_found"} : Goto(a, l)
    BY <1>20 DEF GrantBegin
  <2> QED BY <1>20, <1>a, <2>1 DEF GrantBegin, Busy
<1>21. ASSUME NEW a \in Admins, GrantCheck(a) PROVE TypeOK'
  <2>1. PICK l \in {"noop", "grant"} : Goto(a, l)
    BY <1>21 DEF GrantCheck
  <2> QED BY <1>21, <1>a, <2>1 DEF GrantCheck, Busy
<1>22. ASSUME NEW a \in Admins, GrantCommit(a) PROVE TypeOK'
  <2>1. allow' \subseteq Mailboxes
    <3>1. box[a] \in Mailboxes
      BY <1>22 DEF GrantCommit, BoxKnown, Deleters, Busy
    <3> QED BY <1>22, <3>1 DEF GrantCommit
  <2> QED BY <1>22, <1>0, <1>a, <2>1 DEF GrantCommit
<1>23. ASSUME NEW a \in Admins, NEW m \in Mailboxes, RevokeBegin(a, m) PROVE TypeOK'
  BY <1>23, <1>a DEF RevokeBegin, Busy
<1>24. ASSUME NEW a \in Admins, Unlist(a) PROVE TypeOK'
  <2>1. PICK l \in {"not_on_allowlist", "purge"} : Goto(a, l)
    BY <1>24 DEF Unlist
  <2>2. allowLock' \in [Mailboxes -> Rows]
    <3>1. CASE UNCHANGED allowLock
      BY <3>1
    <3>2. CASE allowLock' = [allowLock EXCEPT ![box[a]] = a]
      BY <3>2
    <3> QED BY <1>24, <3>1, <3>2 DEF Unlist
  <2> QED BY <1>24, <1>a, <2>1, <2>2 DEF Unlist, Busy
<1>25. ASSUME NEW a \in Admins, RevokeCommit(a) PROVE TypeOK'
  <2>1. link' \in [Solicits -> {"none", "live", "consumed", "purged"}] /\ allow' \subseteq Mailboxes
    BY <1>25 DEF RevokeCommit
  <2> QED BY <1>25, <1>0, <1>a, <2>1 DEF RevokeCommit
<1>26. ASSUME NEW s \in Seeds, SeedBegin(s) PROVE TypeOK'
  <2>1. PICK l \in {"seed_commit", "seed_row"} : Goto(s, l)
    BY <1>26 DEF SeedBegin
  <2> QED BY <1>26, <1>a, <2>1 DEF SeedBegin, Busy
<1>27. ASSUME NEW s \in Seeds, SeedRow(s) PROVE TypeOK'
  <2>1. PICK l \in {"seed_allow", "seed_mail"} : Goto(s, l)
    BY <1>27 DEF SeedRow
  <2>2. rowLock' \in [Handles -> Rows] /\ mailLock' \in [Mailboxes -> Rows]
    BY <1>27 DEF SeedRow
  <2> QED BY <1>27, <1>a, <2>1, <2>2 DEF SeedRow, Busy
<1>28. ASSUME NEW s \in Seeds, SeedMail(s) PROVE TypeOK'
  <2>1. CASE Rollback(s, "error")
    BY <1>28, <1>b, <2>1 DEF SeedMail
  <2>2. CASE /\ mailLock' = [mailLock EXCEPT ![Entry(s).mail] = s]
             /\ \E l \in {"seed_allow", "seed_unlist"} : Goto(s, l)
             /\ UNCHANGED <<rowLock, allowLock, linkLock>>
    BY <1>28, <1>a, <2>2 DEF SeedMail, Busy
  <2> QED BY <1>28, <2>1, <2>2 DEF SeedMail
<1>29. ASSUME NEW s \in Seeds, SeedUnlist(s) PROVE TypeOK'
  <2>1. CASE Rollback(s, "error")
    BY <1>29, <1>b, <2>1 DEF SeedUnlist
  <2>2. CASE Goto(s, "seed_allow") /\ UNCHANGED locks
    BY <1>29, <1>a, <2>2 DEF SeedUnlist, Busy
  <2> QED BY <1>29, <2>1, <2>2 DEF SeedUnlist
<1>30. ASSUME NEW s \in Seeds, SeedAllow(s) PROVE TypeOK'
  <2>1. PICK l \in {"seed_commit", "seed_row"} : Goto(s, l)
    BY <1>30 DEF SeedAllow
  <2>2. allowLock' \in [Mailboxes -> Rows]
    BY <1>30 DEF SeedAllow
  <2>3. Len(Roster) \in Nat /\ entry[s] \in 1..Len(Roster)
    BY <1>30, RosterKnown DEF SeedAllow, EntryKnown, AtEntry
  <2>4. entry' \in [Seeds -> 1..(Len(Roster) + 1)]
    BY <1>30, <2>3 DEF SeedAllow
  <2> QED BY <1>30, <1>a, <2>1, <2>2, <2>4 DEF SeedAllow, Busy
<1>31. ASSUME NEW s \in Seeds, SeedCommit(s) PROVE TypeOK'
  <2>1. Len(Roster) \in 0..Len(Roster)
    BY RosterKnown
  <2>2. handle' \in [Mailboxes -> Handles \cup {None}] /\ allow' \subseteq Mailboxes
    BY <1>31, <2>1, UpsertedType DEF SeedCommit
  <2> QED BY <1>31, <1>0, <1>a, <2>2 DEF SeedCommit
<1>32. ASSUME NEW p \in Transactions, Abort(p) PROVE TypeOK'
  BY <1>32, <1>b DEF Abort
<1>33. ASSUME NEW r \in Solicits, Expire(r) PROVE TypeOK'
  BY <1>33 DEF Expire
<1>34. CASE UNCHANGED vars
  BY <1>34 DEF vars
<1> QED
  BY <1>1, <1>2, <1>3, <1>4, <1>5, <1>6, <1>7, <1>8, <1>9, <1>10, <1>11, <1>12, <1>13, <1>14,
     <1>15, <1>16, <1>17, <1>18, <1>19, <1>20, <1>21, <1>22, <1>23, <1>24, <1>25, <1>26, <1>27,
     <1>28, <1>29, <1>30, <1>31, <1>32, <1>33, <1>34
  DEF Next, SolicitStep, RedeemStep, AdminStep, SeedStep

\* The steps: somebody begins with a mailbox, goes on from one statement to the next
\* with what it has, or an account, link or lock changes and nobody moves.
LEMMA Moves ==
  ASSUME Next
  PROVE  \/ \E p \in Deleters, m \in Mailboxes : \E l : /\ pc[p] = "idle" /\ pc' = [pc EXCEPT ![p] = l]
                                                        /\ box' = [box EXCEPT ![p] = m]
                                                        /\ l \in Busy \cup {"user_not_found"}
                                                        /\ entry' = entry
         \/ \E p \in Requests : \E l : /\ pc[p] \in Busy \cup {"idle"} /\ pc' = [pc EXCEPT ![p] = l]
                                       /\ pc[p] = "idle" /\ p \in Deleters => l \in Answers \ {"revoked"}
                                       /\ l = "revoked" => RevokeCommit(p) /\ p \in Admins
                                       /\ l # "idle" /\ UNCHANGED <<box, entry>>
         \/ \E s \in Seeds : SeedBegin(s) \/ SeedStep(s) \/ Abort(s)
         \/ UNCHANGED <<pc, box, entry>>
<1> USE DEF Goto, locals, tables, locks, Deleters, Requests, Busy, Answers
<1>1. CASE \/ \E r \in Solicits, m \in Mailboxes : SolicitBegin(r, m)
           \/ \E a \in Admins, m \in Mailboxes : GrantBegin(a, m) \/ RevokeBegin(a, m)
  BY <1>1 DEF SolicitBegin, GrantBegin, RevokeBegin
<1>2. CASE \E p \in Requests : BadAddress(p) \/ Abort(p)
  BY <1>2 DEF BadAddress, Abort, Rollback
<1>3. ASSUME NEW r \in Solicits, SolicitStep(r) \/ Expire(r)
      PROVE  \/ UNCHANGED <<pc, box, entry>>
             \/ \E l \in (Busy \cup Answers) \ {"revoked"} :
                  pc[r] \in Busy /\ pc' = [pc EXCEPT ![r] = l] /\ UNCHANGED <<box, entry>>
  <2>1. CASE Provision(r) \/ InsertRow(r) \/ InsertMail(r) \/ Reread(r) \/ Screen(r)
    BY <2>1 DEF Provision, InsertRow, InsertMail, Reread, Screen, Rollback
  <2>2. CASE Enlist(r, "enlist") \/ Refer(r) \/ Purge(r) \/ PurgeRow(r) \/ PurgeEnd(r)
    BY <2>2, RequestKinds DEF Enlist, Refer, Purge, PurgeRow, PurgeEnd, Rollback
  <2>3. CASE Mail(r) \/ SolicitCommit(r) \/ Expire(r)
    BY <2>3 DEF Mail, SolicitCommit, Expire, Rollback
  <2> QED BY <1>3, <2>1, <2>2, <2>3 DEF SolicitStep
<1>4. ASSUME NEW c \in Redeems, RedeemStep(c) \/ \E t \in Solicits : RedeemBegin(c, t)
      PROVE  \E l \in (Busy \cup Answers) \ {"revoked"} :
               /\ pc[c] \in Busy \cup {"idle"} /\ pc' = [pc EXCEPT ![c] = l]
               /\ UNCHANGED <<box, entry>>
  BY <1>4 DEF RedeemStep, RedeemBegin, RedeemSelect, RedeemHolder, RedeemAllowed, RedeemCommit, Rollback
<1>5. ASSUME NEW a \in Admins, AdminStep(a)
      PROVE  \/ UNCHANGED <<pc, box, entry>>
             \/ \E l \in Busy \cup Answers :
                  /\ pc[a] \in Busy /\ pc' = [pc EXCEPT ![a] = l] /\ UNCHANGED <<box, entry>>
                  /\ l = "revoked" => RevokeCommit(a)
  <2>1. CASE GrantCheck(a) \/ Enlist(a, "grant") \/ Refer(a) \/ GrantCommit(a) \/ Unlist(a)
    BY <2>1, RequestKinds DEF GrantCheck, Enlist, Refer, GrantCommit, Unlist, Rollback
  <2>2. CASE Purge(a) \/ PurgeRow(a) \/ PurgeEnd(a) \/ RevokeCommit(a)
    BY <2>2, RequestKinds DEF Purge, PurgeRow, PurgeEnd, RevokeCommit
  <2> QED BY <1>5, <2>1, <2>2 DEF AdminStep
<1>6. CASE \E r \in Solicits : SolicitStep(r) \/ Expire(r)
  BY <1>3, <1>6
<1>7. CASE \E c \in Redeems : RedeemStep(c) \/ \E t \in Solicits : RedeemBegin(c, t)
  <2>1. PICK c \in Redeems : RedeemStep(c) \/ \E t \in Solicits : RedeemBegin(c, t)
    BY <1>7
  <2>2. c \in Requests /\ c \notin Deleters
    BY RequestKinds
  <2> QED BY <1>4, <2>1, <2>2
<1>8. CASE \E a \in Admins : AdminStep(a)
  BY <1>5, <1>8
<1> QED BY <1>1, <1>2, <1>6, <1>7, <1>8 DEF Next, Transactions

LEMMA PlaceStep == TInv /\ [Next]_vars => BoxKnown' /\ EntryKnown'
<1> SUFFICES ASSUME TInv, [Next]_vars PROVE BoxKnown' /\ EntryKnown'
  OBVIOUS
<1>0. TypeOK /\ BoxKnown /\ EntryKnown
  BY DEF TInv
<1> USE RequestKinds, RosterKnown DEF Deleters, Requests, Transactions
<1>1. CASE \E p \in Deleters, m \in Mailboxes : \E l : /\ pc[p] = "idle" /\ pc' = [pc EXCEPT ![p] = l]
                                                       /\ box' = [box EXCEPT ![p] = m] /\ entry' = entry
  BY <1>0, <1>1 DEF BoxKnown, EntryKnown, TypeOK
<1>2. CASE \E p \in Requests : \E l : /\ pc[p] \in Busy \cup {"idle"} /\ pc' = [pc EXCEPT ![p] = l]
                                      /\ pc[p] = "idle" /\ p \in Deleters => l \in Answers \ {"revoked"}
                                      /\ UNCHANGED <<box, entry>>
  <2>1. Answers \cap Busy = {}
    BY DEF Answers, Busy
  <2> QED BY <1>0, <1>2, <2>1 DEF BoxKnown, EntryKnown, TypeOK
<1>3. ASSUME NEW s \in Seeds, SeedBegin(s) \/ SeedStep(s) \/ Abort(s) PROVE BoxKnown' /\ EntryKnown'
  <2>0. Len(Roster) \in Nat /\ entry[s] \in 1..(Len(Roster) + 1) /\ (Roster = <<>> <=> Len(Roster) = 0)
    BY <1>0 DEF TypeOK
  <2>1. PICK l : pc' = [pc EXCEPT ![s] = l] /\ box' = box
    BY <1>3 DEF SeedBegin, SeedStep, SeedRow, SeedMail, SeedUnlist, SeedAllow, SeedCommit, Abort,
       Rollback, Goto, locals
  <2>2. BoxKnown'
    BY <1>0, <2>1 DEF BoxKnown, TypeOK
  <2>3. /\ l = "idle" => entry'[s] = 1
        /\ l \in AtEntry => entry'[s] \in 1..Len(Roster)
        /\ l = "seed_commit" => entry'[s] = Len(Roster) + 1
        /\ \A z \in Seeds : z # s => entry'[z] = entry[z]
    <3> USE <1>0, <2>0, <2>1 DEF TypeOK, EntryKnown, AtEntry, Goto, locals
    <3>1. CASE SeedBegin(s)
      BY <3>1 DEF SeedBegin
    <3>2. CASE SeedRow(s)
      BY <3>2 DEF SeedRow
    <3>3. CASE SeedMail(s)
      BY <3>3 DEF SeedMail, Rollback
    <3>4. CASE SeedUnlist(s)
      BY <3>4 DEF SeedUnlist, Rollback
    <3>5. CASE SeedAllow(s)
      BY <3>5 DEF SeedAllow
    <3>6. CASE SeedCommit(s) \/ Abort(s)
      BY <3>6 DEF SeedCommit, Abort, Rollback
    <3> QED BY <1>3, <3>1, <3>2, <3>3, <3>4, <3>5, <3>6 DEF SeedStep
  <2>4. EntryKnown'
    BY <1>0, <2>1, <2>3 DEF EntryKnown, TypeOK
  <2> QED BY <2>2, <2>4
<1>4. CASE UNCHANGED <<pc, box, entry>>
  BY <1>0, <1>4 DEF BoxKnown, EntryKnown
<1> QED BY <1>1, <1>2, <1>3, <1>4, Moves DEF vars, locals

\* Init gives every variable a value of its type.
LEMMA InitType == Init => TInv
<1> SUFFICES ASSUME Init PROVE TInv
  OBVIOUS
<1>1. Len(Roster) \in Nat
  BY RosterKnown
<1>2. TypeOK
  BY <1>1 DEF Init, TypeOK, users
<1> QED BY <1>2 DEF Init, TInv, BoxKnown, EntryKnown, AtEntry, Busy, Deleters, Requests, Transactions

LEMMA TypesAndPlaces == Spec => []TInv
<1>1. TInv /\ [Next]_vars => TInv'
  BY TypeStep, PlaceStep DEF TInv
<1> QED BY <1>1, InitType, PTL DEF Spec

THEOREM TypeCorrect == Spec => []TypeOK
BY TypesAndPlaces, PTL DEF TInv

-----------------------------------------------------------------------------
\* Where a transaction neither holds a link nor has ended by changing one.
Quiet ==
  {"idle", "select"} \cup (Busy \ (Holding \cup {"purging", "mail"}))
    \cup (Answers \ {"accepted", "revoked", "signed_in"})

\* A redeem past its SELECT ... FOR UPDATE holds an outstanding link, whose
\* solicit is over.
LEMMA HeldLink ==
  ASSUME IInv, NEW c \in Redeems, pc[c] \in Holding
  PROVE  /\ ticket[c] \in Solicits
         /\ linkLock[ticket[c]] = c
         /\ link[ticket[c]] = "live"
         /\ pc[ticket[c]] = "accepted"
<1>1. ticket[c] \in Solicits /\ linkLock[ticket[c]] = c
  BY DEF IInv, RedeemHolds
<1>2. c # None
  BY RequestKinds DEF Transactions, Requests
<1>3. link[ticket[c]] = "live"
  BY <1>1, <1>2 DEF IInv, LockedIsLive
<1>4. pc[ticket[c]] = "accepted"
  BY <1>1, <1>3 DEF IInv, RowsExist
<1> QED
  BY <1>1, <1>3, <1>4

\* Who holds no link unlocks none.
LEMMA NoneFreed ==
  ASSUME IInv, NEW p \in Deleters \cup Seeds, pc[p] \notin {"purging", "mail", "commit"}
  PROVE  Freed(linkLock, p) = linkLock
<1>1. \A q \in Solicits : linkLock[q] # p
  <2>1. CASE p \in Deleters
    BY <2>1 DEF IInv, DeleterHolds
  <2>2. CASE p \in Seeds
    BY <2>2, RequestKinds DEF IInv, TypeOK, Requests, Transactions
  <2> QED BY <2>1, <2>2
<1> QED BY <1>1 DEF Freed, IInv, TypeOK

\* Steps that move a request between quiet places, and may set the mailbox of
\* a request that begins or add to the allowlist, keep the invariant.
LEMMA QuietStep ==
  ASSUME IInv, TypeOK',
         UNCHANGED <<link, linkLock, sessions, ticket, seen>>,
         allow \subseteq allow',
         NEW p \in Transactions, NEW l, NEW m,
         pc[p] \in Quiet, l \in Quiet \ {"idle", "select"},
         pc' = [pc EXCEPT ![p] = l],
         box' = box \/ (pc[p] = "idle" /\ box' = [box EXCEPT ![p] = m])
  PROVE  IInv'
<1>0. \A q \in Transactions : q # p => pc'[q] = pc[q] /\ box'[q] = box[q]
  BY DEF IInv, TypeOK
<1> USE RequestKinds DEF IInv, TypeOK, Transactions, Requests, Quiet, Busy, Answers, Holding, Deleters
<1>1. LockedIsLive'
  BY DEF LockedIsLive
<1>2. RedeemHolds'
  BY DEF RedeemHolds
<1>3. DeleterHolds'
  <2> SUFFICES ASSUME NEW d \in Deleters, NEW q \in Solicits, linkLock[q] = d
               PROVE  pc'[d] \in {"purging", "mail", "commit"} /\ box'[q] = box'[d]
    BY DEF DeleterHolds
  <2>1. pc[d] \in {"purging", "mail", "commit"} /\ box[q] = box[d]
    BY DEF DeleterHolds
  <2>2. pc[q] = "accepted"
    BY DEF LockedIsLive, RowsExist
  <2>3. d # p /\ q # p
    BY <2>1, <2>2
  <2>4. pc'[d] = pc[d] /\ box'[d] = box[d] /\ box'[q] = box[q]
    BY ONLY <2>3, <1>0 DEF Transactions, Requests, Deleters
  <2> QED
    BY ONLY <2>1, <2>4
<1>4. RowsExist'
  BY DEF RowsExist
<1>5. FoundRowsHeld'
  BY DEF FoundRowsHeld
<1>6. SessionsPaid'
  BY DEF SessionsPaid
<1>7. SingleUse'
  BY DEF SingleUse
<1>8. PurgeHolds'
  BY DEF PurgeHolds
<1>9. LateSessionIsUnseen'
  <2> SUFFICES ASSUME NEW c \in Redeems, pc'[c] = "commit",
                      box'[ticket'[c]] \notin allow'
               PROVE  \E a \in Admins : /\ pc'[a] = "revoked"
                                       /\ box'[a] = box'[ticket'[c]]
                                       /\ ticket'[c] \notin seen'[a]
    BY DEF LateSessionIsUnseen
  <2>1. pc[c] = "commit"
    OBVIOUS
  <2>2. ticket[c] \in Solicits /\ pc[ticket[c]] = "accepted"
    BY <2>1, HeldLink
  <2>3. box'[ticket[c]] = box[ticket[c]]
    <3>3. CASE box' = box
      BY <3>3
    <3>4. CASE pc[p] = "idle" /\ box' = [box EXCEPT ![p] = m]
      <4>1. p # ticket[c]
        BY <2>2, <3>4
      <4> QED
        BY <2>2, <3>4, <4>1
    <3> QED
      BY <3>3, <3>4
  <2>4. PICK a \in Admins : /\ pc[a] = "revoked"
                           /\ box[a] = box[ticket[c]]
                           /\ ticket[c] \notin seen[a]
    BY <2>1, <2>3 DEF LateSessionIsUnseen
  <2>5. a # p /\ seen' = seen /\ ticket' = ticket
    BY <2>4
  <2>6. pc'[a] = "revoked" /\ box'[a] = box[a]
    <3>1. pc'[a] = pc[a] /\ box'[a] = box[a]
      BY ONLY <2>5, <1>0 DEF Transactions, Requests
    <3> QED
      BY ONLY <2>4, <3>1
  <2> QED
    BY ONLY <2>3, <2>4, <2>5, <2>6
<1> QED
  BY <1>1, <1>2, <1>3, <1>4, <1>5, <1>6, <1>7, <1>8, <1>9

\* A transaction that ends without a trace keeps the invariant.
LEMMA RollbackStep ==
  ASSUME IInv, TypeOK',
         UNCHANGED <<link, sessions, allow, box, ticket, seen>>,
         NEW p \in Transactions, pc[p] \in Busy,
         NEW l \in {"error", "reread", "not_allowlisted", "email_delivery_failed",
                   "user_missing", "magic_login_revoked"},
         Rollback(p, l)
  PROVE  IInv'
<1> USE RequestKinds DEF IInv, TypeOK, Transactions, Requests, Busy, Holding, Deleters
<1>1. pc' = [pc EXCEPT ![p] = l]
  BY DEF Rollback, Goto
<1>2. \A q \in Solicits :
        /\ linkLock[q] = p => linkLock'[q] = None
        /\ linkLock[q] # p => linkLock'[q] = linkLock[q]
  BY DEF Rollback, Release, Freed
<1>3. LockedIsLive'
  BY <1>2 DEF LockedIsLive
<1>4. RedeemHolds'
  <2> SUFFICES ASSUME NEW c \in Redeems
               PROVE  /\ pc'[c] \in {"select"} \cup Holding => ticket[c] \in Solicits
                      /\ pc'[c] \in Holding => linkLock'[ticket[c]] = c
                      /\ \A q \in Solicits : linkLock'[q] = c =>
                           pc'[c] \in Holding /\ ticket[c] = q
    BY DEF RedeemHolds
  <2>1. CASE c = p
    BY <1>1, <1>2, <2>1 DEF RedeemHolds
  <2>2. CASE c # p
    <3>1. pc'[c] = pc[c]
      BY <1>1, <2>2
    <3>2. c # None
      OBVIOUS
    <3>3. pc[c] \in {"select"} \cup Holding => ticket[c] \in Solicits
      BY DEF RedeemHolds
    <3>4. pc[c] \in Holding => linkLock'[ticket[c]] = c
      <4>1. pc[c] \in Holding => linkLock[ticket[c]] = c /\ ticket[c] \in Solicits
        BY DEF RedeemHolds
      <4> QED BY ONLY <1>2, <2>2, <4>1
    <3>5. \A q \in Solicits : linkLock'[q] = c => linkLock[q] = c
      BY <1>2, <3>2
    <3> QED
      BY <3>1, <3>3, <3>4, <3>5 DEF RedeemHolds
  <2> QED
    BY <2>1, <2>2
<1>5. DeleterHolds'
  BY <1>1, <1>2 DEF DeleterHolds
<1>6. RowsExist'
  BY <1>1 DEF RowsExist
<1>7. FoundRowsHeld'
  BY <1>1, <1>2 DEF FoundRowsHeld
<1>8. SessionsPaid'
  BY <1>1 DEF SessionsPaid
<1>9. SingleUse'
  BY DEF SingleUse
<1>10. PurgeHolds'
  BY <1>1 DEF PurgeHolds
<1>11. LateSessionIsUnseen'
  BY <1>1 DEF LateSessionIsUnseen
<1> QED
  BY <1>3, <1>4, <1>5, <1>6, <1>7, <1>8, <1>9, <1>10, <1>11

\* The snapshot of a DELETE holds existing links of its mailbox.
LEMMA PurgeStep ==
  ASSUME IInv, TypeOK', NEW p \in Deleters, Purge(p)
  PROVE  IInv'
<1> USE RequestKinds DEF IInv, TypeOK, Transactions, Requests, Holding, Deleters, tables, locks, locals
<1> USE DEF Purge, Goto
<1>1. LockedIsLive'
  BY DEF LockedIsLive
<1>2. RedeemHolds'
  BY DEF RedeemHolds
<1>3. DeleterHolds'
  BY DEF DeleterHolds
<1>4. RowsExist'
  BY DEF RowsExist
<1>5. FoundRowsHeld'
  BY DEF FoundRowsHeld
<1>6. SessionsPaid'
  BY DEF SessionsPaid
<1>7. SingleUse'
  BY DEF SingleUse
<1>8. PurgeHolds'
  BY DEF PurgeHolds
<1>9. LateSessionIsUnseen'
  BY DEF LateSessionIsUnseen
<1> QED
  BY <1>1, <1>2, <1>3, <1>4, <1>5, <1>6, <1>7, <1>8, <1>9

\* Deleting a row: its lock was free, so no redeem held it.
LEMMA PurgeRowStep ==
  ASSUME IInv, TypeOK', NEW p \in Deleters, PurgeRow(p)
  PROVE  IInv'
<1> USE RequestKinds DEF IInv, TypeOK, Transactions, Requests, Holding, Deleters, tables, locks, locals
<1>0. PICK q \in seen[p] : /\ link[q] = "live"
                           /\ linkLock[q] = None
                           /\ linkLock' = [linkLock EXCEPT ![q] = p]
  BY DEF PurgeRow, Unvisited
<1> USE DEF PurgeRow
<1>1. LockedIsLive'
  BY <1>0 DEF LockedIsLive
<1>2. RedeemHolds'
  BY <1>0 DEF RedeemHolds
<1>3. DeleterHolds'
  BY <1>0 DEF DeleterHolds, RowsExist
<1>4. RowsExist'
  BY <1>0 DEF RowsExist
<1>5. FoundRowsHeld'
  BY <1>0 DEF FoundRowsHeld
<1>6. SessionsPaid'
  BY <1>0 DEF SessionsPaid
<1>7. SingleUse'
  BY <1>0 DEF SingleUse
<1>8. PurgeHolds'
  BY <1>0 DEF PurgeHolds
<1>9. LateSessionIsUnseen'
  BY <1>0 DEF LateSessionIsUnseen
<1> QED
  BY <1>1, <1>2, <1>3, <1>4, <1>5, <1>6, <1>7, <1>8, <1>9

\* A DELETE ends when no found row is both outstanding and free.
LEMMA PurgeEndStep ==
  ASSUME IInv, TypeOK', NEW p \in Deleters, PurgeEnd(p)
  PROVE  IInv'
<1> USE RequestKinds DEF IInv, TypeOK, Transactions, Requests, Holding, Deleters, tables, locks, locals
<1> USE DEF PurgeEnd, Unvisited, Goto
<1>1. LockedIsLive'
  BY DEF LockedIsLive
<1>2. RedeemHolds'
  BY DEF RedeemHolds
<1>3. DeleterHolds'
  BY DEF DeleterHolds
<1>4. RowsExist'
  BY DEF RowsExist
<1>5. FoundRowsHeld'
  BY DEF FoundRowsHeld
<1>6. SessionsPaid'
  BY DEF SessionsPaid
<1>7. SingleUse'
  BY DEF SingleUse
<1>8. PurgeHolds'
  BY DEF PurgeHolds
<1>9. LateSessionIsUnseen'
  BY DEF LateSessionIsUnseen
<1> QED
  BY <1>1, <1>2, <1>3, <1>4, <1>5, <1>6, <1>7, <1>8, <1>9

\* After a message was sent the solicit still holds what it deletes.
LEMMA MailSentStep ==
  ASSUME IInv, TypeOK', NEW r \in Solicits, pc[r] = "mail", Goto(r, "commit"),
         UNCHANGED <<allow, link, expired, sessions, locks, locals>>
  PROVE  IInv'
<1> USE RequestKinds DEF IInv, TypeOK, Transactions, Requests, Holding, Deleters, tables, locks, locals
<1> USE DEF Goto
<1>1. LockedIsLive'
  BY DEF LockedIsLive
<1>2. RedeemHolds'
  BY DEF RedeemHolds
<1>3. DeleterHolds'
  BY DEF DeleterHolds
<1>4. RowsExist'
  BY DEF RowsExist
<1>5. FoundRowsHeld'
  BY DEF FoundRowsHeld
<1>6. SessionsPaid'
  BY DEF SessionsPaid
<1>7. SingleUse'
  BY DEF SingleUse
<1>8. PurgeHolds'
  BY DEF PurgeHolds
<1>9. LateSessionIsUnseen'
  BY DEF LateSessionIsUnseen
<1> QED
  BY <1>1, <1>2, <1>3, <1>4, <1>5, <1>6, <1>7, <1>8, <1>9

\* A solicit's commit: the rows it holds die and its own link is born.
LEMMA SolicitCommitStep ==
  ASSUME IInv, TypeOK', NEW r \in Solicits, SolicitCommit(r)
  PROVE  IInv'
<1> USE RequestKinds DEF IInv, TypeOK, Transactions, Requests, Holding, Deleters, tables, locks, locals
<1> USE DEF SolicitCommit, Goto
<1>0. /\ link[r] = "none"
      /\ \A q \in Solicits : linkLock[q] = r => link[q] = "live"
      /\ \A q \in Solicits :
           linkLock'[q] = IF linkLock[q] = r THEN None ELSE linkLock[q]
  BY DEF RowsExist, LockedIsLive, Release, Freed
<1>1. LockedIsLive'
  BY <1>0 DEF LockedIsLive
<1>2. RedeemHolds'
  <2> USE DEF RedeemHolds
  <2> TAKE c \in Redeems
  <2>1. c # None /\ c # r /\ pc'[c] = pc[c] /\ ticket' = ticket
    OBVIOUS
  <2>2. \A q \in Solicits : linkLock'[q] = c <=> linkLock[q] = c
    BY <1>0, <2>1
  <2>3. /\ pc[c] \in {"select"} \cup Holding => ticket[c] \in Solicits
        /\ pc[c] \in Holding => linkLock[ticket[c]] = c
        /\ \A q \in Solicits : linkLock[q] = c => pc[c] \in Holding /\ ticket[c] = q
    BY DEF RedeemHolds
  <2> QED
    BY ONLY <2>1, <2>2, <2>3
<1>3. DeleterHolds'
  BY <1>0 DEF DeleterHolds
<1>4. RowsExist'
  BY <1>0 DEF RowsExist
<1>5. FoundRowsHeld'
  BY <1>0 DEF FoundRowsHeld, RowsExist
<1>6. SessionsPaid'
  BY <1>0 DEF SessionsPaid
<1>7. SingleUse'
  BY <1>0 DEF SingleUse
<1>8. PurgeHolds'
  BY <1>0 DEF PurgeHolds, FoundRowsHeld, RowsExist
<1>9. LateSessionIsUnseen'
  BY <1>0 DEF LateSessionIsUnseen
<1> QED
  BY <1>1, <1>2, <1>3, <1>4, <1>5, <1>6, <1>7, <1>8, <1>9

\* A redeem that begins holds nothing yet.
LEMMA RedeemBeginStep ==
  ASSUME IInv, TypeOK', NEW c \in Redeems, NEW t \in Solicits, RedeemBegin(c, t)
  PROVE  IInv'
<1> USE RequestKinds DEF IInv, TypeOK, Transactions, Requests, Holding, Deleters, tables, locks, locals
<1> USE DEF RedeemBegin, Goto
<1>1. LockedIsLive'
  BY DEF LockedIsLive
<1>2. RedeemHolds'
  BY DEF RedeemHolds
<1>3. DeleterHolds'
  BY DEF DeleterHolds
<1>4. RowsExist'
  BY DEF RowsExist
<1>5. FoundRowsHeld'
  BY DEF FoundRowsHeld
<1>6. SessionsPaid'
  BY DEF SessionsPaid
<1>7. SingleUse'
  BY DEF SingleUse, SessionsPaid
<1>8. PurgeHolds'
  BY DEF PurgeHolds
<1>9. LateSessionIsUnseen'
  BY DEF LateSessionIsUnseen
<1> QED
  BY <1>1, <1>2, <1>3, <1>4, <1>5, <1>6, <1>7, <1>8, <1>9

\* The SELECT ... FOR UPDATE finds the link outstanding and free.
LEMMA RedeemLockStep ==
  ASSUME IInv, TypeOK', NEW c \in Redeems, pc[c] = "select",
         Goto(c, "holder"), link[ticket[c]] = "live", linkLock[ticket[c]] = None,
         linkLock' = [linkLock EXCEPT ![ticket[c]] = c],
         UNCHANGED <<tables, box, ticket, seen>>
  PROVE  IInv'
<1> USE RequestKinds DEF IInv, TypeOK, Transactions, Requests, Holding, Deleters, tables, locks, locals
<1> USE DEF Goto
<1>0. ticket[c] \in Solicits
  BY DEF RedeemHolds
<1>1. LockedIsLive'
  BY <1>0 DEF LockedIsLive
<1>2. RedeemHolds'
  BY <1>0 DEF RedeemHolds
<1>3. DeleterHolds'
  BY <1>0 DEF DeleterHolds
<1>4. RowsExist'
  BY <1>0 DEF RowsExist
<1>5. FoundRowsHeld'
  BY <1>0 DEF FoundRowsHeld
<1>6. SessionsPaid'
  BY <1>0 DEF SessionsPaid
<1>7. SingleUse'
  BY <1>0 DEF SingleUse
<1>8. PurgeHolds'
  BY <1>0 DEF PurgeHolds
<1>9. LateSessionIsUnseen'
  BY <1>0 DEF LateSessionIsUnseen
<1> QED
  BY <1>1, <1>2, <1>3, <1>4, <1>5, <1>6, <1>7, <1>8, <1>9

\* Between its checks a redeem keeps its link; the last check reads the
\* allowlist row.
LEMMA RedeemCheckStep ==
  ASSUME IInv, TypeOK', NEW c \in Redeems,
         \/ pc[c] = "holder" /\ Goto(c, "allowed")
         \/ pc[c] = "allowed" /\ Goto(c, "commit") /\ box[ticket[c]] \in allow,
         UNCHANGED <<tables, linkLock, box, ticket, seen>>
  PROVE  IInv'
<1> USE RequestKinds DEF IInv, TypeOK, Transactions, Requests, Holding, Deleters, tables, locks, locals
<1> USE DEF Goto
<1>1. LockedIsLive'
  BY DEF LockedIsLive
<1>2. RedeemHolds'
  <2> USE DEF RedeemHolds
  <2> TAKE d \in Redeems
  <2>1. CASE d = c
    <3>1. pc[d] \in Holding /\ pc'[d] \in Holding
      BY <2>1
    <3> QED
      BY <3>1
  <2>2. CASE d # c
    <3>1. PICK l \in {"allowed", "commit"} : pc' = [pc EXCEPT ![c] = l]
      OBVIOUS
    <3>2. pc'[d] = pc[d]
      BY <2>2, <3>1
    <3>3. /\ pc[d] \in {"select"} \cup Holding => ticket[d] \in Solicits
          /\ pc[d] \in Holding => linkLock[ticket[d]] = d
          /\ \A q \in Solicits : linkLock[q] = d => pc[d] \in Holding /\ ticket[d] = q
      OBVIOUS
    <3> QED
      BY <3>2, <3>3
  <2> QED
    BY <2>1, <2>2
<1>3. DeleterHolds'
  BY DEF DeleterHolds
<1>4. RowsExist'
  BY DEF RowsExist
<1>5. FoundRowsHeld'
  <2>1. \A p \in Deleters : pc'[p] = pc[p]
    OBVIOUS
  <2> QED BY <2>1 DEF FoundRowsHeld
<1>6. SessionsPaid'
  BY DEF SessionsPaid
<1>7. SingleUse'
  BY DEF SingleUse
<1>8. PurgeHolds'
  BY DEF PurgeHolds
<1>9. LateSessionIsUnseen'
  <2> USE DEF LateSessionIsUnseen
  <2> TAKE d \in Redeems
  <2> HAVE pc'[d] = "commit" /\ box'[ticket'[d]] \notin allow'
  <2>1. pc[d] = "commit"
    OBVIOUS
  <2>2. PICK a \in Admins : /\ pc[a] = "revoked"
                           /\ box[a] = box[ticket[d]]
                           /\ ticket[d] \notin seen[a]
    BY <2>1
  <2>3. pc'[a] = "revoked"
    BY <2>2
  <2> QED
    BY <2>2, <2>3
<1> QED
  BY <1>1, <1>2, <1>3, <1>4, <1>5, <1>6, <1>7, <1>8, <1>9

\* A redeem's commit uses the link it alone holds.
LEMMA RedeemCommitStep ==
  ASSUME IInv, TypeOK', NEW c \in Redeems, RedeemCommit(c)
  PROVE  IInv'
<1> USE RequestKinds DEF IInv, TypeOK, Transactions, Requests, Holding, Deleters, tables, locks, locals
<1> USE DEF RedeemCommit, Goto
<1>0. /\ ticket[c] \in Solicits
      /\ linkLock[ticket[c]] = c
      /\ link[ticket[c]] = "live"
      /\ \A q \in Solicits :
           linkLock'[q] = IF q = ticket[c] THEN None ELSE linkLock[q]
  BY HeldLink DEF RedeemHolds, Release, Freed
<1>1. LockedIsLive'
  BY <1>0 DEF LockedIsLive
<1>2. RedeemHolds'
  <2> USE DEF RedeemHolds
  <2> TAKE d \in Redeems
  <2>1. CASE d = c
    BY <1>0, <2>1
  <2>2. CASE d # c
    <3>1. d # None /\ pc'[d] = pc[d] /\ ticket' = ticket
      BY <2>2
    <3>2. \A q \in Solicits : linkLock'[q] = d <=> linkLock[q] = d
      BY <1>0, <2>2, <3>1
    <3>3. /\ pc[d] \in {"select"} \cup Holding => ticket[d] \in Solicits
          /\ pc[d] \in Holding => linkLock[ticket[d]] = d
          /\ \A q \in Solicits : linkLock[q] = d => pc[d] \in Holding /\ ticket[d] = q
      OBVIOUS
    <3> QED
      BY ONLY <3>1, <3>2, <3>3
  <2> QED
    BY <2>1, <2>2
<1>3. DeleterHolds'
  BY <1>0 DEF DeleterHolds
<1>4. RowsExist'
  BY <1>0 DEF RowsExist
<1>5. FoundRowsHeld'
  BY <1>0 DEF FoundRowsHeld
<1>6. SessionsPaid'
  BY <1>0 DEF SessionsPaid
<1>7. SingleUse'
  BY <1>0 DEF SingleUse
<1>8. PurgeHolds'
  BY <1>0 DEF PurgeHolds
<1>9. LateSessionIsUnseen'
  BY <1>0 DEF LateSessionIsUnseen
<1> QED
  BY <1>1, <1>2, <1>3, <1>4, <1>5, <1>6, <1>7, <1>8, <1>9

\* A revoke's commit: the rows it holds die with the allowlist row.
LEMMA RevokeCommitStep ==
  ASSUME IInv, TypeOK', NEW a \in Admins, RevokeCommit(a)
  PROVE  IInv'
<1> USE RequestKinds DEF IInv, TypeOK, Transactions, Requests, Holding, Deleters, tables, locks, locals
<1> USE DEF RevokeCommit, Goto
<1>0. /\ \A q \in Solicits : linkLock[q] = a => link[q] = "live"
      /\ \A q \in Solicits :
           linkLock'[q] = IF linkLock[q] = a THEN None ELSE linkLock[q]
  BY DEF LockedIsLive, Release, Freed
<1>1. LockedIsLive'
  BY <1>0 DEF LockedIsLive
<1>2. RedeemHolds'
  <2> USE DEF RedeemHolds
  <2> TAKE c \in Redeems
  <2>1. c # None /\ c # a /\ pc'[c] = pc[c] /\ ticket' = ticket
    OBVIOUS
  <2>2. \A q \in Solicits : linkLock'[q] = c <=> linkLock[q] = c
    BY <1>0, <2>1
  <2>3. /\ pc[c] \in {"select"} \cup Holding => ticket[c] \in Solicits
        /\ pc[c] \in Holding => linkLock[ticket[c]] = c
        /\ \A q \in Solicits : linkLock[q] = c => pc[c] \in Holding /\ ticket[c] = q
    OBVIOUS
  <2> QED
    BY ONLY <2>1, <2>2, <2>3
<1>3. DeleterHolds'
  BY <1>0 DEF DeleterHolds
<1>4. RowsExist'
  BY <1>0 DEF RowsExist
<1>5. FoundRowsHeld'
  BY <1>0 DEF FoundRowsHeld
<1>6. SessionsPaid'
  BY <1>0 DEF SessionsPaid
<1>7. SingleUse'
  BY <1>0 DEF SingleUse
<1>8. PurgeHolds'
  BY <1>0 DEF PurgeHolds, FoundRowsHeld, RowsExist
<1>9. LateSessionIsUnseen'
  <2> USE DEF LateSessionIsUnseen
  <2> TAKE c \in Redeems
  <2> HAVE pc'[c] = "commit" /\ box'[ticket'[c]] \notin allow'
  <2>1. /\ pc[c] = "commit"
        /\ ticket[c] \in Solicits
        /\ linkLock[ticket[c]] = c
        /\ link[ticket[c]] = "live"
    BY HeldLink
  <2>2. CASE box[ticket[c]] = box[a]
    <3>1. c # a
      OBVIOUS
    <3>2. ticket[c] \notin seen[a]
      BY <2>1, <3>1 DEF FoundRowsHeld
    <3> QED
      BY <2>2, <3>2
  <2>3. CASE box[ticket[c]] # box[a]
    <3>1. PICK b \in Admins : /\ pc[b] = "revoked"
                             /\ box[b] = box[ticket[c]]
                             /\ ticket[c] \notin seen[b]
      BY <2>1, <2>3
    <3>2. pc'[b] = "revoked"
      BY <3>1
    <3> QED
      BY <3>1, <3>2
  <2> QED
    BY <2>2, <2>3
<1> QED
  BY <1>1, <1>2, <1>3, <1>4, <1>5, <1>6, <1>7, <1>8, <1>9

-----------------------------------------------------------------------------
\* Every step of the system keeps the invariant.
LEMMA InductiveStep == IInv /\ TypeOK' /\ [Next]_vars => IInv'
<1> SUFFICES ASSUME IInv, TypeOK', [Next]_vars PROVE IInv'
  OBVIOUS
<1> USE DEF tables, locks, locals
<1>0. TypeOK
  BY DEF IInv
<1>q. ASSUME NEW p \in Transactions, NEW l \in Quiet \ {"idle", "select"}, Goto(p, l),
             pc[p] \in Quiet, allow \subseteq allow',
             UNCHANGED <<link, linkLock, sessions, box, ticket, seen>>
      PROVE  IInv'
  BY <1>q, QuietStep DEF Goto
<1>r. ASSUME NEW p \in Transactions, Rollback(p, "error") \/ Rollback(p, "reread") \/ Rollback(p, "not_allowlisted"),
             pc[p] \in Busy, UNCHANGED <<tables, box, ticket, seen>>
      PROVE  IInv'
  BY <1>r, RollbackStep
<1>p. Solicits \subseteq Transactions /\ Admins \subseteq Transactions /\ Seeds \subseteq Transactions
  BY DEF Transactions, Requests
<1>1. ASSUME NEW r \in Solicits, NEW m \in Mailboxes, SolicitBegin(r, m) PROVE IInv'
  <2>1. PICK l \in {"screen", "provision", "user_not_found"} : Goto(r, l)
    BY <1>1 DEF SolicitBegin
  <2> QED
    BY <1>1, <2>1, QuietStep DEF SolicitBegin, Goto, Quiet, Busy, Holding, Answers, Transactions, Requests
<1>2. ASSUME NEW p \in Requests, BadAddress(p) PROVE IInv'
  BY <1>2, <1>q DEF BadAddress, Quiet, Busy, Holding, Answers, Transactions
<1>3. ASSUME NEW r \in Solicits, Provision(r) \/ InsertRow(r) \/ InsertMail(r) \/ Reread(r) PROVE IInv'
  <2>1. CASE Rollback(r, "reread")
    BY <1>3, <1>p, <1>r, <2>1 DEF InsertRow, InsertMail, Provision, Reread, Busy
  <2>2. CASE \E l \in {"insert", "insert_mail", "screen", "error"} : Goto(r, l) /\ UNCHANGED linkLock
    <3>1. /\ UNCHANGED <<tables, box, ticket, seen>>
          /\ pc[r] \in {"provision", "insert", "insert_mail", "reread"}
      BY <1>3 DEF Provision, InsertRow, InsertMail, Reread
    <3> QED BY <1>p, <1>q, <2>2, <3>1 DEF Quiet, Busy, Holding, Answers
  <2> QED BY <1>3, <2>1, <2>2 DEF Provision, InsertRow, InsertMail, Reread
<1>4. ASSUME NEW r \in Solicits, Screen(r) PROVE IInv'
  <2>1. CASE Rollback(r, "not_allowlisted")
    BY <1>4, <1>p, <1>r, <2>1 DEF Screen, Busy
  <2>2. CASE \E l \in {"purge", "enlist"} : Goto(r, l) /\ UNCHANGED locks
    BY <1>4, <1>p, <1>q, <2>2 DEF Screen, Quiet, Busy, Holding, Answers
  <2> QED BY <1>4, <2>1, <2>2 DEF Screen
<1>5. ASSUME NEW p \in Deleters, Enlist(p, "enlist") \/ Enlist(p, "grant") \/ Refer(p) PROVE IInv'
  <2>0. /\ p \in Transactions /\ UNCHANGED <<tables, box, ticket, seen>>
        /\ pc[p] \in {"enlist", "grant", "refer"}
    BY <1>5, <1>p DEF Enlist, Refer, Deleters
  <2>1. CASE Rollback(p, "error")
    BY <2>0, <1>r, <2>1 DEF Busy
  <2>2. CASE \E l \in {"refer", "purge", "grant_commit"} : Goto(p, l) /\ UNCHANGED linkLock
    BY <2>0, <1>q, <2>2 DEF Quiet, Busy, Holding, Answers
  <2> QED BY <1>5, <2>1, <2>2 DEF Enlist, Refer
<1>6. ASSUME NEW p \in Deleters, Purge(p) PROVE IInv'
  BY <1>6, PurgeStep
<1>7. ASSUME NEW p \in Deleters, PurgeRow(p) PROVE IInv'
  BY <1>7, PurgeRowStep
<1>8. ASSUME NEW p \in Deleters, PurgeEnd(p) PROVE IInv'
  BY <1>8, PurgeEndStep
<1>9. ASSUME NEW r \in Solicits, Mail(r) PROVE IInv'
  <2>1. CASE Rollback(r, "email_delivery_failed")
    BY <1>9, <2>1, RollbackStep DEF Mail, Busy, Transactions, Requests
  <2>2. CASE Goto(r, "commit") /\ UNCHANGED locks
    BY <1>9, <2>2, MailSentStep DEF Mail
  <2> QED
    BY <1>9, <2>1, <2>2 DEF Mail
<1>10. ASSUME NEW r \in Solicits, SolicitCommit(r) PROVE IInv'
  BY <1>10, SolicitCommitStep
<1>11. ASSUME NEW c \in Redeems, NEW t \in Solicits, RedeemBegin(c, t) PROVE IInv'
  BY <1>11, RedeemBeginStep
<1>12. ASSUME NEW c \in Redeems, RedeemSelect(c) PROVE IInv'
  <2>1. CASE Goto(c, "magic_link_invalid") /\ UNCHANGED linkLock
    BY <1>12, <1>q, <2>1 DEF RedeemSelect, Quiet, Answers, Transactions, Requests
  <2>2. CASE /\ Goto(c, "holder")
             /\ link[ticket[c]] = "live" /\ linkLock[ticket[c]] = None
             /\ linkLock' = [linkLock EXCEPT ![ticket[c]] = c]
    BY <1>12, <2>2, RedeemLockStep DEF RedeemSelect, Goto
  <2> QED
    BY <1>12, <2>1, <2>2 DEF RedeemSelect
<1>13. ASSUME NEW c \in Redeems, RedeemHolder(c) PROVE IInv'
  <2>1. CASE Goto(c, "allowed") /\ UNCHANGED locks
    BY <1>13, <2>1, RedeemCheckStep DEF RedeemHolder
  <2>2. CASE Rollback(c, "user_missing")
    BY <1>13, <2>2, RollbackStep DEF RedeemHolder, Busy, Transactions, Requests
  <2> QED
    BY <1>13, <2>1, <2>2 DEF RedeemHolder
<1>14. ASSUME NEW c \in Redeems, RedeemAllowed(c) PROVE IInv'
  <2>1. CASE Goto(c, "commit") /\ UNCHANGED locks /\ box[ticket[c]] \in allow
    BY <1>14, <2>1, RedeemCheckStep DEF RedeemAllowed
  <2>2. CASE Rollback(c, "magic_login_revoked")
    BY <1>14, <2>2, RollbackStep DEF RedeemAllowed, Busy, Transactions, Requests
  <2> QED
    BY <1>14, <2>1, <2>2 DEF RedeemAllowed
<1>15. ASSUME NEW c \in Redeems, RedeemCommit(c) PROVE IInv'
  BY <1>15, RedeemCommitStep
<1>16. ASSUME NEW a \in Admins, NEW m \in Mailboxes, GrantBegin(a, m) \/ RevokeBegin(a, m) PROVE IInv'
  <2>1. PICK l \in {"grant_check", "user_not_found", "revoke"} : Goto(a, l)
    BY <1>16 DEF GrantBegin, RevokeBegin
  <2> QED
    BY <1>16, <2>1, QuietStep
    DEF GrantBegin, RevokeBegin, Goto, Quiet, Busy, Holding, Answers, Transactions, Requests
<1>17. ASSUME NEW a \in Admins, GrantCheck(a) \/ Unlist(a) PROVE IInv'
  <2>1. PICK l \in {"noop", "grant", "not_on_allowlist", "purge"} : Goto(a, l)
    BY <1>17 DEF GrantCheck, Unlist
  <2> QED BY <1>17, <1>p, <1>q, <2>1 DEF GrantCheck, Unlist, Quiet, Busy, Holding, Answers
<1>18. ASSUME NEW a \in Admins, GrantCommit(a) PROVE IInv'
  <2>1. linkLock' = linkLock
    BY <1>18, NoneFreed DEF GrantCommit, Release, Deleters
  <2> QED BY <1>18, <1>p, <1>q, <2>1 DEF GrantCommit, Quiet, Busy, Holding, Answers
<1>19. ASSUME NEW s \in Seeds, SeedBegin(s) \/ SeedStep(s) PROVE IInv'
  <2>1. CASE Rollback(s, "error") /\ (SeedMail(s) \/ SeedUnlist(s))
    BY <1>19, <1>p, <1>r, <2>1
    DEF SeedMail, SeedUnlist, Busy
  <2>2. CASE SeedCommit(s)
    <3>1. linkLock' = linkLock
      BY <2>2, NoneFreed DEF SeedCommit, Release
    <3> QED BY <2>2, <1>p, <1>q, <3>1 DEF SeedCommit, Quiet, Busy, Holding, Answers
  <2>3. CASE /\ UNCHANGED linkLock /\ ~SeedCommit(s)
             /\ \E l \in {"seed_row", "seed_mail", "seed_unlist", "seed_allow", "seed_commit"} : Goto(s, l)
    <3>1. /\ UNCHANGED <<tables, box, ticket, seen>>
          /\ pc[s] \in {"idle", "seed_row", "seed_mail", "seed_unlist", "seed_allow"}
      BY <1>19, <2>3 DEF SeedBegin, SeedStep, SeedRow, SeedMail, SeedUnlist, SeedAllow
    <3> QED BY <1>p, <1>q, <2>3, <3>1 DEF Quiet, Busy, Holding, Answers
  <2>4. CASE ~SeedCommit(s) /\ ~Rollback(s, "error")
    BY <1>19, <2>3, <2>4 DEF SeedBegin, SeedStep, SeedRow, SeedMail, SeedUnlist, SeedAllow
  <2>5. CASE SeedBegin(s) \/ SeedRow(s) \/ SeedAllow(s)
    BY <2>2, <2>3, <2>5 DEF SeedBegin, SeedRow, SeedAllow
  <2> QED BY <1>19, <2>1, <2>2, <2>4, <2>5 DEF SeedStep
<1>20. ASSUME NEW a \in Admins, RevokeCommit(a) PROVE IInv'
  BY <1>20, RevokeCommitStep
<1>21. ASSUME NEW p \in Transactions, Abort(p) PROVE IInv'
  BY <1>21, RollbackStep DEF Abort
<1>22. ASSUME UNCHANGED <<link, linkLock, sessions, ticket, seen, pc, box>>,
              allow \subseteq allow'
       PROVE  IInv'
  BY <1>22 DEF IInv, LockedIsLive, RedeemHolds, DeleterHolds, RowsExist,
     FoundRowsHeld, SessionsPaid, SingleUse, PurgeHolds, LateSessionIsUnseen
<1>24. ASSUME NEW r \in Solicits, Expire(r) PROVE IInv'
  BY <1>22, <1>24 DEF Expire
<1>25. CASE UNCHANGED vars
  BY <1>22, <1>25 DEF vars
<1> QED
  BY <1>1, <1>2, <1>3, <1>4, <1>5, <1>6, <1>7, <1>8, <1>9, <1>10, <1>11,
     <1>12, <1>13, <1>14, <1>15, <1>16, <1>17, <1>18, <1>19, <1>20, <1>21,
     <1>24, <1>25
  DEF Next, SolicitStep, RedeemStep, AdminStep, SeedStep, Deleters, Transactions, Requests

\* The invariant holds in every reachable state.
THEOREM Invariant == Spec => []IInv
<1>1. Init => IInv
  <2> SUFFICES ASSUME Init PROVE IInv
    OBVIOUS
  <2>1. TypeOK
    BY InitType DEF TInv
  <2> QED
    BY <2>1, RequestKinds
    DEF Init, IInv, LockedIsLive, RedeemHolds, DeleterHolds, RowsExist, Holding,
        FoundRowsHeld, SessionsPaid, SingleUse, PurgeHolds, LateSessionIsUnseen,
        Transactions, Requests, Deleters
<1> QED
  BY <1>1, InductiveStep, TypeCorrect, PTL DEF Spec

\* A link pays for at most one session, whatever redeems race for it.
THEOREM LinksAreSingleUse == Spec => []SingleUse
BY Invariant, PTL DEF IInv

\* An accepted solicit and a completed revoke ended every link they found.
THEOREM PurgesAreComplete == Spec => []PurgeHolds
BY Invariant, PTL DEF IInv

\* A revoke lets no session through for a link it found.
THEOREM LateSessionsAreUnseen == Spec => []LateSessionIsUnseen
BY Invariant, PTL DEF IInv

-----------------------------------------------------------------------------
\* A step that changes a link or completes a revoke is a commit.
LEMMA LinkChanges ==
  ASSUME IInv, Next
  PROVE  \/ UNCHANGED <<link, sessions>> /\ \A a \in Admins : pc'[a] = "revoked" <=> pc[a] = "revoked"
         \/ \E r \in Solicits : SolicitCommit(r)
         \/ \E c \in Redeems : RedeemCommit(c)
         \/ \E a \in Admins : RevokeCommit(a)
<1> SUFFICES ASSUME ~\E a \in Admins : RevokeCommit(a)
             PROVE  \/ \E r \in Solicits : SolicitCommit(r)
                    \/ \E c \in Redeems : RedeemCommit(c)
                    \/ /\ UNCHANGED <<link, sessions>>
                       /\ \A a \in Admins : pc'[a] = "revoked" <=> pc[a] = "revoked"
  OBVIOUS
<1>1. \/ \E r \in Solicits : SolicitCommit(r)
      \/ \E c \in Redeems : RedeemCommit(c)
      \/ UNCHANGED <<link, sessions>>
  <2> USE DEF tables
  <2>1. ASSUME NEW r \in Solicits, SolicitStep(r) \/ Expire(r)
        PROVE  SolicitCommit(r) \/ UNCHANGED <<link, sessions>>
    BY <2>1 DEF SolicitStep, Provision, InsertRow, InsertMail, Reread, Screen, Enlist, Refer, Purge,
       PurgeRow, PurgeEnd, Mail, Expire
  <2>2. ASSUME NEW c \in Redeems, RedeemStep(c) \/ \E t \in Solicits : RedeemBegin(c, t)
        PROVE  RedeemCommit(c) \/ UNCHANGED <<link, sessions>>
    BY <2>2 DEF RedeemStep, RedeemBegin, RedeemSelect, RedeemHolder, RedeemAllowed
  <2>3. ASSUME NEW a \in Admins, AdminStep(a) PROVE UNCHANGED <<link, sessions>>
    BY <2>3 DEF AdminStep, GrantCheck, Enlist, Refer, GrantCommit, Unlist, Purge, PurgeRow, PurgeEnd
  <2>4. ASSUME NEW s \in Seeds, SeedBegin(s) \/ SeedStep(s) PROVE UNCHANGED <<link, sessions>>
    BY <2>4 DEF SeedBegin, SeedStep, SeedRow, SeedMail, SeedUnlist, SeedAllow, SeedCommit
  <2>5. CASE \/ \E r \in Solicits, m \in Mailboxes : SolicitBegin(r, m)
             \/ \E a \in Admins, m \in Mailboxes : GrantBegin(a, m) \/ RevokeBegin(a, m)
             \/ \E p \in Transactions : BadAddress(p) \/ Abort(p)
    BY <2>5 DEF SolicitBegin, GrantBegin, RevokeBegin, BadAddress, Abort
  <2> QED BY <2>1, <2>2, <2>3, <2>4, <2>5 DEF Next, Transactions, Requests
<1>2. \A a \in Admins : pc'[a] = "revoked" <=> pc[a] = "revoked"
  <2>0. DOMAIN pc = Transactions /\ "revoked" \notin Busy
    BY DEF IInv, TypeOK, Busy
  <2>1. CASE \E p \in Transactions : \E l : pc[p] # "revoked" /\ l # "revoked" /\ pc' = [pc EXCEPT ![p] = l]
    BY <2>0, <2>1
  <2>2. CASE \E s \in Seeds : SeedBegin(s) \/ SeedStep(s) \/ Abort(s)
    <3>1. PICK s \in Seeds : \E l : pc' = [pc EXCEPT ![s] = l]
      BY <2>2 DEF SeedBegin, SeedStep, SeedRow, SeedMail, SeedUnlist, SeedAllow, SeedCommit, Abort,
         Rollback, Goto
    <3> QED BY <2>0, <3>1, RequestKinds DEF Transactions, Requests
  <2> QED BY <2>0, <2>1, <2>2, Moves DEF Transactions, Requests, Deleters
<1> QED BY <1>1, <1>2

\* A link's mailbox and a used link's redeem are settled once it exists.
LEMMA Settled ==
  ASSUME IInv, Next
  PROVE  /\ \A r \in Solicits : link[r] # "none" => box'[r] = box[r]
         /\ \A c \in sessions : ticket'[c] = ticket[c]
<1> USE RequestKinds DEF IInv, TypeOK, Transactions, Requests, locals, tables, locks, Deleters
<1>1. ASSUME NEW r \in Solicits, link[r] # "none", box' # box
      PROVE  box'[r] = box[r]
  <2>1. PICK p \in Transactions, m \in Mailboxes :
          pc[p] = "idle" /\ box' = [box EXCEPT ![p] = m]
    BY <1>1, Moves
    DEF SeedBegin, SeedStep, SeedRow, SeedMail, SeedUnlist, SeedAllow, SeedCommit, Abort
  <2>2. r # p
    BY <1>1, <2>1 DEF RowsExist
  <2> QED
    BY <2>1, <2>2
<1>2. ASSUME NEW c \in sessions, ticket' # ticket
      PROVE  ticket'[c] = ticket[c]
  <2>1. PICK d \in Redeems, t \in Solicits :
          pc[d] = "idle" /\ ticket' = [ticket EXCEPT ![d] = t]
    <3>1. ASSUME NEW r \in Solicits, SolicitStep(r) \/ Expire(r) PROVE UNCHANGED ticket
      BY <3>1 DEF SolicitStep, Provision, InsertRow, InsertMail, Reread, Screen, Enlist, Refer, Purge,
         PurgeRow, PurgeEnd, Mail, SolicitCommit, Expire
    <3>2. ASSUME NEW d \in Redeems, RedeemStep(d) PROVE UNCHANGED ticket
      BY <3>2 DEF RedeemStep, RedeemSelect, RedeemHolder, RedeemAllowed, RedeemCommit
    <3>3. ASSUME NEW a \in Admins, AdminStep(a) PROVE UNCHANGED ticket
      BY <3>3 DEF AdminStep, GrantCheck, Enlist, Refer, GrantCommit, Unlist, Purge, PurgeRow, PurgeEnd,
         RevokeCommit
    <3>4. ASSUME NEW s \in Seeds, SeedBegin(s) \/ SeedStep(s) PROVE UNCHANGED ticket
      BY <3>4 DEF SeedBegin, SeedStep, SeedRow, SeedMail, SeedUnlist, SeedAllow, SeedCommit
    <3>5. CASE \/ \E r \in Solicits, m \in Mailboxes : SolicitBegin(r, m)
               \/ \E a \in Admins, m \in Mailboxes : GrantBegin(a, m) \/ RevokeBegin(a, m)
               \/ \E p \in Transactions : BadAddress(p) \/ Abort(p)
      BY <1>2, <3>5 DEF SolicitBegin, GrantBegin, RevokeBegin, BadAddress, Abort
    <3>6. CASE \E d \in Redeems, t \in Solicits : RedeemBegin(d, t)
      BY <3>6 DEF RedeemBegin
    <3> QED BY <1>2, <3>1, <3>2, <3>3, <3>4, <3>5, <3>6 DEF Next
  <2>2. c # d
    BY <2>1 DEF SessionsPaid
  <2> QED
    BY <2>1, <2>2
<1> QED
  BY <1>1, <1>2

\* No step brings a used or deleted link back.
THEOREM DeadLinksStayDeadAlways == Spec => DeadLinksStayDead
<1>1. IInv /\ TypeOK' /\ [Next]_vars =>
        [\A q \in Solicits :
           link[q] \in {"consumed", "purged"} => link'[q] = link[q]]_vars
  <2> SUFFICES ASSUME IInv, TypeOK', Next,
                      NEW q \in Solicits, link[q] \in {"consumed", "purged"}
               PROVE  link'[q] = link[q]
    OBVIOUS
  <2> USE RequestKinds DEF IInv, TypeOK, Transactions, Requests
  <2>1. CASE UNCHANGED <<link, sessions>>
    BY <2>1
  <2>2. linkLock[q] = None
    BY DEF LockedIsLive
  <2>3. ASSUME NEW r \in Solicits, SolicitCommit(r) PROVE link'[q] = link[q]
    BY <2>2, <2>3 DEF SolicitCommit, RowsExist
  <2>4. ASSUME NEW c \in Redeems, RedeemCommit(c) PROVE link'[q] = link[q]
    BY <2>4, HeldLink DEF RedeemCommit, Holding
  <2>5. ASSUME NEW a \in Admins, RevokeCommit(a) PROVE link'[q] = link[q]
    BY <2>2, <2>5 DEF RevokeCommit
  <2> QED
    BY <2>1, <2>3, <2>4, <2>5, LinkChanges
<1> QED
  BY <1>1, Invariant, TypeCorrect, PTL DEF Spec, DeadLinksStayDead

-----------------------------------------------------------------------------
\* Every behaviour of the requests is a behaviour of the ledger: a solicit's
\* commit issues its link and voids the rows it holds, a revoke's voids those it holds, a
\* redeem's spends, and no other step moves the ledger.
THEOREM LedgerRefined == Spec => LedgerKept
<1> DEFINE owner == [r \in Solicits |-> IF link[r] = "none" THEN "nobody" ELSE box[r]]
           spent == [r \in Solicits |-> {c \in sessions : ticket[c] = r}]
           done == {a \in Admins : pc[a] = "revoked"}
<1>1. Init => Ledger!Init
  BY DEF Init, Ledger!Init, Transactions, Requests
<1>2. IInv /\ TInv /\ [Next]_vars => [Ledger!Next]_(Ledger!ledger)
  <2> SUFFICES ASSUME IInv, BoxKnown, [Next]_vars
               PROVE  Ledger!Next \/ UNCHANGED <<link, owner, spent, done>>
    BY DEF Ledger!ledger, TInv
  <2> USE RequestKinds DEF IInv, TypeOK, Transactions, Requests
  <2>1. CASE UNCHANGED vars
    BY <2>1 DEF vars, tables, locals
  <2>2. CASE /\ Next /\ UNCHANGED <<link, sessions>>
             /\ \A a \in Admins : pc'[a] = "revoked" <=> pc[a] = "revoked"
    <3>1. owner' = owner
      BY <2>2, Settled
    <3>2. spent' = spent
      BY <2>2, Settled
    <3>3. done' = done
      BY <2>2
    <3> QED
      BY <2>2, <3>1, <3>2, <3>3
  <2>3. ASSUME NEW r \in Solicits, SolicitCommit(r) PROVE Ledger!Next
    <3>0. PICK m \in Mailboxes, V \in SUBSET Solicits :
            m = box[r] /\ V = {q \in Solicits : linkLock[q] = r}
      <4>1. box[r] \in Mailboxes
        BY <2>3 DEF SolicitCommit, BoxKnown, Deleters, Busy
      <4> QED
        BY <4>1
    <3>1. box' = box /\ ticket' = ticket /\ sessions' = sessions
      BY <2>3 DEF SolicitCommit, locals
    <3>2. V \subseteq Ledger!LiveFor(m)
      <4>1. \A q \in V : link[q] = "live" /\ box[q] = m
        <5>1. r # None
          OBVIOUS
        <5> QED
          BY <3>0, <5>1 DEF LockedIsLive, DeleterHolds, Deleters
      <4>2. \A q \in V : link[q] = "live" /\ owner[q] = m
        BY <4>1
      <4> HIDE DEF IInv, TypeOK, Transactions, Requests
      <4> QED
        BY <4>2 DEF Ledger!LiveFor
    <3>3. link[r] = "none"
      BY <2>3 DEF SolicitCommit, RowsExist
    <3>4. link' = [Ledger!Voided(V) EXCEPT ![r] = "live"]
      BY <2>3, <3>0, <3>3 DEF SolicitCommit, Ledger!Voided
    <3>5. owner' = [owner EXCEPT ![r] = m]
      <4>1. \A q \in Solicits : q # r => (link'[q] = "none" <=> link[q] = "none")
        BY <2>3, <3>1 DEF SolicitCommit, LockedIsLive
      <4>2. link'[r] = "live"
        BY <2>3 DEF SolicitCommit
      <4>3. \A q \in Solicits : owner'[q] = IF q = r THEN m ELSE owner[q]
        BY <3>0, <3>1, <4>1, <4>2
      <4> QED
        BY <4>3
    <3>6. spent' = spent
      BY <3>1
    <3>7. done' = done
      BY <2>3 DEF SolicitCommit, Goto
    <3>8. Ledger!Issue(r, m, V)
      BY <3>2, <3>3, <3>4, <3>5, <3>6, <3>7 DEF Ledger!Issue
    <3> HIDE DEF IInv, TypeOK, Transactions, Requests
    <3> QED
      BY <3>8 DEF Ledger!Next
  <2>4. ASSUME NEW a \in Admins, RevokeCommit(a) PROVE Ledger!Next
    <3>0. PICK m \in Mailboxes, V \in SUBSET Solicits :
            m = box[a] /\ V = {q \in Solicits : linkLock[q] = a}
      <4>1. box[a] \in Mailboxes
        BY <2>4 DEF RevokeCommit, BoxKnown, Deleters, Busy
      <4> QED
        BY <4>1
    <3>1. box' = box /\ ticket' = ticket /\ sessions' = sessions
      BY <2>4 DEF RevokeCommit, locals
    <3>2. V \subseteq Ledger!LiveFor(m)
      <4>1. \A q \in V : link[q] = "live" /\ box[q] = m
        <5>1. a # None
          OBVIOUS
        <5> QED
          BY <3>0, <5>1 DEF LockedIsLive, DeleterHolds, Deleters
      <4>2. \A q \in V : link[q] = "live" /\ owner[q] = m
        BY <4>1
      <4> HIDE DEF IInv, TypeOK, Transactions, Requests
      <4> QED
        BY <4>2 DEF Ledger!LiveFor
    <3>3. link' = Ledger!Voided(V)
      BY <2>4, <3>0 DEF RevokeCommit, Ledger!Voided
    <3>4. owner' = owner
      BY <2>4, <3>0, <3>1, <3>3 DEF Ledger!Voided, LockedIsLive
    <3>5. spent' = spent
      BY <3>1
    <3>6. a \notin done /\ done' = done \cup {a}
      BY <2>4 DEF RevokeCommit, Goto
    <3>7. Ledger!Revoke(a, m, V)
      BY <3>2, <3>3, <3>4, <3>5, <3>6 DEF Ledger!Revoke
    <3> HIDE DEF IInv, TypeOK, Transactions, Requests
    <3> QED
      BY <3>7 DEF Ledger!Next
  <2>5. ASSUME NEW c \in Redeems, RedeemCommit(c) PROVE Ledger!Next
    <3>1. PICK t \in Solicits : t = ticket[c] /\ link[t] = "live"
      BY <2>5, HeldLink DEF RedeemCommit, Holding
    <3>2. c \notin sessions
      BY <2>5 DEF RedeemCommit, SessionsPaid
    <3>3. box' = box /\ ticket' = ticket /\ sessions' = sessions \cup {c}
      BY <2>5 DEF RedeemCommit, locals
    <3>4. link' = [link EXCEPT ![t] = "consumed"]
      BY <2>5, <3>1 DEF RedeemCommit
    <3>5. owner' = owner
      BY <3>1, <3>3, <3>4
    <3>6. {d \in sessions : ticket[d] = t} = {}
      BY <3>1 DEF SingleUse
    <3>7. spent' = [spent EXCEPT ![t] = {c}]
      <4>1. \A u \in Solicits : {d \in sessions' : ticket'[d] = u} =
              IF u = t THEN {c} ELSE {d \in sessions : ticket[d] = u}
        BY <3>1, <3>3, <3>6
      <4> HIDE DEF IInv, TypeOK, Transactions, Requests
      <4> QED
        BY <4>1
    <3>8. \A u \in Solicits : c \notin spent[u]
      BY <3>2
    <3>9. done' = done
      BY <2>5 DEF RedeemCommit, Goto
    <3>10. Ledger!Spend(t, c)
      BY <3>1, <3>4, <3>5, <3>7, <3>8, <3>9 DEF Ledger!Spend
    <3> HIDE DEF IInv, TypeOK, Transactions, Requests
    <3> QED
      BY <3>10 DEF Ledger!Next
  <2> QED
    BY <2>1, <2>2, <2>3, <2>4, <2>5, LinkChanges
<1> QED
  BY <1>1, <1>2, Invariant, TypesAndPlaces, PTL DEF Spec, LedgerKept, Ledger!Spec

-----------------------------------------------------------------------------
\* Accounts.  A request that wrote a row of users and has not ended is a solicit past
\* its INSERT, and the account is not there yet: neither its handle nor its mailbox.
HasRow == {"insert_mail", "screen", "enlist", "refer", "purge", "purging", "mail", "commit"}
HasMail == HasRow \ {"insert_mail"}

RowHeld(p) ==
  /\ \A h \in Handles : rowLock[h] = p =>
       p \in Solicits /\ pc[p] \in HasRow /\ row[p] = h /\ ~Taken(h)
  /\ \A m \in Mailboxes : mailLock[m] = p =>
       /\ p \in Solicits /\ pc[p] \in HasMail /\ box[p] = m /\ m \notin users
       /\ row[p] \in Handles /\ rowLock[row[p]] = p
  /\ pc[p] = "insert" => row[p] \in Handles
  /\ pc[p] = "insert_mail" => row[p] \in Handles /\ rowLock[row[p]] = p

\* Entries of the roster whose row the script has locked, and whose mailbox it has.
Scripted == {"seed_row", "seed_mail", "seed_unlist", "seed_allow", "seed_commit"}
Written(s) ==
  {i \in 1..Len(Roster) : /\ pc[s] \in Scripted
                          /\ i < entry[s] \/ (i = entry[s] /\ pc[s] # "seed_row")}
Given(s) ==
  {i \in 1..Len(Roster) : /\ pc[s] \in Scripted
                          /\ i < entry[s] \/ (i = entry[s] /\ pc[s] \notin {"seed_row", "seed_mail"})}

\* The script has locked the accounts and mailboxes it touched, and whose account
\* it changes: the mailbox it gives is free or of an account it moves.
SeedHeld(s) ==
  /\ \A i \in Written(s) :
       /\ rowLock[Roster[i].handle] = s
       /\ \A m \in Mailboxes : handle[m] = Roster[i].handle => mailLock[m] = s
  /\ \A i \in Given(s) :
       /\ mailLock[Roster[i].mail] = s
       /\ handle[Roster[i].mail] = None \/ \E j \in Written(s) : handle[Roster[i].mail] = Roster[j].handle
  /\ \A m \in users : mailLock[m] = s => rowLock[handle[m]] = s

\* The account that a redeem found is there for good, whatever its mailbox.
Found(c) == pc[c] \in {"allowed", "commit"} => row[c] \in Handles /\ Taken(row[c])

AInv ==
  /\ \A p \in Requests : RowHeld(p)
  /\ \A s \in Seeds : SeedHeld(s)
  /\ \A c \in Redeems : Found(c)

\* A step of p that takes nothing from anybody else, and changes only accounts whose
\* mailbox and, if they get one, whose handle it has locked.
LEMMA OnlyItsOwn ==
  ASSUME TypeOK, TypeOK', AInv, NEW p \in Transactions,
         \A q \in Transactions : q # p => pc'[q] = pc[q] /\ box'[q] = box[q],
         \A q \in Requests : q # p => row'[q] = row[q],
         \A s \in Seeds : s # p => entry'[s] = entry[s],
         \A h \in Handles, q \in Transactions : q # p => (rowLock'[h] = q <=> rowLock[h] = q),
         \A m \in Mailboxes, q \in Transactions : q # p => (mailLock'[m] = q <=> mailLock[m] = q),
         \A m \in Mailboxes : handle'[m] # handle[m] =>
           mailLock[m] = p /\ (handle'[m] # None => rowLock[handle'[m]] = p),
         \A h \in Handles : Taken(h) => Taken(h)',
         p \in Requests => RowHeld(p)',
         p \in Seeds => SeedHeld(p)',
         p \in Redeems => Found(p)'
  PROVE  AInv'
<1> USE RequestKinds DEF Transactions, Requests
<1>1. ASSUME NEW q \in Requests, q # p PROVE RowHeld(q)'
  <2>0. RowHeld(q) /\ pc'[q] = pc[q] /\ box'[q] = box[q] /\ row'[q] = row[q] /\ q \in Transactions
    BY <1>1 DEF AInv
  <2>1. ASSUME NEW h \in Handles, rowLock'[h] = q
        PROVE  q \in Solicits /\ pc'[q] \in HasRow /\ row'[q] = h /\ ~Taken(h)'
    <3>1. rowLock[h] = q /\ q \in Solicits /\ pc[q] \in HasRow /\ row[q] = h /\ ~Taken(h)
      BY <1>1, <2>0, <2>1 DEF RowHeld
    <3>2. ASSUME NEW m \in Mailboxes, handle'[m] = h PROVE FALSE
      <4>1. handle[m] # h /\ h # None
        BY <3>1 DEF Taken
      <4>2. rowLock[h] = p
        BY <3>2, <4>1
      <4> QED BY <1>1, <3>1, <4>2
    <3> QED BY <2>0, <3>1, <3>2 DEF Taken
  <2>2. ASSUME NEW m \in Mailboxes, mailLock'[m] = q
        PROVE  /\ q \in Solicits /\ pc'[q] \in HasMail /\ box'[q] = m /\ m \notin users'
               /\ row'[q] \in Handles /\ rowLock'[row'[q]] = q
    <3>1. /\ mailLock[m] = q /\ q \in Solicits /\ pc[q] \in HasMail /\ box[q] = m /\ m \notin users
          /\ row[q] \in Handles /\ rowLock[row[q]] = q
      BY <1>1, <2>0, <2>2 DEF RowHeld
    <3>2. handle'[m] = handle[m] /\ rowLock'[row[q]] = q
      BY <1>1, <2>0, <3>1
    <3> QED BY <2>0, <3>1, <3>2 DEF users
  <2>3. /\ pc'[q] = "insert" => row'[q] \in Handles
        /\ pc'[q] = "insert_mail" => row'[q] \in Handles /\ rowLock'[row'[q]] = q
    <3>1. CASE pc[q] = "insert"
      BY <2>0, <3>1 DEF RowHeld
    <3>2. CASE pc[q] = "insert_mail"
      <4>1. row[q] \in Handles /\ rowLock[row[q]] = q
        BY <2>0, <3>2 DEF RowHeld
      <4>2. rowLock'[row[q]] = q
        BY <1>1, <2>0, <4>1
      <4> QED BY <2>0, <3>2, <4>1, <4>2
    <3> QED BY <2>0, <3>1, <3>2
  <2> QED BY ONLY <2>1, <2>2, <2>3 DEF RowHeld
<1>2. ASSUME NEW s \in Seeds, s # p PROVE SeedHeld(s)'
  <2>a. SeedHeld(s) /\ s \in Transactions /\ pc'[s] = pc[s] /\ entry'[s] = entry[s]
    BY <1>2 DEF AInv
  <2>0. SeedHeld(s) /\ s \in Transactions /\ Written(s)' = Written(s) /\ Given(s)' = Given(s)
    BY <2>a DEF Written, Given
  <2>1. ASSUME NEW i \in Written(s)
        PROVE  /\ rowLock'[Roster[i].handle] = s
               /\ \A m \in Mailboxes : handle'[m] = Roster[i].handle => mailLock'[m] = s
    <3>1. Roster[i].handle \in Handles /\ Roster[i].handle # None
      BY RosterRows DEF Written
    <3>2. rowLock[Roster[i].handle] = s
      BY <2>0 DEF SeedHeld
    <3>3. ASSUME NEW m \in Mailboxes, handle'[m] = Roster[i].handle PROVE mailLock'[m] = s
      <4>1. handle[m] = Roster[i].handle
        BY <1>2, <3>1, <3>2, <3>3
      <4>2. mailLock[m] = s
        BY <2>0, <4>1 DEF SeedHeld
      <4> QED BY <1>2, <2>0, <4>2
    <3>4. rowLock'[Roster[i].handle] = s
      BY <1>2, <2>0, <3>1, <3>2
    <3> QED BY <3>3, <3>4
  <2>2. ASSUME NEW i \in Given(s)
        PROVE  /\ mailLock'[Roster[i].mail] = s
               /\ \/ handle'[Roster[i].mail] = None
                  \/ \E j \in Written(s) : handle'[Roster[i].mail] = Roster[j].handle
    <3>1. Roster[i].mail \in Mailboxes
      BY RosterRows DEF Given
    <3>2. mailLock[Roster[i].mail] = s
      BY <2>0 DEF SeedHeld
    <3>3. handle'[Roster[i].mail] = handle[Roster[i].mail]
      BY <1>2, <3>1, <3>2
    <3> QED BY <1>2, <2>0, <3>1, <3>2, <3>3 DEF SeedHeld
  <2>3. ASSUME NEW m \in users', mailLock'[m] = s PROVE rowLock'[handle'[m]] = s
    <3>1. m \in Mailboxes /\ mailLock[m] = s
      BY <1>2, <2>0, <2>3 DEF users
    <3>2. handle'[m] = handle[m] /\ handle[m] # None /\ handle[m] \in Handles
      BY <1>2, <2>3, <3>1 DEF users, TypeOK
    <3>3. rowLock[handle[m]] = s
      BY <2>0, <3>1, <3>2 DEF SeedHeld, users
    <3> QED BY <1>2, <2>0, <3>2, <3>3
  <2> QED BY ONLY <2>0, <2>1, <2>2, <2>3 DEF SeedHeld
<1>3. ASSUME NEW c \in Redeems, c # p PROVE Found(c)'
  <2>1. Found(c) /\ pc'[c] = pc[c] /\ row'[c] = row[c]
    BY <1>3 DEF AInv
  <2> QED BY <2>1 DEF Found
<1>4. \A q \in Requests : RowHeld(q)'
  BY <1>1
<1>5. \A s \in Seeds : SeedHeld(s)'
  BY <1>2
<1>6. \A c \in Redeems : Found(c)'
  BY <1>3
<1> QED BY ONLY <1>4, <1>5, <1>6 DEF AInv

\* A statement of p that writes no row of users.
LEMMA NoAccountWritten ==
  ASSUME TypeOK, TypeOK', AInv, NEW p \in Transactions, NEW l, pc' = [pc EXCEPT ![p] = l],
         UNCHANGED <<handle, rowLock, mailLock>>,
         \A q \in Transactions : q # p => box'[q] = box[q],
         \A q \in Requests : q # p => row'[q] = row[q],
         \A s \in Seeds : s # p => entry'[s] = entry[s],
         p \in Solicits =>
           /\ pc[p] \in HasRow => pc[p] \in HasMail /\ l \in HasMail /\ box'[p] = box[p] /\ row'[p] = row[p]
           /\ l # "insert_mail" /\ (l = "insert" => row'[p] \in Handles),
         p \in Requests \ Solicits => l \notin {"insert", "insert_mail"},
         p \in Seeds => Written(p)' \subseteq Written(p) /\ Written(p) \subseteq Written(p)'
                          /\ Given(p)' \subseteq Given(p),
         p \in Redeems => Found(p)'
  PROVE  AInv'
<1> USE RequestKinds DEF Transactions, Requests
<1>1. pc'[p] = l /\ \A q \in Transactions : q # p => pc'[q] = pc[q]
  BY DEF TypeOK
<1>2. p \in Requests => RowHeld(p)'
  <2> SUFFICES ASSUME p \in Requests PROVE RowHeld(p)'
    OBVIOUS
  <2>0. RowHeld(p)
    BY DEF AInv
  <2>1. ASSUME NEW h \in Handles, rowLock'[h] = p
        PROVE  p \in Solicits /\ pc'[p] \in HasRow /\ row'[p] = h /\ ~Taken(h)'
    BY <1>1, <2>0, <2>1 DEF RowHeld, HasMail, Taken
  <2>2. ASSUME NEW m \in Mailboxes, mailLock'[m] = p
        PROVE  /\ p \in Solicits /\ pc'[p] \in HasMail /\ box'[p] = m /\ m \notin users'
               /\ row'[p] \in Handles /\ rowLock'[row'[p]] = p
    BY <1>1, <2>0, <2>2 DEF RowHeld, HasMail, users
  <2> QED BY <1>1, <2>1, <2>2 DEF RowHeld
<1>3. p \in Seeds => SeedHeld(p)'
  <2> SUFFICES ASSUME p \in Seeds PROVE SeedHeld(p)'
    OBVIOUS
  <2>0. SeedHeld(p) /\ Written(p)' = Written(p) /\ Given(p)' \subseteq Given(p)
    BY DEF AInv
  <2> QED BY <2>0 DEF SeedHeld, users
<1>4. \A h \in Handles : Taken(h) => Taken(h)'
  BY DEF Taken
<1> QED BY <1>1, <1>2, <1>3, <1>4, OnlyItsOwn

\* The end of p's transaction, which may have been the commit of what it wrote.
LEMMA Ended ==
  ASSUME TypeOK, TypeOK', AInv, NEW p \in Transactions, NEW l \in Answers \cup {"reread"},
         Goto(p, l), Release(p), UNCHANGED <<box, entry>>,
         \A q \in Requests : q # p => row'[q] = row[q],
         \A m \in Mailboxes : handle'[m] # handle[m] =>
           mailLock[m] = p /\ (handle'[m] # None => rowLock[handle'[m]] = p),
         \A h \in Handles : Taken(h) => Taken(h)'
  PROVE  AInv'
<1> USE RequestKinds DEF Transactions, Requests
<1>1. pc'[p] = l /\ \A q \in Transactions : q # p => pc'[q] = pc[q]
  BY DEF TypeOK, Goto
<1>2. /\ \A h \in Handles : rowLock'[h] = IF rowLock[h] = p THEN None ELSE rowLock[h]
      /\ \A m \in Mailboxes : mailLock'[m] = IF mailLock[m] = p THEN None ELSE mailLock[m]
  BY DEF Release, Freed, TypeOK
<1>3. l \notin HasRow \cup Scripted \cup {"insert", "allowed", "commit"} /\ p # None
  BY DEF Answers, HasRow, Scripted
<1>4. p \in Requests => RowHeld(p)'
  BY <1>1, <1>2, <1>3 DEF RowHeld, HasRow
<1>5. p \in Seeds => SeedHeld(p)'
  <2>1. p \in Seeds => Written(p)' = {} /\ Given(p)' = {}
    BY <1>1, <1>3 DEF Written, Given
  <2>2. \A m \in Mailboxes : mailLock'[m] # p
    BY <1>2, <1>3
  <2> QED BY <2>1, <2>2 DEF SeedHeld, users
<1>6. p \in Redeems => Found(p)'
  BY <1>1, <1>3 DEF Found
<1>7. /\ \A h \in Handles, q \in Transactions : q # p => (rowLock'[h] = q <=> rowLock[h] = q)
      /\ \A m \in Mailboxes, q \in Transactions : q # p => (mailLock'[m] = q <=> mailLock[m] = q)
  BY <1>2
<1> QED BY <1>1, <1>4, <1>5, <1>6, <1>7, OnlyItsOwn

LEMMA RolledBack ==
  ASSUME TypeOK, TypeOK', AInv, NEW p \in Transactions, NEW l \in Answers \cup {"reread"}, Rollback(p, l),
         UNCHANGED <<handle, box, entry>>, \A q \in Requests : q # p => row'[q] = row[q]
  PROVE  AInv'
BY Ended DEF Rollback, Taken

\* The writes of users, by solicits and by the script.
LEMMA InsertStep ==
  ASSUME TInv, TypeOK', AInv, NEW r \in Solicits, InsertRow(r) \/ InsertMail(r)
  PROVE  AInv'
<1> USE RequestKinds DEF Transactions, Requests
<1>0. TypeOK /\ r \in Transactions /\ r # None /\ RowHeld(r) /\ UNCHANGED <<handle, box, entry, row>>
  BY DEF TInv, AInv, InsertRow, InsertMail, tables, locals
<1>1. CASE Rollback(r, "reread")
  BY <1>0, <1>1, RolledBack
<1>2. CASE InsertRow(r) /\ ~Rollback(r, "reread")
  <2>1. /\ pc[r] = "insert" /\ rowLock[row[r]] = None /\ ~Taken(row[r])
        /\ rowLock' = [rowLock EXCEPT ![row[r]] = r] /\ mailLock' = mailLock
        /\ pc' = [pc EXCEPT ![r] = "insert_mail"]
    BY <1>2 DEF InsertRow, Goto
  <2>2. row[r] \in Handles
    BY <1>0, <2>1 DEF RowHeld
  <2>3. /\ pc'[r] = "insert_mail" /\ \A q \in Transactions : q # r => pc'[q] = pc[q]
        /\ \A h \in Handles : rowLock'[h] = IF h = row[r] THEN r ELSE rowLock[h]
    BY <1>0, <2>1 DEF TypeOK
  <2>4. RowHeld(r)'
    <3>1. \A h \in Handles : rowLock[h] # r
      BY <1>0, <2>1 DEF RowHeld, HasRow
    <3>2. \A m \in Mailboxes : mailLock'[m] # r
      BY <1>0, <2>1 DEF RowHeld, HasRow, HasMail
    <3>3. \A h \in Handles : Taken(h)' <=> Taken(h)
      BY <1>0 DEF Taken
    <3> QED BY <1>0, <2>1, <2>2, <2>3, <3>1, <3>2, <3>3 DEF RowHeld, HasRow
  <2>5. /\ \A h \in Handles, q \in Transactions : q # r => (rowLock'[h] = q <=> rowLock[h] = q)
        /\ \A m \in Mailboxes, q \in Transactions : q # r => (mailLock'[m] = q <=> mailLock[m] = q)
    BY <2>1, <2>3
  <2>6. \A h \in Handles : Taken(h) => Taken(h)'
    BY <1>0 DEF Taken
  <2> QED BY <1>0, <2>3, <2>4, <2>5, <2>6, OnlyItsOwn
<1>3. CASE InsertMail(r) /\ ~Rollback(r, "reread")
  <2>1. /\ pc[r] = "insert_mail" /\ mailLock[box[r]] = None /\ box[r] \notin users
        /\ mailLock' = [mailLock EXCEPT ![box[r]] = r] /\ rowLock' = rowLock
        /\ pc' = [pc EXCEPT ![r] = "screen"]
    BY <1>3 DEF InsertMail, Goto
  <2>2. box[r] \in Mailboxes
    BY <2>1 DEF TInv, BoxKnown, Deleters, Busy
  <2>3. /\ pc'[r] = "screen" /\ \A q \in Transactions : q # r => pc'[q] = pc[q]
        /\ \A m \in Mailboxes : mailLock'[m] = IF m = box[r] THEN r ELSE mailLock[m]
    BY <1>0, <2>1 DEF TypeOK
  <2>4. RowHeld(r)'
    <3>1. \A m \in Mailboxes : mailLock[m] # r
      BY <1>0, <2>1 DEF RowHeld, HasMail
    <3>2. \A h \in Handles : (Taken(h)' <=> Taken(h)) /\ users' = users
      BY <1>0 DEF Taken, users
    <3>3. row[r] \in Handles /\ rowLock'[row[r]] = r
      BY <1>0, <2>1 DEF RowHeld
    <3>4. ASSUME NEW h \in Handles, rowLock'[h] = r
          PROVE  r \in Solicits /\ pc'[r] \in HasRow /\ row'[r] = h /\ ~Taken(h)'
      BY <1>0, <2>1, <2>3, <3>2, <3>4 DEF RowHeld, HasRow
    <3>5. ASSUME NEW m \in Mailboxes, mailLock'[m] = r
          PROVE  /\ r \in Solicits /\ pc'[r] \in HasMail /\ box'[r] = m /\ m \notin users'
                 /\ row'[r] \in Handles /\ rowLock'[row'[r]] = r
      <4>1. m = box[r]
        BY <2>3, <3>1, <3>5
      <4> QED BY <1>0, <2>1, <2>3, <3>2, <3>3, <4>1 DEF HasMail, HasRow
    <3> QED BY <2>3, <3>4, <3>5 DEF RowHeld
  <2>5. /\ \A h \in Handles, q \in Transactions : q # r => (rowLock'[h] = q <=> rowLock[h] = q)
        /\ \A m \in Mailboxes, q \in Transactions : q # r => (mailLock'[m] = q <=> mailLock[m] = q)
    BY <2>1, <2>3
  <2>6. \A h \in Handles : Taken(h) => Taken(h)'
    BY <1>0 DEF Taken
  <2> QED BY <1>0, <2>3, <2>4, <2>5, <2>6, OnlyItsOwn
<1> QED BY <1>1, <1>2, <1>3

LEMMA SolicitCommits ==
  ASSUME TInv, TypeOK', AInv, NEW r \in Solicits, SolicitCommit(r)
  PROVE  AInv'
<1> USE RequestKinds DEF Transactions, Requests
<1>0. TypeOK /\ RowHeld(r) /\ UNCHANGED <<box, entry, row>> /\ Goto(r, "accepted") /\ Release(r)
  BY DEF TInv, AInv, SolicitCommit, locals
<1>1. \A m \in Mailboxes : handle'[m] = IF mailLock[m] = r THEN row[r] ELSE handle[m]
  BY DEF SolicitCommit
<1>2. \A m \in Mailboxes : mailLock[m] = r => rowLock[row[r]] = r /\ handle[m] = None
  BY <1>0 DEF RowHeld, users
<1>3. \A h \in Handles : Taken(h) => Taken(h)'
  BY <1>1, <1>2 DEF Taken
<1> QED BY <1>0, <1>1, <1>2, <1>3, Ended DEF Answers

LEMMA RosterDistinct == \A i, j \in 1..Len(Roster) : Roster[i].mail = Roster[j].mail => i = j
BY RosterRows, RosterKnown

LEMMA SeedCommits ==
  ASSUME TInv, TypeOK', AInv, NEW s \in Seeds, SeedCommit(s)
  PROVE  AInv'
<1> USE RequestKinds DEF Transactions, Requests
<1>0. /\ TypeOK /\ SeedHeld(s) /\ UNCHANGED <<box, entry, row>> /\ Goto(s, "seed_ok") /\ Release(s)
      /\ Written(s) = 1..Len(Roster) /\ Given(s) = 1..Len(Roster)
  <2>1. pc[s] = "seed_commit" /\ entry[s] = Len(Roster) + 1 /\ Len(Roster) \in Nat
    BY RosterRows DEF SeedCommit, TInv, EntryKnown
  <2> QED BY <2>1 DEF TInv, AInv, SeedCommit, locals, Written, Given, Scripted
<1>1. ASSUME NEW m \in Mailboxes, NEW i \in 1..Len(Roster), Roster[i].mail = m
      PROVE  handle'[m] = Roster[i].handle
  <2> DEFINE K == {Roster[j] : j \in 1..Len(Roster)}
  <2>1. handle'[m] = (CHOOSE e \in K : e.mail = m).handle
    BY <1>1 DEF SeedCommit, Upserted
  <2>2. \E e \in K : e.mail = m
    BY <1>1
  <2>3. \A e \in K : e.mail = m => e = Roster[i]
    BY <1>1, RosterDistinct
  <2> HIDE DEF K
  <2> QED BY <2>1, <2>2, <2>3
<1>2. ASSUME NEW m \in Mailboxes, ~\E i \in 1..Len(Roster) : Roster[i].mail = m
      PROVE  handle'[m] = IF \E i \in 1..Len(Roster) : Roster[i].handle = handle[m] THEN None ELSE handle[m]
  BY <1>2 DEF SeedCommit, Upserted
<1>3. ASSUME NEW m \in Mailboxes, handle'[m] # handle[m]
      PROVE  mailLock[m] = s /\ (handle'[m] # None => rowLock[handle'[m]] = s)
  <2>1. CASE \E i \in 1..Len(Roster) : Roster[i].mail = m
    BY <1>0, <1>1, <2>1 DEF SeedHeld
  <2>2. CASE ~\E i \in 1..Len(Roster) : Roster[i].mail = m
    BY <1>0, <1>2, <1>3, <2>2 DEF SeedHeld
  <2> QED BY <2>1, <2>2
<1>4. ASSUME NEW h \in Handles, Taken(h) PROVE Taken(h)'
  <2>1. PICK m \in Mailboxes : handle[m] = h
    BY <1>4 DEF Taken
  <2>2. CASE \E i \in 1..Len(Roster) : Roster[i].handle = h
    BY <1>1, <2>2, RosterRows DEF Taken
  <2>3. CASE ~\E i \in 1..Len(Roster) : Roster[i].handle = h
    <3>1. ASSUME NEW i \in 1..Len(Roster), Roster[i].mail = m PROVE FALSE
      BY <1>0, <2>1, <2>3, <3>1 DEF SeedHeld
    <3>2. handle'[m] = h
      BY <1>2, <2>1, <2>3, <3>1
    <3> QED BY <3>2 DEF Taken
  <2> QED BY <2>2, <2>3
<1> QED BY <1>0, <1>3, <1>4, Ended DEF Answers

LEMMA SeedRows ==
  ASSUME TInv, TypeOK', AInv, NEW s \in Seeds, SeedRow(s)
  PROVE  AInv'
<1> USE RequestKinds DEF Transactions, Requests
<1> DEFINE e == entry[s]
           h == Roster[e].handle
           n == Roster[e].mail
<1>0. /\ TypeOK /\ SeedHeld(s) /\ s \in Transactions /\ s # None
      /\ UNCHANGED <<handle, box, entry, row>>
      /\ pc[s] = "seed_row" /\ rowLock[h] = None /\ rowLock' = [rowLock EXCEPT ![h] = s]
      /\ e \in 1..Len(Roster) /\ h \in Handles /\ n \in Mailboxes
      /\ Len(Roster) \in Nat
  BY RosterRows DEF TInv, AInv, SeedRow, EntryKnown, AtEntry, tables, locals, Entry
<1>1. PICK l \in {"seed_allow", "seed_mail"} :
        pc' = [pc EXCEPT ![s] = l] /\ (l = "seed_allow" => handle[n] = h)
  BY DEF SeedRow, Goto, Entry
<1>2. /\ pc'[s] = l /\ \A q \in Transactions : q # s => pc'[q] = pc[q]
      /\ \A x \in Handles : rowLock'[x] = IF x = h THEN s ELSE rowLock[x]
      /\ \A m \in Mailboxes : mailLock'[m] = IF handle[m] = h THEN s ELSE mailLock[m]
  BY <1>0, <1>1 DEF TypeOK, SeedRow, Entry
<1>3. ASSUME NEW m \in Mailboxes, NEW q \in Transactions, q # s, handle[m] = h, mailLock[m] = q
      PROVE  FALSE
  <2>1. m \in users
    BY <1>0, <1>3 DEF users
  <2>2. CASE q \in Requests
    BY <1>3, <2>1, <2>2 DEF AInv, RowHeld
  <2>3. CASE q \in Seeds
    BY <1>0, <1>3, <2>1, <2>3 DEF AInv, SeedHeld
  <2> QED BY <2>2, <2>3
<1>4. /\ \A x \in Handles, q \in Transactions : q # s => (rowLock'[x] = q <=> rowLock[x] = q)
      /\ \A m \in Mailboxes, q \in Transactions : q # s => (mailLock'[m] = q <=> mailLock[m] = q)
  BY <1>0, <1>2, <1>3
<1>5. /\ Written(s)' = Written(s) \cup {e}
      /\ Given(s)' \subseteq Given(s) \cup {e} /\ (e \in Given(s)' => l = "seed_allow")
  BY <1>0, <1>1, <1>2 DEF Written, Given, Scripted
<1>6. SeedHeld(s)'
  <2>1. ASSUME NEW i \in Written(s)'
        PROVE  /\ rowLock'[Roster[i].handle] = s
               /\ \A m \in Mailboxes : handle'[m] = Roster[i].handle => mailLock'[m] = s
    <3>1. i \in Written(s) \/ i = e
      BY <1>5, <2>1
    <3>2. Roster[i].handle \in Handles
      BY RosterRows, <2>1 DEF Written
    <3>3. CASE i \in Written(s)
      BY <1>0, <1>2, <3>2, <3>3 DEF SeedHeld
    <3>4. CASE i = e
      BY <1>0, <1>2, <3>4
    <3> QED BY <3>1, <3>3, <3>4
  <2>2. ASSUME NEW i \in Given(s)'
        PROVE  /\ mailLock'[Roster[i].mail] = s
               /\ \/ handle'[Roster[i].mail] = None
                  \/ \E j \in Written(s)' : handle'[Roster[i].mail] = Roster[j].handle
    <3>1. Roster[i].mail \in Mailboxes
      BY RosterRows, <2>2 DEF Given
    <3>2. CASE i \in Given(s)
      BY <1>0, <1>2, <1>5, <3>1, <3>2 DEF SeedHeld
    <3>3. CASE i = e
      BY <1>0, <1>1, <1>2, <1>5, <2>2, <3>3
    <3> QED BY <1>5, <2>2, <3>2, <3>3
  <2>3. ASSUME NEW m \in users', mailLock'[m] = s PROVE rowLock'[handle'[m]] = s
    <3>1. m \in Mailboxes /\ m \in users /\ handle[m] \in Handles
      BY <1>0, <2>3 DEF users, TypeOK
    <3> QED BY <1>0, <1>2, <2>3, <3>1 DEF SeedHeld
  <2> QED BY ONLY <2>1, <2>2, <2>3 DEF SeedHeld
<1>7. \A x \in Handles : Taken(x) => Taken(x)'
  BY <1>0 DEF Taken
<1> HIDE DEF e, h, n
<1> QED BY <1>0, <1>2, <1>4, <1>6, <1>7, OnlyItsOwn

LEMMA SeedMails ==
  ASSUME TInv, TypeOK', AInv, NEW s \in Seeds, SeedMail(s)
  PROVE  AInv'
<1> USE RequestKinds DEF Transactions, Requests
<1> DEFINE e == entry[s]
           n == Roster[e].mail
<1>0. /\ TypeOK /\ SeedHeld(s) /\ s \in Transactions /\ s # None
      /\ UNCHANGED <<handle, box, entry, row>>
      /\ pc[s] = "seed_mail" /\ mailLock[n] \in {None, s}
      /\ e \in 1..Len(Roster) /\ n \in Mailboxes
      /\ Len(Roster) \in Nat
  BY RosterRows DEF TInv, AInv, SeedMail, EntryKnown, AtEntry, tables, locals, Entry
<1>1. CASE Rollback(s, "error")
  BY <1>0, <1>1, RolledBack DEF Answers
<1>2. CASE ~Rollback(s, "error")
  <2>1. PICK l \in {"seed_allow", "seed_unlist"} :
          /\ pc' = [pc EXCEPT ![s] = l] /\ Upserted(e - 1)[n] = None
          /\ mailLock' = [mailLock EXCEPT ![n] = s] /\ rowLock' = rowLock
    BY <1>2 DEF SeedMail, Goto, Entry
  <2>2. /\ pc'[s] = l /\ \A q \in Transactions : q # s => pc'[q] = pc[q]
        /\ \A m \in Mailboxes : mailLock'[m] = IF m = n THEN s ELSE mailLock[m]
    BY <1>0, <2>1 DEF TypeOK
  <2>3. Written(s)' = Written(s) /\ Given(s)' = Given(s) \cup {e} /\ 1..(e - 1) \subseteq Written(s)
    BY <1>0, <2>1, <2>2 DEF Written, Given, Scripted
  <2>4. handle[n] = None \/ \E j \in Written(s) : handle[n] = Roster[j].handle
    <3>1. ~\E i \in 1..(e - 1) : Roster[i].mail = n
      BY <1>0, RosterDistinct
    <3>2. IF \E i \in 1..(e - 1) : Roster[i].handle = handle[n] THEN TRUE ELSE handle[n] = None
      BY <1>0, <2>1, <3>1 DEF Upserted
    <3> QED BY <2>3, <3>2
  <2>5. SeedHeld(s)'
    <3>1. ASSUME NEW i \in Written(s)'
          PROVE  /\ rowLock'[Roster[i].handle] = s
                 /\ \A m \in Mailboxes : handle'[m] = Roster[i].handle => mailLock'[m] = s
      BY <1>0, <2>1, <2>2, <2>3, <3>1 DEF SeedHeld
    <3>2. ASSUME NEW i \in Given(s)'
          PROVE  /\ mailLock'[Roster[i].mail] = s
                 /\ \/ handle'[Roster[i].mail] = None
                    \/ \E j \in Written(s)' : handle'[Roster[i].mail] = Roster[j].handle
      <4>1. Roster[i].mail \in Mailboxes
        BY RosterRows, <3>2 DEF Given
      <4>2. CASE i \in Given(s)
        BY <1>0, <2>2, <2>3, <4>1, <4>2 DEF SeedHeld
      <4>3. CASE i = e
        BY <1>0, <2>2, <2>3, <2>4, <4>3
      <4> QED BY <2>3, <3>2, <4>2, <4>3
    <3>3. ASSUME NEW m \in users', mailLock'[m] = s PROVE rowLock'[handle'[m]] = s
      <4>1. m \in users /\ m \in Mailboxes
        BY <1>0, <3>3 DEF users
      <4>2. CASE m = n
        BY <1>0, <2>1, <2>4, <4>1, <4>2 DEF SeedHeld, users
      <4>3. CASE m # n
        BY <1>0, <2>1, <2>2, <3>3, <4>1, <4>3 DEF SeedHeld
      <4> QED BY <4>2, <4>3
    <3> QED BY ONLY <3>1, <3>2, <3>3 DEF SeedHeld
  <2>6. /\ \A x \in Handles, q \in Transactions : q # s => (rowLock'[x] = q <=> rowLock[x] = q)
        /\ \A m \in Mailboxes, q \in Transactions : q # s => (mailLock'[m] = q <=> mailLock[m] = q)
    BY <1>0, <2>1, <2>2
  <2>7. \A x \in Handles : Taken(x) => Taken(x)'
    BY <1>0 DEF Taken
  <2> HIDE DEF e, n
  <2> QED BY <1>0, <2>2, <2>5, <2>6, <2>7, OnlyItsOwn
<1> QED BY <1>1, <1>2


\* Who has written or found which account is kept by every step.
LEMMA AccountStep == TInv /\ TypeOK' /\ AInv /\ [Next]_vars => AInv'
<1> SUFFICES ASSUME TInv, TypeOK', AInv, [Next]_vars PROVE AInv'
  OBVIOUS
<1> USE RequestKinds DEF Transactions, Requests, tables, locks, locals
<1>0. TypeOK
  BY DEF TInv
\* A statement of a request that writes no row of users.
<1>q. ASSUME NEW p \in Requests, NEW l, Goto(p, l),
             UNCHANGED <<handle, rowLock, mailLock, row, entry>>,
             \A q \in Transactions : q # p => box'[q] = box[q],
             p \in Solicits /\ pc[p] \in HasRow => pc[p] # "insert_mail" /\ l \in HasMail /\ box' = box,
             l \notin {"insert", "insert_mail"},
             p \in Redeems /\ l \in {"allowed", "commit"} => pc[p] = "allowed"
      PROVE  AInv'
  <2>1. pc' = [pc EXCEPT ![p] = l] /\ pc'[p] = l
    BY <1>0, <1>q DEF Goto, TypeOK
  <2>2. p \in Redeems => Found(p)'
    BY <1>q, <2>1 DEF AInv, Found, Taken
  <2> QED BY <1>0, <1>q, <2>1, <2>2, NoAccountWritten DEF HasMail
<1>f. ASSUME NEW p \in Transactions, NEW l \in Answers \cup {"reread"}, Rollback(p, l),
             UNCHANGED <<handle, box, entry, row>>
      PROVE  AInv'
  BY <1>0, <1>f, RolledBack
\* A step of nobody.
<1>s. ASSUME UNCHANGED <<handle, rowLock, mailLock, pc, box, row, entry>> PROVE AInv'
  <2>1. \A p \in Requests : RowHeld(p)'
    BY <1>s DEF AInv, RowHeld, Taken, users
  <2>2. \A s \in Seeds : SeedHeld(s)'
    BY <1>s DEF AInv, SeedHeld, Written, Given, users
  <2>3. \A c \in Redeems : Found(c)'
    BY <1>s DEF AInv, Found, Taken
  <2> QED BY ONLY <2>1, <2>2, <2>3 DEF AInv
<1>1. ASSUME NEW r \in Solicits, NEW m \in Mailboxes, SolicitBegin(r, m) PROVE AInv'
  <2>1. PICK l \in {"screen", "provision", "user_not_found"} : Goto(r, l)
    BY <1>1 DEF SolicitBegin
  <2>2. /\ pc[r] = "idle" /\ UNCHANGED <<handle, rowLock, mailLock, row, entry>>
        /\ \A q \in Transactions : q # r => box'[q] = box[q]
    BY <1>0, <1>1 DEF SolicitBegin, TypeOK
  <2> QED BY <1>q, <2>1, <2>2 DEF HasRow
<1>2. ASSUME NEW p \in Requests, BadAddress(p) PROVE AInv'
  BY <1>2, <1>q DEF BadAddress, HasRow
<1>3. ASSUME NEW r \in Solicits, Provision(r) PROVE AInv'
  <2>1. /\ pc[r] = "provision" /\ pc' = [pc EXCEPT ![r] = "insert"]
        /\ UNCHANGED <<handle, rowLock, mailLock, box, entry>>
        /\ \E k \in DOMAIN Candidates[box[r]] : row' = [row EXCEPT ![r] = Candidates[box[r]][k]]
    BY <1>3 DEF Provision, Goto
  <2>2. box[r] \in Mailboxes
    BY <2>1 DEF TInv, BoxKnown, Deleters, Busy
  <2>3. Candidates[box[r]] \in Seq(Handles)
    BY <2>2, CandidatesKnown
  <2>4. \A k \in DOMAIN Candidates[box[r]] : Candidates[box[r]][k] \in Handles
    BY <2>3
  <2>5. row'[r] \in Handles /\ \A q \in Requests : q # r => row'[q] = row[q]
    BY <1>0, <2>1, <2>4 DEF TypeOK
  <2> QED BY <1>0, <2>1, <2>5, NoAccountWritten DEF HasRow, HasMail
<1>4. ASSUME NEW r \in Solicits, InsertRow(r) \/ InsertMail(r) PROVE AInv'
  BY <1>4, InsertStep
<1>5. ASSUME NEW r \in Solicits, Reread(r) PROVE AInv'
  BY <1>5, <1>q DEF Reread, HasRow
<1>6. ASSUME NEW r \in Solicits, Screen(r) PROVE AInv'
  <2>1. CASE Rollback(r, "not_allowlisted")
    BY <1>6, <1>f, <2>1 DEF Screen, Answers
  <2>2. CASE \E l \in {"purge", "enlist"} : Goto(r, l) /\ UNCHANGED locks
    BY <1>6, <1>q, <2>2 DEF Screen, HasMail, HasRow
  <2> QED BY <1>6, <2>1, <2>2 DEF Screen
<1>7. ASSUME NEW p \in Deleters, Enlist(p, "enlist") \/ Enlist(p, "grant") \/ Refer(p) PROVE AInv'
  <2>0. /\ p \in Requests /\ p \notin Redeems /\ UNCHANGED <<handle, box, entry, row>>
        /\ pc[p] \in {"enlist", "grant", "refer"}
    BY <1>7 DEF Enlist, Refer, Deleters
  <2>1. CASE Rollback(p, "error")
    BY <2>0, <1>f, <2>1 DEF Answers
  <2>2. ASSUME NEW l \in {"refer", "purge", "grant_commit"}, Goto(p, l), UNCHANGED <<rowLock, mailLock>>,
               p \in Solicits => l # "grant_commit"
        PROVE  AInv'
    <3>1. p \in Solicits => pc[p] # "insert_mail" /\ l \in HasMail /\ box' = box
      BY <2>0, <2>2 DEF HasMail, HasRow
    <3> QED BY <1>q, <2>0, <2>2, <3>1
  <2> QED BY <1>7, <2>1, <2>2 DEF Enlist, Refer
<1>8. ASSUME NEW p \in Deleters, Purge(p) \/ PurgeEnd(p) PROVE AInv'
  <2>1. PICK l \in {"purging", "mail", "commit"} : Goto(p, l)
    BY <1>8 DEF Purge, PurgeEnd
  <2>2. /\ p \in Requests /\ p \notin Redeems /\ pc[p] \in {"purge", "purging"}
        /\ UNCHANGED <<handle, rowLock, mailLock, row, entry, box>>
    BY <1>8 DEF Purge, PurgeEnd, Deleters
  <2> QED BY <1>q, <2>1, <2>2 DEF HasMail, HasRow
<1>9. ASSUME NEW r \in Solicits, Mail(r) PROVE AInv'
  <2>1. CASE Rollback(r, "email_delivery_failed")
    BY <1>9, <1>f, <2>1 DEF Mail, Answers
  <2>2. CASE Goto(r, "commit") /\ UNCHANGED locks
    BY <1>9, <1>q, <2>2 DEF Mail, HasMail, HasRow
  <2> QED BY <1>9, <2>1, <2>2 DEF Mail
<1>10. ASSUME NEW r \in Solicits, SolicitCommit(r) PROVE AInv'
  BY <1>10, SolicitCommits
<1>11. ASSUME NEW c \in Redeems, (\E t \in Solicits : RedeemBegin(c, t)) \/ RedeemSelect(c) PROVE AInv'
  <2>1. \E l \in {"select", "magic_link_invalid", "holder"} : Goto(c, l)
    BY <1>11 DEF RedeemBegin, RedeemSelect
  <2>2. UNCHANGED <<handle, rowLock, mailLock, row, entry, box>>
    BY <1>11 DEF RedeemBegin, RedeemSelect
  <2> QED BY <1>q, <2>1, <2>2
<1>12. ASSUME NEW c \in Redeems, RedeemHolder(c) PROVE AInv'
  <2>1. CASE Rollback(c, "user_missing")
    <3>1. pc'[c] = "user_missing"
      BY <1>0, <2>1 DEF Rollback, Goto, TypeOK
    <3>2. UNCHANGED <<handle, box, entry, row>>
      BY <1>0, <1>12, <3>1 DEF RedeemHolder, Goto, TypeOK
    <3> QED BY <1>f, <2>1, <3>2 DEF Answers
  <2>2. CASE /\ box[ticket[c]] \in users /\ row' = [row EXCEPT ![c] = handle[box[ticket[c]]]]
             /\ Goto(c, "allowed") /\ UNCHANGED locks
    <3>1. /\ handle[box[ticket[c]]] \in Handles /\ Taken(handle[box[ticket[c]]])
      BY <1>0, <2>2 DEF users, TypeOK, Taken
    <3>2. row'[c] = handle[box[ticket[c]]] /\ \A q \in Requests : q # c => row'[q] = row[q]
      BY <1>0, <2>2 DEF TypeOK
    <3>3. UNCHANGED <<handle, rowLock, mailLock, box, entry>> /\ pc' = [pc EXCEPT ![c] = "allowed"]
      BY <1>12, <2>2 DEF RedeemHolder, Goto
    <3>4. Found(c)'
      BY <3>1, <3>2, <3>3 DEF Found, Taken
    <3> QED BY <1>0, <3>2, <3>3, <3>4, NoAccountWritten
  <2> QED BY <1>12, <2>1, <2>2 DEF RedeemHolder
<1>13. ASSUME NEW c \in Redeems, RedeemAllowed(c) PROVE AInv'
  <2>1. CASE Rollback(c, "magic_login_revoked")
    BY <1>13, <1>f, <2>1 DEF RedeemAllowed, Answers
  <2>2. CASE Goto(c, "commit") /\ UNCHANGED locks
    BY <1>13, <1>q, <2>2 DEF RedeemAllowed
  <2> QED BY <1>13, <2>1, <2>2 DEF RedeemAllowed
<1>14. ASSUME NEW p \in Requests, NEW l \in Answers, Goto(p, l), Release(p),
              UNCHANGED <<handle, box, row, entry>>
       PROVE  AInv'
  BY <1>0, <1>14, Ended DEF Taken
<1>15. ASSUME NEW a \in Admins, NEW m \in Mailboxes, GrantBegin(a, m) \/ RevokeBegin(a, m) PROVE AInv'
  <2>1. PICK l \in {"grant_check", "user_not_found", "revoke"} : Goto(a, l)
    BY <1>15 DEF GrantBegin, RevokeBegin
  <2>2. /\ pc[a] = "idle" /\ UNCHANGED <<handle, rowLock, mailLock, row, entry>>
        /\ \A q \in Transactions : q # a => box'[q] = box[q]
    BY <1>0, <1>15 DEF GrantBegin, RevokeBegin, TypeOK
  <2> QED BY <1>q, <2>1, <2>2
<1>16. ASSUME NEW a \in Admins, GrantCheck(a) \/ Unlist(a) PROVE AInv'
  <2>1. PICK l \in {"noop", "grant", "not_on_allowlist", "purge"} : Goto(a, l)
    BY <1>16 DEF GrantCheck, Unlist
  <2> QED BY <1>16, <1>q, <2>1 DEF GrantCheck, Unlist
<1>17. ASSUME NEW c \in Redeems, RedeemCommit(c) PROVE AInv'
  BY <1>17, <1>14 DEF RedeemCommit, Answers
<1>18. ASSUME NEW a \in Admins, GrantCommit(a) \/ RevokeCommit(a) PROVE AInv'
  BY <1>18, <1>14 DEF GrantCommit, RevokeCommit, Answers
<1>19. ASSUME NEW s \in Seeds, SeedBegin(s) PROVE AInv'
  <2>1. PICK l \in {"seed_commit", "seed_row"} :
          pc' = [pc EXCEPT ![s] = l] /\ (l = "seed_commit" => Roster = <<>>)
    BY <1>19 DEF SeedBegin, Goto
  <2>2. pc[s] = "idle" /\ entry[s] = 1 /\ UNCHANGED <<handle, rowLock, mailLock, row, entry, box>>
    BY <1>19 DEF SeedBegin, TInv, EntryKnown
  <2>3. pc'[s] = l
    BY <1>0, <2>1 DEF TypeOK
  <2>4. Roster = <<>> => 1..Len(Roster) = {}
    OBVIOUS
  <2>5. Written(s)' = {} /\ Given(s)' = {} /\ Written(s) = {}
    BY <2>1, <2>2, <2>3, <2>4 DEF Written, Given, Scripted
  <2> QED BY <1>0, <2>1, <2>2, <2>5, NoAccountWritten
<1>20. ASSUME NEW s \in Seeds, SeedRow(s) PROVE AInv'
  BY <1>20, SeedRows
<1>21. ASSUME NEW s \in Seeds, SeedMail(s) PROVE AInv'
  BY <1>21, SeedMails
<1>22. ASSUME NEW s \in Seeds, SeedUnlist(s) PROVE AInv'
  <2>1. CASE Rollback(s, "error")
    BY <1>22, <1>f, <2>1 DEF SeedUnlist, Answers
  <2>2. CASE Goto(s, "seed_allow") /\ UNCHANGED locks
    <3>1. /\ pc[s] = "seed_unlist" /\ pc' = [pc EXCEPT ![s] = "seed_allow"] /\ pc'[s] = "seed_allow"
          /\ UNCHANGED <<handle, rowLock, mailLock, row, entry, box>>
      BY <1>0, <1>22, <2>2 DEF SeedUnlist, Goto, TypeOK
    <3>2. Written(s)' = Written(s) /\ Given(s)' = Given(s)
      BY <3>1 DEF Written, Given, Scripted
    <3> QED BY <1>0, <3>1, <3>2, NoAccountWritten
  <2> QED BY <1>22, <2>1, <2>2 DEF SeedUnlist
<1>23. ASSUME NEW s \in Seeds, SeedAllow(s) PROVE AInv'
  <2>1. PICK l \in {"seed_commit", "seed_row"} :
          pc' = [pc EXCEPT ![s] = l] /\ (l = "seed_commit" <=> entry[s] = Len(Roster))
    BY <1>23 DEF SeedAllow, Goto
  <2>2. /\ pc[s] = "seed_allow" /\ UNCHANGED <<handle, rowLock, mailLock, row, box>>
        /\ entry' = [entry EXCEPT ![s] = @ + 1]
    BY <1>23 DEF SeedAllow
  <2>3. /\ entry[s] \in 1..Len(Roster) /\ Len(Roster) \in Nat /\ pc'[s] = l /\ entry'[s] = entry[s] + 1
        /\ \A z \in Seeds : z # s => entry'[z] = entry[z]
    BY <1>0, <2>1, <2>2, RosterRows DEF TypeOK, TInv, EntryKnown, AtEntry
  <2>4. Written(s)' = Written(s) /\ Given(s)' = Given(s)
    BY <2>1, <2>2, <2>3 DEF Written, Given, Scripted
  <2> QED BY <1>0, <2>1, <2>2, <2>3, <2>4, NoAccountWritten
<1>24. ASSUME NEW s \in Seeds, SeedCommit(s) PROVE AInv'
  BY <1>24, SeedCommits
<1>25. ASSUME NEW p \in Transactions, Abort(p) PROVE AInv'
  BY <1>25, <1>f DEF Abort, Answers
<1>26. ASSUME NEW r \in Solicits, Expire(r) PROVE AInv'
  BY <1>26, <1>s DEF Expire
<1>27. ASSUME NEW p \in Deleters, PurgeRow(p) PROVE AInv'
  BY <1>27, <1>s DEF PurgeRow
<1>28. CASE UNCHANGED vars
  BY <1>28, <1>s DEF vars
<1>29. \A r \in Solicits : ~SolicitStep(r) \/ AInv'
  BY <1>3, <1>4, <1>5, <1>6, <1>7, <1>8, <1>9, <1>10, <1>27 DEF SolicitStep, Deleters
<1>30. \A a \in Admins : ~AdminStep(a) \/ AInv'
  BY <1>7, <1>8, <1>16, <1>18, <1>27 DEF AdminStep, Deleters
<1> QED
  BY <1>1, <1>2, <1>11, <1>12, <1>13, <1>15, <1>17, <1>19, <1>20, <1>21, <1>22, <1>23, <1>24,
     <1>25, <1>26, <1>28, <1>29, <1>30
  DEF Next, RedeemStep, SeedStep

-----------------------------------------------------------------------------
\* The order in which requests lock rows: a new account, the allowlist row, links by
\* heap position.  Whoever holds an allowlist row has only links left to wait for,
\* besides the account of a script.
AllowHeld == {"refer", "purge", "purging", "mail", "commit", "grant_commit"}
AllowLocks == \A m \in Mailboxes, p \in Requests : allowLock[m] = p => pc[p] \in AllowHeld

\* What a deleter has locked comes before what it has still to visit.
Ascends ==
  \A p \in Deleters : pc[p] = "purging" =>
    \A t \in Solicits, q \in Unvisited(p) : linkLock[t] = p => t < q

\* Statements of the three kinds of transaction.
RedeemPlaces == {"idle", "select", "holder", "allowed", "commit"} \cup Answers
DeleterPlaces == ({"idle"} \cup Busy \cup Answers) \ ({"select", "holder", "allowed"} \cup Scripted)
Placed ==
  /\ \A c \in Redeems : pc[c] \in RedeemPlaces
  /\ \A p \in Deleters : pc[p] \in DeleterPlaces

LInv == AllowLocks /\ Ascends /\ Placed

\* A nonempty set of naturals has a least element: those up to one of them are
\* finitely many, and as many ranks are taken.
LEMMA Least ==
  ASSUME NEW T \in SUBSET Nat, T # {}
  PROVE  \E x \in T : \A y \in T : x <= y
<1>1. PICK n \in T : n \in Nat
  OBVIOUS
<1> DEFINE A == {k \in T : k <= n}
           below(k) == {j \in A : j < k}
           f == [k \in A |-> 1 + Cardinality(below(k))]
<1>2. IsFiniteSet(0..n) /\ A \subseteq 0..n
  <2>1. IsFiniteSet(0..n)
    BY <1>1, FS_Interval
  <2>2. ASSUME NEW k \in A PROVE k \in 0..n
    <3>1. k \in Nat /\ k <= n
      OBVIOUS
    <3> QED BY <1>1, <3>1
  <2> QED BY <2>1, <2>2
<1>3. IsFiniteSet(A) /\ Cardinality(A) \in Nat
  BY <1>2, FS_Subset, FS_CardinalityType
<1>4. ASSUME NEW k \in A
      PROVE  /\ IsFiniteSet(below(k))
             /\ Cardinality(below(k)) \in Nat /\ Cardinality(below(k)) < Cardinality(A)
  <2>1. below(k) \subseteq A /\ below(k) # A
    OBVIOUS
  <2>2. IsFiniteSet(below(k)) /\ Cardinality(below(k)) \in Nat
    BY <1>3, <2>1, FS_Subset, FS_CardinalityType
  <2> QED BY <1>3, <2>1, <2>2, FS_Subset
<1>5. ASSUME NEW j \in A, NEW k \in A, j < k
      PROVE  Cardinality(below(j)) < Cardinality(below(k))
  <2>0. j \in Nat /\ k \in Nat
    OBVIOUS
  <2>1. ASSUME NEW i \in below(j) PROVE i \in below(k)
    <3>1. i \in A /\ i \in Nat /\ i < j
      OBVIOUS
    <3>2. i < k
      BY <1>5, <2>0, <3>1
    <3> QED BY <3>1, <3>2
  <2>2. j \in below(k) /\ j \notin below(j)
    BY <1>5, <2>0
  <2>3. IsFiniteSet(below(k)) /\ Cardinality(below(k)) \in Nat
    BY <1>4
  <2>4. below(j) \subseteq below(k) /\ below(j) # below(k)
    BY <2>1, <2>2
  <2>5. Cardinality(below(j)) \in Nat
    BY <1>4
  <2>6. /\ Cardinality(below(j)) <= Cardinality(below(k))
        /\ Cardinality(below(k)) = Cardinality(below(j)) => below(k) = below(j)
    BY <2>3, <2>4, FS_Subset
  <2> QED BY <2>3, <2>4, <2>5, <2>6
<1>6. f \in [A -> 1..Cardinality(A)]
  <2> SUFFICES ASSUME NEW k \in A PROVE 1 + Cardinality(below(k)) \in 1..Cardinality(A)
    OBVIOUS
  <2>1. Cardinality(below(k)) \in Nat /\ Cardinality(below(k)) < Cardinality(A)
    BY <1>4
  <2> HIDE DEF below, A
  <2> QED BY <1>3, <2>1
<1>7. ASSUME NEW j \in A, NEW k \in A, f[j] = f[k] PROVE j = k
  <2>0. j \in Nat /\ k \in Nat
    OBVIOUS
  <2>1. Cardinality(below(j)) \in Nat /\ Cardinality(below(k)) \in Nat
    BY <1>4
  <2>2. j < k => Cardinality(below(j)) < Cardinality(below(k))
    BY <1>5
  <2>3. k < j => Cardinality(below(k)) < Cardinality(below(j))
    BY <1>5
  <2>4. 1 + Cardinality(below(j)) = 1 + Cardinality(below(k))
    BY <1>7
  <2> HIDE DEF below, A
  <2> QED BY <2>0, <2>1, <2>2, <2>3, <2>4
<1>8. f \in Injection(A, 1..Cardinality(A))
  BY <1>6, <1>7 DEF Injection, IsInjective
<1>9. IsFiniteSet(1..Cardinality(A)) /\ Cardinality(1..Cardinality(A)) = Cardinality(A)
  BY <1>3, FS_Interval
<1>10. f \in Surjection(A, 1..Cardinality(A))
  BY <1>3, <1>8, <1>9, FS_Injection
<1>11. 1 \in 1..Cardinality(A)
  <2>1. n \in A
    BY <1>1
  <2>2. Cardinality(A) # 0
    BY <1>3, <2>1, FS_EmptySet
  <2> HIDE DEF A
  <2> QED BY <1>3, <2>2
<1>12. PICK x \in A : f[x] = 1
  BY <1>10, <1>11 DEF Surjection
<1>13. below(x) = {}
  <2>1. IsFiniteSet(below(x)) /\ Cardinality(below(x)) \in Nat /\ 1 + Cardinality(below(x)) = 1
    BY <1>4, <1>12
  <2>2. Cardinality(below(x)) = 0
    BY <2>1
  <2> QED BY <2>1, <2>2, FS_EmptySet
<1>14. \A y \in T : x <= y
  BY <1>1, <1>13
<1> QED BY <1>14

LEMMA NoCycle == TInv /\ IInv /\ AInv /\ LInv => NoCycleOfWaits
<1> SUFFICES ASSUME TInv, IInv, AInv, LInv, NEW C \in SUBSET Waiting, Circle(C), C \cap Seeds = {}
             PROVE  FALSE
  BY DEF NoCycleOfWaits
<1> USE RequestKinds
<1>0. /\ TypeOK /\ RedeemHolds /\ DeleterHolds /\ BoxKnown
      /\ AllowLocks /\ Ascends /\ Placed
  BY DEF IInv, LInv, TInv
<1>r. C \in SUBSET Requests /\ C # {} /\ \A p \in C : p # None
  BY DEF Waiting, Transactions, Circle
<1>s. \A p \in C : (\E q \in C : WaitsFor(p, q)) /\ (\E q \in C : WaitsFor(q, p))
  BY DEF Circle
<1>k. \A p \in C : \/ p \in Redeems /\ pc[p] \in RedeemPlaces
                   \/ p \in Deleters /\ pc[p] \in DeleterPlaces
  BY <1>0, <1>r DEF Placed, Deleters, Requests
\* No account that is there is held by a request.
<1>t. ASSUME NEW h \in Handles, Taken(h), NEW q \in C PROVE rowLock[h] # q
  BY <1>r, <1>t DEF AInv, RowHeld
<1>1. ASSUME NEW p \in C
      PROVE  pc[p] \in {"insert", "insert_mail", "enlist", "grant", "revoke", "select", "purging"}
  <2>1. PICK q \in C : WaitsFor(p, q)
    BY <1>s
  <2>2. pc[p] # "refer"
    <3> SUFFICES ASSUME pc[p] = "refer" PROVE FALSE
      OBVIOUS
    <3>1. box[p] \in users /\ rowLock[handle[box[p]]] = q
      BY <2>1 DEF WaitsFor
    <3>2. handle[box[p]] \in Handles /\ Taken(handle[box[p]])
      BY <1>0, <3>1 DEF users, Taken, TypeOK
    <3> QED BY <1>t, <3>1, <3>2
  <2>3. pc[p] # "commit"
    <3> SUFFICES ASSUME pc[p] = "commit" PROVE FALSE
      OBVIOUS
    <3>1. p \in Redeems /\ rowLock[row[p]] = q
      BY <2>1 DEF WaitsFor
    <3>2. row[p] \in Handles /\ Taken(row[p])
      BY <3>1 DEF AInv, Found
    <3> QED BY <1>t, <3>1, <3>2
  <2>4. pc[p] \notin Scripted
    BY <1>k DEF RedeemPlaces, DeleterPlaces, Answers, Scripted
  <2> QED BY <2>1, <2>2, <2>3, <2>4 DEF WaitsFor, Scripted
\* Who is waited for, by where the waiting stands.
<1>2. ASSUME NEW q \in C, NEW p \in C, WaitsFor(q, p)
      PROVE  /\ pc[q] = "insert" => pc[p] \in {"insert_mail", "enlist", "purging"}
             /\ pc[q] = "insert_mail" => pc[p] \in {"enlist", "purging"}
             /\ pc[q] \notin {"insert", "insert_mail"} => pc[p] = "purging"
  <2>0. q \in Requests /\ p \in Requests
    BY <1>r
  <2>1. ASSUME pc[q] = "insert" PROVE pc[p] \in {"insert_mail", "enlist", "purging"}
    <3>1. rowLock[row[q]] = p /\ row[q] \in Handles
      BY <1>2, <2>0, <2>1 DEF WaitsFor, AInv, RowHeld
    <3>2. pc[p] \in HasRow
      BY <2>0, <3>1 DEF AInv, RowHeld
    <3> QED BY <1>1, <3>2 DEF HasRow
  <2>2. q \in Redeems => pc[q] \in {"select"}
    BY <1>1, <1>k DEF RedeemPlaces, Answers, DeleterPlaces, Deleters, Requests
  <2>3. q \in Deleters /\ pc[q] # "select" => box[q] \in Mailboxes
    BY <1>0, <1>1 DEF BoxKnown, Busy
  <2>4. ASSUME pc[q] = "insert_mail" PROVE pc[p] \in {"enlist", "purging"}
    <3>1. mailLock[box[q]] = p /\ box[q] \in Mailboxes
      BY <1>2, <2>0, <2>2, <2>3, <2>4 DEF WaitsFor, Deleters, Requests
    <3>2. pc[p] \in HasMail
      BY <2>0, <3>1 DEF AInv, RowHeld
    <3> QED BY <1>1, <3>2 DEF HasRow, HasMail
  <2>5. ASSUME pc[q] \in {"enlist", "grant", "revoke"} PROVE pc[p] = "purging"
    <3>1. allowLock[box[q]] = p /\ box[q] \in Mailboxes
      BY <1>2, <2>0, <2>2, <2>3, <2>5 DEF WaitsFor, Deleters, Requests
    <3>2. pc[p] \in AllowHeld
      BY <1>0, <2>0, <3>1 DEF AllowLocks
    <3> QED BY <1>1, <3>2 DEF AllowHeld
  <2>6. ASSUME NEW t \in Solicits, linkLock[t] = p PROVE pc[p] = "purging"
    BY <1>0, <1>1, <2>0, <2>6 DEF RedeemHolds, DeleterHolds, Holding, Deleters, Requests
  <2>7. ASSUME pc[q] = "select" PROVE pc[p] = "purging"
    <3>1. q \in Redeems
      BY <1>k, <2>7 DEF DeleterPlaces, Answers
    <3>2. ticket[q] \in Solicits /\ linkLock[ticket[q]] = p
      BY <1>0, <1>2, <2>7, <3>1 DEF RedeemHolds, WaitsFor
    <3> QED BY <2>6, <3>2
  <2>8. ASSUME pc[q] = "purging" PROVE pc[p] = "purging"
    <3>1. \E t \in Unvisited(q) : linkLock[t] = p
      BY <1>2, <2>8 DEF WaitsFor
    <3>2. Unvisited(q) \subseteq Solicits
      BY <1>0, <2>0 DEF Unvisited, TypeOK, Transactions
    <3> QED BY <2>6, <3>1, <3>2
  <2> QED BY <1>1, <2>1, <2>4, <2>5, <2>7, <2>8
<1>b. ASSUME NEW p \in C PROVE pc[p] \in {"insert_mail", "enlist", "purging"}
  BY <1>2, <1>s
<1>c. ASSUME NEW p \in C PROVE pc[p] \in {"enlist", "purging"}
  BY <1>2, <1>b, <1>s
<1>3. ASSUME NEW p \in C PROVE pc[p] = "purging" /\ p \in Deleters
  <2>1. pc[p] = "purging"
    BY <1>2, <1>c, <1>s
  <2> QED BY <1>k, <2>1 DEF RedeemPlaces, Answers
\* The links that somebody of C waits for.
<1> DEFINE Wanted(p, t) == /\ t \in Unvisited(p) /\ \A other \in Unvisited(p) : t <= other
                           /\ linkLock[t] \in C
           W == {t \in Solicits : \E p \in C : Wanted(p, t)}
<1>4. ASSUME NEW p \in C, NEW q \in C, WaitsFor(p, q)
      PROVE  \E t \in W : Wanted(p, t) /\ linkLock[t] = q
  <2>1. PICK t \in Unvisited(p) : (\A other \in Unvisited(p) : t <= other) /\ linkLock[t] = q
    BY <1>3, <1>4 DEF WaitsFor
  <2>2. t \in Solicits
    BY <1>0, <1>3 DEF Unvisited, TypeOK, Deleters, Transactions, Requests
  <2> QED BY <2>1, <2>2
<1>5. W \in SUBSET Nat /\ W # {}
  <2>1. PICK p \in C, q \in C : WaitsFor(p, q)
    BY <1>r, <1>s
  <2> QED BY <1>4, <2>1, RequestKinds
<1>6. PICK t \in W : \A x \in W : t <= x
  BY <1>5, Least
<1>7. PICK p \in C : Wanted(p, t)
  OBVIOUS
<1>8. PICK q \in C : WaitsFor(q, p)
  BY <1>s
<1>9. PICK x \in W : linkLock[x] = p
  BY <1>4, <1>8
<1>10. x < t
  BY <1>0, <1>3, <1>7, <1>9 DEF Ascends, Placed
<1> QED BY <1>5, <1>6, <1>10

\* What a step may do without disturbing what deleters have locked and found.
LEMMA AscendsStill ==
  ASSUME IInv, Ascends,
         \A p \in Deleters : pc'[p] = "purging" =>
           /\ pc[p] = "purging" /\ seen'[p] = seen[p]
           /\ \A t \in Solicits : linkLock'[t] = p <=> linkLock[t] = p,
         \A q \in Solicits : link'[q] = "live" => link[q] \in {"live", "none"}
  PROVE  Ascends'
<1>1. ASSUME NEW p \in Deleters, pc'[p] = "purging", NEW q \in Unvisited(p)'
      PROVE  q \in Unvisited(p)
  <2>1. q \in seen[p] /\ link'[q] = "live" /\ linkLock'[q] # p
    BY <1>1 DEF Unvisited
  <2>2. p \in Transactions /\ q \in Solicits /\ link[q] # "none"
    BY <2>1 DEF IInv, TypeOK, RowsExist, Deleters, Requests, Transactions
  <2> QED BY <1>1, <2>1, <2>2 DEF Unvisited
<1> QED BY <1>1 DEF Ascends

LEMMA LockOrderStep == TInv /\ IInv /\ TypeOK' /\ LInv /\ [Next]_vars => LInv'
<1> SUFFICES ASSUME TInv, IInv, TypeOK', LInv, [Next]_vars PROVE LInv'
  OBVIOUS
<1> USE RequestKinds DEF tables, locks, locals, Goto, Transactions, Requests, Deleters
<1>0. TypeOK /\ AllowLocks /\ Ascends /\ Placed
  BY DEF IInv, LInv
<1>d. \A p \in Deleters : p \notin Redeems
  OBVIOUS
\* A step of p alone, which neither finds links nor goes on finding them.
<1>a. ASSUME NEW p \in Transactions, NEW l, pc' = [pc EXCEPT ![p] = l], l # "purging",
             p \in Redeems => l \in RedeemPlaces,
             p \in Deleters => l \in DeleterPlaces,
             \A m \in Mailboxes, q \in Requests : q # p /\ allowLock'[m] = q => allowLock[m] = q,
             \A m \in Mailboxes : p \in Requests /\ allowLock'[m] = p => l \in AllowHeld,
             \A q \in Deleters : q # p =>
               seen'[q] = seen[q] /\ \A t \in Solicits : linkLock'[t] = q <=> linkLock[t] = q,
             \A q \in Solicits : link'[q] = "live" => link[q] \in {"live", "none"}
      PROVE  LInv'
  <2>1. \A q \in Transactions : pc'[q] = IF q = p THEN l ELSE pc[q]
    BY <1>0, <1>a DEF TypeOK
  <2>2. Ascends'
    <3>1. \A q \in Deleters : pc'[q] = "purging" => q # p /\ pc[q] = "purging"
      BY <1>a, <2>1
    <3> QED BY <1>0, <1>a, <3>1, AscendsStill
  <2>3. AllowLocks'
    BY <1>0, <1>a, <2>1 DEF AllowLocks
  <2>4. Placed'
    <3>1. \A c \in Redeems : pc'[c] \in RedeemPlaces
      BY <1>0, <1>a, <2>1 DEF Placed
    <3>2. \A q \in Deleters : pc'[q] \in DeleterPlaces
      BY <1>0, <1>a, <2>1 DEF Placed
    <3> QED BY ONLY <3>1, <3>2 DEF Placed, RedeemPlaces, DeleterPlaces
  <2> QED BY <2>2, <2>3, <2>4 DEF LInv
\* A statement that locks no allowlist row and no link.
<1>q. ASSUME NEW p \in Transactions, NEW l, pc' = [pc EXCEPT ![p] = l], l # "purging",
             p \in Redeems => l \in RedeemPlaces,
             p \in Deleters => l \in DeleterPlaces,
             p \in Requests /\ pc[p] \in AllowHeld => l \in AllowHeld,
             UNCHANGED <<allowLock, link, linkLock, seen>>
      PROVE  LInv'
  <2>1. /\ \A m \in Mailboxes, q \in Requests : q # p /\ allowLock'[m] = q => allowLock[m] = q
        /\ \A m \in Mailboxes : p \in Requests /\ allowLock'[m] = p => l \in AllowHeld
    BY <1>0, <1>q DEF AllowLocks
  <2> QED BY <1>a, <1>q, <2>1
\* The lock of an allowlist row.
<1>c. ASSUME NEW p \in Deleters, NEW l \in AllowHeld \ {"purging"}, NEW m, pc' = [pc EXCEPT ![p] = l],
             allowLock' = [allowLock EXCEPT ![m] = p], UNCHANGED <<link, linkLock, seen>>
      PROVE  LInv'
  <2>1. p \in Transactions /\ p \notin Redeems /\ l # "purging"
    BY <1>d
  <2>2. l \in DeleterPlaces
    BY DEF AllowHeld, DeleterPlaces, Busy, Scripted
  <2>3. \A n \in Mailboxes, q \in Requests : q # p /\ allowLock'[n] = q => allowLock[n] = q
    BY <1>0, <1>c DEF TypeOK
  <2>4. /\ \A q \in Deleters : q # p =>
             seen'[q] = seen[q] /\ \A t \in Solicits : linkLock'[t] = q <=> linkLock[t] = q
        /\ \A q \in Solicits : link'[q] = "live" => link[q] \in {"live", "none"}
    BY <1>c
  <2>5. \A n \in Mailboxes : p \in Requests /\ allowLock'[n] = p => l \in AllowHeld
    OBVIOUS
  <2> HIDE DEF Deleters, Requests, Transactions
  <2> QED BY <1>a, <1>c, <2>1, <2>2, <2>3, <2>4, <2>5
\* The end of p's transaction.
<1>b. ASSUME NEW p \in Transactions, NEW l \in Answers \cup {"reread"}, pc' = [pc EXCEPT ![p] = l],
             p \in Redeems => l # "reread", Release(p), seen' = seen,
             \A q \in Solicits : link'[q] = "live" => link[q] \in {"live", "none"}
      PROVE  LInv'
  <2>1. /\ \A m \in Mailboxes : allowLock'[m] = IF allowLock[m] = p THEN None ELSE allowLock[m]
        /\ \A t \in Solicits : linkLock'[t] = IF linkLock[t] = p THEN None ELSE linkLock[t]
    BY <1>0 , <1>b DEF Release, Freed, TypeOK
  <2>2. \A q \in Transactions : q # None
    OBVIOUS
  <2>3. \A q \in Deleters : q # p =>
          seen'[q] = seen[q] /\ \A t \in Solicits : linkLock'[t] = q <=> linkLock[t] = q
    BY <1>b, <2>1, <2>2
  <2>4. /\ \A m \in Mailboxes, q \in Requests : q # p /\ allowLock'[m] = q => allowLock[m] = q
        /\ \A m \in Mailboxes : p \in Requests /\ allowLock'[m] = p => l \in AllowHeld
    BY <2>1, <2>2
  <2>5. l # "purging" /\ (p \in Redeems => l \in RedeemPlaces) /\ (p \in Deleters => l \in DeleterPlaces)
    BY <1>b DEF RedeemPlaces, DeleterPlaces, Answers, Busy, Scripted
  <2> QED BY <1>a, <1>b, <2>3, <2>4, <2>5
<1>f. ASSUME NEW p \in Transactions, NEW l \in Answers \cup {"reread"}, Rollback(p, l),
             p \in Redeems => l # "reread", UNCHANGED <<link, seen>>
      PROVE  LInv'
  BY <1>b, <1>f DEF Rollback
<1>1. ASSUME NEW p \in Deleters, NEW m \in Mailboxes,
             (p \in Solicits /\ SolicitBegin(p, m)) \/ (p \in Admins /\ (GrantBegin(p, m) \/ RevokeBegin(p, m)))
      PROVE  LInv'
  <2>1. PICK l \in {"screen", "provision", "user_not_found", "grant_check", "revoke"} :
          pc' = [pc EXCEPT ![p] = l]
    BY <1>1 DEF SolicitBegin, GrantBegin, RevokeBegin
  <2>2. pc[p] = "idle" /\ UNCHANGED <<allowLock, link, linkLock, seen>>
    BY <1>1 DEF SolicitBegin, GrantBegin, RevokeBegin
  <2> QED BY <1>q, <2>1, <2>2 DEF DeleterPlaces, Answers, Busy, Scripted, AllowHeld
<1>2. ASSUME NEW p \in Requests, BadAddress(p) PROVE LInv'
  BY <1>2, <1>q DEF BadAddress, DeleterPlaces, RedeemPlaces, Answers, Busy, Scripted, AllowHeld
<1>3. ASSUME NEW r \in Solicits, Provision(r) \/ InsertRow(r) \/ InsertMail(r) \/ Reread(r) \/ Screen(r)
      PROVE  LInv'
  <2>0. UNCHANGED <<link, seen>> /\ pc[r] \in {"provision", "insert", "insert_mail", "reread", "screen"}
    BY <1>3 DEF Provision, InsertRow, InsertMail, Reread, Screen
  <2>1. CASE Rollback(r, "reread") \/ Rollback(r, "not_allowlisted")
    BY <1>f, <2>0, <2>1 DEF Answers
  <2>2. ASSUME NEW l \in {"insert", "insert_mail", "screen", "error", "purge", "enlist"}, Goto(r, l),
               UNCHANGED <<allowLock, linkLock>>
        PROVE  LInv'
    BY <1>q, <2>0, <2>2 DEF DeleterPlaces, Answers, Busy, Scripted, AllowHeld
  <2>3. CASE Provision(r) \/ Reread(r)
    BY <2>2, <2>3 DEF Provision, Reread
  <2>4. CASE InsertRow(r) \/ InsertMail(r)
    BY <2>1, <2>2, <2>4 DEF InsertRow, InsertMail
  <2>5. CASE Screen(r)
    BY <2>1, <2>2, <2>5 DEF Screen
  <2> QED BY <1>3, <2>3, <2>4, <2>5
<1>5. ASSUME NEW p \in Deleters, Enlist(p, "enlist") \/ Enlist(p, "grant") PROVE LInv'
  <2>0. UNCHANGED <<link, seen>> /\ pc[p] \in {"enlist", "grant"}
    BY <1>5 DEF Enlist
  <2>1. CASE Rollback(p, "error")
    BY <1>f, <2>0, <2>1 DEF Answers
  <2>2. CASE /\ pc' = [pc EXCEPT ![p] = "refer"] /\ allowLock' = [allowLock EXCEPT ![box[p]] = p]
             /\ UNCHANGED linkLock
    BY <1>c, <2>0, <2>2 DEF AllowHeld
  <2> QED BY <1>5, <2>1, <2>2 DEF Enlist
<1>6. ASSUME NEW p \in Deleters, Refer(p) PROVE LInv'
  <2>0. UNCHANGED <<link, seen>> /\ pc[p] = "refer"
    BY <1>6 DEF Refer
  <2>1. CASE Rollback(p, "error")
    BY <1>f, <2>0, <2>1 DEF Answers
  <2>2. ASSUME NEW l \in {"purge", "grant_commit"}, Goto(p, l), UNCHANGED <<allowLock, linkLock>>
        PROVE  LInv'
    BY <1>q, <2>0, <2>2 DEF DeleterPlaces, Answers, Busy, Scripted, AllowHeld
  <2> QED BY <1>6, <2>1, <2>2 DEF Refer
<1>7. ASSUME NEW p \in Deleters, Purge(p) PROVE LInv'
  <2>1. /\ pc[p] = "purge" /\ pc' = [pc EXCEPT ![p] = "purging"]
        /\ UNCHANGED <<allowLock, linkLock, link, box>>
        /\ \A q \in Deleters : q # p => seen'[q] = seen[q]
    BY <1>0, <1>7 DEF Purge, TypeOK
  <2>2. \A q \in Transactions : pc'[q] = IF q = p THEN "purging" ELSE pc[q]
    BY <1>0, <2>1 DEF TypeOK
  <2>3. \A t \in Solicits : linkLock[t] # p
    BY <2>1 DEF IInv, DeleterHolds
  <2>4. \A q \in Deleters : q # p => Unvisited(q)' = Unvisited(q)
    BY <2>1 DEF Unvisited
  <2>5. Ascends'
    BY <1>0, <2>1, <2>2, <2>3, <2>4 DEF Ascends
  <2>6. AllowLocks'
    BY <1>0, <2>1, <2>2 DEF AllowLocks, AllowHeld
  <2>7. Placed'
    <3>1. \A c \in Redeems : pc'[c] \in RedeemPlaces
      BY <1>0, <1>d, <2>2 DEF Placed
    <3>2. "purging" \in DeleterPlaces
      BY DEF DeleterPlaces, Busy, Scripted
    <3>3. \A q \in Deleters : pc'[q] \in DeleterPlaces
      BY <1>0, <2>2, <3>2 DEF Placed
    <3> QED BY ONLY <3>1, <3>3 DEF Placed, RedeemPlaces, DeleterPlaces
  <2> QED BY <2>5, <2>6, <2>7 DEF LInv
<1>8. ASSUME NEW p \in Deleters, PurgeRow(p) PROVE LInv'
  <2>1. PICK t \in Unvisited(p) :
          /\ \A other \in Unvisited(p) : t <= other
          /\ linkLock[t] = None /\ linkLock' = [linkLock EXCEPT ![t] = p]
    BY <1>8 DEF PurgeRow
  <2>2. p \in Transactions /\ p # None /\ pc[p] = "purging" /\ UNCHANGED <<allowLock, link, pc, box, seen>>
    BY <1>8 DEF PurgeRow, Deleters, Requests
  <2>3. t \in Solicits /\ Unvisited(p) \in SUBSET Solicits
    BY <1>0, <2>2 DEF Unvisited, TypeOK
  <2>4. \A x \in Solicits : linkLock'[x] = IF x = t THEN p ELSE linkLock[x]
    BY <1>0, <2>1, <2>3 DEF TypeOK
  <2>5. Unvisited(p)' \subseteq Unvisited(p) \ {t}
    BY <1>0, <2>2, <2>3, <2>4 DEF Unvisited, TypeOK
  <2>6. \A x \in Solicits, q \in Unvisited(p)' : linkLock'[x] = p => x < q
    <3> SUFFICES ASSUME NEW x \in Solicits, NEW q \in Unvisited(p)', linkLock'[x] = p
                 PROVE  x < q
      OBVIOUS
    <3>1. q \in Unvisited(p) /\ q # t /\ t <= q /\ q \in Nat /\ t \in Nat
      BY <2>1, <2>3, <2>5
    <3>2. x # t => x < q
      BY <1>0, <2>2, <2>4, <3>1 DEF Ascends
    <3> QED BY <3>1, <3>2
  <2>7. ASSUME NEW d \in Deleters, d # p, NEW x \in Solicits, NEW q \in Unvisited(d)',
               pc'[d] = "purging", linkLock'[x] = d
        PROVE  x < q
    <3>1. q \in seen[d] /\ link[q] = "live" /\ q \in Solicits /\ linkLock'[q] # d
      BY <1>0, <2>2, <2>7 DEF Unvisited, TypeOK, Deleters, Requests
    <3>2. q \in Unvisited(d) /\ linkLock[x] = d
      BY <2>1, <2>4, <2>7, <3>1 DEF Unvisited, Deleters, Requests
    <3> QED BY <1>0, <2>2, <2>7, <3>2 DEF Ascends
  <2>8. Ascends'
    BY <2>2, <2>6, <2>7 DEF Ascends
  <2> QED BY <1>0, <2>2, <2>8 DEF LInv, AllowLocks, Placed
<1>9. ASSUME NEW p \in Deleters, PurgeEnd(p) PROVE LInv'
  <2>1. PICK l \in {"mail", "commit"} : pc' = [pc EXCEPT ![p] = l]
    BY <1>9 DEF PurgeEnd
  <2> QED BY <1>9, <1>q, <2>1 DEF PurgeEnd, DeleterPlaces, Busy, Scripted, AllowHeld
<1>10. ASSUME NEW r \in Solicits, Mail(r) PROVE LInv'
  <2>1. CASE Rollback(r, "email_delivery_failed")
    BY <1>10, <1>f, <2>1 DEF Mail, Answers
  <2>2. CASE Goto(r, "commit") /\ UNCHANGED locks
    BY <1>10, <1>q, <2>2 DEF Mail, DeleterPlaces, Busy, Scripted, AllowHeld
  <2> QED BY <1>10, <2>1, <2>2 DEF Mail
<1>11. ASSUME NEW r \in Solicits, SolicitCommit(r) PROVE LInv'
  <2>1. \A q \in Solicits : link'[q] = "live" => link[q] \in {"live", "none"}
    BY <1>0, <1>11 DEF SolicitCommit, IInv, RowsExist
  <2> QED BY <1>11, <1>b, <2>1 DEF SolicitCommit, Answers
<1>12. ASSUME NEW c \in Redeems, NEW t \in Solicits, RedeemBegin(c, t) PROVE LInv'
  BY <1>12, <1>q DEF RedeemBegin, RedeemPlaces, AllowHeld
<1>13. ASSUME NEW c \in Redeems, RedeemSelect(c) PROVE LInv'
  <2>1. PICK l \in {"magic_link_invalid", "holder"} : pc' = [pc EXCEPT ![c] = l]
    BY <1>13 DEF RedeemSelect
  <2>2. \A q \in Deleters : q # c /\ \A t \in Solicits : linkLock'[t] = q <=> linkLock[t] = q
    <3>1. ASSUME NEW q \in Deleters PROVE q # c /\ q # None
      OBVIOUS
    <3>2. \/ UNCHANGED linkLock
          \/ linkLock[ticket[c]] = None /\ linkLock' = [linkLock EXCEPT ![ticket[c]] = c]
      BY <1>13 DEF RedeemSelect
    <3>3. DOMAIN linkLock = Solicits
      BY <1>0 DEF TypeOK
    <3> QED BY <3>1, <3>2, <3>3
  <2>3. c \in Transactions /\ c \notin Deleters /\ pc[c] = "select" /\ UNCHANGED <<allowLock, link, seen>>
    BY <1>13 DEF RedeemSelect
  <2>4. \A m \in Mailboxes : allowLock'[m] # c
    BY <1>0, <2>3 DEF AllowLocks, AllowHeld
  <2>5. l # "purging" /\ l \in RedeemPlaces
    BY DEF RedeemPlaces, Answers
  <2> QED BY <1>a, <2>1, <2>2, <2>3, <2>4, <2>5
<1>14. ASSUME NEW c \in Redeems, RedeemHolder(c) \/ RedeemAllowed(c) PROVE LInv'
  <2>0. UNCHANGED <<link, seen>> /\ pc[c] \in {"holder", "allowed"}
    BY <1>14 DEF RedeemHolder, RedeemAllowed
  <2>1. CASE Rollback(c, "user_missing") \/ Rollback(c, "magic_login_revoked")
    BY <1>f, <2>0, <2>1 DEF Answers
  <2>2. ASSUME NEW l \in {"allowed", "commit"}, Goto(c, l), UNCHANGED locks PROVE LInv'
    BY <1>q, <2>0, <2>2 DEF RedeemPlaces, AllowHeld
  <2> QED BY <1>14, <2>1, <2>2 DEF RedeemHolder, RedeemAllowed
<1>15. ASSUME NEW c \in Redeems, RedeemCommit(c) PROVE LInv'
  <2>1. \A q \in Solicits : link'[q] = "live" => link[q] \in {"live", "none"}
    BY <1>0, <1>15 DEF RedeemCommit, TypeOK
  <2> QED BY <1>15, <1>b, <2>1 DEF RedeemCommit, Answers
<1>16. ASSUME NEW a \in Admins, GrantCheck(a) PROVE LInv'
  <2>1. PICK l \in {"noop", "grant"} : pc' = [pc EXCEPT ![a] = l]
    BY <1>16 DEF GrantCheck
  <2> QED BY <1>16, <1>q, <2>1 DEF GrantCheck, DeleterPlaces, Busy, Answers, Scripted, AllowHeld
<1>17. ASSUME NEW a \in Admins, GrantCommit(a) \/ RevokeCommit(a) PROVE LInv'
  <2>1. PICK l \in {"granted", "revoked"} : pc' = [pc EXCEPT ![a] = l] /\ Release(a) /\ seen' = seen
    BY <1>17 DEF GrantCommit, RevokeCommit
  <2>2. \A q \in Solicits : link'[q] = "live" => link[q] \in {"live", "none"}
    BY <1>0, <1>17 DEF GrantCommit, RevokeCommit, TypeOK
  <2> QED BY <1>b, <2>1, <2>2 DEF Answers
<1>18. ASSUME NEW a \in Admins, Unlist(a) PROVE LInv'
  <2>0. pc[a] = "revoke" /\ UNCHANGED <<link, linkLock, seen>>
    BY <1>18 DEF Unlist
  <2>1. CASE pc' = [pc EXCEPT ![a] = "not_on_allowlist"] /\ UNCHANGED allowLock
    BY <1>q, <2>0, <2>1 DEF DeleterPlaces, Busy, Answers, Scripted, AllowHeld
  <2>2. CASE pc' = [pc EXCEPT ![a] = "purge"] /\ allowLock' = [allowLock EXCEPT ![box[a]] = a]
    BY <1>c, <2>0, <2>2 DEF AllowHeld
  <2> QED BY <1>18, <2>1, <2>2 DEF Unlist
<1>19. ASSUME NEW s \in Seeds, SeedBegin(s) \/ SeedStep(s) PROVE LInv'
  <2>1. CASE Rollback(s, "error") /\ (SeedMail(s) \/ SeedUnlist(s))
    BY <1>f, <2>1 DEF SeedMail, SeedUnlist, Answers
  <2>2. CASE SeedCommit(s)
    BY <1>b, <2>2 DEF SeedCommit, Answers
  <2>3. ASSUME NEW l \in Scripted, Goto(s, l), UNCHANGED <<allowLock, link, linkLock, seen>> PROVE LInv'
    BY <1>q, <2>3 DEF Scripted
  <2>4. CASE SeedBegin(s) \/ SeedRow(s)
    BY <2>3, <2>4 DEF SeedBegin, SeedRow, Scripted
  <2>5. CASE (SeedMail(s) \/ SeedUnlist(s)) /\ ~Rollback(s, "error")
    BY <2>3, <2>5 DEF SeedMail, SeedUnlist, Scripted
  <2>6. CASE SeedAllow(s)
    <3>1. PICK l \in {"seed_commit", "seed_row"} : pc' = [pc EXCEPT ![s] = l]
      BY <2>6 DEF SeedAllow
    <3>2. /\ UNCHANGED <<link, linkLock, seen>>
          /\ \E m, x : x \in {None, s} /\ allowLock' = [allowLock EXCEPT ![m] = x]
      BY <2>6 DEF SeedAllow
    <3>3. \A m \in Mailboxes, q \in Requests : q # s /\ allowLock'[m] = q => allowLock[m] = q
      BY <1>0, <3>2 DEF TypeOK
    <3> QED BY <1>a, <3>1, <3>2, <3>3
  <2> QED BY <1>19, <2>1, <2>2, <2>4, <2>5, <2>6 DEF SeedStep
<1>20. ASSUME NEW p \in Transactions, Abort(p) PROVE LInv'
  BY <1>20, <1>f DEF Abort, Answers
<1>21. CASE UNCHANGED <<link, linkLock, allowLock, seen, pc, box>>
  <2>1. Ascends'
    BY <1>0, <1>21, AscendsStill
  <2> QED BY <1>0, <1>21, <2>1 DEF LInv, AllowLocks, Placed
<1>22. ASSUME NEW r \in Solicits, Expire(r) PROVE LInv'
  BY <1>21, <1>22 DEF Expire
<1>23. CASE UNCHANGED vars
  BY <1>21, <1>23 DEF vars
<1>24. \A r \in Solicits : ~SolicitStep(r) \/ LInv'
  BY <1>3, <1>5, <1>6, <1>7, <1>8, <1>9, <1>10, <1>11 DEF SolicitStep
<1>25. \A a \in Admins : ~AdminStep(a) \/ LInv'
  BY <1>5, <1>6, <1>7, <1>8, <1>9, <1>16, <1>17, <1>18 DEF AdminStep
<1> QED
  BY <1>1, <1>2, <1>12, <1>13, <1>14, <1>15, <1>19, <1>20, <1>22, <1>23, <1>24, <1>25
  DEF Next, RedeemStep

\* Among solicits, redeems, grants and revokes PostgreSQL has no deadlock to break,
\* however many run and whatever rows they find: every wait is up the order.  A circle
\* needs the seed script.
THEOREM NobodyWaitsInACircle == Spec => []NoCycleOfWaits
<1>1. Init => AInv /\ LInv
  <2> SUFFICES ASSUME Init PROVE AInv /\ LInv
    OBVIOUS
  <2> USE RequestKinds DEF Transactions, Requests
  <2>1. \A p \in Transactions : pc[p] = "idle" /\ p # None
    BY DEF Init
  <2>2. /\ \A h \in Handles : rowLock[h] = None
        /\ \A m \in Mailboxes : mailLock[m] = None /\ allowLock[m] = None
    BY DEF Init
  <2>3. \A p \in Requests : RowHeld(p)
    BY <2>1, <2>2 DEF RowHeld
  <2>4. \A s \in Seeds : SeedHeld(s)
    BY <2>1, <2>2 DEF SeedHeld, Written, Given, Scripted, users
  <2>5. \A c \in Redeems : Found(c)
    BY <2>1 DEF Found
  <2>6. LInv
    BY <2>1, <2>2 DEF LInv, AllowLocks, Ascends, Placed, RedeemPlaces, DeleterPlaces, Deleters, Busy, Scripted
  <2> QED BY <2>3, <2>4, <2>5, <2>6 DEF AInv
<1>2. IInv => TypeOK
  BY DEF IInv
<1> QED
  BY <1>1, <1>2, AccountStep, LockOrderStep, NoCycle, Invariant, TypesAndPlaces, PTL DEF Spec
=============================================================================
