----------------------------- MODULE MagicLogin -----------------------------
(***************************************************************************)
(* Passwordless sign-in: a solicit request mails a one-time link, a redeem *)
(* request trades it for a session, administrators grant and revoke the    *)
(* mailboxes that may use links (auth_flow.py, magic_allowlist_ops.py).    *)
(*                                                                         *)
(* Every request is one PostgreSQL transaction at READ COMMITTED, and      *)
(* every action below is one of its SQL statements: a SELECT reads what is *)
(* committed now, a write takes the row's lock and becomes visible when    *)
(* the transaction commits, a statement that meets a locked row waits and  *)
(* re-reads the row.  An uncommitted write is therefore just its lock: a   *)
(* solicit or revoke holding a link's row is about to delete it, a redeem  *)
(* holding it is about to consume it, a solicit, grant or seed script      *)
(* holding an allowlist row is about to insert it, a revoke to delete it.  *)
(*                                                                         *)
(* A row of users is known by its handle, which never changes; its mailbox *)
(* may, by the seed script.  A foreign key that refers to the row waits    *)
(* for who is changing it, and is then shared until its transaction ends.  *)
(*                                                                         *)
(* The token a solicit mints names the solicit; the session a redeem mints *)
(* names the redeem.  Tokens are unguessable: only mailed ones are tried.  *)
(***************************************************************************)
EXTENDS Naturals, Sequences

CONSTANTS
  Mailboxes,     \* normalised e-mail addresses
  Solicits,      \* POST /v1/auth/magic-link/request calls, numbered by heap position
  Redeems,       \* POST /v1/auth/magic-link/consume calls
  Admins,        \* calls to /internal/magic-login-allowlist
  Seeds,         \* runs of bootstrap_seed.py
  AutoProvision, \* solicits that a worker with auto_provision_users set handles
  Handles,       \* of accounts
  Candidates,    \* Candidates[m]: the handles tried for m: name, name_2, ...
  Roster,        \* the roster of bootstrap_seed.py, handle and mailbox of each entry
  None           \* no transaction, no mailbox, no link, no handle

Requests == Solicits \cup Redeems \cup Admins
Transactions == Requests \cup Seeds

ASSUME RequestKinds ==
  /\ Solicits \subseteq Nat
  /\ Solicits \cap (Redeems \cup Admins \cup Seeds) = {}
  /\ Redeems \cap (Admins \cup Seeds) = {}
  /\ Admins \cap Seeds = {}
  /\ None \notin Transactions \cup Mailboxes \cup Handles

ASSUME SettingKnown == AutoProvision \subseteq Solicits

ASSUME RosterKnown ==
  /\ Roster \in Seq([handle : Handles, mail : Mailboxes])
  /\ \A i, j \in DOMAIN Roster :
       Roster[i].handle = Roster[j].handle \/ Roster[i].mail = Roster[j].mail => i = j

ASSUME CandidatesKnown == Candidates \in [Mailboxes -> Seq(Handles)]

VARIABLES
  handle,     \* handle[m]: of the committed row of users with mailbox m
  allow,      \* committed rows of magic_login_allowlist
  link,       \* link[r]: the magic_links row that solicit r inserts
  expired,    \* links whose expires_at has passed
  sessions,   \* redeems whose row of sessions is committed
  mailed,     \* links a recipient has received
  rowLock,    \* rowLock[h], allowLock[m], linkLock[r]: the transaction that wrote
  allowLock,  \*   the row of users, of the allowlist or of magic_links and has not
  linkLock,   \*   ended
  mailLock,   \* mailLock[m]: the one that gives m to a row of users or takes it away
  pc,         \* statement a request executes next, or the answer it gave
  box,        \* mailbox a solicit or an administrator's call is about
  ticket,     \* link a redeem presents
  fresh,      \* whether that link was unexpired when the redeem was issued
  seen,       \* links the DELETE of a solicit or revoke found in its snapshot
  row,        \* handle of the account that a solicit inserts or a redeem is for
  entry       \* entry of the roster that a seed script is at

tables == <<handle, allow, link, expired, sessions, mailed>>
locks  == <<rowLock, mailLock, allowLock, linkLock>>
locals == <<box, ticket, fresh, seen, row, entry>>
vars   == <<tables, locks, pc, locals>>

\* Mailboxes that have an account.
users == {m \in Mailboxes : handle[m] # None}

Busy == {"provision", "insert", "insert_mail", "reread", "screen", "enlist", "refer", "purge",
         "purging", "mail", "commit", "select", "holder", "allowed", "grant_check", "grant",
         "grant_commit", "revoke", "seed_row", "seed_mail", "seed_unlist", "seed_allow",
         "seed_commit"}
Answers == {"invalid_email", "user_not_found", "not_allowlisted", "accepted",
            "email_delivery_failed", "magic_link_invalid", "user_missing",
            "magic_login_revoked", "signed_in", "noop", "granted",
            "not_on_allowlist", "revoked", "seed_ok", "error"}

TypeOK ==
  /\ handle \in [Mailboxes -> Handles \cup {None}] /\ allow \subseteq Mailboxes
  /\ link \in [Solicits -> {"none", "live", "consumed", "purged"}]
  /\ expired \subseteq Solicits /\ mailed \subseteq Solicits
  /\ sessions \subseteq Redeems
  /\ rowLock \in [Handles -> Transactions \cup {None}]
  /\ mailLock \in [Mailboxes -> Transactions \cup {None}]
  /\ allowLock \in [Mailboxes -> Transactions \cup {None}]
  /\ linkLock \in [Solicits -> Requests \cup {None}]
  /\ pc \in [Transactions -> {"idle"} \cup Busy \cup Answers]
  /\ box \in [Transactions -> Mailboxes \cup {None}]
  /\ ticket \in [Redeems -> Solicits \cup {None}]
  /\ fresh \in [Redeems -> BOOLEAN]
  /\ seen \in [Transactions -> SUBSET Solicits]
  /\ row \in [Requests -> Handles \cup {None}]
  /\ entry \in [Seeds -> 1..(Len(Roster) + 1)]

Init ==
  /\ handle \in [Mailboxes -> Handles \cup {None}]
  /\ \A m, n \in users : handle[m] = handle[n] => m = n
  /\ allow \in SUBSET users
  /\ link = [r \in Solicits |-> "none"]
  /\ expired = {} /\ sessions = {} /\ mailed = {}
  /\ rowLock = [h \in Handles |-> None]
  /\ mailLock = [m \in Mailboxes |-> None]
  /\ allowLock = [m \in Mailboxes |-> None]
  /\ linkLock = [r \in Solicits |-> None]
  /\ pc = [p \in Transactions |-> "idle"]
  /\ box = [p \in Transactions |-> None]
  /\ ticket = [c \in Redeems |-> None]
  /\ fresh = [c \in Redeems |-> FALSE]
  /\ seen = [p \in Transactions |-> {}]
  /\ row = [p \in Requests |-> None]
  /\ entry = [s \in Seeds |-> 1]

-----------------------------------------------------------------------------
Goto(p, label) == pc' = [pc EXCEPT ![p] = label]

\* Every row p wrote is unlocked: the end of p's transaction.
Freed(lock, p) == [x \in DOMAIN lock |-> IF lock[x] = p THEN None ELSE lock[x]]
Release(p) ==
  /\ rowLock' = Freed(rowLock, p)
  /\ mailLock' = Freed(mailLock, p)
  /\ allowLock' = Freed(allowLock, p)
  /\ linkLock' = Freed(linkLock, p)

\* Broken variant: a transaction that fails keeps its locks.
RollbackForgotten(p, answer) ==
  /\ Goto(p, answer)
  /\ UNCHANGED locks

\* acquire_database_session: an exception rolls the transaction back.
Rollback(p, answer) ==
  /\ Release(p)
  /\ Goto(p, answer)

\* A crash, a lost connection: nothing of p survives.
Abort(p) ==
  /\ pc[p] \in Busy
  /\ Rollback(p, "error")
  /\ UNCHANGED <<tables, locals>>

\* normalize_email returns None.
BadAddress(p) ==
  /\ pc[p] = "idle"
  /\ Goto(p, "invalid_email")
  /\ UNCHANGED <<tables, locks, locals>>

-----------------------------------------------------------------------------
\* start_magic_challenge, first SELECT: is there an account?
SolicitBegin(r, m) ==
  /\ pc[r] = "idle"
  /\ box' = [box EXCEPT ![r] = m]
  /\ \/ m \in users /\ Goto(r, "screen")
     \/ m \notin users /\ r \in AutoProvision /\ Goto(r, "provision")
     \/ m \notin users /\ r \notin AutoProvision /\ Goto(r, "user_not_found")
  /\ UNCHANGED <<tables, locks, ticket, fresh, seen, row, entry>>

Taken(h) == \E m \in Mailboxes : handle[m] = h

\* _provision_member: the SELECTs look for the first candidate that is free.
Provision(r) ==
  /\ pc[r] = "provision"
  /\ \E k \in DOMAIN Candidates[box[r]] :
       /\ ~Taken(Candidates[box[r]][k])
       /\ \A i \in 1..(k - 1) : Taken(Candidates[box[r]][i])
       /\ row' = [row EXCEPT ![r] = Candidates[box[r]][k]]
  /\ Goto(r, "insert")
  /\ UNCHANGED <<tables, locks, box, ticket, fresh, seen, entry>>

\* The INSERT.  Each unique index, first that of handle and then that of email,
\* makes it wait for who is writing the same key, and fails it if the key is there
\* after that: IntegrityError, and session.rollback().
InsertRow(r) ==
  /\ pc[r] = "insert"
  /\ rowLock[row[r]] = None
  /\ \/ /\ ~Taken(row[r])
        /\ rowLock' = [rowLock EXCEPT ![row[r]] = r]
        /\ Goto(r, "insert_mail")
        /\ UNCHANGED <<mailLock, allowLock, linkLock>>
     \/ /\ Taken(row[r])
        /\ Rollback(r, "reread")
  /\ UNCHANGED <<tables, locals>>

InsertMail(r) ==
  /\ pc[r] = "insert_mail"
  /\ mailLock[box[r]] = None
  /\ \/ /\ box[r] \notin users
        /\ mailLock' = [mailLock EXCEPT ![box[r]] = r]
        /\ Goto(r, "screen")
        /\ UNCHANGED <<rowLock, allowLock, linkLock>>
     \/ /\ box[r] \in users
        /\ Rollback(r, "reread")
  /\ UNCHANGED <<tables, locals>>

\* The row that won is used, if it is of the same mailbox.
Reread(r) ==
  /\ pc[r] = "reread"
  /\ Goto(r, IF box[r] \in users THEN "screen" ELSE "error")
  /\ UNCHANGED <<tables, locks, locals>>

\* is_allowed, on behalf of a solicit.
Screen(r) ==
  /\ pc[r] = "screen"
  /\ \/ box[r] \in allow /\ Goto(r, "purge") /\ UNCHANGED locks
     \/ box[r] \notin allow /\ r \in AutoProvision /\ Goto(r, "enlist") /\ UNCHANGED locks
     \/ box[r] \notin allow /\ r \notin AutoProvision /\ Rollback(r, "not_allowlisted")
  /\ UNCHANGED <<tables, locals>>

\* INSERT of the allowlist row: waits for a concurrent writer of the row, and
\* fails if the row is there by then.
Enlist(p, label) ==
  /\ pc[p] = label
  /\ allowLock[box[p]] = None
  /\ \/ /\ box[p] \notin allow
        /\ allowLock' = [allowLock EXCEPT ![box[p]] = p]
        /\ Goto(p, "refer")
        /\ UNCHANGED <<rowLock, mailLock, linkLock>>
     \/ /\ box[p] \in allow
        /\ Rollback(p, "error")
  /\ UNCHANGED <<tables, locals>>

\* Its foreign key: the account is p's own or is there, and no script changes it.
Refer(p) ==
  /\ pc[p] = "refer"
  /\ \/ /\ \/ mailLock[box[p]] = p
           \/ box[p] \in users /\ rowLock[handle[box[p]]] = None
        /\ Goto(p, IF p \in Solicits THEN "purge" ELSE "grant_commit")
        /\ UNCHANGED locks
     \/ /\ mailLock[box[p]] # p /\ box[p] \notin users
        /\ Rollback(p, "error")
  /\ UNCHANGED <<tables, locals>>

\* Requests whose allowlist row refers to the account with handle h.
Referring(h) ==
  {p \in Solicits \cup Admins :
     /\ pc[p] \in {"purge", "purging", "mail", "commit", "grant_commit"}
     /\ box[p] \in users \ allow /\ handle[box[p]] = h
     /\ allowLock[box[p]] = p}

-----------------------------------------------------------------------------
\* DELETE FROM magic_links WHERE email = box AND consumed_at IS NULL, issued by
\* a solicit or a revoke.  The statement fixes its snapshot, then visits the
\* rows in heap order, waits for each one's lock and re-reads it.
Purge(p) ==
  /\ pc[p] = "purge"
  /\ seen' = [seen EXCEPT
       ![p] = {q \in Solicits : link[q] = "live" /\ box[q] = box[p]}]
  /\ Goto(p, "purging")
  /\ UNCHANGED <<tables, locks, box, ticket, fresh, row, entry>>

\* Broken variant: the DELETE passes over rows that another transaction holds.
UnlockedOnly(p) == {q \in seen[p] : link[q] = "live" /\ linkLock[q] = None}

Unvisited(p) == {q \in seen[p] : link[q] = "live" /\ linkLock[q] # p}

\* Broken variant: the lock is entered under the mailbox, not the transaction.
PurgeRowByMailbox(p) ==
  /\ pc[p] = "purging"
  /\ \E q \in Unvisited(p) :
       /\ linkLock[q] = None
       /\ linkLock' = [linkLock EXCEPT ![q] = box[p]]
  /\ UNCHANGED <<tables, rowLock, mailLock, allowLock, pc, locals>>

PurgeRow(p) ==
  /\ pc[p] = "purging"
  /\ \E q \in Unvisited(p) :
       /\ \A other \in Unvisited(p) : q <= other
       /\ linkLock[q] = None
       /\ linkLock' = [linkLock EXCEPT ![q] = p]
  /\ UNCHANGED <<tables, rowLock, mailLock, allowLock, pc, locals>>

\* Broken variant: a solicit enters its allowlist row after the DELETE.
PurgeEndBeforeEnlist(p) ==
  /\ pc[p] = "purging"
  /\ Unvisited(p) = {}
  /\ Goto(p, CASE p \in Admins -> "commit"
               [] p \in Solicits /\ allowLock[box[p]] = p -> "mail"
               [] OTHER -> "enlist")
  /\ UNCHANGED <<tables, locks, locals>>

\* Broken variant: the deletions are committed before the mail goes out.
PurgeEndCommits(p) ==
  /\ pc[p] = "purging"
  /\ Unvisited(p) = {}
  /\ link' = [q \in Solicits |-> IF linkLock[q] = p THEN "purged" ELSE link[q]]
  /\ linkLock' = Freed(linkLock, p)
  /\ Goto(p, IF p \in Solicits THEN "mail" ELSE "commit")
  /\ UNCHANGED <<handle, allow, expired, sessions, mailed, rowLock, mailLock, allowLock, locals>>

PurgeEnd(p) ==
  /\ pc[p] = "purging"
  /\ Unvisited(p) = {}
  /\ Goto(p, IF p \in Solicits THEN "mail" ELSE "commit")
  /\ UNCHANGED <<tables, locks, locals>>

\* send_magic_link, awaited inside the transaction.  An exception may come
\* after the provider took the message: its link is then mailed but dead.
Mail(r) ==
  /\ pc[r] = "mail"
  /\ \E sent, raised \in BOOLEAN :
       /\ sent \/ raised
       /\ mailed' = IF sent THEN mailed \cup {r} ELSE mailed
       /\ \/ raised /\ Rollback(r, "email_delivery_failed")
          \/ ~raised /\ Goto(r, "commit") /\ UNCHANGED locks
  /\ UNCHANGED <<handle, allow, link, expired, sessions, locals>>

\* The commit after the handler returned installs the new link and every
\* pending insert and delete at once.
SolicitCommit(r) ==
  /\ pc[r] = "commit"
  /\ link' = [q \in Solicits |->
                IF q = r THEN "live"
                ELSE IF linkLock[q] = r THEN "purged" ELSE link[q]]
  /\ handle' = [m \in Mailboxes |-> IF mailLock[m] = r THEN row[r] ELSE handle[m]]
  /\ allow' = allow \cup {m \in Mailboxes : allowLock[m] = r}
  /\ Release(r)
  /\ Goto(r, "accepted")
  /\ UNCHANGED <<expired, sessions, mailed, locals>>

-----------------------------------------------------------------------------
\* redeem_magic_challenge: utcnow() is bound when the statement is built.
RedeemBegin(c, t) ==
  /\ pc[c] = "idle"
  /\ t \in mailed
  /\ ticket' = [ticket EXCEPT ![c] = t]
  /\ fresh' = [fresh EXCEPT ![c] = t \notin expired]
  /\ Goto(c, "select")
  /\ UNCHANGED <<tables, locks, box, seen, row, entry>>

\* Broken variant: a plain SELECT, without FOR UPDATE.
RedeemSelectUnlocked(c) ==
  LET t == ticket[c] IN
  /\ pc[c] = "select"
  /\ \/ (link[t] # "live" \/ ~fresh[c]) /\ Goto(c, "magic_link_invalid")
     \/ link[t] = "live" /\ fresh[c] /\ Goto(c, "holder")
  /\ UNCHANGED <<tables, locks, locals>>

\* SELECT ... FOR UPDATE: takes the row's lock, waiting for it if the row
\* matches, and re-reads the row after the wait.
RedeemSelect(c) ==
  LET t == ticket[c] IN
  /\ pc[c] = "select"
  /\ \/ /\ link[t] # "live" \/ ~fresh[c]
        /\ Goto(c, "magic_link_invalid")
        /\ UNCHANGED linkLock
     \/ /\ link[t] = "live" /\ fresh[c]
        /\ linkLock[t] = None
        /\ linkLock' = [linkLock EXCEPT ![t] = c]
        /\ Goto(c, "holder")
  /\ UNCHANGED <<tables, rowLock, mailLock, allowLock, locals>>

\* SELECT of the account, then of the allowlist row, each on a later snapshot.
RedeemHolder(c) ==
  /\ pc[c] = "holder"
  /\ \/ /\ box[ticket[c]] \in users
        /\ row' = [row EXCEPT ![c] = handle[box[ticket[c]]]]
        /\ Goto(c, "allowed")
        /\ UNCHANGED locks
     \/ /\ box[ticket[c]] \notin users
        /\ Rollback(c, "user_missing")
        /\ UNCHANGED row
  /\ UNCHANGED <<tables, box, ticket, fresh, seen, entry>>

RedeemAllowed(c) ==
  /\ pc[c] = "allowed"
  /\ \/ box[ticket[c]] \in allow /\ Goto(c, "commit") /\ UNCHANGED locks
     \/ box[ticket[c]] \notin allow /\ Rollback(c, "magic_login_revoked")
  /\ UNCHANGED <<tables, locals>>

\* consumed_at and the session row, whose foreign key waits for who changes the
\* account; what was flushed is committed next.
RedeemCommit(c) ==
  /\ pc[c] = "commit"
  /\ rowLock[row[c]] = None
  /\ link' = [link EXCEPT ![ticket[c]] = "consumed"]
  /\ sessions' = sessions \cup {c}
  /\ Release(c)
  /\ Goto(c, "signed_in")
  /\ UNCHANGED <<handle, allow, expired, mailed, locals>>

-----------------------------------------------------------------------------
\* grant_email: two SELECTs, then an INSERT (Enlist) that is flushed by the commit.
GrantBegin(a, m) ==
  /\ pc[a] = "idle"
  /\ box' = [box EXCEPT ![a] = m]
  /\ Goto(a, IF m \in users THEN "grant_check" ELSE "user_not_found")
  /\ UNCHANGED <<tables, locks, ticket, fresh, seen, row, entry>>

GrantCheck(a) ==
  /\ pc[a] = "grant_check"
  /\ Goto(a, IF box[a] \in allow THEN "noop" ELSE "grant")
  /\ UNCHANGED <<tables, locks, locals>>

GrantCommit(a) ==
  /\ pc[a] = "grant_commit"
  /\ allow' = allow \cup {box[a]}
  /\ Release(a)
  /\ Goto(a, "granted")
  /\ UNCHANGED <<handle, link, expired, sessions, mailed, locals>>

RevokeBegin(a, m) ==
  /\ pc[a] = "idle"
  /\ box' = [box EXCEPT ![a] = m]
  /\ Goto(a, "revoke")
  /\ UNCHANGED <<tables, locks, ticket, fresh, seen, row, entry>>

\* revoke_email: DELETE the allowlist row, then the outstanding links (Purge).
Unlist(a) ==
  /\ pc[a] = "revoke"
  /\ \/ /\ box[a] \notin allow
        /\ Goto(a, "not_on_allowlist")
        /\ UNCHANGED allowLock
     \/ /\ box[a] \in allow
        /\ allowLock[box[a]] = None
        /\ allowLock' = [allowLock EXCEPT ![box[a]] = a]
        /\ Goto(a, "purge")
  /\ UNCHANGED <<tables, rowLock, mailLock, linkLock, locals>>

RevokeCommit(a) ==
  /\ pc[a] = "commit"
  /\ link' = [q \in Solicits |-> IF linkLock[q] = a THEN "purged" ELSE link[q]]
  /\ allow' = allow \ {box[a]}
  /\ Release(a)
  /\ Goto(a, "revoked")
  /\ UNCHANGED <<handle, expired, sessions, mailed, locals>>

-----------------------------------------------------------------------------
\* bootstrap_seed.py is one transaction.  The accounts after its first k upserts,
\* each of which has locked the row that it inserted or changed:
Upserted(k) ==
  [m \in Mailboxes |->
     IF \E i \in 1..k : Roster[i].mail = m
     THEN (CHOOSE e \in {Roster[i] : i \in 1..k} : e.mail = m).handle
     ELSE IF \E i \in 1..k : Roster[i].handle = handle[m] THEN None ELSE handle[m]]

Entry(s) == Roster[entry[s]]
\* Mailboxes whose account the entry takes away.
Moved(s) == {m \in Mailboxes : handle[m] = Entry(s).handle} \ {Entry(s).mail}

SeedBegin(s) ==
  /\ pc[s] = "idle"
  /\ Goto(s, IF Roster = <<>> THEN "seed_commit" ELSE "seed_row")
  /\ UNCHANGED <<tables, locks, locals>>

\* INSERT INTO users ... ON CONFLICT (handle) DO UPDATE: the row is inserted, or
\* locked once no other transaction changes it or refers to it.
SeedRow(s) ==
  LET h == Entry(s).handle IN
  /\ pc[s] = "seed_row"
  /\ rowLock[h] = None /\ Referring(h) = {}
  /\ rowLock' = [rowLock EXCEPT ![h] = s]
  /\ mailLock' = [m \in Mailboxes |-> IF handle[m] = h THEN s ELSE mailLock[m]]
  /\ Goto(s, IF handle[Entry(s).mail] = h THEN "seed_allow" ELSE "seed_mail")
  /\ UNCHANGED <<tables, allowLock, linkLock, locals>>

\* The index of email, for a row that is new or gets another mailbox.
SeedMail(s) ==
  LET m == Entry(s).mail IN
  /\ pc[s] = "seed_mail"
  /\ mailLock[m] \in {None, s}
  /\ \/ /\ Upserted(entry[s] - 1)[m] = None
        /\ mailLock' = [mailLock EXCEPT ![m] = s]
        /\ Goto(s, IF Moved(s) = {} THEN "seed_allow" ELSE "seed_unlist")
        /\ UNCHANGED <<rowLock, allowLock, linkLock>>
     \/ /\ Upserted(entry[s] - 1)[m] # None
        /\ Rollback(s, "error")
  /\ UNCHANGED <<tables, locals>>

\* No allowlist row may refer to the mailbox that the account had; one that is
\* being deleted is waited for.
SeedUnlist(s) ==
  /\ pc[s] = "seed_unlist"
  /\ \A m \in Moved(s) \cap allow : allowLock[m] = None
  /\ \/ Moved(s) \cap allow = {} /\ Goto(s, "seed_allow") /\ UNCHANGED locks
     \/ Moved(s) \cap allow # {} /\ Rollback(s, "error")
  /\ UNCHANGED <<tables, locals>>

\* INSERT INTO magic_login_allowlist ... ON CONFLICT DO NOTHING, then the next entry.
SeedAllow(s) ==
  LET m == Entry(s).mail IN
  /\ pc[s] = "seed_allow"
  /\ allowLock[m] = None
  /\ allowLock' = [allowLock EXCEPT ![m] = IF m \in allow THEN None ELSE s]
  /\ entry' = [entry EXCEPT ![s] = @ + 1]
  /\ Goto(s, IF entry[s] = Len(Roster) THEN "seed_commit" ELSE "seed_row")
  /\ UNCHANGED <<tables, rowLock, mailLock, linkLock, box, ticket, fresh, seen, row>>

\* The follows of the roster come before the commit (SocialGraph).
SeedCommit(s) ==
  /\ pc[s] = "seed_commit"
  /\ handle' = Upserted(Len(Roster))
  /\ allow' = allow \cup {m \in Mailboxes : allowLock[m] = s}
  /\ Release(s)
  /\ Goto(s, "seed_ok")
  /\ UNCHANGED <<link, expired, sessions, mailed, locals>>

-----------------------------------------------------------------------------
\* magic_link_ttl_minutes pass.
Expire(r) ==
  /\ link[r] = "live" /\ r \notin expired
  /\ expired' = expired \cup {r}
  /\ UNCHANGED <<handle, allow, link, sessions, mailed, locks, pc, locals>>

-----------------------------------------------------------------------------
SolicitStep(r) ==
  Provision(r) \/ InsertRow(r) \/ InsertMail(r) \/ Reread(r) \/ Screen(r)
    \/ Enlist(r, "enlist") \/ Refer(r) \/ Purge(r) \/ PurgeRow(r) \/ PurgeEnd(r)
    \/ Mail(r) \/ SolicitCommit(r)
RedeemStep(c) ==
  RedeemSelect(c) \/ RedeemHolder(c) \/ RedeemAllowed(c) \/ RedeemCommit(c)
AdminStep(a) ==
  GrantCheck(a) \/ Enlist(a, "grant") \/ Refer(a) \/ GrantCommit(a)
    \/ Unlist(a) \/ Purge(a) \/ PurgeRow(a) \/ PurgeEnd(a) \/ RevokeCommit(a)
SeedStep(s) ==
  SeedRow(s) \/ SeedMail(s) \/ SeedUnlist(s) \/ SeedAllow(s) \/ SeedCommit(s)

Next ==
  \/ \E r \in Solicits :
       \/ \E m \in Mailboxes : SolicitBegin(r, m)
       \/ BadAddress(r) \/ SolicitStep(r) \/ Expire(r)
  \/ \E c \in Redeems :
       \/ \E t \in Solicits : RedeemBegin(c, t)
       \/ RedeemStep(c)
  \/ \E a \in Admins :
       \/ \E m \in Mailboxes : GrantBegin(a, m) \/ RevokeBegin(a, m)
       \/ BadAddress(a) \/ AdminStep(a)
  \/ \E s \in Seeds : SeedBegin(s) \/ SeedStep(s)
  \/ \E p \in Transactions : Abort(p)

Spec == Init /\ [][Next]_vars

\* p cannot execute its next statement before q's transaction ends.
WaitsFor(p, q) ==
  /\ p # q
  /\ \/ pc[p] = "insert" /\ rowLock[row[p]] = q
     \/ pc[p] = "insert_mail" /\ mailLock[box[p]] = q
     \/ pc[p] \in {"enlist", "grant"} /\ allowLock[box[p]] = q
     \/ /\ pc[p] = "refer" /\ mailLock[box[p]] # p
        /\ box[p] \in users /\ rowLock[handle[box[p]]] = q
     \/ pc[p] = "revoke" /\ box[p] \in allow /\ allowLock[box[p]] = q
     \/ pc[p] = "select" /\ link[ticket[p]] = "live" /\ fresh[p] /\ linkLock[ticket[p]] = q
     \/ pc[p] = "commit" /\ p \in Redeems /\ rowLock[row[p]] = q
     \/ /\ pc[p] = "purging"
        /\ \E t \in Unvisited(p) :
             (\A other \in Unvisited(p) : t <= other) /\ linkLock[t] = q
     \/ pc[p] = "seed_row" /\ (rowLock[Entry(p).handle] = q \/ q \in Referring(Entry(p).handle))
     \/ pc[p] = "seed_mail" /\ mailLock[Entry(p).mail] = q
     \/ pc[p] = "seed_unlist" /\ \E m \in Moved(p) \cap allow : allowLock[m] = q
     \/ pc[p] = "seed_allow" /\ allowLock[Entry(p).mail] = q

Waiting == {p \in Transactions : \E q \in Transactions : WaitsFor(p, q)}

\* Everybody in C waits for somebody in C, and is waited for.
Circle(C) ==
  /\ C # {}
  /\ \A p \in C : (\E q \in C : WaitsFor(p, q)) /\ (\E q \in C : WaitsFor(q, p))

\* PostgreSQL fails one of a circle of transactions.
BreakCircle ==
  \E C \in SUBSET Waiting : Circle(C) /\ \E p \in C : Abort(p)

\* uvicorn runs every request it accepted, PostgreSQL wakes the waiters of a
\* lock and fails one of those that wait in a circle, and the mail client has a
\* timeout: what has started keeps taking steps.  Nobody has to call the API or
\* run the script, and nothing has to expire or crash.
FairSpec ==
  /\ Spec
  /\ \A r \in Solicits : WF_vars(SolicitStep(r))
  /\ \A c \in Redeems : WF_vars(RedeemStep(c))
  /\ \A a \in Admins : WF_vars(AdminStep(a))
  /\ \A s \in Seeds : WF_vars(SeedStep(s))
  /\ WF_vars(BreakCircle)

-----------------------------------------------------------------------------
\* A link pays for at most one session, and a session for exactly one used
\* link, whatever requests race for it (redeem_magic_challenge's FOR UPDATE).
SingleUse ==
  \A t \in Solicits :
    /\ \A c, d \in sessions : ticket[c] = t /\ ticket[d] = t => c = d
    /\ link[t] = "consumed" <=> \E c \in sessions : ticket[c] = t

\* A solicit that answered "accepted" and a revoke that answered "revoked" have
\* ended every link they found outstanding: redeemed while they waited for
\* it, or deleted (the two DELETE FROM magic_links).
PurgeHolds ==
  \A p \in Transactions :
    pc[p] \in {"accepted", "revoked"} =>
      \A q \in seen[p] : link[q] \in {"consumed", "purged"}

\* A redeem about to commit for a mailbox that is off the allowlist holds a
\* link that the revoke did not find: one installed after the revoke looked.
\* Every link the revoke found keeps it waiting instead (is_allowed runs
\* under the link's lock, and the revoke deletes links before it commits).
LateSessionIsUnseen ==
  \A c \in Redeems :
    pc[c] = "commit" /\ box[ticket[c]] \notin allow =>
      \E a \in Admins : /\ pc[a] = "revoked"
                       /\ box[a] = box[ticket[c]]
                       /\ ticket[c] \notin seen[a]

\* No rollback, late commit or waiting redeem brings a used or deleted link
\* back, nor turns one into the other.
DeadLinksStayDead ==
  [][\A q \in Solicits :
       link[q] \in {"consumed", "purged"} => link'[q] = link[q]]_vars

\* Every started request is answered, and the seed script ends: no chain of
\* transactions that wait for each other's account, allowlist and link rows is left
\* behind, once PostgreSQL has broken the circles.
EveryRequestAnswered ==
  \A p \in Transactions : pc[p] \in Busy ~> pc[p] \in Answers

\* Only the seed script closes circles of waits: among requests alone, over account,
\* allowlist and link rows together, PostgreSQL finds no deadlock to break.  The
\* script keeps the accounts it updates while it waits for allowlist rows, whose
\* writers wait for those accounts, themselves or in line for a redeem's link.
NoCycleOfWaits ==
  \A C \in SUBSET Waiting : Circle(C) => C \cap Seeds # {}

\* What _MSG_MAGIC_REVOKED tells the holder of a link answered with
\* "magic_login_revoked": after a new grant, a new link is needed.
RevokedLinkStaysUnusable ==
  \A c \in Redeems, d \in sessions :
    pc[c] = "magic_login_revoked" => ticket[c] # ticket[d]

-----------------------------------------------------------------------------
\* The requests, seen as movements of the ledger: a link is voided when a solicit of
\* its mailbox is accepted or a revoke of it is answered "revoked", and by nothing
\* else, so an abandoned or failed solicit or revoke voids no link.
Ledger == INSTANCE LoginLedger WITH
  Links    <- Solicits,
  Sessions <- Redeems,
  Revokes  <- Admins,
  state    <- link,
  owner    <- [r \in Solicits |-> IF link[r] = "none" THEN "nobody" ELSE box[r]],
  spentBy  <- [r \in Solicits |-> {c \in sessions : ticket[c] = r}],
  revoked  <- {a \in Admins : pc[a] = "revoked"}

\* Only commits move the ledger, and each moves it by one of its own steps.
LedgerKept == Ledger!Spec
=============================================================================
