-------------------------------- MODULE Inbox --------------------------------
(***************************************************************************)
(* The notifications of one user: the rows that notify_users writes, the   *)
(* inbox that lists them page by page, and what marks them read: mark-read *)
(* by ids or all at once, and the acknowledgement of a page                *)
(* (notifications_ack_ops).  Composed with NotifyHub, which makes the rows *)
(* and whose events tell the client their ids, often before the rows are   *)
(* committed.                                                              *)
(*                                                                         *)
(* A row is named by its publisher; it is there once that has committed.   *)
(* An UPDATE finds the unread rows of its snapshot, then takes them one by *)
(* one in the order of its plan; a row that another transaction has        *)
(* updated is waited for, and its condition is evaluated again.            *)
(***************************************************************************)
EXTENDS NotifyHub

CONSTANTS
  Calls,  \* of mark-read and of acknowledge
  Viewer,
  Old,    \* rows of the viewer that are there when the worker starts
  CreatedAt, \* CreatedAt[p]: the time that notify_users reads for p's rows; two
             \* calls may get their ids in the other order
  Limit   \* rows on one page of the inbox, at most; 100 in the code

ASSUME ViewerKnown == Viewer \in Users
ASSUME OldKnown == Old \subseteq Publishers /\ IsFiniteSet(Publishers)
ASSUME TimesKnown == CreatedAt \in [Publishers -> Nat]
ASSUME LimitPositive == Limit \in Nat \ {0}
ASSUME CallsDiffer == None \notin Calls

VARIABLES
  readAt,   \* readAt[p]: the call whose time is the row's read_at, None if unread
  locked,   \* locked[p]: the transaction that has updated the row
  activity, \* whether source_activity_reads has a row for a page; its time is
            \* read nowhere
  upsert,   \* upsert[g]: the transaction that has written it
  step,     \* next statement of a call, or its answer
  does,     \* does[c]: the page it acknowledges, and the rows its UPDATE found
  listed,   \* rows that the client has seen in its inbox
  cursor,   \* the row that its next_cursor names, None if there is none
  asked,    \* history: rows of its inbox that the client asked c to mark
  pivots,   \* history: rows that were its next_cursor since the last first page
  gap       \* gap[s]: history: rows that had their id before s opened and were not
            \* committed at the last first page, None if that was before s opened

marks == <<readAt, locked, activity, upsert, step, does, asked>>
walk  == <<listed, cursor, pivots, gap>>
inbox == <<marks, walk>>
all   == <<vars, inbox>>

Running == {"update", "upsert", "commit"}
Nothing == [page |-> None, rows |-> <<>>]

\* The rows of the viewer that are committed.
Rows == {p \in Publishers : pc[p] = "committed" /\ Viewer \in to[p]}

\* What the client can name: rows of its inbox and events it was sent.
Known == listed \cup UNION {{sent[s][i] : i \in DOMAIN sent[s]} : s \in Streams}

\* What a call may be doing.
Work == [page : Pages \cup {None}, rows : Seq(Rows)]

\* The rows of S in any order.
Orders(S) ==
  {f \in [1..Cardinality(S) -> S] : \A i, j \in DOMAIN f : f[i] = f[j] => i = j}

InboxTypeOK ==
  /\ TypeOK
  /\ readAt \in [Publishers -> Calls \cup {None}]
  /\ locked \in [Publishers -> Calls \cup {None}]
  /\ \A p \in Publishers : locked[p] # None =>
       step[locked[p]] \in Running /\ readAt[p] = None /\ p \in Rows
  /\ activity \in [Pages -> BOOLEAN]
  /\ upsert \in [Pages -> Calls \cup {None}]
  /\ \A g \in Pages : upsert[g] # None => step[upsert[g]] = "commit"
  /\ step \in [Calls -> Running \cup {"idle", "done", "failed"}]
  /\ does \in [Calls -> Work]
  /\ listed \subseteq Rows
  /\ cursor \in Rows \cup {None}
  /\ pivots \subseteq Rows
  /\ asked \in [Calls -> SUBSET Rows]
  /\ gap \in [Streams -> (SUBSET Publishers) \cup {None}]

InboxInit ==
  /\ StreamInit
  /\ pc = [p \in Publishers |-> IF p \in Old THEN "committed" ELSE "idle"]
  /\ to = [p \in Publishers |-> IF p \in Old THEN {Viewer} ELSE {}]
  /\ page \in [Publishers -> Pages \cup {None}]
  /\ \A p \in Publishers \ Old : page[p] = None
  /\ flushed \in Orders(Old)
  /\ readAt = [p \in Publishers |-> None]
  /\ locked = [p \in Publishers |-> None]
  /\ activity = [g \in Pages |-> FALSE]
  /\ upsert = [g \in Pages |-> None]
  /\ step = [c \in Calls |-> "idle"]
  /\ does = [c \in Calls |-> Nothing]
  /\ listed = {} /\ cursor = None /\ pivots = {}
  /\ asked = [c \in Calls |-> {}]
  /\ gap = [s \in Streams |-> None]

-----------------------------------------------------------------------------
Move(c, label) == step' = [step EXCEPT ![c] = label]

\* p comes before q in the inbox: ORDER BY created_at DESC, id DESC.
Newer(p, q) ==
  \/ CreatedAt[p] > CreatedAt[q]
  \/ /\ CreatedAt[p] = CreatedAt[q]
     /\ \E i, j \in DOMAIN flushed : i > j /\ flushed[i] = p /\ flushed[j] = q

\* WHERE (created_at, id) < that of p
Older(S, p) == {q \in S : Newer(p, q)}

\* One page of the rows of S: the newest, as many as the client says.  What comes
\* after them, the pivot, is the next_cursor.
Page(S) ==
  \E items \in SUBSET S :
    /\ items = {} => S = {}
    /\ Cardinality(items) <= Limit
    /\ \A p \in items, q \in S \ items : Newer(p, q)
    /\ listed' = listed \cup items
    /\ \/ items = S /\ cursor' = None
       \/ cursor' \in S \ items /\ \A q \in S \ items : q = cursor' \/ Newer(cursor', q)

\* fetch_notification_feed, without a cursor.
List ==
  /\ Page(Rows)
  /\ pivots' = {cursor'} \ {None}
  /\ gap' = [s \in Streams |->
       IF sse[s] \in Open /\ reader[s] = Viewer
       THEN {p \in Publishers : pc[p] = "publish" /\ \E k \in 1..since[s] : flushed[k] = p}
       ELSE None]
  /\ UNCHANGED <<vars, marks>>

\* The same with the cursor: the pivot itself is not on any page.
ListOn ==
  /\ cursor # None
  /\ Page(Older(Rows, cursor))
  /\ pivots' = pivots \cup ({cursor'} \ {None})
  /\ UNCHANGED <<vars, marks, gap>>

\* The UPDATE looks for the unread rows of W.
Find(c, W, g) ==
  /\ step[c] = "idle"
  /\ \E order \in Orders({p \in W \cap Rows : readAt[p] = None}) :
       does' = [does EXCEPT ![c] = [page |-> g, rows |-> order]]
  /\ asked' = [asked EXCEPT ![c] = W \cap listed]
  /\ Move(c, "update")
  /\ UNCHANGED <<vars, walk, readAt, locked, activity, upsert>>

\* update_notification_reads: all wins over ids, and without either there is
\* nothing to do.
MarkAll(c) == Find(c, Publishers, None)
MarkIds(c) == \E W \in (SUBSET Known) \ {{}} : Find(c, W, None)
MarkNone(c) ==
  /\ step[c] = "idle"
  /\ Move(c, "done")
  /\ UNCHANGED <<vars, walk, readAt, locked, activity, upsert, does, asked>>

\* acknowledge_surface_activity
Acknowledge(c) == \E g \in Pages : Find(c, {p \in Publishers : page[p] = g}, g)

\* Mutant of Update: a row that is locked is skipped.
UpdateSkipLocked(c) ==
  LET p == Head(does[c].rows) IN
  /\ step[c] = "update" /\ does[c].rows # <<>>
  /\ does' = [does EXCEPT ![c].rows = Tail(@)]
  /\ locked' = IF readAt[p] = None /\ locked[p] = None
               THEN [locked EXCEPT ![p] = c] ELSE locked
  /\ UNCHANGED <<vars, walk, readAt, activity, upsert, step, asked>>

\* Mutant of Update: the condition is not evaluated again.
UpdateUnchecked(c) ==
  LET p == Head(does[c].rows) IN
  /\ step[c] = "update" /\ does[c].rows # <<>>
  /\ locked[p] = None
  /\ does' = [does EXCEPT ![c].rows = Tail(@)]
  /\ locked' = [locked EXCEPT ![p] = c]
  /\ UNCHANGED <<vars, walk, readAt, activity, upsert, step, asked>>

\* The next row: read_at IS NULL is evaluated again on what the other left.
Update(c) ==
  LET p == Head(does[c].rows) IN
  /\ step[c] = "update" /\ does[c].rows # <<>>
  /\ locked[p] = None
  /\ does' = [does EXCEPT ![c].rows = Tail(@)]
  /\ locked' = IF readAt[p] = None THEN [locked EXCEPT ![p] = c] ELSE locked
  /\ UNCHANGED <<vars, walk, readAt, activity, upsert, step, asked>>

EndUpdate(c) ==
  /\ step[c] = "update" /\ does[c].rows = <<>>
  /\ Move(c, IF does[c].page = None THEN "commit" ELSE "upsert")
  /\ UNCHANGED <<vars, walk, readAt, locked, activity, upsert, does, asked>>

\* INSERT ... ON CONFLICT DO UPDATE of the viewer's row for the page.
Upsert(c) ==
  /\ step[c] = "upsert"
  /\ upsert[does[c].page] = None
  /\ upsert' = [upsert EXCEPT ![does[c].page] = c]
  /\ Move(c, "commit")
  /\ UNCHANGED <<vars, walk, readAt, locked, activity, does, asked>>

\* The end of the transaction.
Release(c, answer) ==
  /\ locked' = [p \in Publishers |-> IF locked[p] = c THEN None ELSE locked[p]]
  /\ upsert' = [g \in Pages |-> IF upsert[g] = c THEN None ELSE upsert[g]]
  /\ Move(c, answer)
  /\ does' = [does EXCEPT ![c] = Nothing]
  /\ UNCHANGED <<vars, walk>>

MarkCommit(c) ==
  /\ step[c] = "commit"
  /\ readAt' = [p \in Publishers |-> IF locked[p] = c THEN c ELSE readAt[p]]
  /\ activity' = [g \in Pages |-> activity[g] \/ upsert[g] = c]
  /\ Release(c, "done")
  /\ UNCHANGED asked

\* Mutant of MarkAbort: the rows stay locked.
MarkAbortLocked(c) ==
  /\ step[c] \in Running
  /\ Move(c, "failed")
  /\ does' = [does EXCEPT ![c] = Nothing]
  /\ UNCHANGED <<vars, walk, readAt, locked, activity, upsert, asked>>

\* A statement or the commit fails.
MarkAbort(c) ==
  /\ step[c] \in Running
  /\ Release(c, "failed")
  /\ asked' = [asked EXCEPT ![c] = {}]
  /\ UNCHANGED <<readAt, activity>>

-----------------------------------------------------------------------------
\* The hub's steps.  The worker's restart ends the calls too; what a client that
\* left had listed under its stream is of no account.
HubStep ==
  /\ \/ \E s \in Streams : Take(s) \/ Ping(s) \/ Deliver(s) \/ Teardown(s)
     \/ \E s \in Streams, u \in Users : Subscribe(s, u)
     \/ \E p \in Publishers : Begin(p) \/ Notifier(p) \/ Fail(p)
  /\ UNCHANGED inbox

LeaveStep(s) ==
  /\ Leave(s)
  /\ gap' = [gap EXCEPT ![s] = None]
  /\ UNCHANGED <<marks, listed, cursor, pivots>>

RestartStep ==
  /\ Restart
  /\ locked' = [p \in Publishers |-> None]
  /\ upsert' = [g \in Pages |-> None]
  /\ step' = [c \in Calls |-> IF step[c] \in Running THEN "failed" ELSE step[c]]
  /\ does' = [c \in Calls |-> Nothing]
  /\ gap' = [s \in Streams |-> None]
  /\ asked' = [c \in Calls |-> IF step[c] \in Running THEN {} ELSE asked[c]]
  /\ UNCHANGED <<readAt, activity, listed, cursor, pivots>>

MarkStep(c) == Update(c) \/ EndUpdate(c) \/ Upsert(c) \/ MarkCommit(c)

InboxNext ==
  \/ HubStep \/ (\E s \in Streams : LeaveStep(s)) \/ RestartStep \/ List \/ ListOn
  \/ \E c \in Calls :
       \/ MarkAll(c) \/ MarkIds(c) \/ MarkNone(c) \/ Acknowledge(c)
       \/ MarkStep(c) \/ MarkAbort(c)

InboxSpec == InboxInit /\ [][InboxNext]_all

\* Calls each of which waits for a row that another of them has updated: the plans
\* of two UPDATEs may take the same rows in different orders.
Cycle(C) ==
  \A c \in C : /\ step[c] = "update" /\ does[c].rows # <<>>
               /\ locked[Head(does[c].rows)] \in C

BreakCycle == \E C \in (SUBSET Calls) \ {{}} : Cycle(C) /\ \E c \in C : MarkAbort(c)

\* The statements of a call run as soon as they do not wait, and PostgreSQL fails
\* one of the transactions of a cycle.
InboxFairSpec ==
  /\ InboxSpec
  /\ \A c \in Calls : WF_all(MarkStep(c))
  /\ WF_all(BreakCycle)

-----------------------------------------------------------------------------
\* Once a row is read its read_at never changes, whatever marks and
\* acknowledgements race for it.
FirstReadKept ==
  [][\A p \in Publishers : readAt[p] # None => readAt'[p] = readAt[p]]_all

\* When a call has answered 204, every row the client had seen in its inbox and
\* asked for is read, though another call may have been marking it and failed.
\* Of a row known from an event only this cannot be said: it may not be there yet.
MarkedIsRead ==
  \A c \in Calls : step[c] = "done" => \A p \in asked[c] : readAt[p] # None

\* A client that walks its inbox from its first page after it has opened its stream
\* misses nothing but the pivots: what is committed and not older than the pages it
\* has asked for was listed or was put to its stream, but for what was given its id
\* before the stream opened and was committed after the first page.
NothingMissed ==
  \A s \in Streams : sse[s] \in Open /\ gap[s] # None =>
    \A p \in Rows \ (listed \cup pivots) :
      \/ \E i \in DOMAIN Packets(s) : Packets(s)[i] = p
      \/ p \in gap[s]
      \/ cursor # None /\ Newer(cursor, p)

\* Every call answers.
MarksAnswer == \A c \in Calls : step[c] \in Running ~> step[c] \in {"done", "failed"}
=============================================================================
