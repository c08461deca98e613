------------------------------- MODULE Surface -------------------------------
(***************************************************************************)
(* One web page (a row of sources) and what people leave on it: pins,      *)
(* comments, reactions, notifications; and POST /v1/sources/resolve, which *)
(* shows it all under an ETag (pins_ops, comments_ops, reactions_ops,      *)
(* source_ops, resolve_ops, page_analytics, notifications_ack_ops).        *)
(*                                                                         *)
(* A request is one transaction at READ COMMITTED; an action is one of its *)
(* statements.  Whatever changes the page first increments its revision    *)
(* (bump_source_revision) and so holds the sources row until its end: what *)
(* is flushed under that row's lock is modelled together with the commit.  *)
(* Only a toggle that withdraws a reaction locks a row before the bump.    *)
(*                                                                         *)
(* A row of pins or comments is named by the request that inserted it.     *)
(***************************************************************************)
EXTENDS Naturals, FiniteSets

CONSTANTS
  Users,
  Requests,  \* calls of the API
  Jobs,      \* runs of the background task metadata_job
  Seeds,     \* rows of pins and comments that are there from the start
  Followers, \* Followers[u]: who follows u
  Notes,     \* texts of a pin's note
  Ops,       \* kinds of requests that are made
  None

Rows == Requests \cup Seeds
Tasks == Requests \cup Jobs

ASSUME TasksDiffer ==
  /\ None \notin Tasks \cup Seeds \cup Users \cup Notes
  /\ Requests \cap Seeds = {}
  /\ Requests \cap Jobs = {}
ASSUME FollowersKnown == Followers \in [Users -> SUBSET Users]

VARIABLES
  source,    \* whether the page has a committed row
  maker,     \* the request that inserted the row and has not committed
  rev, meta, \* its revision, and the job that last wrote its title
  pins, comments, removed,  \* committed pins and comments, soft-deleted comments
  owner, under, notes,      \* a row's user, a comment's pin, a pin's note
  reactions, \* <<user, row>>
  unread,    \* <<recipient, row or request>>: unread notifications about the page
  rowLock,   \* the transaction that incremented revision and has not ended
  toggling,  \* toggling[<<u, x>>]: the one that deleted that reaction
  queued,    \* metadata jobs waiting to start
  cache,     \* a viewer's last 200 answer to resolve
  quiet,     \* resolves under way that no commit has overlapped
  pc,        \* next statement of a task, or its answer
  req        \* its local variables

rows   == <<pins, comments, removed, owner, under, notes>>
table  == <<source, rev, meta, rows, reactions, unread>>
shared == <<queued, cache, quiet>>
locks  == <<maker, rowLock, toggling>>
vars   == <<table, shared, locks, pc, req>>

\* What resolve computes, in the order it computes it.
Fields == {"rev", "meta", "pins", "comments", "reactions", "unread", "mine", "recent"}
Blank == [kind |-> None, user |-> None, row |-> None, parent |-> None, note |-> None, byUrl |-> FALSE,
          anchored |-> FALSE, notify |-> {}, bumped |-> 0, marks |-> {},
          offered |-> None, got |-> [f \in Fields |-> 0]]

Answers == {"ok", "created", "not_found", "forbidden", "fresh", "not_modified",
            "skipped", "write_failed", "error"}
Busy == {"ensure", "insert_source", "find_pin", "refresh_pin",
         "bump_pin", "insert_pin", "bump_note", "update_note", "bump_unpin",
         "delete_pin", "parent", "bump_comment", "insert_comment", "bump_remove",
         "set_deleted", "bump_edit", "set_body", "find_reaction", "anchor",
         "beneficiary", "delete_reaction", "bump_unreact", "end_unreact",
         "bump_react", "insert_reaction", "ack", "pins", "comments", "reactions",
         "unread", "mine", "recent", "compare", "bump_job", "write_job"}

-----------------------------------------------------------------------------
Goto(p, label) == pc' = [pc EXCEPT ![p] = label]
Set(p, field, value) == req' = [req EXCEPT ![p][field] = value]

\* Mutant of End: the page's row stays locked.
EndStillLocked(p, answer) ==
  /\ maker' = IF maker = p THEN None ELSE maker
  /\ toggling' = [x \in DOMAIN toggling |-> IF toggling[x] = p THEN None ELSE toggling[x]]
  /\ Goto(p, answer)
  /\ req' = [req EXCEPT ![p] = Blank]
  /\ UNCHANGED rowLock

\* The end of p's transaction: its locks are free and its locals are gone.
End(p, answer) ==
  /\ maker' = IF maker = p THEN None ELSE maker
  /\ rowLock' = IF rowLock = p THEN None ELSE rowLock
  /\ toggling' = [x \in DOMAIN toggling |-> IF toggling[x] = p THEN None ELSE toggling[x]]
  /\ Goto(p, answer)
  /\ req' = [req EXCEPT ![p] = Blank]

Rollback(p, answer) ==
  /\ End(p, answer)
  /\ UNCHANGED <<table, shared>>

\* A commit shows p's source row, if it inserted one, and its new revision.
Commit(p, answer) ==
  /\ source' = (source \/ maker = p)
  /\ rev' = IF rowLock = p THEN req[p].bumped ELSE rev
  /\ queued' = IF req[p].byUrl THEN queued + 1 ELSE queued
  /\ End(p, answer)

\* The same for a transaction that wrote to the page.
CommitWrite(p, answer) ==
  /\ Commit(p, answer)
  /\ quiet' = {}
  /\ UNCHANGED cache

\* Mutant of Bump: the revision is read and written back without the lock.
BumpUnlocked(p, from, to) ==
  /\ pc[p] = from
  /\ rowLock' = p
  /\ Set(p, "bumped", rev + 1)
  /\ Goto(p, to)
  /\ UNCHANGED <<table, shared, maker, toggling>>

\* UPDATE sources SET revision = revision + 1: waits for the row.
Bump(p, from, to) ==
  /\ pc[p] = from
  /\ rowLock = None
  /\ rowLock' = p
  /\ Set(p, "bumped", rev + 1)
  /\ Goto(p, to)
  /\ UNCHANGED <<table, shared, maker, toggling>>

Bumps ==
  {<<"bump_pin", "insert_pin">>, <<"bump_note", "update_note">>,
   <<"bump_unpin", "delete_pin">>, <<"bump_comment", "insert_comment">>,
   <<"bump_remove", "set_deleted">>, <<"bump_edit", "set_body">>,
   <<"bump_unreact", "end_unreact">>, <<"bump_react", "insert_reaction">>,
   <<"bump_job", "write_job">>}

\* A SELECT: it moves p on or makes it answer without having written anything.
Read(p, label) ==
  /\ Goto(p, label)
  /\ UNCHANGED <<table, shared, locks>>

Start(p, kind, u) == kind \in Ops /\ pc[p] = "idle" /\ u \in Users

\* Any task may crash or lose its connection; PostgreSQL ends one of the
\* transactions of a deadlock.
Abort(p) == pc[p] \in Busy /\ Rollback(p, "error")

-----------------------------------------------------------------------------
TypeOK ==
  /\ source \in BOOLEAN /\ maker \in Requests \cup {None}
  /\ rev \in Nat /\ meta \in Jobs \cup {None}
  /\ pins \subseteq Rows /\ comments \subseteq Rows /\ removed \subseteq comments
  /\ pins \cap comments = {}
  /\ owner \in [Rows -> Users \cup {None}]
  /\ under \in [Rows -> Rows \cup {None}]
  /\ notes \in [Rows -> Notes \cup {None}]
  /\ reactions \subseteq Users \X Rows
  /\ unread \subseteq Users \X Rows
  /\ rowLock \in Tasks \cup {None}
  /\ toggling \in [Users \X Rows -> Requests \cup {None}]
  /\ queued \in Nat /\ quiet \subseteq Requests
  /\ pc \in [Tasks -> {"idle"} \cup Busy \cup Answers]

\* The page may be unknown; if it is known, others may have pinned it and
\* commented on the pins before, their followers have not looked at it since,
\* and each viewer has an empty cache.
Init ==
  /\ source \in BOOLEAN
  /\ rev = 0 /\ meta = None /\ removed = {} /\ reactions = {}
  /\ owner \in [Rows -> Users \cup {None}]
  /\ \A x \in Rows : owner[x] = None <=> x \in Requests
  /\ \E P \in SUBSET Seeds :
       /\ pins = (IF source THEN P ELSE {})
       /\ comments = (IF source THEN Seeds \ P ELSE {})
  /\ \A x, y \in pins : owner[x] = owner[y] => x = y
  /\ under \in [Rows -> pins \cup {None}]
  /\ \A x \in Rows : under[x] = None <=> x \notin comments
  /\ unread = {n \in Users \X (pins \cup comments) : n[1] \in Followers[owner[n[2]]] \ {owner[n[2]]}}
  /\ notes = [x \in Rows |-> None]
  /\ maker = None /\ rowLock = None
  /\ toggling = [x \in Users \X Rows |-> None]
  /\ queued = 0 /\ quiet = {} /\ cache = [u \in Users |-> None]
  /\ pc = [p \in Tasks |-> "idle"]
  /\ req = [p \in Tasks |-> Blank]

-----------------------------------------------------------------------------
\* The reactions that count: those whose pin still stands.
Standing == {r \in reactions : r[2] \in pins}

\* What resolve would show u now, field by field; each of its statements reads
\* one of these.  The nine latest pinners are few enough to be all of them.
Shown(u) == [
  rev       |-> rev,
  meta      |-> meta,
  pins      |-> Cardinality(pins),
  comments  |-> Cardinality({c \in comments : c \notin removed}),
  reactions |-> Cardinality(Standing),
  unread    |-> \E n \in unread : n[1] = u,
  mine      |-> {<<x, notes[x]>> : x \in {y \in pins : owner[y] = u}},
  recent    |-> {owner[x] : x \in pins}]

\* Mutant of Tag: the signature forgets unread.
TagWithoutUnread(body) ==
  <<body.rev, body.pins, body.comments, body.reactions, body.mine # {}>>

\* fingerprint_surface of the signature, which has no title, note or handles.
Tag(body) ==
  <<body.rev, body.pins, body.comments, body.reactions, body.unread,
    body.mine # {}>>

\* POST /v1/sources/resolve: a client offers the tag of the copy it keeps.
ResolveBegin(p, u) ==
  /\ Start(p, "resolve", u)
  /\ \E copy \in {None, cache[u]} :
       req' = [req EXCEPT ![p] =
                 [Blank EXCEPT !.kind = "resolve", !.user = u, !.byUrl = TRUE, !.offered = copy]]
  /\ Read(p, "ensure")

\* POST /v1/pins, by url or by source_id.
PinBegin(p, u, n) ==
  /\ Start(p, "pin", u)
  /\ \/ /\ req' = [req EXCEPT ![p] = [Blank EXCEPT !.kind = "pin", !.user = u, !.note = n, !.byUrl = TRUE]]
        /\ Read(p, "ensure")
     \/ /\ source
        /\ req' = [req EXCEPT ![p] = [Blank EXCEPT !.kind = "pin", !.user = u, !.note = n]]
        /\ Read(p, "find_pin")
     \/ /\ ~source
        /\ UNCHANGED req
        /\ Read(p, "not_found")

\* After ensure_source: a resolve has read the row, a pin looks for its twin.
Found(p, r, t) ==
  IF req[p].kind = "resolve"
  THEN /\ req' = [req EXCEPT ![p].got = [@ EXCEPT !.rev = r, !.meta = t]]
       /\ quiet' = quiet \cup {p}
       /\ Goto(p, "pins")
  ELSE /\ Goto(p, "find_pin")
       /\ UNCHANGED <<req, quiet>>

\* ensure_source: the SELECT, then the INSERT with its unique canonical_url.
EnsureSource(p) ==
  /\ pc[p] = "ensure"
  /\ \/ source /\ Found(p, rev, meta)
     \/ ~source /\ Goto(p, "insert_source") /\ UNCHANGED <<req, quiet>>
  /\ UNCHANGED <<table, queued, cache, locks>>

InsertSource(p) ==
  /\ pc[p] = "insert_source"
  /\ maker = None
  /\ \/ /\ source
        /\ Rollback(p, "write_failed")
     \/ /\ ~source
        /\ maker' = p
        /\ Found(p, 0, None)
        /\ UNCHANGED <<table, queued, cache, rowLock, toggling>>

\* The statements of hydrate_extension_surface after the source row.
ReadField(p, f, label) ==
  /\ pc[p] = f
  /\ Set(p, "got", [req[p].got EXCEPT ![f] = Shown(req[p].user)[f]])
  /\ Read(p, label)

ReadSurface(p) ==
  \/ ReadField(p, "pins", "comments")
  \/ ReadField(p, "comments", "reactions")
  \/ ReadField(p, "reactions", "unread")
  \/ ReadField(p, "unread", "mine")
  \/ ReadField(p, "mine", "recent")
  \/ ReadField(p, "recent", "compare")

Compare(p) ==
  LET got  == req[p].got
      copy == req[p].offered IN
  /\ pc[p] = "compare"
  /\ \/ /\ copy # None /\ Tag(copy) = Tag(got)
        /\ Commit(p, "not_modified")
        /\ UNCHANGED cache
     \/ /\ copy # None => Tag(copy) # Tag(got)
        /\ Commit(p, "fresh")
        /\ cache' = [cache EXCEPT ![req[p].user] = got]
  /\ quiet' = IF maker = p THEN {} ELSE quiet \ {p}
  /\ UNCHANGED <<meta, rows, reactions, unread>>

-----------------------------------------------------------------------------
\* create_or_restore_pin: an existing pin only gets a new note, if one is given
\* and differs.
FindPin(p) ==
  /\ pc[p] = "find_pin"
  /\ \/ /\ \A x \in pins : owner[x] # req[p].user
        /\ UNCHANGED req
        /\ Read(p, "bump_pin")
     \/ \E x \in pins :
          /\ owner[x] = req[p].user
          /\ Set(p, "row", x)
          /\ Read(p, IF req[p].note \notin {None, notes[x]} THEN "bump_note" ELSE "refresh_pin")

\* Mutant of InsertPin: no unique constraint, the SELECT before it is trusted.
InsertPinUnchecked(p) ==
  LET u == req[p].user IN
  /\ pc[p] = "insert_pin"
  /\ pins' = pins \cup {p}
  /\ owner' = [owner EXCEPT ![p] = u]
  /\ notes' = [notes EXCEPT ![p] = req[p].note]
  /\ unread' = unread \cup {<<f, p>> : f \in Followers[u] \ {u}}
  /\ CommitWrite(p, "created")
  /\ UNCHANGED <<meta, comments, removed, under, reactions>>

\* UNIQUE (user_id, source_id); followers are notified in the same transaction.
InsertPin(p) ==
  LET u == req[p].user IN
  /\ pc[p] = "insert_pin"
  /\ \/ /\ \E x \in pins : owner[x] = u
        /\ Rollback(p, "write_failed")
     \/ /\ \A x \in pins : owner[x] # u
        /\ pins' = pins \cup {p}
        /\ owner' = [owner EXCEPT ![p] = u]
        /\ notes' = [notes EXCEPT ![p] = req[p].note]
        /\ unread' = unread \cup {<<f, p>> : f \in Followers[u] \ {u}}
        /\ CommitWrite(p, "created")
        /\ UNCHANGED <<meta, comments, removed, under, reactions>>

\* The UPDATE, and the refresh after it, fail if the pin was deleted meanwhile.
UpdateNote(p) ==
  /\ pc[p] = "update_note"
  /\ \/ /\ req[p].row \notin pins
        /\ Rollback(p, "write_failed")
     \/ /\ req[p].row \in pins
        /\ notes' = [notes EXCEPT ![req[p].row] = req[p].note]
        /\ CommitWrite(p, "ok")
        /\ UNCHANGED <<meta, pins, comments, removed, owner, under, reactions, unread>>

RefreshPin(p) ==
  /\ pc[p] = "refresh_pin"
  /\ \/ /\ req[p].row \notin pins
        /\ Rollback(p, "write_failed")
     \/ /\ req[p].row \in pins
        /\ Commit(p, "ok")
        /\ UNCHANGED <<meta, rows, reactions, unread, cache, quiet>>

\* remove_pin_owned.
UnpinBegin(p, u, x) ==
  /\ Start(p, "unpin", u)
  /\ \/ x \notin pins /\ UNCHANGED req /\ Read(p, "not_found")
     \/ x \in pins /\ owner[x] # u /\ UNCHANGED req /\ Read(p, "forbidden")
     \/ /\ x \in pins /\ owner[x] = u
        /\ req' = [req EXCEPT ![p] = [Blank EXCEPT !.user = u, !.row = x]]
        /\ Read(p, "bump_unpin")

\* The flush of the delete loads Pin.comments, whose rows, the soft-deleted ones
\* too, it sets loose with pin_id = NULL: the column is NOT NULL.  A pin that is
\* already gone makes the DELETE match nothing, which is only a warning.
DeletePin(p) ==
  /\ pc[p] = "delete_pin"
  /\ \/ /\ \E c \in comments : under[c] = req[p].row
        /\ Rollback(p, "write_failed")
     \/ /\ \A c \in comments : under[c] # req[p].row
        /\ pins' = pins \ {req[p].row}
        /\ CommitWrite(p, "ok")
        /\ UNCHANGED <<meta, comments, removed, owner, under, notes, reactions, unread>>

-----------------------------------------------------------------------------
\* post_comment_on_pin: the pin, then the parent if there is one.
CommentBegin(p, u, x, c) ==
  /\ Start(p, "comment", u)
  /\ \/ x \notin pins /\ UNCHANGED req /\ Read(p, "not_found")
     \/ /\ x \in pins
        /\ req' = [req EXCEPT ![p] = [Blank EXCEPT !.user = u, !.row = x, !.parent = c,
                                                   !.notify = {owner[x]}]]
        /\ Read(p, IF c = None THEN "bump_comment" ELSE "parent")

CommentParent(p) ==
  LET c == req[p].parent IN
  /\ pc[p] = "parent"
  /\ \/ /\ c \notin comments \/ under[c] # req[p].row \/ c \in removed
        /\ Rollback(p, "not_found")
     \/ /\ c \in comments /\ under[c] = req[p].row /\ c \notin removed
        /\ Set(p, "notify", req[p].notify \cup {owner[c]})
        /\ Read(p, "bump_comment")

\* The INSERT fails if its pin is gone; the pin's owner, the parent's author and
\* the actor's followers are notified in the same transaction.
InsertComment(p) ==
  LET u == req[p].user IN
  /\ pc[p] = "insert_comment"
  /\ \/ /\ req[p].row \notin pins
        /\ Rollback(p, "write_failed")
     \/ /\ req[p].row \in pins
        /\ comments' = comments \cup {p}
        /\ owner' = [owner EXCEPT ![p] = u]
        /\ under' = [under EXCEPT ![p] = req[p].row]
        /\ unread' = unread \cup {<<f, p>> : f \in (req[p].notify \cup Followers[u]) \ {u}}
        /\ CommitWrite(p, "created")
        /\ UNCHANGED <<meta, pins, removed, notes, reactions>>

\* soft_remove_comment: idempotent; the row is written when it is committed.
RemoveBegin(p, u, c) ==
  /\ Start(p, "remove", u)
  /\ \/ c \notin comments /\ UNCHANGED req /\ Read(p, "not_found")
     \/ c \in comments /\ owner[c] # u /\ UNCHANGED req /\ Read(p, "not_found")
     \/ c \in removed /\ owner[c] = u /\ UNCHANGED req /\ Read(p, "ok")
     \/ /\ c \in comments \ removed /\ owner[c] = u
        /\ req' = [req EXCEPT ![p] = [Blank EXCEPT !.user = u, !.row = c]]
        /\ Read(p, "bump_remove")

SetDeleted(p) ==
  /\ pc[p] = "set_deleted"
  /\ removed' = removed \cup {req[p].row}
  /\ CommitWrite(p, "ok")
  /\ UNCHANGED <<meta, pins, comments, owner, under, notes, reactions, unread>>

\* Mutant of SetBody: the whole row is written, deleted_at as it was read.
SetBodyWholeRow(p) ==
  /\ pc[p] = "set_body"
  /\ removed' = removed \ {req[p].row}
  /\ CommitWrite(p, "ok")
  /\ UNCHANGED <<meta, pins, comments, owner, under, notes, reactions, unread>>

\* adjust_comment_body: the UPDATE names the columns that changed, body and
\* edited_at, so it may edit a comment that was deleted after it was read.
EditBegin(p, u, c) ==
  /\ Start(p, "edit", u)
  /\ \/ /\ c \notin comments \/ owner[c] # u \/ c \in removed
        /\ UNCHANGED req
        /\ Read(p, "not_found")
     \/ /\ c \in comments /\ owner[c] = u /\ c \notin removed
        /\ req' = [req EXCEPT ![p] = [Blank EXCEPT !.user = u, !.row = c]]
        /\ Read(p, "bump_edit")

SetBody(p) ==
  /\ pc[p] = "set_body"
  /\ CommitWrite(p, "ok")
  /\ UNCHANGED <<meta, rows, reactions, unread>>

-----------------------------------------------------------------------------
\* toggle_reaction: four SELECTs, then a DELETE or an INSERT.
ReactBegin(p, u, x) ==
  /\ Start(p, "react", u)
  /\ \/ /\ x \notin pins \cup (comments \ removed)
        /\ UNCHANGED req
        /\ Read(p, "not_found")
     \/ /\ x \in pins \cup (comments \ removed)
        /\ req' = [req EXCEPT ![p] = [Blank EXCEPT !.user = u, !.row = x]]
        /\ Read(p, "find_reaction")

Key(p) == <<req[p].user, req[p].row>>

FindReaction(p) ==
  /\ pc[p] = "find_reaction"
  /\ Set(p, "marks", reactions \cap {Key(p)})
  /\ Read(p, "anchor")

\* _resolve_source_anchor: none once the pin or the comment has been deleted.
Anchor(p) ==
  /\ pc[p] = "anchor"
  /\ Set(p, "anchored", req[p].row \in pins \cup (comments \ removed))
  /\ Read(p, "beneficiary")

\* _identify_subject_owner: none once the pin has been deleted.
Beneficiary(p) ==
  /\ pc[p] = "beneficiary"
  /\ Set(p, "notify", {owner[x] : x \in {req[p].row} \cap (pins \cup comments)})
  /\ Read(p, IF req[p].marks # {} THEN "delete_reaction"
             ELSE IF req[p].anchored THEN "bump_react" ELSE "insert_reaction")

\* The DELETE locks the row, if it is still there, before the revision.
DeleteReaction(p) ==
  /\ pc[p] = "delete_reaction"
  /\ toggling[Key(p)] = None
  /\ toggling' = IF Key(p) \in reactions THEN [toggling EXCEPT ![Key(p)] = p] ELSE toggling
  /\ Goto(p, IF req[p].anchored THEN "bump_unreact" ELSE "end_unreact")
  /\ UNCHANGED <<table, shared, maker, rowLock, req>>

EndUnreact(p) ==
  /\ pc[p] = "end_unreact"
  /\ reactions' = IF toggling[Key(p)] = p THEN reactions \ {Key(p)} ELSE reactions
  /\ CommitWrite(p, "ok")
  /\ UNCHANGED <<meta, rows, unread>>

\* The INSERT waits for a DELETE of the same row and fails on a duplicate; the
\* notification belongs to the page only if the source was found.
InsertReaction(p) ==
  /\ pc[p] = "insert_reaction"
  /\ toggling[Key(p)] = None
  /\ \/ /\ Key(p) \in reactions
        /\ Rollback(p, "write_failed")
     \/ /\ Key(p) \notin reactions
        /\ reactions' = reactions \cup {Key(p)}
        /\ unread' = IF req[p].anchored
                     THEN unread \cup {<<f, p>> : f \in req[p].notify \ {req[p].user}}
                     ELSE unread
        /\ CommitWrite(p, "created")
        /\ UNCHANGED <<meta, rows>>

-----------------------------------------------------------------------------
\* Mutant of AckBegin: the UPDATE does not name its recipient.
AckBeginAll(p, u) ==
  /\ Start(p, "ack", u)
  /\ req' = [req EXCEPT ![p] = [Blank EXCEPT !.user = u, !.marks = unread]]
  /\ Read(p, "ack")

\* acknowledge_surface_activity: the UPDATE marks the unread rows it finds; the
\* upsert of source_activity_reads needs the source.
AckBegin(p, u) ==
  /\ Start(p, "ack", u)
  /\ req' = [req EXCEPT ![p] =
                [Blank EXCEPT !.user = u, !.marks = {n \in unread : n[1] = u}]]
  /\ Read(p, "ack")

Ack(p) ==
  /\ pc[p] = "ack"
  /\ \/ ~source /\ Rollback(p, "write_failed")
     \/ /\ source
        /\ unread' = unread \ req[p].marks
        /\ CommitWrite(p, "ok")
        /\ UNCHANGED <<meta, rows, reactions>>

\* Mutant of JobBegin: a job that nobody queued.
JobUnasked(j) ==
  /\ pc[j] = "idle"
  /\ queued' = queued - 1
  /\ \/ Goto(j, "skipped")
     \/ source /\ Goto(j, "bump_job")
  /\ UNCHANGED <<table, cache, quiet, locks, req>>

\* hydrate_source_payload, after the response of a resolve or a pin by url: the
\* fetch may fail, the row may not be there.
JobBegin(j) ==
  /\ pc[j] = "idle"
  /\ queued > 0
  /\ queued' = queued - 1
  /\ \/ Goto(j, "skipped")
     \/ source /\ Goto(j, "bump_job")
  /\ UNCHANGED <<table, cache, quiet, locks, req>>

\* The title is kept if the page had none.
WriteJob(j) ==
  /\ pc[j] = "write_job"
  /\ meta' \in {meta, j}
  /\ CommitWrite(j, "ok")
  /\ UNCHANGED <<rows, reactions, unread>>

-----------------------------------------------------------------------------
Begin(p) ==
  \E u \in Users :
    \/ ResolveBegin(p, u) \/ AckBegin(p, u)
    \/ \E n \in Notes \cup {None} : PinBegin(p, u, n)
    \/ \E x \in Rows : \/ UnpinBegin(p, u, x) \/ RemoveBegin(p, u, x)
                      \/ EditBegin(p, u, x) \/ ReactBegin(p, u, x)
                      \/ \E c \in Rows \cup {None} : CommentBegin(p, u, x, c)

Step(p) ==
  \/ EnsureSource(p) \/ InsertSource(p) \/ ReadSurface(p) \/ Compare(p)
  \/ FindPin(p) \/ InsertPin(p) \/ UpdateNote(p) \/ RefreshPin(p) \/ DeletePin(p)
  \/ CommentParent(p) \/ InsertComment(p) \/ SetDeleted(p) \/ SetBody(p)
  \/ FindReaction(p) \/ Anchor(p) \/ Beneficiary(p) \/ DeleteReaction(p)
  \/ EndUnreact(p) \/ InsertReaction(p) \/ Ack(p) \/ WriteJob(p)
  \/ \E b \in Bumps : Bump(p, b[1], b[2])

Next ==
  \/ \E p \in Requests : Begin(p)
  \/ \E j \in Jobs : JobBegin(j)
  \/ \E p \in Tasks : Step(p) \/ Abort(p)

Spec == Init /\ [][Next]_vars

\* The server runs what it accepted, PostgreSQL wakes the waiters of a lock and
\* ends a transaction of every deadlock; nothing has to be called or to crash.
Deadlocked(p) ==
  \E q \in Requests \ {p} :
    \/ /\ pc[p] = "insert_reaction" /\ toggling[Key(p)] = q
       /\ pc[q] \in {b[1] : b \in Bumps} /\ rowLock = p
    \/ /\ pc[q] = "insert_reaction" /\ toggling[Key(q)] = p
       /\ pc[p] \in {b[1] : b \in Bumps} /\ rowLock = q

FairSpec ==
  /\ Spec
  /\ \A p \in Tasks : WF_vars(Step(p))
  /\ WF_vars(\E p \in Requests : Deadlocked(p) /\ Abort(p))

-----------------------------------------------------------------------------
\* A resolve that no commit overlapped answers 304 only if the copy its client
\* offered, however it was put together, is what the page shows now: the tag
\* leaves out note, title and handles and trusts the revision for them.
NotModifiedIsExact ==
  [][\A p \in quiet :
       pc[p] = "compare" /\ pc'[p] = "not_modified" =>
         req[p].offered = Shown(req[p].user)]_vars

\* A change of the page's title, pins, notes, comments or reactions moves its revision
\* by one in the same commit, and two such changes never share an increment; a toggle
\* that goes on without the increment finds its pin gone.  The reader's own unread
\* mark moves without one: Ack clears it, and the tag has it besides the revision.
EveryChangeCounts ==
  [][/\ rev' \in {rev, rev + 1}
     /\ <<meta, pins, comments, removed, notes, Standing>>'
          # <<meta, pins, comments, removed, notes, Standing>> => rev' = rev + 1]_vars

\* Racing requests leave a user one pin on the page and no comment without its
\* pin, though each decided on rows it read before it had the lock.
PageCoherent ==
  /\ \A x, y \in pins : owner[x] = owner[y] => x = y
  /\ \A c \in comments : under[c] \in pins

\* A deleted comment is never shown again, not even by an edit that read it
\* before it was deleted.
RemovedStaysRemoved == [][removed \subseteq removed']_vars

\* Every request and job that started answers; a toggle may have to be ended.
EveryTaskAnswered == \A p \in Tasks : pc[p] \in Busy ~> pc[p] \in Answers

\* What Comment.pin_id ON DELETE CASCADE declares: deleting a pin deletes the
\* comments under it, so they do not stop it.
PinDeletionCascades ==
  [][\A p \in Requests :
       pc[p] = "delete_pin" => pc'[p] # "write_failed"]_vars

-----------------------------------------------------------------------------
\* The page without the requests that are on their way.
Page == INSTANCE PageBoard WITH
  Names   <- Rows,
  Editors <- Jobs,
  known   <- source,
  title   <- meta

\* Transactions that lock late and trust what they read before amount to acts
\* done one at a time: what each reads, writes, tells and counts is one step.
PageKept == Page!Spec
=============================================================================
