-------------------------------- MODULE Feed --------------------------------
(***************************************************************************)
(* GET /v1/feed (social_feed_wall): the pins of those whom the viewer      *)
(* follows, with the last comments under each, page by page and under an   *)
(* ETag (collect_feed_pins, last_comments_overview, summarize_feed_digest) *)
(* while people pin, unpin, comment, follow and unfollow.                  *)
(*                                                                         *)
(* Composes SocialGraph, whose edges decide what is listed, with Paging.   *)
(* A reader runs one SELECT at a time.  What changes a page of the web     *)
(* holds the lock of its row from the increment of its revision up to its  *)
(* commit (see Surface), so it is one step here; only a pin's created_at   *)
(* is taken before it.  Note and title are read by the very SELECT that    *)
(* reads the revision: only the comments come later.                       *)
(***************************************************************************)
EXTENDS Paging, SocialGraph

CONSTANTS
  Viewer,
  Author, Source, \* of each pin
  Old,            \* pins that are there at first
  Limit,          \* pins on one page of the feed
  MaxRevision     \* bound of the comments made

ASSUME ViewerFollows == Viewer \in Followers
ASSUME AuthorsKnown == Author \in [Rows -> Followees]
ASSUME OldKnown == Old \subseteq Rows
ASSUME SourcesKnown == DOMAIN Source = Rows
ASSUME LimitPositive == Limit \in Nat \ {0}

VARIABLES
  status, \* of a pin's row
  talk,   \* talk[r]: whether r has comments, or had some
  rev,    \* rev[g]: revision of a page of the web
  reader, \* the viewer's request under way
  cache,  \* the copy that the viewer's client keeps of the first page
  quiet,  \* whether no commit has overlapped the request
  still,  \* history: listed since the request read its page
  stayed  \* history: listed since the copy was read

web     == <<status, talk, rev>>
client  == <<reader, cache>>
history == <<quiet, still, stayed>>
vars    == <<graph, rows, walk, web, client, history>>

Sources == {Source[r] : r \in Rows}
Followed == {u \in Followees : edge[<<Viewer, u>>] # Nobody}
Listed == {r \in Rows : status[r] = "listed" /\ Author[r] \in Followed}

\* What a page of the feed says of the pin r.
Item(r, comments) == [row |-> r, rev |-> rev[Source[r]], comments |-> comments]
Items(page, comments) == [i \in DOMAIN page |-> Item(page[i], comments[i])]

\* fetch_comment_thread shows the comments that are not deleted.
Thread(r) == talk[r] = "shown"

Idle == [at |-> "idle", first |-> FALSE, offered |-> None, from |-> None, actors |-> {},
         page |-> [rows |-> <<>>, next |-> <<>>, pivot |-> {}], revs |-> <<>>, threads |-> <<>>]

-----------------------------------------------------------------------------
TypeOK ==
  /\ RowsTypeOK /\ GraphTypeOK
  /\ status \in [Rows -> {"new", "made", "listed", "gone"}]
  /\ \A r \in Rows : status[r] = "listed" => Key(r) \in Keys
  /\ talk \in [Rows -> {"none", "shown", "removed"}]
  /\ rev \in [Sources -> Nat]
  /\ reader.at \in {"idle", "page", "threads", "answer"}
  /\ reader.actors \subseteq Followees
  /\ still \subseteq Listed /\ stayed \subseteq Listed

Init ==
  /\ RowsInit(Old) /\ GraphInit
  /\ status = [r \in Rows |-> IF r \in Old THEN "listed" ELSE "new"]
  /\ talk = [r \in Rows |-> "none"]
  /\ rev = [g \in Sources |-> 0]
  /\ reader = Idle /\ cache = None
  /\ quiet = FALSE /\ still = {} /\ stayed = {}

-----------------------------------------------------------------------------
\* What a commit does to the histories.
Observe ==
  /\ quiet' = FALSE
  /\ still' = still \cap Listed'
  /\ stayed' = stayed \cap Listed'

\* bump_source_revision
Revise(g) == rev' = [rev EXCEPT ![g] = @ + 1]

Tick == Advance /\ UNCHANGED <<graph, walk, web, client, history>>

MakePin(r) ==
  /\ status[r] = "new"
  /\ status' = [status EXCEPT ![r] = "made"]
  /\ Stamp(r)
  /\ UNCHANGED <<graph, walk, talk, rev, client, history>>

\* It is flushed and committed under the lock of its page's row.  It has its id from
\* the flush on, which is merged with the commit: no SELECT returns it in between, and
\* a pin that is listed late, with the created_at it was made with, is there anyway.
ListPin(r) ==
  /\ status[r] = "made"
  /\ status' = [status EXCEPT ![r] = "listed"]
  /\ Number(r)
  /\ Revise(Source[r])
  /\ UNCHANGED <<graph, walk, talk, client>>
  /\ Observe

FailPin(r) ==
  /\ status[r] = "made"
  /\ status' = [status EXCEPT ![r] = "gone"]
  /\ UNCHANGED <<graph, rows, walk, talk, rev, client, history>>

\* Only a pin that never had a comment can be deleted.
DropPin(r) ==
  /\ status[r] = "listed" /\ talk[r] = "none"
  /\ status' = [status EXCEPT ![r] = "gone"]
  /\ Revise(Source[r])
  /\ UNCHANGED <<graph, rows, walk, talk, client>>
  /\ Observe

\* Comments under r are posted, or the last ones are deleted.
Comment(r) ==
  /\ status[r] = "listed" /\ rev[Source[r]] < MaxRevision
  /\ talk' = [talk EXCEPT ![r] = IF Thread(r) THEN "removed" ELSE "shown"]
  /\ Revise(Source[r])
  /\ UNCHANGED <<graph, rows, walk, status, client>>
  /\ Observe

Relation ==
  \E c \in Calls :
    \/ GraphQuiet(c) /\ UNCHANGED <<rows, walk, web, client, history>>
    \/ GraphCommit(c) /\ UNCHANGED <<rows, walk, web, client>> /\ Observe

-----------------------------------------------------------------------------
\* A request for the first page, with or without the tag of the copy, or for the
\* next one: followed_actor_ids.  Who follows nobody gets an empty list at once.
AskFeed(first, copy) ==
  /\ reader.at = "idle"
  /\ first \/ cursor \notin {None, <<>>}
  /\ reader' = [Idle EXCEPT !.at = IF Followed = {} THEN "answer" ELSE "page",
                            !.first = first, !.offered = copy, !.actors = Followed,
                            !.from = IF first THEN None ELSE cursor]
  /\ quiet' = TRUE /\ still' = {}
  /\ UNCHANGED <<graph, rows, walk, web, cache, stayed>>

\* collect_feed_pins: the page's SELECT, with those who were followed before it.
\* The comments of a later page are of no use to the walk and are left out.
ReadPins ==
  LET S == {r \in Rows : status[r] = "listed" /\ Author[r] \in reader.actors}
      page == Slice(S, reader.from, Limit) IN
  /\ reader.at = "page"
  /\ reader' = [reader EXCEPT
       !.page = page,
       !.revs = [i \in DOMAIN page.rows |-> rev[Source[page.rows[i]]]],
       !.at = IF reader.first /\ page.rows # <<>> THEN "threads" ELSE "answer"]
  /\ still' = S \cap Listed
  /\ UNCHANGED <<graph, rows, walk, web, cache, quiet, stayed>>

\* last_comments_overview, for one pin after the other.
ReadThread ==
  LET n == Len(reader.threads) + 1 IN
  /\ reader.at = "threads"
  /\ reader' = [reader EXCEPT
       !.threads = Append(@, Thread(reader.page.rows[n])),
       !.at = IF n = Len(reader.page.rows) THEN "answer" ELSE @]
  /\ UNCHANGED <<graph, rows, walk, web, cache, history>>

\* The body that the request has put together.
Body ==
  [page  |-> reader.page,
   items |-> [i \in DOMAIN reader.page.rows |->
               [row |-> reader.page.rows[i], rev |-> reader.revs[i],
                comments |-> reader.threads[i]]]]

\* Mutant of FeedTag: the digest forgets the revision.
FeedTagPinsOnly(body) == [i \in DOMAIN body.items |-> body.items[i].row]

\* summarize_feed_digest: pins and revisions, neither comments nor next_cursor.
FeedTag(body) == [i \in DOMAIN body.items |-> <<body.items[i].row, body.items[i].rev>>]

Finish == reader' = Idle /\ quiet' = FALSE /\ still' = {}

\* 304: the client shows its copy again, and goes on from the copy's next_cursor.
NotModified ==
  /\ reader.at = "answer" /\ reader.first
  /\ reader.offered # None /\ FeedTag(reader.offered) = FeedTag(Body)
  /\ Restart(reader.offered.page)
  /\ Finish
  /\ UNCHANGED <<graph, rows, web, cache, stayed>>

Fresh ==
  /\ reader.at = "answer" /\ reader.first
  /\ reader.offered # None => FeedTag(reader.offered) # FeedTag(Body)
  /\ Restart(Body.page)
  /\ cache' = Body /\ stayed' = still
  /\ Finish
  /\ UNCHANGED <<graph, rows, web>>

NextPage ==
  /\ reader.at = "answer" /\ ~reader.first
  /\ Continue(reader.page)
  /\ Finish
  /\ UNCHANGED <<graph, rows, web, cache, stayed>>

\* A statement fails or the client goes away.
GiveUp ==
  /\ reader.at # "idle"
  /\ Finish
  /\ UNCHANGED <<graph, rows, walk, web, cache, stayed>>

-----------------------------------------------------------------------------
Next ==
  \/ Tick \/ Relation
  \/ \E r \in Rows : MakePin(r) \/ ListPin(r) \/ FailPin(r) \/ DropPin(r)
                      \/ Comment(r)
  \/ \E copy \in {None, cache} : AskFeed(TRUE, copy)
  \/ AskFeed(FALSE, None)
  \/ ReadPins \/ ReadThread \/ NotModified \/ Fresh \/ NextPage \/ GiveUp

Spec == Init /\ [][Next]_vars

-----------------------------------------------------------------------------
\* What the first page shows now.
Current ==
  LET page == Slice(Listed, None, Limit).rows IN
  Items(page, [i \in DOMAIN page |-> Thread(page[i])])

\* A request for the feed that no commit overlapped answers 304 only if the items
\* of the copy are what the first page shows now, comments included, however many
\* snapshots the copy was put together from.
FeedNotModifiedIsExact ==
  [][NotModified /\ quiet => reader.offered.items = Current]_vars

\* next_cursor is what a 304 may leave behind.  Even so a walk that goes on from
\* the copy loses nothing old: when it has ended, the pins that were listed ever
\* since the copy was read were all shown, but for the pivots, the first rows that
\* a page did not show, which the page after it does not show either.
WalkMissesThePivots ==
  cursor = <<>> =>
    \A r \in stayed : r \in pivots <=> \A i \in DOMAIN shown : shown[i] # r
=============================================================================
