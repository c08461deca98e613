# A verification development for filigrane-api

filigrane-api is a FastAPI service over PostgreSQL: people sign in with one-time
links, pin web pages, comment under pins, react, and are told of what the people
they follow do, in an inbox and on a server-sent event stream. This directory
holds TLA+ models of its stateful parts, the TLC runs that check them on small
instances, and proofs about them checked by the TLA+ proof system.

All paths below are under `src/src/filigrane_api/` unless they say otherwise.

## 1. The system

| part | state | operations | talks to |
|---|---|---|---|
| magic-link sign-in (`services/auth_flow.py`, `routes/auth.py`) | rows of `users`, `magic_links`, `sessions` | solicit (provision, screen, delete older links, mail, insert), redeem | allowlist, mail provider |
| allowlist (`services/magic_allowlist_ops.py`, `routes/internal_access.py`) | rows of `magic_login_allowlist` | grant, revoke (deletes outstanding links too) | sign-in |
| seeding (`scripts/bootstrap_seed.py`) | `users`, allowlist, follows | one transaction: an upsert of account and allowlist row for each roster entry, then the follows | both above, social graph |
| sessions and transactions (`deps.py`, `core/db.py`) | pool of connections, row of the session | authenticate and touch `last_seen_at`, logout, commit or roll back after the handler | every route |
| sources (`services/source_ops.py`) | row of `sources` with `revision` | `ensure_source`, `bump_source_revision`, the background job that fetches metadata | every write to a page |
| pins, comments, reactions (`services/pins_ops.py`, `comments_ops.py`, `reactions_ops.py`) | their rows | create or restore, note, delete; post, reply, edit, soft-delete; toggle | sources, notifications |
| page digest (`services/resolve_ops.py`, `page_analytics.py`) | none; an ETag over what eight SELECTs return | resolve, 304 | everything above |
| notifications (`services/social_notifications.py`, `notifications_ack_ops.py`) | rows of `notifications`, `source_activity_reads` | create, list, mark read, acknowledge a page | hub |
| hub and streams (`core/notify_hub.py`, `routes/workspace.py` 519-560) | per-user lists of bounded queues, in memory | subscribe, publish, send, ping, disconnect | publishers inside request transactions |
| feed and paging (`services/feed_ops.py`, the list routes) | a cursor and a tagged copy kept by the client | page of feed, of a page's pins, of the inbox; 304 | follows, pages |
| social graph (`services/social_graph_ops.py`) | rows of `follows` | follow, unfollow, list | feed, notifications, seeding |
| url rules and source kinds (`services/url_canonical.py`, `source_metadata.py`) | none of their own; they decide which row of `sources` an address names and what a job writes in it | normalize, follow redirects, extract, infer | sources |
| configuration, schemas, migrations | none of their own | declarations and wiring | |

What makes it hard: every request is one READ COMMITTED transaction whose
SELECTs each see a newer snapshot, so decisions are taken on rows that may have
changed by the time they are written; only `SELECT ... FOR UPDATE`, unique
constraints and the row lock of `UPDATE sources SET revision = revision + 1`
stand between racing requests. The commit comes after the handler returned
(`deps.py` 33-39), while mails, stream events and background jobs go out inside
or around the transaction. The hub waits for full queues while its publisher's
transaction holds the page's row. `PROJECT.json` lists every such hazard at its line
with the properties that cover it.

## 2. The models

An action of the transactional models is one SQL statement. A write is visible
to others when its transaction commits; until then it is a lock. A statement
that meets a locked row waits and re-reads the row. Unique violations, stale
rows and lost connections roll the transaction back, as
`acquire_database_session` does. `map` in `PROJECT.json` gives the source lines
of each definition.

**MagicLogin** - sign-in, allowlist and seeding. `link[r]` is the row that solicit
`r` inserts (`none`, `live`, `consumed`, `purged`); sessions are named by the redeem
that mints them, accounts by their handles. `SolicitBegin, Provision, InsertRow, InsertMail, Reread, Screen, Enlist,
Refer, Purge, PurgeRow, PurgeEnd, Mail, SolicitCommit` are `start_magic_challenge` from its first SELECT to
the commit. The INSERT of an account waits at each of its two unique indexes (`InsertRow`, `InsertMail`), that of an
allowlist row at its key (`Enlist`) and at its foreign key to the account (`Refer`); `PurgeRow` visits the rows that the
DELETE found, in heap order, and waits for each. `RedeemBegin, RedeemSelect (FOR UPDATE), RedeemHolder,
RedeemAllowed, RedeemCommit` are `redeem_magic_challenge`. `Grant*`, `Unlist` and `RevokeCommit`
are the administrator's calls, `Expire` the TTL. The seed script is one transaction, too: `SeedRow, SeedMail, SeedUnlist,
SeedAllow` are the two upserts of a roster entry, each of which keeps what it locked until `SeedCommit`; `rowLock`
and `mailLock` are the rows of users that a transaction has written, `Referring(h)` those whose foreign key
shares one. Mail may fail before or after the provider took the message.

**LoginLedger** - the abstract specification: a link is issued, which may void older ones of its mailbox; a
revoke takes effect, which may void links of its mailbox; a link is spent by one session; and nothing else happens to a link.
`MagicLogin!Ledger` is the refinement mapping, with the revokes that answered as those that have taken effect, and
`LedgerKept` the property that MagicLogin implements it: a solicit that fails after its DELETE may not void anything.

**Surface** - one web page and all that people leave on it, with the resolve that
shows it under an ETag. `table` is the committed state; `rowLock` is the transaction
that incremented the page's revision. Whatever is flushed under that lock is invisible and
unreachable to the others until the commit, so it is one step with the commit. Only a toggle that withdraws
a reaction locks a row before the page's (`toggling`). `ReadSurface` is one SELECT
at a time, `Compare` the comparison with `If-None-Match`. `cache` is a client that
keeps the body with its tag. Metadata jobs (`JobBegin`, `WriteJob`) start
after the commit that queued them.

**PageBoard** - the abstract specification of a page: acts with no transactions, locks or SELECTs, each of
which changes the page, tells whom it must and counts as one revision in a single step, under a guard
about the page as it is then (a reply's parent is a comment on that pin, a pin that was commented on stays,
a reaction to what is still shown counts and tells its owner). `Surface!Page` maps Surface to it by hiding locks,
labels and local variables, and `PageKept` is the property that Surface implements it.

**NotifyHub** - the hub, its generators and its publishers. It runs on one asyncio loop,
so an action is what runs between two awaits that really wait: `Publish(p, u)` puts
to the streams of `u` until the first full queue, on a list copied when the
coroutine started. `Leave` has the two shapes of a disconnect (cancelled in
`queue.get`, or at a `yield` and closed later: `Teardown`). `Restart` empties the hub.
`Flush` takes the page's row, as the publishers do by bumping before they notify.

**EventLog** - the abstract specification of the streams: one log for each open stream, only
extended, each event announced, put, and then kept or dropped; `due` names the streams that must
have an event before it may be kept. `NotifyHub!Log` is the refinement mapping (a log is what was
sent, is being sent and waits in the queue) and `LogKept` the property.

**RequestLifecycle** - what every authenticated request goes through: connection of
the pool, session row, page row, the events it publishes, response, background job and end of the
transaction. `Publish` may meet a full queue (`full`), and it is up to a reader whether there is ever `Room`.
FastAPI up to 0.117 ends a dependency that yields before it sends the
response, 0.118 and later after the response and its background tasks; `pyproject.toml:12`
accepts both, so `late` is chosen in `Init` and every property is checked for both.
(Surface and Inbox are written for the early order: the job starts after the commit, an answer is known after it.
The late order adds waits, which RequestLifecycle examines, and lets a response say what a commit that fails
afterwards does not keep: the 201, 204 or 304 of a request may then be wrong, which no model states as a property.)

**SocialGraph** - follow, unfollow and the seed script's follows. `edge[e]` is the
committed row, named by the call that inserted it so that a row differs from a later one
for the same pair; `writer[e]` is who inserts or deletes one and has not ended. `InsertEdge`
enters the edge and waits for others at the same pair; `Refer` is its two foreign keys,
for which it may wait for a script that has updated the accounts (`SeedAccounts`).
`moments[c]` remembers which edges were there at each moment of the call `c`.

**Paging** - the three lists ordered by `(created_at, id)`: `Slice` fetches `limit + 1` rows
and makes the extra one, the pivot, the cursor; `Restart` and `Continue` are what a walking
client does with a page. Rows are stamped by the application (`Stamp`) and numbered at the
flush (`Number`), so a row may come late and below the cursor.

**Feed** - composes SocialGraph, whose edges decide what is listed, with Paging: the viewer's
requests as `AskFeed` (who is followed), `ReadPins`, `ReadThread` for each pin, and one of
`Fresh`, `NotModified`, `NextPage`, `GiveUp`. `cache` is the client's tagged copy of the first
page. Each change of a page is one step, as Surface justifies.

**Inbox** - composes NotifyHub, which writes the rows and announces them, with the calls that
mark them read. `Find` is the snapshot of an UPDATE, `Update` takes one row, in any order of
the plan, and evaluates `read_at IS NULL` again on what another transaction left;
`Upsert` is the row of `source_activity_reads`. `List` and `ListOn` are the two ways to ask for a page of `Limit` rows:
the newest, or those older than the row that was the `next_cursor` (`cursor`), which itself is on no page. `listed` is what the
client saw, `pivots` the cursors since its last first page, `gap[s]` what was under way at that page, if it was asked for after
`s` opened.

**SourceUrls** - an address is a record of its parts; `Normalize`, `Finalize`, `Snippet`,
`InferKind` are the pure functions, `Ask, Fetch, Ensure` a request by url, and
`JobRead, JobBump, JobCommit` the metadata job, which merges with a row it read before it
had the lock. `Query` puts each kept value of a query in its `Place`, as the stable sort by
lower-cased keys does. The reference definition `SamePage` says which addresses name one page,
by what they say under each key and without any sorting.

**MC\*** modules give the constants and symmetry sets of the runs; the modules named
**\*Proofs** hold the proofs. Definitions marked "mutant" or "broken
variant" are plausible bugs; putting one in place of the definition it varies makes a
run fail, which is how each property was tried.

## 3. The runs

| run | instance | what it shows |
|---|---|---|
| `login_races` | 1 mailbox, 1 handle, 2 solicits of which one self-provisions, 2 redeems, 1 administrator's call, 1 seed script | `SingleUse`, `PurgeHolds`, `LateSessionIsUnseen`, `DeadLinksStayDead`, `NoCycleOfWaits`, `LedgerKept` (refinement) |
| `login_answers` | 2 mailboxes that compete for 3 handles, 1 solicit that self-provisions, 1 redeem, 1 administrator's call, 1 seed script | `EveryRequestAnswered`, with PostgreSQL's deadlock detection |
| `login_regrant` | 1 mailbox, 1 solicit, 2 redeems, 2 administrators' calls | violation, see 5 |
| `surface` | 2 users, 3 requests of every operation, 1 job, 1 earlier row | `NotModifiedIsExact`, `EveryChangeCounts`, `PageCoherent`, `RemovedStaysRemoved`, `PageKept` (refinement) |
| `surface_answers` | 3 toggles or unpins | `EveryTaskAnswered`, with PostgreSQL's deadlock detection |
| `surface_unpin` | 1 unpin, 2 earlier rows | violation, see 5 |
| `hub` | 1 user, 2 streams, 2 publishers, 1 page, queues of 1 | `PageEventsInOrder`, `CommittedReachesOpenStreams`, `LogKept` (refinement), `PublishEndsUnlessAbandoned` |
| `inbox` | 1 user, 1 stream, 1 earlier and 1 new row, pages of 1, 2 calls | `MarkedIsRead`, `NothingMissed`, `FirstReadKept`, `MarksAnswer` |
| `request` | 3 requests of every kind, 1 session, pool of 2 | `NoWorkAfterLogout`, `JobFindsItsPage`, `RequestsEndUnlessHeld` |
| `social` | 2 users on the roster, 3 calls | `AnswersHold`, `CallsAnswer` |
| `feed` | 3 pins of 2 authors on 2 pages, 2 instants, pages of 1, 1 call of the graph | `WalkDescends`, `WalkMissesThePivots`, `FeedNotModifiedIsExact` |
| `urls` | 2 requests, 32 spellings, redirects, 3 answers | `SamePageSameRow`, `RowsNameThemselves`, `MetadataNeverLost` |

Deadlock is not checked anywhere because a finite set of requests ends;
that none is stuck on the way is what the liveness properties say. Each run has the type
invariant of its module too, with what the bounded structures promise (a queue within its
capacity, a pool not exceeded, a lock only with a running transaction).

**Why these bounds.** Two requests race for one link, and a third party (a revoke, a
second solicit) interferes: two solicits and two redeems with one call of an administrator, on one mailbox, is the smallest
instance with all of it. The setting of `auto_provision_users` is given for each solicit, as if another worker handled it, so that
one run has both paths and their races. A second mailbox is only needed by what competes for the handle of an account, and by a
script that moves an account from one mailbox to another: `login_answers` has it, and handles
enough for a free one, which in the code there always is. The roster of one entry gives an account with its handle another mailbox, or one with its mailbox
a conflict; one script against a grant or solicit is the smallest circle of waits, and a solicit that lists its mailbox itself is
the second writer of an allowlist row for the grant. What crosses mailboxes, longer rosters and more calls of administrators
are left to the theorems.
On a page, a torn read and the request that compares itself with it need two resolves and
a writer, hence three requests; two users give an actor and
somebody notified. One earlier row stands for all that was there before. In the
hub, one publisher fills a queue of one and another waits for it or overtakes;
the code's 200 places only make this longer, and the proofs speak of any number of both.
A pool of two is the
smallest in which a request and its own job both fit and a second request
exhausts it. Two calls and two rows are the least that lock each other in opposite
orders, and with pages of one they make the boundary between a page and the next, with its pivot; ties of `created_at` and
walks of more pages are left to `NothingIsMissed`, which is proved for any; a follow, an unfollow and a second follow are what lets an edge go and come back
under a call. Three pins with pages of one make two page boundaries, two instants let
`created_at` be equal or not. The addresses of `urls` vary every part that
`normalize_url` touches: scheme, case, padding, fragment, path, and queries of up to three
parameters with trackers, equal keys, empty values and encoded links. Clocks count to
`Times`, comments of a feed to `MaxRevision`.

**Fairness.** A started request keeps taking steps: the loop runs what is ready,
PostgreSQL wakes those who wait for a lock, the mail client and the pool have timeouts. It is
weak fairness of each request's own steps; no step is required of clients (calling,
reading, disconnecting), of clocks or of crashes, except that a connection that does
not move is closed in the end (`Deliver \/ Leave`). Where transactions can close a cycle of
waits (MagicLogin, Surface, Inbox, SocialGraph) one of
them is failed (`BreakCircle`, `BreakCycle`, `Deadlocked`), as PostgreSQL does after `deadlock_timeout`; each of these
modules names the cycle, and no other wait is helped. That nothing else could need help is proved:
in each module a circle of waits, of whatever length, contains one that is named (`CirclesHaveDeadlocks`,
`CirclesAreCycles`, `CirclesHaveCycles`). In MagicLogin any circle is broken, and only the seed script closes one
(`NobodyWaitsInACircle`); RequestLifecycle has only the one that PostgreSQL cannot see (`CirclesAreOwn`), and waits of its
own for a reader of a queue or of a stream, to which no fairness is given. `WaitsFor` says, for each statement that can wait, whose end it waits
for. That a statement with nobody to wait for can run is a matter of ENABLED and not proved; on the
instances of the runs the liveness properties depend on it.

## 4. What is proved

`MagicLoginProofs`, for any sets of mailboxes, handles, requests and scripts and either setting of
`auto_provision_users` for each solicit, from `RequestKinds` (the kinds of transactions are disjoint,
solicits are numbered), `RosterKnown` (no handle or mailbox is twice on the roster) and `CandidatesKnown`:

- `TypeCorrect` - types.
- `Invariant` - the inductive invariant `IInv`. `SingleUse` is not inductive: nothing
  in it says that the second redeem is kept out. `IInv` ties each lock to where its holder
  stands: only outstanding links are locked (`LockedIsLive`); a redeem between its
  SELECT and its end holds exactly the link it presents (`RedeemHolds`); a request that deletes holds
  only links of its mailbox (`DeleterHolds`) and, past its DELETE, every found row that is
  still outstanding (`FoundRowsHeld`); a link exists once its solicit committed
  (`RowsExist`); sessions belong to redeems that answered (`SessionsPaid`). There is a lemma for
  each action that touches a lock; all others are `QuietStep` or `RollbackStep`.
- `LinksAreSingleUse`, `PurgesAreComplete`, `LateSessionsAreUnseen` - the three safety
  invariants of `login_races`, as conjuncts of `IInv`.
- `DeadLinksStayDeadAlways` - the action property, from `IInv` and a lemma on which
  actions change a link.
- `NobodyWaitsInACircle` - `NoCycleOfWaits`. Two more invariants are needed. `AInv` is about accounts: who has locked
  a row of users or a mailbox is a solicit past its INSERT, of an account that is not there yet (`RowHeld`), or a script
  that has reached the entry (`SeedHeld`); so a request's foreign key only ever waits for a script.
  `LInv` is the order in which requests lock rows: accounts, then the allowlist (`AllowLocks`), then links in heap order, so
  that what a DELETE holds comes before what it has still to visit (`Ascends`). In a circle without a script everybody would
  therefore be deleting, and whoever waits for the least link would be waited for by one who waits for a lesser (`Least`).
- `LedgerRefined` - MagicLogin implements LoginLedger: initial states map to initial
  states, each commit of a solicit, redeem or revoke to one step of the ledger, everything else, the failures included, to a stutter.

`SurfaceProofs`, for any users, requests, jobs, earlier rows, notes and followers, from
`TasksDiffer` (names are distinct) and `FollowersKnown`:

- `TypeCorrect`, and `Invariant` with `IInv`. Its heart is `RevisionLocked`: whoever
  holds the page's row will commit the revision that is there now plus one, and nobody
  is past the increment without it. `RowsOwned` (a committed row has an owner
  and its request has answered) keeps a second request from owning a row, and
  `LocalTyped` says what the local variables hold where they are used.
- `PagesStayCoherent` - `PageCoherent` is a conjunct of `IInv`; each commit re-decides it
  under the constraints of the tables.
- `RemovalsStay` - `RemovedStaysRemoved`, from which step removes what.
- `NotModifiedExactly` - `NotModifiedIsExact`. Its invariant `BInv` says of every body, in a
  cache, offered or half read: if the revision it starts with is still the page's, what
  it holds of title, own pins and latest pinners is right (`Agrees`). That survives
  every step because of `Counts`: those who change title, pins, notes or comments are in `Locked` steps, so they commit rev + 1
  (`LockedCounts`), the others leave them alone (`UnlockedCounts`). A resolve that no
  commit overlapped has read the rest as it is, so an equal tag leaves no difference.
  `SourceFirst` covers the page's first row: nothing is left on a page whose row is not
  committed, and its revision is 0.
- `PageIsKept` - Surface implements PageBoard. Its invariant `KInv` (`Knows`) says what a request may still rely on
  of what it read without a lock: the row it names was somebody's and stays theirs, a reply's parent is on the
  pin, a toggle that found no page is about something gone for good, and only a toggle that found one has the page's row, so
  that only a reaction to what is no longer shown goes uncounted. `Respects` is what a step may do to the others' knowledge;
  `OthersKnow` is proved once from it, and one lemma for each commit (`InsertPinActs` ... `WriteJobActs`) names the act it is.
- `ChangesCount` - `EveryChangeCounts`, from `Counts` and, for reactions, from `Knows`: a toggle that goes on without the
  increment is about a pin that is gone, and its reaction is not among those `Standing` (`ReactionsCount`).
- `CirclesHaveDeadlocks` - every circle of waits has a `Deadlocked` toggle. Who inserts the page's first row never waits for
  it (from `Knows`); the page's row is only held by one that waits if that one inserts a reaction; and only a toggle that
  withdraws one holds it (`Toggles`).

`RequestLifecycleProofs`, for any requests, sessions and pool and both exit orders, from
`PoolIsPositive`, `KindsKnown` and `NoneIsNone`:

- `TypeCorrect` (the pool is never exceeded) and `Invariant`: a request at work, or whose transaction a late exit
  keeps open, holds its session's row (`SessionHeld`), a logout about to commit holds it too or finds none
  (`LogoutHolds`), so they exclude each other; a request that queues a job has read the
  page's row or inserted it (`PageFound`).
- `LogoutsEndWork`, `JobsFindTheirPage` - the two safety properties of `request`.
- `CirclesAreOwn` - `Holders` says at which statements the session's row, the page's row and a new one are held: those who
  wait for a session hold nothing yet, and the page's row is past an early exit only with a job at its commit. What is left
  of a circle is a job whose own request, by a late exit, has the row.

`NotifyHubProofs`, for any users, streams, publishers, pages and capacity, from
`CapacityPositive` and `NoneIsNone`:

- `TypeCorrect`, and `Invariant` with `IInv`: a stream is on one list, once (`Listening`,
  `Lists`); what a publisher has still to put to a stream is not among its packets
  (`Putting`); a publisher that puts keeps its page's row, so those flushed before it for that page
  have ended (`Locks`). Neither property is inductive without knowing where each
  half-done publication stands.
- `OrderKept`, `DeliveredOnce` - `PageEventsInOrder` and `CommittedReachesOpenStreams`.
- `LogsKept` - NotifyHub implements EventLog. One lemma for each action names the step of the log it is:
  a flush announces (the page's lock keeps others of its topic out), a piece of `publish` is a put to
  those of its streams that are still open (`Addressed`: only recipients' streams are left to put to), a commit
  keeps (nothing is left, so whoever is due has it), what a generator does with a packet is a stutter.

`InboxProofs`, on top of the hub's invariant, with `ViewerKnown`, `OldKnown`, `CallsDiffer`, `TimesKnown`,
`LimitPositive`, for any page size and any times:

- `InboxTypeCorrect`, and `InboxInvariant`: a row that a call was asked to mark is read, or the call holds
  it, or will still look at it (`Marking`); a row that had its id before a stream opened was passed by the walk that began
  after that (`Passed`: listed, a pivot, or older than the cursor) or was under way at its first page (`Gapped`). A page
  passes whatever is not older than its own cursor (`PagePasses`), and the order of rows is for good (`NewerStays`).
- `InboxKeepsTheHub` - each step of Inbox is one of NotifyHub or leaves the hub alone. `InboxInOrder`, `InboxDeliversOnce`
  restate the hub's two properties for the inbox, whose initial rows the hub alone does not have.
- `AskedIsRead`, `FirstReadStays`, `NothingIsMissed` - the safety properties of `inbox`.
- `CirclesAreCycles` - whoever has the row of `source_activity_reads` is at its commit, so a circle is one of UPDATEs.

`SocialGraphProofs`, for any users, calls and roster, from `CallsDiffer` and `RosterKnown`:

- `TypeCorrect`, `Invariant`: an edge is only inserted where there is none, and a
  running call's moments hold the edge as it is (`SeesNow`); so who waited for the row it
  meant to delete and found another has lived through a moment without any (`Held`).
- `AnswersAlwaysHold` - `AnswersHold`.
- `CirclesHaveCycles` - a follow holds one edge (`OwnEdges`) and one script at a time is past its accounts (`OneScript`), so in a
  circle the script waits for a follow that waits for it.

`FeedProofs`, for any users, pins, pages of the web, page size and calls of the graph, from
`TimesNat`, `RowsFinite`, `NoneIsNone`, `LimitPositive`, `OldKnown` and those of SocialGraph:

- Lemmas on one page: keys are totally ordered, so the ranks in a finite set of rows are
  1 to its size, each taken once (`RankTaken`), and a page lists its rows by rank. Hence
  (`SliceMakes`) a page is descending, lies below the cursor it was asked with and above its
  next cursor, and each row asked for is shown, the pivot, or below the next cursor
  (`Covers`). Such a page can be put behind another that ends at its cursor (`PagesJoin`).
- `FeedTypeCorrect` and `FeedInvariant` with `FeedInv`: ids and times of numbered rows never change (`KeysStay`),
  so what was shown and what was covered stay so whatever is inserted or dropped (`WalkKept`,
  `CopyKept`, `ReaderKept`); the comments read with a revision are right while it is
  the page's (`Right`); without a commit in between the page is the one that would be
  read now (`QuietKept`). None of these is inductive alone: the walk rests on the request under way,
  the request on the copy, the copy on the revisions.
- `FeedKeepsTheGraph` - each step of Feed is one of SocialGraph or leaves the graph alone, hence `FeedAnswersHold`.
- `WalksDescend`, `PivotsOnly`, `FeedNotModifiedExactly` - the properties of `feed`.

`SourceUrlsProofs`, for queries of any length and any trackers, from the assumptions of SourceUrls
on names, spellings (their queries are sequences of `Values`) and redirects (they have a scheme and a host):

- `NormalFormIsThePage` - two addresses have one normal form exactly if they are of one page.
  Places number the kept values without a gap (`PlaceTaken`); what the addresses say under each key,
  put together, is a map between their kept values that preserves the order (`SameMatch`), so it
  preserves places (`MatchedPlace`). Conversely the map from a value to the one in the same place
  is such a map for each key (`QueriesSame`).
- `NormalIsNormal` - what is sorted and recoded stays as it is when sorted and recoded again.
- `PagesNameRows` and `RowsFindThemselves` - `SamePageSameRow` and `RowsNameThemselves`, from these and
  an invariant: a request is given the row its address led to (`Asked`), and there are no other
  rows (`RowsAsked`).
- `TypeCorrect`, `Invariant`, and `MetadataStays` - `MetadataNeverLost`: a job holds an empty
  value only for a column it read empty (`JobsMerge`), and does not write that one.

Only model-checked: the liveness properties (`EveryRequestAnswered`, `EveryTaskAnswered`,
`PublishEndsUnlessAbandoned`, `RequestsEndUnlessHeld`, `MarksAnswer`, `CallsAnswer`), which the
prover cannot reach. The modules declare no RECURSIVE operator.

## 5. Where the code and its words differ

- `login_regrant`: a link answered with `magic_login_revoked` (`services/auth_flow.py:219`)
  is neither consumed nor deleted. When the mailbox is granted again the
  same link works, although its answer says to "request a new link". It takes
  a solicit that passed its allowlist check before a revoke looked for links and committed after.
- `surface_unpin`: a pin that ever had a comment cannot be deleted. The flush of the
  delete sets `pin_id` of the comments to NULL, a NOT NULL column, before the
  database's ON DELETE CASCADE could act (`services/pins_ops.py:115`, `models/entities.py:103`).

What the properties that do hold say, worth knowing when changing the code:

- `LateSessionIsUnseen`: a session can be minted for a mailbox whose revoke is
  committed, but only with a link the revoke could not see.
- `NoWorkAfterLogout`: with FastAPI 0.117 or earlier the transaction that authenticated an event stream ends before the
  response, and the generator (`routes/workspace.py:541-558`) never looks at its session again: a stream opened before a logout
  keeps delivering the user's notifications after it. The property speaks of handlers and, for later releases, of streams, whose logout
  then waits for them.
- `RequestsEndUnlessHeld`: with any release, a handler that publishes to a full queue (`services/social_notifications.py:55`,
  `core/notify_hub.py:46`) waits inside its transaction, with its connection, its session's row and the page's row, for ever if the stream
  was closed; whoever needs one of these waits too. With FastAPI 0.118 or later, an open event stream keeps its session's
  row locked and connection taken, so other requests of that session wait for it; and the metadata job of a
  pin by url on a known page waits for the row its own request keeps. Neither is a deadlock
  PostgreSQL can see.
- `JobFindsItsPage`: under the same releases the job of a new page may find no row,
  and is skipped.
- `PublishEndsUnlessAbandoned`: a stream that closes while its queue is full and a publisher
  waits for it leaves that publisher waiting for ever, with the page's row locked.
- `WalkMissesThePivots`: the row at each page boundary is shown by no page.
- Events go to the streams before the commit: a rollback leaves clients
  with an event of a notification that does not exist, which is why
  `CommittedReachesOpenStreams` speaks of committed ones only. A client that marks such a
  notification read before it is committed is answered 204, and it is unread once it
  comes: `MarkedIsRead` speaks of rows the client saw in its inbox.
- `NothingMissed`: a client misses nothing if it opens its stream first and lists its inbox then, except
  for notifications that had their ids before the stream opened and were committed after the first page, and for the row at
  each page boundary, which is the `next_cursor` and on no page.
- `FeedNotModifiedIsExact` compares items only: the feed's tag leaves out `next_cursor`, so a 304
  may leave an old cursor behind. `WalkMissesThePivots` says why a walk from it still loses nothing but pivots.
- `SamePageSameRow`: a fetch that fails leaves the address before its redirects, so
  one page may have two rows, one for each fate.
- `NoCycleOfWaits`: a grant or a solicit that enters an allowlist row and the seed script can deadlock, on that row and the
  account it refers to; PostgreSQL fails one.
- `CallsAnswer`: a follow and the seed script can deadlock on an edge and an account; PostgreSQL fails one.

## 6. What is not modelled

- Wording, lengths, parsing, JSON, rate limits, logging, CORS, health: no shared state.
- The list of followees: one SELECT without a decision.
- Whom a change notifies is a constant (`Followers`) of Surface and any set in NotifyHub; Feed has the
  real graph.
- The parsing of html and of percent signs, of cursors and of dates. A cursor without a colon raises where the
  parser would have caught it (`services/feed_ops.py:24`); nothing else comes of it.
- The comments under the pins of the feed's later pages, which no tag covers.
- The seed script's upserts of its accounts are one step of SocialGraph; each is a step of its own in MagicLogin.
- That `resolve` answers 500 where a pin answers 400 to an address that cannot be normalized: both are
  `refused` in SourceUrls.
- A `://` in the path or the fragment, which `normalize_url` takes for a scheme, too: SourceUrls looks for it in the query.
- A pin of Feed gets its id and becomes visible in one step (`ListPin`); the time between flush and commit is in `Stamp`.
- The wait in `publish` is not in Surface, whose liveness property is about rows only; it is in NotifyHub and RequestLifecycle.
- Endings of paths such as `.mp4` stand for all that `infer_kind` looks for in a path (`VideoPaths`); the code looks at the end of the whole address, and queries that
  end like a file's name are left out.
- Expiry of sessions, and other columns of `users`.
- Configuration, schemas and migrations: declarations, whose constraints are guards of the
  models.
- The mail provider, asyncio's queues, PostgreSQL's locks and FastAPI's exit order
  are modelled from how the code uses them.

## 7. Order of the work, and what could come next

Written in the order of importance: MagicLogin with LoginLedger, Surface, NotifyHub,
RequestLifecycle, then SocialGraph, Paging with Feed, Inbox and SourceUrls; proofs about each.

What is left: that Feed's one-step changes of a page are acts of PageBoard, which is so far an argument and not a theorem, and
what only TLC checks: liveness, and the two properties that the code violates.
