----------------------------- MODULE NotifyHub -----------------------------
(***************************************************************************)
(* The in-memory hub that fans notifications out to open event streams     *)
(* (core/notify_hub.py), its publishers (social_notifications.notify_users *)
(* inside the transaction of a pin, a comment or a reaction) and its       *)
(* consumers (GET /v1/notifications/stream).                               *)
(*                                                                         *)
(* Everything runs on one asyncio loop: a coroutine runs until it awaits   *)
(* something that is not ready, so one action is what runs between two     *)
(* such points.  asyncio.Queue is modelled from how the hub uses it: put   *)
(* waits while the queue is full, get while it is empty, in no order among *)
(* the waiters; a get that times out loses nothing.                        *)
(***************************************************************************)
EXTENDS Naturals, Sequences, FiniteSets

CONSTANTS
  Users,
  Streams,    \* connections of clients; one that reconnects is another one
  Publishers, \* calls of notify_users
  Pages,
  Capacity,   \* of a queue; 200 in the code
  None

ASSUME CapacityPositive == Capacity \in Nat \ {0}
ASSUME NoneIsNone ==
  None \notin Users \cup Streams \cup Publishers \cup Pages /\ None \notin Seq(Streams)

VARIABLES
  channels, \* channels[u]: the streams of u that subscribed, in that order
  queue,    \* queue[s]: what waits to be sent on s
  held,     \* held[s]: the packet being sent, None when it is a ping
  sse,      \* state of the generator behind s
  pc,       \* state of a publisher
  to, page, \* its recipients, and the page whose revision it increments
  left,     \* left[p][u]: streams of u still to be put to; None at first
  pageLock, \* pageLock[g]: the publisher whose transaction holds the page's row
  reader, since, sent, flushed \* history; the first three of open streams only

stream  == <<channels, queue, held, sse, reader, since, sent>>
request == <<pc, to, page, left, pageLock, flushed>>
vars    == <<stream, request>>

Open == {"waiting", "sending"}
Ended == {"committed", "failed"}

\* list.remove; a stream that is not there is none of its concern.
Without(seq, s) ==
  IF \E i \in DOMAIN seq : seq[i] = s
  THEN LET i == CHOOSE i \in DOMAIN seq : seq[i] = s /\ \A j \in 1..(i-1) : seq[j] # s
       IN  SubSeq(seq, 1, i - 1) \o SubSeq(seq, i + 1, Len(seq))
  ELSE seq

\* Mutant of Roomy: a full queue takes one more.
RoomyOffByOne(streams, n) ==
  /\ \A i \in 1..n : Len(queue[streams[i]]) <= Capacity
  /\ n < Len(streams) => Len(queue[streams[n + 1]]) > Capacity

\* Whether n streams, from the first, can be put to without waiting, and no more.
Roomy(streams, n) ==
  /\ \A i \in 1..n : Len(queue[streams[i]]) < Capacity
  /\ n < Len(streams) => Len(queue[streams[n + 1]]) >= Capacity

-----------------------------------------------------------------------------
TypeOK ==
  /\ channels \in [Users -> Seq(Streams)]
  /\ queue \in [Streams -> Seq(Publishers)]
  /\ \A s \in Streams : Len(queue[s]) <= Capacity
  /\ held \in [Streams -> Publishers \cup {None}]
  /\ sse \in [Streams -> Open \cup {"new", "gone", "closed"}]
  /\ pc \in [Publishers -> Ended \cup {"idle", "bump", "publish"}]
  /\ to \in [Publishers -> SUBSET Users]
  /\ page \in [Publishers -> Pages \cup {None}]
  /\ left \in [Publishers -> [Users -> Seq(Streams) \cup {None}]]
  /\ pageLock \in [Pages -> Publishers \cup {None}]
  /\ flushed \in Seq(Publishers)
  /\ reader \in [Streams -> Users \cup {None}]
  /\ since \in [Streams -> 0..Len(flushed)]
  /\ sent \in [Streams -> Seq(Publishers)]

StreamInit ==
  /\ channels = [u \in Users |-> <<>>]
  /\ queue = [s \in Streams |-> <<>>]
  /\ held = [s \in Streams |-> None]
  /\ sse = [s \in Streams |-> "new"]
  /\ left = [p \in Publishers |-> [u \in Users |-> <<>>]]
  /\ pageLock = [g \in Pages |-> None]
  /\ reader = [s \in Streams |-> None]
  /\ since = [s \in Streams |-> 0]
  /\ sent = [s \in Streams |-> <<>>]

Init ==
  /\ StreamInit
  /\ pc = [p \in Publishers |-> "idle"]
  /\ to = [p \in Publishers |-> {}]
  /\ page = [p \in Publishers |-> None]
  /\ flushed = <<>>

-----------------------------------------------------------------------------
\* broadcaster, up to its first wait: hub.subscribe.
Subscribe(s, u) ==
  /\ sse[s] = "new"
  /\ sse' = [sse EXCEPT ![s] = "waiting"]
  /\ channels' = [channels EXCEPT ![u] = Append(@, s)]
  /\ reader' = [reader EXCEPT ![s] = u]
  /\ since' = [since EXCEPT ![s] = Len(flushed)]
  /\ UNCHANGED <<queue, held, sent, request>>

\* queue.get returns and the fragment is yielded.
Take(s) ==
  /\ sse[s] = "waiting" /\ queue[s] # <<>>
  /\ held' = [held EXCEPT ![s] = Head(queue[s])]
  /\ queue' = [queue EXCEPT ![s] = Tail(@)]
  /\ sse' = [sse EXCEPT ![s] = "sending"]
  /\ UNCHANGED <<channels, reader, since, sent, request>>

\* 25 seconds without a packet: a ping is yielded.
Ping(s) ==
  /\ sse[s] = "waiting" /\ queue[s] = <<>>
  /\ sse' = [sse EXCEPT ![s] = "sending"]
  /\ UNCHANGED <<channels, queue, held, reader, since, sent, request>>

\* The client has read it and the generator is resumed.
Deliver(s) ==
  /\ sse[s] = "sending"
  /\ sse' = [sse EXCEPT ![s] = "waiting"]
  /\ sent' = [sent EXCEPT ![s] = IF held[s] = None THEN @ ELSE Append(@, held[s])]
  /\ held' = [held EXCEPT ![s] = None]
  /\ UNCHANGED <<channels, queue, reader, since, request>>

Unsubscribe(s) ==
  /\ sse' = [sse EXCEPT ![s] = "closed"]
  /\ channels' = [u \in Users |-> Without(channels[u], s)]

Forget(s) ==
  /\ held' = [held EXCEPT ![s] = None]
  /\ reader' = [reader EXCEPT ![s] = None]
  /\ since' = [since EXCEPT ![s] = 0]
  /\ sent' = [sent EXCEPT ![s] = <<>>]

\* The client disconnects.  A generator that waits is cancelled and runs its
\* finally; one that yielded runs it when the loop closes it.
Leave(s) ==
  /\ \/ sse[s] = "waiting" /\ Unsubscribe(s)
     \/ /\ sse[s] = "sending"
        /\ sse' = [sse EXCEPT ![s] = "gone"]
        /\ UNCHANGED channels
  /\ Forget(s)
  /\ UNCHANGED <<queue, request>>

Teardown(s) ==
  /\ sse[s] = "gone"
  /\ Unsubscribe(s)
  /\ UNCHANGED <<queue, held, reader, since, sent, request>>

-----------------------------------------------------------------------------
\* A request that will notify, before bump_source_revision; a reaction whose
\* source is gone increments none.  Without recipients nothing is published.
Begin(p) ==
  /\ pc[p] = "idle"
  /\ pc' = [pc EXCEPT ![p] = "bump"]
  /\ \E R \in (SUBSET Users) \ {{}} : to' = [to EXCEPT ![p] = R]
  /\ \E g \in Pages \cup {None} : page' = [page EXCEPT ![p] = g]
  /\ UNCHANGED <<stream, left, pageLock, flushed>>

\* Mutant of Flush: notifications are written without the page's row.
FlushUnlocked(p) ==
  /\ pc[p] = "bump"
  /\ pc' = [pc EXCEPT ![p] = "publish"]
  /\ left' = [left EXCEPT ![p] = [u \in Users |-> IF u \in to[p] THEN None ELSE <<>>]]
  /\ flushed' = Append(flushed, p)
  /\ UNCHANGED <<stream, to, page, pageLock>>

\* The UPDATE of the page's row waits for it and keeps it until the end of the
\* transaction; session.flush gives the notifications their ids.
Flush(p) ==
  /\ pc[p] = "bump"
  /\ page[p] # None => pageLock[page[p]] = None
  /\ pageLock' = [g \in Pages |-> IF g = page[p] THEN p ELSE pageLock[g]]
  /\ pc' = [pc EXCEPT ![p] = "publish"]
  /\ left' = [left EXCEPT ![p] = [u \in Users |-> IF u \in to[p] THEN None ELSE <<>>]]
  /\ flushed' = Append(flushed, p)
  /\ UNCHANGED <<stream, to, page>>

\* Mutant of Publish: put_nowait, and a full queue is skipped.
PublishNoWait(p, u) ==
  /\ pc[p] = "publish"
  /\ left[p][u] = None
  /\ queue' = [s \in Streams |->
       IF (\E i \in DOMAIN channels[u] : channels[u][i] = s) /\ Len(queue[s]) < Capacity
       THEN Append(queue[s], p) ELSE queue[s]]
  /\ left' = [left EXCEPT ![p][u] = <<>>]
  /\ UNCHANGED <<channels, held, sse, reader, since, sent, pc, to, page, pageLock, flushed>>

\* Mutant of Publish: only a stream that waits for a packet gets it.
PublishToWaiting(p, u) ==
  /\ pc[p] = "publish"
  /\ left[p][u] = None
  /\ queue' = [s \in Streams |->
       IF (\E i \in DOMAIN channels[u] : channels[u][i] = s) /\ sse[s] = "waiting"
       THEN Append(queue[s], p) ELSE queue[s]]
  /\ left' = [left EXCEPT ![p][u] = <<>>]
  /\ UNCHANGED <<channels, held, sse, reader, since, sent, pc, to, page, pageLock, flushed>>

\* NotifyHub.publish to u, one of the coroutines of the gather: from its start,
\* where the list of streams is copied, or from a put that waited, up to the next
\* full queue.
Publish(p, u) ==
  LET todo == IF left[p][u] = None THEN channels[u] ELSE left[p][u] IN
  /\ pc[p] = "publish"
  /\ \E n \in 0..Len(todo) :
       /\ Roomy(todo, n)
       /\ left[p][u] = None \/ n > 0
       /\ queue' = [s \in Streams |-> IF \E i \in 1..n : todo[i] = s
                                      THEN Append(queue[s], p) ELSE queue[s]]
       /\ left' = [left EXCEPT ![p][u] = SubSeq(todo, n + 1, Len(todo))]
  /\ UNCHANGED <<channels, held, sse, reader, since, sent, pc, to, page, pageLock, flushed>>

\* Mutant of Finish: the page's row stays locked.
FinishStillLocked(p, answer) ==
  /\ pc' = [pc EXCEPT ![p] = answer]
  /\ UNCHANGED <<stream, to, page, left, pageLock, flushed>>

\* The end of the transaction.
Finish(p, answer) ==
  /\ pc' = [pc EXCEPT ![p] = answer]
  /\ pageLock' = [g \in Pages |-> IF pageLock[g] = p THEN None ELSE pageLock[g]]
  /\ UNCHANGED <<stream, to, page, left, flushed>>

\* Mutant of Commit: the puts are tasks that nobody waits for.
CommitUnawaited(p) ==
  /\ pc[p] = "publish"
  /\ Finish(p, "committed")

Commit(p) ==
  /\ pc[p] = "publish"
  /\ \A u \in Users : left[p][u] = <<>>
  /\ Finish(p, "committed")

\* A statement or the commit fails; nothing ends a put that waits.
Fail(p) ==
  /\ \/ pc[p] = "bump"
     \/ pc[p] = "publish" /\ \A u \in Users : left[p][u] = <<>>
  /\ Finish(p, "failed")

\* The worker is restarted: the hub is empty and PostgreSQL rolls back.
Restart ==
  /\ channels' = [u \in Users |-> <<>>]
  /\ queue' = [s \in Streams |-> <<>>]
  /\ held' = [s \in Streams |-> None]
  /\ sse' = [s \in Streams |-> IF sse[s] = "new" THEN "new" ELSE "closed"]
  /\ pc' = [p \in Publishers |-> IF pc[p] \in {"bump", "publish"} THEN "failed" ELSE pc[p]]
  /\ left' = [p \in Publishers |-> [u \in Users |-> <<>>]]
  /\ pageLock' = [g \in Pages |-> None]
  /\ reader' = [s \in Streams |-> None]
  /\ since' = [s \in Streams |-> 0]
  /\ sent' = [s \in Streams |-> <<>>]
  /\ UNCHANGED <<to, page, flushed>>

-----------------------------------------------------------------------------
Generator(s) == Take(s) \/ Ping(s) \/ Deliver(s) \/ Leave(s) \/ Teardown(s)
Notifier(p) == Flush(p) \/ (\E u \in Users : Publish(p, u)) \/ Commit(p)

Next ==
  \/ \E s \in Streams : Generator(s) \/ \E u \in Users : Subscribe(s, u)
  \/ \E p \in Publishers : Begin(p) \/ Notifier(p) \/ Fail(p)
  \/ Restart

Spec == Init /\ [][Next]_vars

\* The loop runs what is ready; a connection that does not move is closed in the
\* end; nobody has to connect, to disconnect, to publish or to fail.
FairSpec ==
  /\ Spec
  /\ \A s \in Streams : WF_vars(Take(s)) /\ WF_vars(Teardown(s)) /\ WF_vars(Deliver(s) \/ Leave(s))
  /\ \A p \in Publishers : WF_vars(Notifier(p))

-----------------------------------------------------------------------------
\* What has been, is being and will be sent on s.
Packets(s) ==
  sent[s] \o (IF held[s] = None THEN <<>> ELSE <<held[s]>>) \o queue[s]

\* A client sees what happens on one page in the order of the notifications' ids,
\* which it can only because a publisher keeps the page's row while it waits for
\* room in the queues: each event may be stuck behind another stream.
PageEventsInOrder ==
  \A s \in Streams : \A i, j \in DOMAIN Packets(s) :
    LET p == Packets(s)[i]
        q == Packets(s)[j] IN
    i < j /\ page[p] = page[q] /\ page[p] # None =>
      \E k, l \in DOMAIN flushed : k < l /\ flushed[k] = p /\ flushed[l] = q

\* A committed event was put exactly once to every stream of a recipient that was
\* there before the event and still is, whatever queues were full or streams came
\* and went while it was published.
CommittedReachesOpenStreams ==
  \A p \in Publishers, s \in Streams :
    (/\ pc[p] = "committed" /\ sse[s] \in Open /\ reader[s] \in to[p]
     /\ \E k \in DOMAIN flushed : flushed[k] = p /\ k > since[s])
    => Cardinality({i \in DOMAIN Packets(s) : Packets(s)[i] = p}) = 1

\* Somebody waits for room in a queue that nobody will read any more.
Abandoned ==
  \E p \in Publishers, u \in Users :
    /\ left[p][u] \notin {None, <<>>}
    /\ sse[Head(left[p][u])] = "closed"
    /\ Len(queue[Head(left[p][u])]) = Capacity

\* A request that notifies ends, however slowly the streams are read, and those
\* that wait for its page after it, unless a stream was closed while its queue was
\* full and somebody waited for it: then it waits for ever.
PublishEndsUnlessAbandoned ==
  \A p \in Publishers :
    pc[p] \in {"bump", "publish"} ~> (pc[p] \in Ended \/ Abandoned)

\* The events of which a stream that is open since before them is still owed a copy
\* or has one.
Owed(p, s) ==
  /\ sse[s] \in Open /\ reader[s] \in to[p]
  /\ \E k \in DOMAIN flushed : flushed[k] = p /\ k > since[s]

HasId(p) == \E k \in DOMAIN flushed : flushed[k] = p

Stage(label) ==
  CASE label \in {"idle", "bump"} -> "new"
    [] label = "publish"          -> "announced"
    [] label = "committed"        -> "kept"
    [] label = "failed"           -> "dropped"

Log == INSTANCE EventLog WITH
  Readers  <- Users,
  Logs     <- Streams,
  Events   <- Publishers,
  Topics   <- Pages,
  log      <- [s \in Streams |-> IF sse[s] \in Open THEN Packets(s) ELSE <<>>],
  stage    <- [p \in Publishers |-> Stage(pc[p])],
  audience <- [p \in Publishers |-> IF HasId(p) THEN to[p] ELSE {}],
  topic    <- [p \in Publishers |-> IF HasId(p) THEN page[p] ELSE None],
  due      <- [p \in Publishers |-> IF pc[p] = "publish" THEN {s \in Streams : Owed(p, s)} ELSE {}]

\* Queues, lists copied by coroutines and streams that come and go amount to one log for
\* each open stream: an event is in it once or is owed to it until its transaction ends.
LogKept == Log!Spec
=============================================================================
