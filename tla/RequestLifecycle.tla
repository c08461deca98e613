-------------------------- MODULE RequestLifecycle --------------------------
(***************************************************************************)
(* What every authenticated request of the API goes through, whatever it   *)
(* is for: a connection of the pool, the session's row (require_identity), *)
(* the page's row, the events put to the queues of open streams, the       *)
(* response, the background job and the end of the transaction             *)
(* (acquire_database_session).                                             *)
(*                                                                         *)
(* FastAPI ends a dependency that yields before it sends the response up   *)
(* to release 0.117, and after it, background tasks included, since 0.118; *)
(* pyproject.toml accepts both ("fastapi>=0.115,<1").                      *)
(***************************************************************************)
EXTENDS Naturals, FiniteSets

CONSTANTS Requests, Sessions, Kinds, PoolSize, None

ASSUME PoolIsPositive == PoolSize \in Nat \ {0}
ASSUME KindsKnown == Kinds \subseteq {"read", "write", "pin", "resolve", "stream", "logout"}
ASSUME NoneIsNone == None \notin Requests \cup Sessions \cup Kinds \cup (Requests \X {"request", "job"})

VARIABLES
  late,        \* whether transactions end after the response
  live,        \* rows of sessions
  source,      \* whether the page has a committed row
  maker,       \* the request that inserted the row and has not committed
  sessionLock, \* sessionLock[s]: the transaction that wrote the row of s
  sourceLock,  \* the one that wrote the page's row
  pool,        \* transactions that hold a connection
  pc, kind, by \* a request's next step, what it is, the session it presents

rows  == <<live, source, maker>>
locks == <<sessionLock, sourceLock, pool>>
vars  == <<late, rows, locks, pc, kind, by>>

\* A request and the metadata_job it queued have a transaction each.
Request(p) == <<p, "request">>
Job(p) == <<p, "job">>
Transactions == Requests \X {"request", "job"}

\* Steps of a handler that acts for the user of its session, and steps after it.
Working == {"work", "insert", "bump", "publish", "full", "answer"}
Later == {"stream", "job", "job_connect", "job_read", "job_bump", "job_commit", "settle"}
Steps == Working \cup Later \cup {"connect", "lookup", "touch", "delete"}
Outcomes == {"ok", "unauthorized", "not_found", "error"}

-----------------------------------------------------------------------------
TypeOK ==
  /\ late \in BOOLEAN /\ source \in BOOLEAN
  /\ live \subseteq Sessions
  /\ maker \in Requests \cup {None}
  /\ sessionLock \in [Sessions -> Requests \cup {None}]
  /\ sourceLock \in Transactions \cup {None}
  /\ pool \subseteq Transactions /\ Cardinality(pool) <= PoolSize
  /\ pc \in [Requests -> {"idle"} \cup Steps \cup Outcomes]
  /\ kind \in [Requests -> Kinds \cup {None}]
  /\ by \in [Requests -> Sessions \cup {None}]

Init ==
  /\ late \in BOOLEAN /\ source \in BOOLEAN
  /\ live = Sessions
  /\ maker = None
  /\ sessionLock = [s \in Sessions |-> None]
  /\ sourceLock = None
  /\ pool = {}
  /\ pc = [p \in Requests |-> "idle"]
  /\ kind = [p \in Requests |-> None]
  /\ by = [p \in Requests |-> None]

-----------------------------------------------------------------------------
Goto(p, label) == pc' = [pc EXCEPT ![p] = label] /\ UNCHANGED <<late, kind, by>>

\* The request's locks and connection are free again.
Release(p) ==
  /\ sessionLock' = [s \in Sessions |-> IF sessionLock[s] = p THEN None ELSE sessionLock[s]]
  /\ sourceLock' = IF sourceLock = Request(p) THEN None ELSE sourceLock
  /\ pool' = pool \ {Request(p)}

\* session.commit
Commit(p, label) ==
  /\ source' = (source \/ maker = p)
  /\ live' = IF kind[p] = "logout" THEN live \ {by[p]} ELSE live
  /\ maker' = IF maker = p THEN None ELSE maker
  /\ Release(p)
  /\ Goto(p, label)

\* session.rollback
Rollback(p, label) ==
  /\ maker' = IF maker = p THEN None ELSE maker
  /\ Release(p)
  /\ Goto(p, label)
  /\ UNCHANGED <<live, source>>

\* The same from a job that fails after the response: a late exit sees the
\* exception and rolls the request back, an early one is long past.
JobFails(p) ==
  /\ maker' = IF maker = p THEN None ELSE maker
  /\ sessionLock' = [s \in Sessions |-> IF sessionLock[s] = p THEN None ELSE sessionLock[s]]
  /\ sourceLock' = IF sourceLock \in {Request(p), Job(p)} THEN None ELSE sourceLock
  /\ pool' = pool \ {Request(p), Job(p)}
  /\ Goto(p, "error")
  /\ UNCHANGED <<live, source>>

-----------------------------------------------------------------------------
Begin(p, k, s) ==
  /\ pc[p] = "idle"
  /\ pc' = [pc EXCEPT ![p] = "connect"]
  /\ kind' = [kind EXCEPT ![p] = k]
  /\ by' = [by EXCEPT ![p] = s]
  /\ UNCHANGED <<late, rows, locks>>

\* Mutant of Connect: the pool has no limit.
ConnectUnbounded(p) ==
  /\ pc[p] = "connect"
  /\ pool' = pool \cup {Request(p)}
  /\ Goto(p, IF kind[p] = "logout" THEN "delete" ELSE "lookup")
  /\ UNCHANGED <<rows, sessionLock, sourceLock>>

\* The session's first statement takes a connection, or gives up after a while;
\* logout presents its token without being authenticated.
Connect(p) ==
  /\ pc[p] = "connect"
  /\ \/ /\ Cardinality(pool) < PoolSize
        /\ pool' = pool \cup {Request(p)}
        /\ Goto(p, IF kind[p] = "logout" THEN "delete" ELSE "lookup")
        /\ UNCHANGED <<rows, sessionLock, sourceLock>>
     \/ /\ Cardinality(pool) = PoolSize
        /\ Rollback(p, "error")

\* lookup_active_session: the SELECT.
Lookup(p) ==
  /\ pc[p] = "lookup"
  /\ \/ by[p] \notin live /\ Rollback(p, "unauthorized")
     \/ by[p] \in live /\ Goto(p, "touch") /\ UNCHANGED <<rows, locks>>

\* Mutant of Touch: last_seen_at is not flushed before the request works.
TouchUnflushed(p) ==
  /\ pc[p] = "touch"
  /\ Goto(p, "work")
  /\ UNCHANGED <<rows, locks>>

\* lookup_active_session: the UPDATE of last_seen_at waits for the row, finds it
\* gone (StaleDataError) or keeps it until the end of the transaction.
Touch(p) ==
  /\ pc[p] = "touch"
  /\ sessionLock[by[p]] = None
  /\ \/ by[p] \notin live /\ Rollback(p, "error")
     \/ /\ by[p] \in live
        /\ sessionLock' = [sessionLock EXCEPT ![by[p]] = p]
        /\ Goto(p, "work")
        /\ UNCHANGED <<rows, sourceLock, pool>>

\* revoke_opaque_session; a row that is gone is not missed.
Delete(p) ==
  /\ pc[p] = "delete"
  /\ sessionLock[by[p]] = None
  /\ sessionLock' = [sessionLock EXCEPT ![by[p]] = IF by[p] \in live THEN p ELSE None]
  /\ Goto(p, "answer")
  /\ UNCHANGED <<rows, sourceLock, pool>>

\* The handler: it reads; writes to a page it knows by id; or resolves or pins a
\* page by url, which ensure_source finds or inserts.
Work(p) ==
  /\ pc[p] = "work"
  /\ \/ kind[p] \in {"read", "stream"} /\ Goto(p, "answer") /\ UNCHANGED <<rows, locks>>
     \/ kind[p] = "write" /\ ~source /\ Rollback(p, "not_found")
     \/ kind[p] = "write" /\ source /\ Goto(p, "bump") /\ UNCHANGED <<rows, locks>>
     \/ kind[p] \in {"resolve", "pin"} /\ ~source /\ Goto(p, "insert") /\ UNCHANGED <<rows, locks>>
     \/ kind[p] = "resolve" /\ source /\ Goto(p, "answer") /\ UNCHANGED <<rows, locks>>
     \/ kind[p] = "pin" /\ source /\ Goto(p, "bump") /\ UNCHANGED <<rows, locks>>
     \/ \* the pin is there and its note does not change
        kind[p] = "pin" /\ source /\ Goto(p, "answer") /\ UNCHANGED <<rows, locks>>

\* The INSERT waits for another of the same url and fails on a duplicate.
Insert(p) ==
  /\ pc[p] = "insert"
  /\ maker = None
  /\ \/ source /\ Rollback(p, "error")
     \/ /\ ~source
        /\ maker' = p
        /\ Goto(p, IF kind[p] = "pin" THEN "bump" ELSE "answer")
        /\ UNCHANGED <<live, source, locks>>

\* bump_source_revision; nobody else sees a row that p has just inserted.  Who adds
\* something has somebody to tell, maybe.
Bump(p) ==
  /\ pc[p] = "bump"
  /\ \/ maker = p /\ UNCHANGED sourceLock
     \/ maker # p /\ sourceLock = None /\ sourceLock' = Request(p)
  /\ Goto(p, "publish") \/ Goto(p, "answer")
  /\ UNCHANGED <<rows, sessionLock, pool>>

\* notify_users: the rows are flushed and hub.publish puts the events to the queues;
\* one of those may be full.
Publish(p) ==
  /\ pc[p] = "publish"
  /\ Goto(p, "answer") \/ Goto(p, "full")
  /\ UNCHANGED <<rows, locks>>

\* Its stream has read, and there is room for the rest.  Of a stream that was closed
\* nobody reads the queue again (NotifyHub).
Room(p) ==
  /\ pc[p] = "full"
  /\ Goto(p, "answer")
  /\ UNCHANGED <<rows, locks>>

-----------------------------------------------------------------------------
\* What sending the response comes to.
Response(p) ==
  CASE kind[p] = "stream" -> "stream"
    [] kind[p] \in {"resolve", "pin"} -> "job"
    [] OTHER -> IF late THEN "settle" ELSE "ok"

\* Mutant of Answer: the response goes out first in any release.
AnswerFirst(p) ==
  /\ pc[p] = "answer"
  /\ Goto(p, Response(p))
  /\ UNCHANGED <<rows, locks>>

\* The handler has returned.
Answer(p) ==
  /\ pc[p] = "answer"
  /\ \/ ~late /\ Commit(p, Response(p))
     \/ late /\ Goto(p, Response(p)) /\ UNCHANGED <<rows, locks>>

AfterResponse(p) == IF late THEN "settle" ELSE "ok"

\* The client of an event stream goes away.
Disconnect(p) ==
  /\ pc[p] = "stream"
  /\ Goto(p, AfterResponse(p))
  /\ UNCHANGED <<rows, locks>>

\* hydrate_source_payload: the fetch may fail, which ends the job.
Fetch(p) ==
  /\ pc[p] = "job"
  /\ \/ Goto(p, AfterResponse(p))
     \/ Goto(p, "job_connect")
  /\ UNCHANGED <<rows, locks>>

JobConnect(p) ==
  /\ pc[p] = "job_connect"
  /\ \/ /\ Cardinality(pool) < PoolSize
        /\ pool' = pool \cup {Job(p)}
        /\ Goto(p, "job_read")
        /\ UNCHANGED <<rows, sessionLock, sourceLock>>
     \/ /\ Cardinality(pool) = PoolSize
        /\ JobFails(p)

JobRead(p) ==
  /\ pc[p] = "job_read"
  /\ \/ source /\ Goto(p, "job_bump") /\ UNCHANGED pool
     \/ ~source /\ Goto(p, AfterResponse(p)) /\ pool' = pool \ {Job(p)}
  /\ UNCHANGED <<rows, sessionLock, sourceLock>>

JobBump(p) ==
  /\ pc[p] = "job_bump"
  /\ sourceLock = None
  /\ sourceLock' = Job(p)
  /\ Goto(p, "job_commit")
  /\ UNCHANGED <<rows, sessionLock, pool>>

JobCommit(p) ==
  /\ pc[p] = "job_commit"
  /\ sourceLock' = None
  /\ pool' = pool \ {Job(p)}
  /\ Goto(p, AfterResponse(p))
  /\ UNCHANGED <<rows, sessionLock>>

\* The late end of the transaction.
Settle(p) ==
  /\ pc[p] = "settle"
  /\ Commit(p, "ok")

\* A statement or the commit fails, or the connection is lost; nothing ends a put that
\* waits for room.
Crash(p) ==
  \/ pc[p] \in {"lookup", "touch", "delete", "work", "insert", "bump", "publish", "answer", "settle"}
     /\ Rollback(p, "error")
  \/ pc[p] \in {"job_read", "job_bump", "job_commit"} /\ JobFails(p)

-----------------------------------------------------------------------------
Handle(p) ==
  \/ Connect(p) \/ Lookup(p) \/ Touch(p) \/ Delete(p) \/ Work(p) \/ Insert(p)
  \/ Bump(p) \/ Publish(p) \/ Answer(p) \/ Settle(p)
  \/ Fetch(p) \/ JobConnect(p) \/ JobRead(p) \/ JobBump(p) \/ JobCommit(p)

Next ==
  \E p \in Requests :
    \/ \E k \in Kinds, s \in Sessions : Begin(p, k, s)
    \/ Handle(p) \/ Room(p) \/ Disconnect(p) \/ Crash(p)

Spec == Init /\ [][Next]_vars

\* The loop runs what is ready, a lock goes to one of those who wait for it;
\* nobody has to call, to read or close a stream or to crash.
FairSpec == Spec /\ \A p \in Requests : WF_vars(Handle(p))

-----------------------------------------------------------------------------
\* Who was authenticated and has not ended the transaction it was authenticated in.
\* With an early exit that ends before the response: a stream is served after it.
Authenticated(p) == kind[p] # "logout" /\ pc[p] \in Working \cup (IF late THEN Later ELSE {})

\* A logout that is committed leaves no handler of its session at work and, with a late
\* exit, no open stream either, though they were authenticated before it: the UPDATE of
\* last_seen_at makes the logout wait for them.  With an early exit a stream that was
\* opened before goes on, it never looks at its session again.
NoWorkAfterLogout == \A p \in Requests : Authenticated(p) => by[p] \in live

\* A metadata job finds the page's row, even one inserted by a request that ran
\* into others of the same url, unless a late exit still hides its own row.
JobFindsItsPage ==
  \A p \in Requests : pc[p] = "job_read" => source \/ (late /\ maker = p)

\* What PostgreSQL cannot see: with a late exit an open stream keeps its session's row,
\* and a job waits for the page's row that its own request keeps; with either, who waits
\* for room in a queue keeps its connection, its session's row and the page's.
OpenStream(p) == late /\ pc[p] = "stream"
WaitsForItself(p) == late /\ pc[p] = "job_bump" /\ sourceLock = Request(p)
WaitsForRoom(p) == pc[p] = "full"

\* Every request ends, the logouts that wait for their session's requests too and
\* however short the pool is, unless one of these three holds it up.
RequestsEndUnlessHeld ==
  \A p \in Requests :
    pc[p] \in Steps \ {"stream"} ~>
      \/ pc[p] \in Outcomes \cup {"stream"}
      \/ \E q \in Requests : OpenStream(q) \/ WaitsForItself(q) \/ WaitsForRoom(q)
=============================================================================
