----------------------- MODULE RequestLifecycleProofs -----------------------
(***************************************************************************)
(* Proofs about RequestLifecycle for any requests, sessions and size of    *)
(* the pool, and for both exit orders of FastAPI.                          *)
(*                                                                         *)
(* A request at work holds its session's row and a logout that is about to *)
(* commit holds it too, so they exclude each other; a job comes from a     *)
(* request that read or inserted the page's row.                           *)
(***************************************************************************)
EXTENDS RequestLifecycle, FiniteSetTheorems, TLAPS

JobSteps == {"job", "job_connect", "job_read", "job_bump", "job_commit"}

\* Steps of a handler after its first look at the page; telling comes after the increment.
Telling == {"publish", "full", "answer"}
Writing == Telling \cup {"bump"}

\* Connections can be counted.
PoolIsFinite == IsFiniteSet(pool)

\* A request that has begun has a kind and a session, and takes the steps of
\* its kind.
OwnSteps ==
  \A p \in Requests :
    /\ pc[p] # "idle" => kind[p] \in Kinds /\ by[p] \in Sessions
    /\ pc[p] \in {"lookup", "touch"} \cup (Working \ {"answer"}) => kind[p] # "logout"
    /\ pc[p] = "delete" => kind[p] = "logout"
    /\ pc[p] = "stream" => kind[p] = "stream"
    /\ pc[p] \in JobSteps \cup {"insert"} => kind[p] \in {"pin", "resolve"}

\* A request that was authenticated holds its session's row, which is there.
SessionHeld ==
  \A p \in Requests : Authenticated(p) => by[p] \in live /\ sessionLock[by[p]] = p

\* A logout about to commit holds the row it deletes, if there is one.
LogoutHolds ==
  \A p \in Requests :
    pc[p] \in {"answer", "settle"} /\ kind[p] = "logout" =>
      by[p] \notin live \/ sessionLock[by[p]] = p

\* A request that resolves or pins has found the page's row, or has inserted it
\* and not committed; once its job is queued the latter means a late exit.
PageFound ==
  \A p \in Requests :
    /\ pc[p] \in Writing /\ kind[p] \in {"pin", "resolve"} => source \/ maker = p
    /\ pc[p] \in JobSteps => source \/ (late /\ maker = p)

IInv == TypeOK /\ PoolIsFinite /\ OwnSteps /\ SessionHeld /\ LogoutHolds /\ PageFound

\* The sets of steps are expanded everywhere.
USE DEF Working, Later, Telling, Writing, JobSteps, Authenticated

-----------------------------------------------------------------------------
LEMMA Initially == Init => IInv
<1>1. Init => TypeOK /\ PoolIsFinite
  BY FS_EmptySet, PoolIsPositive DEF Init, TypeOK, PoolIsFinite
<1>2. Init => OwnSteps /\ SessionHeld /\ LogoutHolds /\ PageFound
  BY DEF Init, OwnSteps, SessionHeld, LogoutHolds, PageFound, Working, JobSteps
<1> QED BY <1>1, <1>2 DEF IInv

\* The pool keeps its size when a request or a job that found room takes a
\* connection, and when connections are given back.
LEMMA PoolTaken ==
  ASSUME TypeOK, PoolIsFinite, NEW t \in Transactions, Cardinality(pool) < PoolSize
  PROVE  /\ IsFiniteSet(pool \cup {t})
         /\ pool \cup {t} \subseteq Transactions
         /\ Cardinality(pool \cup {t}) <= PoolSize
<1>1. Cardinality(pool) \in Nat
  BY FS_CardinalityType DEF PoolIsFinite
<1>2. /\ IsFiniteSet(pool \cup {t})
      /\ Cardinality(pool \cup {t}) \in {Cardinality(pool), Cardinality(pool) + 1}
  BY FS_AddElement DEF PoolIsFinite
<1> QED BY <1>1, <1>2, PoolIsPositive DEF TypeOK

LEMMA PoolGiven ==
  ASSUME TypeOK, PoolIsFinite, NEW T
  PROVE  /\ IsFiniteSet(pool \ T)
         /\ pool \ T \subseteq Transactions
         /\ Cardinality(pool \ T) <= PoolSize
<1>1. IsFiniteSet(pool \ T) /\ Cardinality(pool \ T) <= Cardinality(pool)
  BY FS_Subset DEF PoolIsFinite
<1>2. Cardinality(pool) \in Nat /\ Cardinality(pool \ T) \in Nat
  BY <1>1, FS_CardinalityType DEF PoolIsFinite
<1> QED BY <1>1, <1>2, PoolIsPositive DEF TypeOK

\* The end of a request's transaction keeps the types of locks and pool.
LEMMA ReleaseType ==
  ASSUME TypeOK, PoolIsFinite, NEW p \in Requests, Release(p)
  PROVE  /\ sessionLock' \in [Sessions -> Requests \cup {None}]
         /\ sourceLock' \in Transactions \cup {None}
         /\ pool' \subseteq Transactions /\ Cardinality(pool') <= PoolSize
         /\ PoolIsFinite'
BY PoolGiven DEF TypeOK, Release, PoolIsFinite

LEMMA RollbackType ==
  ASSUME TypeOK, PoolIsFinite, NEW p \in Requests, NEW label \in Outcomes, Rollback(p, label)
  PROVE  TypeOK' /\ PoolIsFinite'
BY ReleaseType DEF TypeOK, Rollback, Goto

LEMMA CommitType ==
  ASSUME TypeOK, PoolIsFinite, NEW p \in Requests, NEW label \in Steps \cup Outcomes,
         Commit(p, label)
  PROVE  TypeOK' /\ PoolIsFinite'
BY ReleaseType DEF TypeOK, Commit, Goto

LEMMA JobFailsType ==
  ASSUME TypeOK, PoolIsFinite, NEW p \in Requests, JobFails(p)
  PROVE  TypeOK' /\ PoolIsFinite'
BY PoolGiven DEF TypeOK, JobFails, Goto, PoolIsFinite, Outcomes

LEMMA TypeStep ==
  ASSUME TypeOK, PoolIsFinite, OwnSteps, [Next]_vars
  PROVE  TypeOK' /\ PoolIsFinite'
<1> DEFINE Typed == TypeOK' /\ PoolIsFinite'
<1>1. CASE UNCHANGED vars
  BY <1>1 DEF vars, rows, locks, TypeOK, PoolIsFinite
<1>2. ASSUME NEW p \in Requests, NEW k \in Kinds, NEW s \in Sessions, Begin(p, k, s) PROVE Typed
  BY <1>2 DEF Begin, rows, locks, TypeOK, PoolIsFinite, Steps, Later
<1>3. ASSUME NEW p \in Requests, Connect(p) PROVE Typed
  <2>1. CASE Cardinality(pool) = PoolSize /\ Rollback(p, "error")
    BY <2>1, RollbackType DEF Outcomes
  <2>2. CASE Cardinality(pool) < PoolSize /\ pool' = pool \cup {Request(p)}
             /\ Goto(p, IF kind[p] = "logout" THEN "delete" ELSE "lookup")
             /\ UNCHANGED <<rows, sessionLock, sourceLock>>
    <3>1. Request(p) \in Transactions
      BY DEF Request, Transactions
    <3>2. IsFiniteSet(pool') /\ pool' \subseteq Transactions /\ Cardinality(pool') <= PoolSize
      BY <2>2, <3>1, PoolTaken
    <3> QED BY <2>2, <3>2 DEF TypeOK, PoolIsFinite, Goto, rows, Steps, Later
  <2> QED BY <1>3, <2>1, <2>2 DEF Connect
<1>4. ASSUME NEW p \in Requests, Lookup(p) PROVE Typed
  BY <1>4, RollbackType DEF Lookup, Goto, TypeOK, PoolIsFinite, rows, locks, Steps, Later, Outcomes
<1>5. ASSUME NEW p \in Requests, Touch(p) PROVE Typed
  BY <1>5, RollbackType DEF Touch, Goto, TypeOK, PoolIsFinite, rows, Steps, Later, Working, Outcomes
<1>6. ASSUME NEW p \in Requests, Delete(p) PROVE Typed
  BY <1>6 DEF Delete, Goto, TypeOK, PoolIsFinite, rows, Steps, Later, Working
<1>7. ASSUME NEW p \in Requests, Work(p) PROVE Typed
  BY <1>7, RollbackType DEF Work, Goto, TypeOK, PoolIsFinite, rows, locks, Steps, Later, Working, Outcomes
<1>8. ASSUME NEW p \in Requests, Insert(p) PROVE Typed
  BY <1>8, RollbackType DEF Insert, Goto, TypeOK, PoolIsFinite, locks, Steps, Later, Working, Outcomes
<1>9. ASSUME NEW p \in Requests, Bump(p) \/ Publish(p) \/ Room(p) PROVE Typed
  BY <1>9 DEF Bump, Publish, Room, locks, Goto, TypeOK, PoolIsFinite, rows, Steps, Later, Working, Request, Transactions
<1>10. ASSUME NEW p \in Requests, Answer(p) PROVE Typed
  <2>1. Response(p) \in Steps \cup Outcomes
    BY DEF Response, Steps, Later, Outcomes
  <2> QED BY <1>10, <2>1, CommitType DEF Answer, Goto, TypeOK, PoolIsFinite, rows, locks
<1>11. ASSUME NEW p \in Requests, Settle(p) PROVE Typed
  BY <1>11, CommitType DEF Settle, Outcomes
<1>12. ASSUME NEW p \in Requests, Disconnect(p) \/ Fetch(p) PROVE Typed
  BY <1>12 DEF Disconnect, Fetch, Goto, AfterResponse, TypeOK, PoolIsFinite, rows, locks, Steps, Later, Outcomes
<1>13. ASSUME NEW p \in Requests, JobConnect(p) PROVE Typed
  <2>1. CASE JobFails(p)
    BY <2>1, JobFailsType
  <2>2. CASE Cardinality(pool) < PoolSize /\ pool' = pool \cup {Job(p)} /\ Goto(p, "job_read")
             /\ UNCHANGED <<rows, sessionLock, sourceLock>>
    <3>1. Job(p) \in Transactions
      BY DEF Job, Transactions
    <3>2. IsFiniteSet(pool') /\ pool' \subseteq Transactions /\ Cardinality(pool') <= PoolSize
      BY <2>2, <3>1, PoolTaken
    <3> QED BY <2>2, <3>2 DEF TypeOK, PoolIsFinite, Goto, rows, Steps, Later
  <2> QED BY <1>13, <2>1, <2>2 DEF JobConnect
<1>14. ASSUME NEW p \in Requests, JobRead(p) PROVE Typed
  BY <1>14, PoolGiven DEF JobRead, Goto, AfterResponse, TypeOK, PoolIsFinite, rows, Steps, Later, Outcomes
<1>15. ASSUME NEW p \in Requests, JobBump(p) PROVE Typed
  BY <1>15 DEF JobBump, Goto, TypeOK, PoolIsFinite, rows, Steps, Later, Job, Transactions
<1>16. ASSUME NEW p \in Requests, JobCommit(p) PROVE Typed
  BY <1>16, PoolGiven DEF JobCommit, Goto, AfterResponse, TypeOK, PoolIsFinite, rows, Steps, Later, Outcomes
<1>17. ASSUME NEW p \in Requests, Crash(p) PROVE Typed
  BY <1>17, RollbackType, JobFailsType DEF Crash, Outcomes
<1> QED
  BY <1>1, <1>2, <1>3, <1>4, <1>5, <1>6, <1>7, <1>8, <1>9, <1>10, <1>11, <1>12, <1>13, <1>14,
     <1>15, <1>16, <1>17 DEF Next, Handle

-----------------------------------------------------------------------------
\* What is left of IInv.
Held == OwnSteps /\ SessionHeld /\ LogoutHolds /\ PageFound

\* A step that ends p without a commit, whatever locks of p it frees, disturbs
\* nobody who holds a row.
LEMMA StoppedHeld ==
  ASSUME IInv, NEW p \in Requests, NEW label \in Outcomes, pc[p] # "idle",
         UNCHANGED <<late, live, source, kind, by>>,
         pc' = [pc EXCEPT ![p] = label],
         \A q \in Requests \ {p} : maker = q => maker' = q,
         \A q \in Requests \ {p}, s \in Sessions : sessionLock[s] = q => sessionLock'[s] = q
  PROVE  Held'
<1>1. TypeOK /\ OwnSteps /\ SessionHeld /\ LogoutHolds /\ PageFound
  BY DEF IInv
<1>2. pc'[p] \in Outcomes /\ \A q \in Requests \ {p} : pc'[q] = pc[q]
  BY <1>1 DEF TypeOK
<1>3. OwnSteps'
  BY <1>1, <1>2 DEF TypeOK, OwnSteps, JobSteps, Outcomes
<1>4. SessionHeld'
  <2> SUFFICES ASSUME NEW q \in Requests, Authenticated(q)'
               PROVE  by'[q] \in live' /\ sessionLock'[by'[q]] = q
    BY DEF SessionHeld
  <2>1. q # p /\ pc[q] = pc'[q]
    BY <1>2 DEF Outcomes, Working
  <2>2. by[q] \in live /\ sessionLock[by[q]] = q
    BY <1>1, <2>1 DEF SessionHeld
  <2>3. live \subseteq Sessions
    BY <1>1 DEF TypeOK
  <2> QED BY <2>1, <2>2, <2>3
<1>5. LogoutHolds'
  <2> SUFFICES ASSUME NEW q \in Requests, pc'[q] \in {"answer", "settle"}, kind'[q] = "logout"
               PROVE  by'[q] \notin live' \/ sessionLock'[by'[q]] = q
    BY DEF LogoutHolds
  <2>1. q # p /\ pc[q] = pc'[q]
    BY <1>2 DEF Outcomes
  <2>2. by[q] \notin live \/ sessionLock[by[q]] = q
    BY <1>1, <2>1 DEF LogoutHolds
  <2>3. live \subseteq Sessions
    BY <1>1 DEF TypeOK
  <2> QED BY <2>1, <2>2, <2>3
<1>6. PageFound'
  BY <1>1, <1>2 DEF PageFound, JobSteps, Outcomes
<1> QED BY <1>3, <1>4, <1>5, <1>6 DEF Held

LEMMA RollbackHeld ==
  ASSUME IInv, NEW p \in Requests, NEW label \in Outcomes, pc[p] # "idle", Rollback(p, label)
  PROVE  Held'
BY StoppedHeld DEF Rollback, Release, Goto

LEMMA JobFailsHeld ==
  ASSUME IInv, NEW p \in Requests, pc[p] # "idle", JobFails(p)
  PROVE  Held'
BY StoppedHeld DEF JobFails, Goto, Outcomes

\* A commit: a logout takes its session away, which nobody works for, because
\* whoever works holds the session's row and so does the logout.
LEMMA CommitHeld ==
  ASSUME IInv, NEW p \in Requests, NEW label \in {"ok", "stream", "job"},
         pc[p] \in {"answer", "settle"}, Commit(p, label),
         label = "stream" => kind[p] = "stream",
         label = "job" => pc[p] = "answer" /\ kind[p] \in {"pin", "resolve"},
         label # "ok" => ~late
  PROVE  Held'
<1>1. TypeOK /\ OwnSteps /\ SessionHeld /\ LogoutHolds /\ PageFound
  BY DEF IInv
<1>2. pc' = [pc EXCEPT ![p] = label] /\ UNCHANGED <<late, kind, by>>
  BY DEF Commit, Goto
<1>3. pc'[p] = label /\ \A q \in Requests \ {p} : pc'[q] = pc[q]
  BY <1>1, <1>2 DEF TypeOK
<1>4. \A q \in Requests \ {p}, s \in Sessions : sessionLock[s] = q => sessionLock'[s] = q
  BY DEF Commit, Release
<1>5. live \subseteq Sessions /\ live' \subseteq live
  BY <1>1 DEF TypeOK, Commit
<1>6. OwnSteps'
  BY <1>1, <1>2, <1>3 DEF OwnSteps, JobSteps
<1>7. SessionHeld'
  <2> SUFFICES ASSUME NEW q \in Requests, Authenticated(q)'
               PROVE  by'[q] \in live' /\ sessionLock'[by'[q]] = q
    BY DEF SessionHeld
  <2>1. q # p /\ pc[q] = pc'[q] /\ kind[q] = kind'[q] /\ by[q] = by'[q]
    BY <1>2, <1>3 DEF Working
  <2>2. by[q] \in live /\ sessionLock[by[q]] = q
    BY <1>1, <1>2, <2>1 DEF SessionHeld
  <2>3. kind[p] = "logout" => by[p] # by[q]
    BY <1>1, <2>1, <2>2 DEF LogoutHolds
  <2>4. by[q] \in live'
    BY <2>2, <2>3 DEF Commit
  <2> QED BY <1>4, <1>5, <2>1, <2>2, <2>4
<1>8. LogoutHolds'
  <2> SUFFICES ASSUME NEW q \in Requests, pc'[q] \in {"answer", "settle"}, kind'[q] = "logout"
               PROVE  by'[q] \notin live' \/ sessionLock'[by'[q]] = q
    BY DEF LogoutHolds
  <2>1. q # p /\ pc[q] = pc'[q] /\ kind[q] = kind'[q] /\ by[q] = by'[q]
    BY <1>2, <1>3
  <2>2. by[q] \notin live \/ sessionLock[by[q]] = q
    BY <1>1, <2>1 DEF LogoutHolds
  <2> QED BY <1>4, <1>5, <2>1, <2>2
<1>9. PageFound'
  <2>1. source' = (source \/ maker = p) /\ \A q \in Requests \ {p} : maker = q => maker' = q
    BY DEF Commit
  <2>2. label = "job" => source'
    BY <1>1, <2>1 DEF PageFound
  <2>3. ASSUME NEW q \in Requests \ {p} PROVE PageFound!(q)'
    BY <1>1, <1>2, <1>3, <2>1 DEF PageFound
  <2>4. PageFound!(p)'
    BY <1>3, <2>2
  <2> QED BY <2>3, <2>4 DEF PageFound
<1> QED BY <1>6, <1>7, <1>8, <1>9 DEF Held

\* A step that only moves p on, from a step of work to another or past it.
LEMMA MovedHeld ==
  ASSUME IInv, NEW p \in Requests, NEW label \in Steps \cup Outcomes, pc[p] # "idle",
         UNCHANGED <<rows, sessionLock>>, Goto(p, label),
         label \in {"lookup", "touch"} \cup (Working \ {"answer"}) => kind[p] # "logout",
         label = "delete" => kind[p] = "logout",
         label = "stream" => kind[p] = "stream",
         label \in JobSteps \cup {"insert"} => kind[p] \in {"pin", "resolve"},
         label \in Working => pc[p] \in Working,
         label \in Later /\ late => Authenticated(p) \/ kind[p] = "logout",
         label = "settle" /\ kind[p] = "logout" => pc[p] = "answer",
         label \in Writing /\ kind[p] \in {"pin", "resolve"} => source \/ maker = p,
         label \in JobSteps => source \/ (late /\ maker = p)
  PROVE  Held'
<1>1. TypeOK /\ OwnSteps /\ SessionHeld /\ LogoutHolds /\ PageFound
  BY DEF IInv
<1>2. pc' = [pc EXCEPT ![p] = label] /\ UNCHANGED <<late, kind, by, live, source, maker, sessionLock>>
  BY DEF Goto, rows
<1>3. pc'[p] = label /\ \A q \in Requests \ {p} : pc'[q] = pc[q]
  BY <1>1, <1>2 DEF TypeOK
<1>4. OwnSteps'
  BY <1>1, <1>2, <1>3 DEF OwnSteps
<1>5. SessionHeld'
  BY <1>1, <1>2, <1>3 DEF SessionHeld
<1>6. LogoutHolds'
  BY <1>1, <1>2, <1>3 DEF LogoutHolds, OwnSteps, Working
<1>7. PageFound'
  BY <1>1, <1>2, <1>3 DEF PageFound
<1> QED BY <1>4, <1>5, <1>6, <1>7 DEF Held

-----------------------------------------------------------------------------
LEMMA HeldStep ==
  ASSUME IInv, [Next]_vars
  PROVE  Held'
<1>0. TypeOK /\ OwnSteps /\ SessionHeld /\ LogoutHolds /\ PageFound
  BY DEF IInv
<1>1. CASE UNCHANGED vars
  BY <1>0, <1>1 DEF vars, rows, locks, Held, OwnSteps, SessionHeld, LogoutHolds, PageFound
<1>2. ASSUME NEW p \in Requests, NEW k \in Kinds, NEW s \in Sessions, Begin(p, k, s) PROVE Held'
  <2>1. \A q \in Requests \ {p} : pc'[q] = pc[q] /\ kind'[q] = kind[q] /\ by'[q] = by[q]
    BY <1>0, <1>2 DEF Begin, TypeOK
  <2>2. pc'[p] = "connect" /\ kind'[p] = k /\ by'[p] = s /\ UNCHANGED <<late, rows, locks>>
    BY <1>0, <1>2 DEF Begin, TypeOK
  <2> QED BY <1>0, <2>1, <2>2
        DEF Held, OwnSteps, SessionHeld, LogoutHolds, PageFound, Working, JobSteps, rows, locks
<1>3. ASSUME NEW p \in Requests, Connect(p) PROVE Held'
  <2>1. CASE Rollback(p, "error")
    BY <1>3, <2>1, RollbackHeld DEF Connect, Outcomes
  <2>2. CASE /\ Goto(p, IF kind[p] = "logout" THEN "delete" ELSE "lookup")
             /\ UNCHANGED <<rows, sessionLock, sourceLock>>
    BY <1>3, <2>2, MovedHeld DEF Connect, Steps, Later, Working, JobSteps
  <2> QED BY <1>3, <2>1, <2>2 DEF Connect
<1>4. ASSUME NEW p \in Requests, Lookup(p) PROVE Held'
  <2>1. CASE Rollback(p, "unauthorized")
    BY <1>4, <2>1, RollbackHeld DEF Lookup, Outcomes
  <2>2. CASE Goto(p, "touch") /\ UNCHANGED <<rows, locks>>
    BY <1>0, <1>4, <2>2, MovedHeld DEF Lookup, OwnSteps, Steps, Later, Working, JobSteps, locks
  <2> QED BY <1>4, <2>1, <2>2 DEF Lookup
<1>5. ASSUME NEW p \in Requests, Touch(p) PROVE Held'
  <2>1. CASE Rollback(p, "error")
    BY <1>5, <2>1, RollbackHeld DEF Touch, Outcomes
  <2>2. CASE /\ by[p] \in live
             /\ sessionLock' = [sessionLock EXCEPT ![by[p]] = p]
             /\ Goto(p, "work")
             /\ UNCHANGED <<rows, sourceLock, pool>>
    <3>1. /\ UNCHANGED <<late, live, source, maker, kind, by>>
          /\ pc'[p] = "work" /\ \A q \in Requests \ {p} : pc'[q] = pc[q]
      BY <1>0, <2>2 DEF Goto, TypeOK, rows
    <3>2. by[p] \in Sessions /\ sessionLock'[by[p]] = p
      BY <1>0, <2>2 DEF TypeOK
    <3>3. \A q \in Requests, s \in Sessions : sessionLock[s] = q => sessionLock'[s] = q
      BY <1>0, <1>5, <2>2, NoneIsNone DEF Touch, TypeOK
    <3>4. OwnSteps' /\ PageFound'
      BY <1>0, <1>5, <3>1 DEF Touch, OwnSteps, PageFound, JobSteps
    <3>5. SessionHeld'
      BY <1>0, <2>2, <3>1, <3>2, <3>3 DEF SessionHeld, TypeOK
    <3>6. LogoutHolds'
      BY <1>0, <3>1, <3>3 DEF LogoutHolds, TypeOK
    <3> QED BY <3>4, <3>5, <3>6 DEF Held
  <2> QED BY <1>5, <2>1, <2>2 DEF Touch
<1>6. ASSUME NEW p \in Requests, Delete(p) PROVE Held'
  <2>1. /\ UNCHANGED <<late, live, source, maker, kind, by>>
        /\ pc'[p] = "answer" /\ \A q \in Requests \ {p} : pc'[q] = pc[q]
    BY <1>0, <1>6 DEF Delete, Goto, TypeOK, rows
  <2>2. pc[p] = "delete" /\ kind[p] = "logout" /\ by[p] \in Sessions
    BY <1>0, <1>6 DEF Delete, OwnSteps
  <2>3. by[p] \in live => sessionLock'[by[p]] = p
    BY <1>0, <1>6, <2>2 DEF Delete, TypeOK
  <2>4. \A q \in Requests, s \in Sessions : sessionLock[s] = q => sessionLock'[s] = q
    <3>1. sessionLock[by[p]] = None /\ \A s \in Sessions \ {by[p]} : sessionLock'[s] = sessionLock[s]
      BY <1>0, <1>6, <2>2 DEF Delete, TypeOK
    <3> QED BY <3>1, NoneIsNone
  <2>5. OwnSteps' /\ PageFound'
    BY <1>0, <2>1, <2>2 DEF OwnSteps, PageFound, JobSteps
  <2>6. SessionHeld'
    <3> SUFFICES ASSUME NEW q \in Requests, Authenticated(q)'
                 PROVE  by[q] \in live /\ sessionLock'[by[q]] = q
      BY <2>1 DEF SessionHeld
    <3>1. q # p /\ by[q] \in live /\ sessionLock[by[q]] = q
      BY <1>0, <2>1, <2>2 DEF SessionHeld
    <3> QED BY <1>0, <2>4, <3>1 DEF TypeOK
  <2>7. LogoutHolds'
    <3> SUFFICES ASSUME NEW q \in Requests, pc'[q] \in {"answer", "settle"}, kind[q] = "logout",
                        by[q] \in live
                 PROVE  sessionLock'[by[q]] = q
      BY <2>1 DEF LogoutHolds
    <3>1. CASE q = p
      BY <2>3, <3>1
    <3>2. CASE q # p
      BY <1>0, <2>1, <2>4, <3>2 DEF LogoutHolds, TypeOK
    <3> QED BY <3>1, <3>2
  <2> QED BY <2>5, <2>6, <2>7 DEF Held
<1>7. ASSUME NEW p \in Requests, Work(p) PROVE Held'
  <2>1. CASE Rollback(p, "not_found")
    BY <1>7, <2>1, RollbackHeld DEF Work, Outcomes
  <2>2. ASSUME NEW label \in {"answer", "bump", "insert"}, Goto(p, label), UNCHANGED <<rows, locks>>,
               label = "insert" => kind[p] \in {"pin", "resolve"},
               label \in {"answer", "bump"} /\ kind[p] \in {"pin", "resolve"} => source
        PROVE  Held'
    BY <1>0, <1>7, <2>2, MovedHeld DEF Work, OwnSteps, Steps, Later, Working, JobSteps, locks
  <2> QED BY <1>7, <2>1, <2>2 DEF Work
<1>8. ASSUME NEW p \in Requests, Insert(p) PROVE Held'
  <2>1. CASE Rollback(p, "error")
    BY <1>8, <2>1, RollbackHeld DEF Insert, Outcomes
  <2>2. CASE /\ maker' = p
             /\ Goto(p, IF kind[p] = "pin" THEN "bump" ELSE "answer")
             /\ UNCHANGED <<live, source, locks>>
    <3>1. /\ UNCHANGED <<late, live, source, sessionLock, kind, by>> /\ maker' = p
          /\ pc'[p] \in {"bump", "answer"} /\ \A q \in Requests \ {p} : pc'[q] = pc[q]
      BY <1>0, <2>2 DEF Goto, TypeOK, locks
    <3>2. pc[p] = "insert" /\ kind[p] \in {"pin", "resolve"}
      BY <1>0, <1>8 DEF Insert, OwnSteps
    <3>3. \A q \in Requests : maker # q
      BY <1>8, NoneIsNone DEF Insert
    <3>4. OwnSteps' /\ SessionHeld' /\ LogoutHolds'
      BY <1>0, <3>1, <3>2 DEF OwnSteps, SessionHeld, LogoutHolds, Working, JobSteps
    <3>5. PageFound'
      BY <1>0, <3>1, <3>2, <3>3 DEF PageFound, JobSteps
    <3> QED BY <3>4, <3>5 DEF Held
  <2> QED BY <1>8, <2>1, <2>2 DEF Insert
<1>9. ASSUME NEW p \in Requests, Bump(p) \/ Publish(p) \/ Room(p) PROVE Held'
  BY <1>0, <1>9, MovedHeld DEF Bump, Publish, Room, Writing, Telling, Authenticated, rows, locks, OwnSteps, PageFound, Steps, Later, Working, JobSteps
<1>10. ASSUME NEW p \in Requests, Answer(p) PROVE Held'
  <2>1. /\ Response(p) = "stream" => kind[p] = "stream"
        /\ kind[p] \in {"pin", "resolve"} => Response(p) = "job"
        /\ kind[p] \notin {"pin", "resolve"} => Response(p) \in {"stream", "ok", "settle"}
        /\ kind[p] = "logout" => Response(p) \in {"ok", "settle"}
        /\ ~late => Response(p) \in {"stream", "job", "ok"}
    BY <1>0 DEF Response, TypeOK
  <2>2. CASE ~late /\ Commit(p, Response(p))
    BY <1>10, <2>1, <2>2, CommitHeld DEF Answer
  <2>3. CASE late /\ Goto(p, Response(p)) /\ UNCHANGED <<rows, locks>>
    BY <1>0, <1>10, <2>1, <2>3, MovedHeld
    DEF Answer, PageFound, Steps, Later, Outcomes, Working, JobSteps, locks
  <2> QED BY <1>10, <2>2, <2>3 DEF Answer
<1>11. ASSUME NEW p \in Requests, Settle(p) PROVE Held'
  BY <1>11, CommitHeld DEF Settle
<1>12. ASSUME NEW p \in Requests, Disconnect(p) PROVE Held'
  <2>1. kind[p] = "stream"
    BY <1>0, <1>12 DEF Disconnect, OwnSteps
  <2> QED BY <1>0, <1>12, <2>1, MovedHeld DEF Disconnect, AfterResponse, Steps, Later, Outcomes, Working, JobSteps, locks
<1>13. ASSUME NEW p \in Requests, Fetch(p) PROVE Held'
  BY <1>0, <1>13, MovedHeld
  DEF Fetch, AfterResponse, OwnSteps, PageFound, Steps, Later, Outcomes, Working, JobSteps, locks
<1>14. ASSUME NEW p \in Requests, JobConnect(p) PROVE Held'
  BY <1>0, <1>14, MovedHeld, JobFailsHeld
  DEF JobConnect, OwnSteps, PageFound, Steps, Later, Working, JobSteps
<1>15. ASSUME NEW p \in Requests, JobRead(p) PROVE Held'
  BY <1>0, <1>15, MovedHeld
  DEF JobRead, AfterResponse, OwnSteps, PageFound, Steps, Later, Outcomes, Working, JobSteps
<1>16. ASSUME NEW p \in Requests, JobBump(p) PROVE Held'
  BY <1>0, <1>16, MovedHeld DEF JobBump, OwnSteps, PageFound, Steps, Later, Working, JobSteps
<1>17. ASSUME NEW p \in Requests, JobCommit(p) PROVE Held'
  BY <1>0, <1>17, MovedHeld
  DEF JobCommit, AfterResponse, OwnSteps, PageFound, Steps, Later, Outcomes, Working, JobSteps
<1>18. ASSUME NEW p \in Requests, Crash(p) PROVE Held'
  BY <1>18, RollbackHeld, JobFailsHeld DEF Crash, Outcomes
<1> QED
  BY <1>1, <1>2, <1>3, <1>4, <1>5, <1>6, <1>7, <1>8, <1>9, <1>10, <1>11, <1>12, <1>13, <1>14,
     <1>15, <1>16, <1>17, <1>18 DEF Next, Handle

-----------------------------------------------------------------------------
\* The inductive invariant: connections are counted, requests take the steps of
\* their kind, whoever works or logs out holds the session's row, and whoever
\* queues a job has the page's row.
THEOREM Invariant == Spec => []IInv
<1>1. IInv /\ [Next]_vars => IInv'
  <2> SUFFICES ASSUME IInv, [Next]_vars PROVE IInv'
    OBVIOUS
  <2>1. TypeOK' /\ PoolIsFinite'
    BY TypeStep DEF IInv
  <2> QED BY <2>1, HeldStep DEF IInv, Held
<1> QED BY <1>1, Initially, PTL DEF Spec

\* Every variable keeps its type, and no more connections are taken than the
\* pool has.
THEOREM TypeCorrect == Spec => []TypeOK
BY Invariant, PTL DEF IInv

\* After a logout has committed, no handler is at work for its session, nor is a stream
\* open for it if transactions end late (lookup_active_session flushes last_seen_at,
\* which locks the row until then).
THEOREM LogoutsEndWork == Spec => []NoWorkAfterLogout
<1>1. IInv => NoWorkAfterLogout
  BY DEF IInv, SessionHeld, NoWorkAfterLogout, Authenticated
<1> QED BY <1>1, Invariant, PTL

\* A metadata job looks for a row that is committed, unless a late exit still
\* hides the one its own request inserted (ensure_source).
THEOREM JobsFindTheirPage == Spec => []JobFindsItsPage
<1>1. IInv => JobFindsItsPage
  BY DEF IInv, PageFound, JobFindsItsPage, JobSteps
<1> QED BY <1>1, Invariant, PTL

-----------------------------------------------------------------------------
\* Circles of waits.

\* p, or its job, cannot run its next statement before a transaction of q ends.
WaitsFor(p, q) ==
  \/ pc[p] \in {"touch", "delete"} /\ sessionLock[by[p]] = q
  \/ pc[p] = "insert" /\ maker = q
  \/ /\ pc[p] = "job_bump" \/ (pc[p] = "bump" /\ maker # p)
     /\ sourceLock \in {Request(q), Job(q)}

\* Whenever requests wait for each other in a circle, however large, one of them is
\* in it alone: its job waits for the page's row that the request itself keeps.
EveryCircleIsOwn ==
  \A C \in (SUBSET Requests) \ {{}} :
    (\A p \in C : (\E q \in C : WaitsFor(p, q)) /\ (\E q \in C : WaitsFor(q, p)))
      => \E p \in C : WaitsForItself(p)

\* Where those stand who hold the session's row, the page's row or a new one: what they
\* keep past the answer they keep because of a late exit.
Keeping(p, early, lately) == pc[p] \in early \/ (late /\ pc[p] \in lately)
Unlocked == Later \ {"job_bump", "job_commit"}

Holders ==
  \A p \in Requests :
    /\ \A s \in Sessions :
         sessionLock[s] = p => Keeping(p, Working, Later)
    /\ maker = p =>
         ~source /\ Keeping(p, Writing, Unlocked)
    /\ sourceLock = Request(p) => Keeping(p, Telling, Later)
    /\ sourceLock = Job(p) => pc[p] = "job_commit"

LEMMA CircleIsOwn == IInv /\ Holders => EveryCircleIsOwn
<1> SUFFICES ASSUME IInv, Holders, NEW C \in SUBSET Requests, C # {},
                    \A p \in C : \E q \in C : WaitsFor(p, q),
                    \A p \in C : \E q \in C : WaitsFor(q, p)
             PROVE  \E p \in C : WaitsForItself(p)
  BY DEF EveryCircleIsOwn
<1>1. \A p \in C : pc[p] \in {"touch", "delete", "insert", "job_bump"} \/ (pc[p] = "bump" /\ maker # p)
  BY DEF WaitsFor
<1>2. \A p \in C : pc[p] # "idle" /\ by[p] \in Sessions
  BY <1>1 DEF IInv, OwnSteps
<1>3. ASSUME NEW q \in C, pc[q] \in {"touch", "delete"} PROVE FALSE
  <2>1. PICK p \in C : WaitsFor(p, q)
    OBVIOUS
  <2>2. \A s \in Sessions : sessionLock[s] # q
    BY <1>3 DEF Holders, Keeping, Working, JobSteps, Later
  <2>3. maker # q
    BY <1>3 DEF Holders, Keeping, JobSteps, Later, Unlocked
  <2>4. sourceLock \notin {Request(q), Job(q)}
    BY <1>3 DEF Holders, Keeping, JobSteps, Later
  <2> QED BY <1>2, <2>1, <2>2, <2>3, <2>4 DEF WaitsFor
<1>4. \A q \in C : maker # q
  BY <1>1 DEF Holders, Keeping, JobSteps, Later, Unlocked
<1>5. PICK p \in C : TRUE
  OBVIOUS
<1>6. PICK q \in C : WaitsFor(p, q)
  OBVIOUS
<1>7. sourceLock \in {Request(q), Job(q)}
  BY <1>3, <1>4, <1>6 DEF WaitsFor
<1>8. sourceLock = Request(q) /\ late /\ pc[q] = "job_bump"
  BY <1>1, <1>7 DEF Holders, Keeping, JobSteps, Later
<1> QED BY <1>8 DEF WaitsForItself

LEMMA HoldersInitially == Init => Holders
BY NoneIsNone DEF Init, Holders, Request, Job

\* A step of p that leaves the locks of the others, and the answer to whether the page
\* is there to whoever inserts it.
LEMMA HoldersKept ==
  ASSUME IInv, Holders, NEW p \in Requests, NEW label, Goto(p, label),
         \A q \in Requests \ {p} :
           /\ \A s \in Sessions : sessionLock'[s] = q => sessionLock[s] = q
           /\ maker' = q => maker = q /\ (~source => ~source')
           /\ sourceLock' = Request(q) => sourceLock = Request(q)
           /\ sourceLock' = Job(q) => sourceLock = Job(q),
         \A s \in Sessions :
           sessionLock'[s] = p =>
             label \in Working \/ (late /\ label \in Later),
         maker' = p =>
           /\ ~source'
           /\ label \in Writing
                \/ (late /\ label \in Unlocked),
         sourceLock' = Request(p) =>
           label \in Telling \/ (late /\ label \in Later),
         sourceLock' = Job(p) => label = "job_commit"
  PROVE  Holders'
<1>1. late' = late /\ pc'[p] = label /\ \A q \in Requests \ {p} : pc'[q] = pc[q]
  BY DEF IInv, TypeOK, Goto
<1> QED BY <1>1 DEF Holders, Keeping

\* The end of a request, and of a job that fails.
LEMMA ReleaseHolds ==
  ASSUME IInv, Holders, NEW p \in Requests, NEW label,
         \/ Commit(p, label) \/ Rollback(p, label)
         \/ JobFails(p) /\ label = "error",
         sourceLock = Job(p) => JobFails(p)
  PROVE  Holders'
<1>1. Goto(p, label)
  BY DEF Commit, Rollback, JobFails
<1>2. \A s \in Sessions : sessionLock'[s] = IF sessionLock[s] = p THEN None ELSE sessionLock[s]
  BY DEF Commit, Rollback, JobFails, Release
<1>3. /\ maker' = IF maker = p THEN None ELSE maker
      /\ maker # p /\ ~source => ~source'
  <2>1. CASE Commit(p, label)
    BY <2>1 DEF Commit
  <2>2. CASE Rollback(p, label) \/ JobFails(p)
    BY <2>2 DEF Rollback, JobFails
  <2> QED BY <2>1, <2>2
<1>4. /\ sourceLock' \in {None, sourceLock}
      /\ sourceLock' # Request(p) /\ sourceLock' # Job(p)
  <2>1. None # Request(p) /\ None # Job(p)
    BY NoneIsNone DEF Request, Job
  <2>2. Request(p) # Job(p)
    BY DEF Request, Job
  <2> QED BY <2>1, <2>2 DEF Commit, Rollback, JobFails, Release
<1>5. \A q \in Requests : None # q /\ None # Request(q) /\ None # Job(q)
  BY NoneIsNone DEF Request, Job
<1> QED BY <1>1, <1>2, <1>3, <1>4, <1>5, HoldersKept

\* A step that takes no row and gives none up.
LEMMA MoveHolds ==
  ASSUME IInv, Holders, NEW p \in Requests, NEW label, Goto(p, label),
         UNCHANGED <<rows, sessionLock, sourceLock>>, pc[p] # "job_commit",
         \A s \in Sessions : sessionLock[s] = p =>
           label \in Working \/ (late /\ label \in Later),
         maker = p => label \in Writing
                        \/ (late /\ label \in Unlocked),
         sourceLock = Request(p) => label \in Telling \/ (late /\ label \in Later)
  PROVE  Holders'
<1>1. UNCHANGED <<source, maker>> /\ sourceLock # Job(p)
  BY DEF rows, Holders
<1>2. maker = p => ~source
  BY DEF Holders
<1> QED BY <1>1, <1>2, HoldersKept

LEMMA HoldersStep == IInv /\ Holders /\ [Next]_vars => Holders'
<1> SUFFICES ASSUME IInv, Holders, [Next]_vars PROVE Holders'
  OBVIOUS
<1>1. \A p \in Requests :
        /\ \A s \in Sessions :
             sessionLock[s] = p => Keeping(p, Working, Later)
        /\ maker = p =>
             ~source /\ Keeping(p, Writing, Unlocked)
        /\ sourceLock = Request(p) => Keeping(p, Telling, Later)
        /\ sourceLock = Job(p) => pc[p] = "job_commit"
  BY DEF Holders
<1>2. TypeOK /\ OwnSteps
  BY DEF IInv
<1>3. \A p, q \in Requests : /\ Request(p) # Job(q) /\ Request(p) # None /\ Job(p) # None
                             /\ p # q => Request(p) # Request(q) /\ Job(p) # Job(q)
                             /\ p # None
  BY NoneIsNone DEF Request, Job
<1> USE DEF Working, Writing, Telling, JobSteps, Later, Unlocked
\* Nothing is held before the session's row is.
<1>4. ASSUME NEW p \in Requests, pc[p] \in {"idle", "connect", "lookup", "touch", "delete"}
      PROVE  /\ \A s \in Sessions : sessionLock[s] # p
             /\ maker # p /\ sourceLock # Request(p) /\ sourceLock # Job(p)
  BY <1>1, <1>4 DEF Keeping
<1>5. ASSUME NEW p \in Requests, NEW k, NEW s, Begin(p, k, s) PROVE Holders'
  <2>1. late' = late /\ \A q \in Requests \ {p} : pc'[q] = pc[q]
    BY <1>2, <1>5 DEF Begin, TypeOK
  <2>2. UNCHANGED <<source, maker, sessionLock, sourceLock>> /\ pc[p] = "idle"
    BY <1>5 DEF Begin, rows, locks
  <2> QED BY <1>4, <2>1, <2>2 DEF Holders, Keeping
<1>6. ASSUME NEW p \in Requests, Connect(p) \/ Lookup(p) PROVE Holders'
  <2>1. /\ \A s \in Sessions : sessionLock[s] # p
        /\ maker # p /\ sourceLock # Request(p) /\ sourceLock # Job(p) /\ pc[p] # "job_commit"
    BY <1>4, <1>6 DEF Connect, Lookup
  <2>2. ASSUME NEW label, Rollback(p, label) PROVE Holders'
    BY <2>1, <2>2, ReleaseHolds
  <2>3. ASSUME NEW label, Goto(p, label), UNCHANGED <<rows, sessionLock, sourceLock>>
        PROVE  Holders'
    BY <2>1, <2>3, MoveHolds
  <2> QED BY <1>6, <2>2, <2>3 DEF Connect, Lookup, locks
<1>7. ASSUME NEW p \in Requests, Touch(p) \/ Delete(p) PROVE Holders'
  <2>1. /\ \A s \in Sessions : sessionLock[s] # p
        /\ maker # p /\ sourceLock # Request(p) /\ sourceLock # Job(p)
    BY <1>4, <1>7 DEF Touch, Delete
  <2>2. ASSUME NEW label, Rollback(p, label) PROVE Holders'
    BY <2>1, <2>2, ReleaseHolds
  <2>3. ASSUME NEW label \in Working, Goto(p, label), UNCHANGED <<rows, sourceLock>>,
               sessionLock' \in {[sessionLock EXCEPT ![by[p]] = q] : q \in {p, None}}
        PROVE  Holders'
    <3>1. \A q \in Requests \ {p}, s \in Sessions : sessionLock'[s] = q => sessionLock[s] = q
      BY <1>2, <1>3, <2>3 DEF TypeOK
    <3>2. UNCHANGED <<source, maker>>
      BY <2>3 DEF rows
    <3> QED BY <2>1, <2>3, <3>1, <3>2, HoldersKept
  <2> QED BY <1>7, <2>2, <2>3 DEF Touch, Delete
<1>8. ASSUME NEW p \in Requests, Work(p) PROVE Holders'
  <2>1. maker # p /\ sourceLock # Request(p) /\ sourceLock # Job(p) /\ pc[p] = "work"
    BY <1>1, <1>8 DEF Work, Keeping
  <2>2. CASE Rollback(p, "not_found")
    BY <2>1, <2>2, ReleaseHolds
  <2>3. ASSUME NEW label \in Working, Goto(p, label), UNCHANGED <<rows, locks>> PROVE Holders'
    BY <2>1, <2>3, MoveHolds DEF locks
  <2> QED BY <1>8, <2>2, <2>3 DEF Work
<1>9. ASSUME NEW p \in Requests, Insert(p) PROVE Holders'
  <2>1. maker # p /\ sourceLock # Request(p) /\ sourceLock # Job(p) /\ pc[p] = "insert"
    BY <1>1, <1>9 DEF Insert, Keeping
  <2>2. CASE Rollback(p, "error")
    BY <2>1, <2>2, ReleaseHolds
  <2>3. ASSUME NEW label \in {"bump", "answer"}, Goto(p, label), ~source, source' = source,
               maker' = p, UNCHANGED locks
        PROVE  Holders'
    BY <1>3, <2>1, <2>3, HoldersKept DEF locks
  <2> QED BY <1>9, <2>2, <2>3 DEF Insert
<1>10. ASSUME NEW p \in Requests, Bump(p) \/ Publish(p) \/ Room(p) PROVE Holders'
  <2>1. /\ sourceLock # Job(p) /\ (maker = p => ~source)
        /\ \E label \in Telling : Goto(p, label)
    BY <1>1, <1>10 DEF Bump, Publish, Room
  <2>2. UNCHANGED <<source, maker, sessionLock>> /\ sourceLock' \in {sourceLock, Request(p)}
    BY <1>10 DEF Bump, Publish, Room, rows, locks
  <2> QED BY <1>3, <2>1, <2>2, HoldersKept
<1>11. ASSUME NEW p \in Requests, Answer(p) PROVE Holders'
  <2>1. pc[p] = "answer" /\ sourceLock # Job(p)
    BY <1>1, <1>11 DEF Answer
  <2>2. ASSUME Commit(p, Response(p)) PROVE Holders'
    BY <2>1, <2>2, ReleaseHolds
  <2>3. CASE late /\ Goto(p, Response(p)) /\ UNCHANGED <<rows, locks>>
    BY <2>1, <2>3, MoveHolds DEF locks, Response
  <2> QED BY <1>11, <2>2, <2>3 DEF Answer
<1>12. ASSUME NEW p \in Requests, Disconnect(p) \/ Fetch(p) PROVE Holders'
  <2>1. /\ pc[p] \in {"stream", "job"} /\ UNCHANGED <<rows, locks>>
        /\ \E label \in {"job_connect", AfterResponse(p)} :
             Goto(p, label) /\ (label = "job_connect" => pc[p] = "job")
    BY <1>12 DEF Disconnect, Fetch, AfterResponse
  <2> QED BY <1>1, <2>1, MoveHolds DEF locks, AfterResponse, Keeping
<1>13. ASSUME NEW p \in Requests, JobConnect(p) \/ JobRead(p) PROVE Holders'
  <2>1. pc[p] \in {"job_connect", "job_read"} /\ sourceLock # Job(p)
    BY <1>1, <1>13 DEF JobConnect, JobRead
  <2>2. CASE JobFails(p)
    BY <2>1, <2>2, ReleaseHolds
  <2>3. ASSUME NEW label, Goto(p, label), UNCHANGED <<rows, sessionLock, sourceLock>>,
               label \in {"job_read", AfterResponse(p)} \/ (label = "job_bump" /\ source)
        PROVE  Holders'
    BY <1>1, <2>1, <2>3, MoveHolds DEF AfterResponse, Keeping
  <2> QED BY <1>13, <2>2, <2>3 DEF JobConnect, JobRead
<1>14. ASSUME NEW p \in Requests, JobBump(p) PROVE Holders'
  <2>1. /\ pc[p] = "job_bump" /\ Goto(p, "job_commit") /\ sourceLock' = Job(p) /\ sourceLock = None
        /\ UNCHANGED <<source, maker, sessionLock>>
    BY <1>14 DEF JobBump, rows
  <2>2. maker # p
    BY <1>1, <2>1 DEF Keeping
  <2>3. \A s \in Sessions : sessionLock[s] = p => late
    BY <1>1, <2>1 DEF Keeping
  <2> QED BY <1>3, <2>1, <2>2, <2>3, HoldersKept
<1>15. ASSUME NEW p \in Requests, JobCommit(p) PROVE Holders'
  <2>1. /\ pc[p] = "job_commit" /\ Goto(p, AfterResponse(p)) /\ sourceLock' = None
        /\ UNCHANGED <<source, maker, sessionLock>>
    BY <1>15 DEF JobCommit, rows
  <2>2. maker # p
    BY <1>1, <2>1 DEF Keeping
  <2>3. \A s \in Sessions : sessionLock[s] = p => late
    BY <1>1, <2>1 DEF Keeping
  <2> QED BY <1>3, <2>1, <2>2, <2>3, HoldersKept DEF AfterResponse
<1>16. ASSUME NEW p \in Requests, Settle(p) \/ Crash(p) PROVE Holders'
  <2>1. CASE JobFails(p)
    BY <2>1, ReleaseHolds
  <2>2. ASSUME NEW label, Rollback(p, label) \/ Commit(p, label), pc[p] # "job_commit" PROVE Holders'
    BY <1>1, <2>2, ReleaseHolds
  <2> QED BY <1>16, <2>1, <2>2 DEF Settle, Crash
<1>17. CASE UNCHANGED vars
  BY <1>17 DEF vars, rows, locks, Holders, Keeping
<1> QED BY <1>5, <1>6, <1>7, <1>8, <1>9, <1>10, <1>11, <1>12, <1>13, <1>14, <1>15, <1>16, <1>17
        DEF Next, Handle

\* With an early exit nobody waits in a circle, over session rows, the page's row and
\* rows just inserted together; a late exit has none but the job that waits for its own
\* request, which RequestsEndUnlessHeld excepts.
THEOREM CirclesAreOwn == Spec => []EveryCircleIsOwn
<1>1. Spec => []Holders
  BY HoldersInitially, HoldersStep, Invariant, PTL DEF Spec
<1> QED BY <1>1, CircleIsOwn, Invariant, PTL
=============================================================================
