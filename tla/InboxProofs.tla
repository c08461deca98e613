----------------------------- MODULE InboxProofs -----------------------------
(***************************************************************************)
(* Proofs about Inbox for any calls, streams and rows, on top of those     *)
(* about the hub.                                                          *)
(*                                                                         *)
(* A row that a call was asked to mark is read, or is one that the call    *)
(* has updated, or is still among those that it will look at again.  And   *)
(* a row that had its id before a stream opened is on the pages of the     *)
(* walk so far, or is a pivot, or is older, or was on its way.             *)
(***************************************************************************)
EXTENDS Inbox, NotifyHubProofs

\* What becomes of each row that c was asked to mark.
Marking(c) ==
  /\ step[c] = "idle" => asked[c] = {}
  /\ step[c] \in {"upsert", "commit"} => does[c].rows = <<>>
  /\ step[c] \in Running => \A p \in asked[c] :
       readAt[p] # None \/ locked[p] = c \/ In(p, does[c].rows)
  /\ step[c] = "done" => \A p \in asked[c] : readAt[p] # None
  /\ step[c] = "upsert" => does[c].page # None

\* The rows that had their id when s opened.
Earlier(s) == {p \in Publishers : Viewer \in to[p] /\ \E k \in 1..since[s] : flushed[k] = p}

\* What a walk that began after s opened makes sure of.
Passed(p) == p \in listed \/ p \in pivots \/ (cursor # None /\ Newer(cursor, p))

Gapped(s) ==
  gap[s] # None =>
    /\ sse[s] \in Open /\ reader[s] = Viewer
    /\ \A p \in Earlier(s) : /\ pc[p] = "committed" => Passed(p) \/ p \in gap[s]
                             /\ pc[p] = "publish" => p \in gap[s]

MarksInv == InboxTypeOK /\ \A c \in Calls : Marking(c)

InboxInv == IInv /\ MarksInv /\ \A s \in Streams : Gapped(s)

-----------------------------------------------------------------------------
\* An order of S is a sequence of its elements, each of them in it.
LEMMA OrdersCover ==
  ASSUME NEW S \in SUBSET Publishers, NEW f \in Orders(S)
  PROVE  f \in Seq(S) /\ Distinct(f) /\ \A x \in S : In(x, f)
<1>1. IsFiniteSet(S) /\ Cardinality(S) \in Nat
  BY OldKnown, FS_Subset, FS_CardinalityType
<1> DEFINE n == Cardinality(S)
<1>2. f \in [1..n -> S] /\ \A i, j \in 1..n : f[i] = f[j] => i = j
  BY DEF Orders
<1>3. f \in Injection(1..n, S)
  BY <1>2 DEF Injection, IsInjective
<1>4. Cardinality(1..n) = n
  BY <1>1, FS_Interval
<1>5. f \in Surjection(1..n, S)
  BY <1>1, <1>3, <1>4, FS_Injection
<1>6. \A x \in S : \E i \in 1..n : f[i] = x
  BY <1>5 DEF Surjection
<1>7. DOMAIN f = 1..n /\ f \in Seq(S)
  BY <1>1, <1>2
<1> QED BY <1>2, <1>6, <1>7 DEF Distinct, In

LEMMA HubInitially == InboxInit => IInv
<1> SUFFICES ASSUME InboxInit PROVE IInv
  OBVIOUS
<1>1. /\ pc = [p \in Publishers |-> IF p \in Old THEN "committed" ELSE "idle"]
      /\ to = [p \in Publishers |-> IF p \in Old THEN {Viewer} ELSE {}]
      /\ page \in [Publishers -> Pages \cup {None}]
      /\ flushed \in Orders(Old)
  BY DEF InboxInit
<1>2. flushed \in Seq(Old) /\ Distinct(flushed) /\ \A p \in Old : In(p, flushed)
  BY <1>1, OrdersCover, OldKnown
<1>3. flushed \in Seq(Publishers) /\ \A k \in DOMAIN flushed : flushed[k] \in Old
  BY <1>2, OldKnown, SeqMonotonic
<1> USE DEF StreamInit
<1>4. StreamInit
  BY DEF InboxInit
<1>5. TypeOK
  <2>1. 0 \in 0..Len(flushed)
    BY <1>3
  <2> QED BY <1>1, <1>3, <1>4, <2>1, ViewerKnown, CapacityPositive DEF TypeOK, Ended
<1>6. FlushedOnce
  BY <1>1, <1>2, <1>3, OldKnown DEF FlushedOnce, In
<1>7. Locks /\ Lists
  BY <1>1, <1>3, <1>4, OldKnown DEF Locks, Lists, Distinct, Ended
<1>8. ASSUME NEW s \in Streams PROVE Listening(s) /\ Ordered(s)
  <2>1. Packets(s) = <<>>
    BY <1>4 DEF Packets
  <2> QED BY <1>4, <2>1 DEF Listening, Ordered, Put, In, Open
<1>9. ASSUME NEW p \in Publishers PROVE Putting(p) /\ \A s \in Streams : Reached(p, s)
  <2>1. \A u \in Users : left[p][u] = <<>>
    BY <1>4
  <2>2. \A u \in Users : \A s : ~Pending(p, u, s)
    BY <2>1, EmptyList DEF Pending
  <2>3. Putting(p)
    BY <2>1, <2>2 DEF Putting, Distinct
  <2>4. \A s \in Streams : sse[s] \notin Open
    BY <1>4 DEF Open
  <2> QED BY <2>3, <2>4 DEF Reached, Due
<1> QED BY <1>5, <1>6, <1>7, <1>8, <1>9 DEF IInv

LEMMA InboxInitially == InboxInit => InboxInv
<1> SUFFICES ASSUME InboxInit PROVE InboxInv
  OBVIOUS
<1>1. IInv
  BY HubInitially
<1>2. InboxTypeOK
  <2>1. TypeOK
    BY <1>1 DEF IInv
  <2>2. Nothing \in Work
    BY DEF Nothing, Work
  <2>3. does \in [Calls -> Work]
    BY <2>2 DEF InboxInit
  <2>4. /\ readAt \in [Publishers -> Calls \cup {None}]
        /\ locked \in [Publishers -> Calls \cup {None}]
        /\ \A p \in Publishers : locked[p] = None
        /\ activity \in [Pages -> BOOLEAN]
        /\ upsert \in [Pages -> Calls \cup {None}]
        /\ \A g \in Pages : upsert[g] = None
    BY DEF InboxInit
  <2>5. /\ step \in [Calls -> Running \cup {"idle", "done", "failed"}]
        /\ listed \subseteq Rows /\ cursor = None /\ pivots = {}
        /\ asked \in [Calls -> SUBSET Rows]
        /\ gap \in [Streams -> (SUBSET Publishers) \cup {None}]
    BY DEF InboxInit
  <2> QED BY <2>1, <2>2, <2>3, <2>4, <2>5 DEF InboxTypeOK
<1>3. \A c \in Calls : Marking(c)
  BY DEF InboxInit, Marking, Running
<1>4. \A s \in Streams : Gapped(s)
  BY DEF InboxInit, Gapped
<1> QED BY <1>1, <1>2, <1>3, <1>4 DEF InboxInv, MarksInv

-----------------------------------------------------------------------------
\* What a step of the hub means to the rows: those that are committed stay, and
\* those that get their id are new.
RowsStay ==
  /\ \A p \in Publishers :
       /\ pc[p] = "committed" => pc'[p] = "committed"
       /\ pc[p] \in {"committed", "publish"} => to'[p] = to[p]
       /\ pc'[p] = "committed" => pc[p] \in {"committed", "publish"}
       /\ pc'[p] = "publish" => pc[p] = "publish" \/ (pc[p] = "bump" /\ ~In(p, flushed))
  /\ Len(flushed) <= Len(flushed')
  /\ \A k \in 1..Len(flushed) : flushed'[k] = flushed[k]

OpenStay(s) ==
  /\ sse[s] \in Open => sse'[s] \in Open
  /\ sse[s] \in Open => reader'[s] = reader[s] /\ since'[s] = since[s]

LEMMA FinishRows ==
  ASSUME IInv, NEW p \in Publishers, NEW answer \in Ended, Finish(p, answer),
         pc[p] \in {"bump", "publish"}, answer = "committed" => pc[p] = "publish"
  PROVE  RowsStay /\ UNCHANGED <<sse, reader, since>>
BY DEF IInv, TypeOK, Finish, RowsStay, Ended, stream

LEMMA NotifierRows ==
  ASSUME IInv, NEW p \in Publishers, Begin(p) \/ Notifier(p) \/ Fail(p)
  PROVE  RowsStay /\ UNCHANGED <<sse, reader, since>>
<1>0. TypeOK /\ FlushedOnce /\ flushed \in Seq(Publishers) /\ pc \in [Publishers -> Ended \cup {"idle", "bump", "publish"}]
  BY DEF IInv, TypeOK
<1>1. CASE Begin(p)
  <2>1. /\ pc[p] = "idle" /\ pc' = [pc EXCEPT ![p] = "bump"]
        /\ UNCHANGED <<sse, reader, since, flushed>>
    BY <1>1 DEF Begin, stream
  <2>2. \A q \in Publishers : q # p => to'[q] = to[q]
    BY <1>0, <1>1 DEF Begin, TypeOK
  <2> QED BY <1>0, <2>1, <2>2 DEF RowsStay
<1>2. CASE Flush(p)
  <2>1. /\ pc[p] = "bump" /\ pc' = [pc EXCEPT ![p] = "publish"]
        /\ flushed' = Append(flushed, p)
        /\ UNCHANGED <<sse, reader, since, to>>
    BY <1>2 DEF Flush, stream
  <2>2. ~In(p, flushed)
    BY <1>0, <2>1 DEF FlushedOnce
  <2>3. Len(flushed) <= Len(flushed') /\ \A k \in 1..Len(flushed) : flushed'[k] = flushed[k]
    BY <1>0, <2>1, AppendProperties
  <2> QED BY <1>0, <2>1, <2>2, <2>3 DEF RowsStay
<1>3. ASSUME NEW u \in Users, Publish(p, u) PROVE RowsStay /\ UNCHANGED <<sse, reader, since>>
  <2>1. UNCHANGED <<sse, reader, since, pc, to, flushed>>
    BY <1>3 DEF Publish
  <2> QED BY <1>0, <2>1 DEF RowsStay
<1>4. CASE Commit(p) \/ Fail(p)
  BY <1>4, FinishRows DEF Commit, Fail, Ended
<1> QED BY <1>1, <1>2, <1>3, <1>4 DEF Notifier

LEMMA HubKeeps ==
  ASSUME IInv, HubStep
  PROVE  IInv' /\ RowsStay /\ \A s \in Streams : OpenStay(s)
<1>0. TypeOK
  BY DEF IInv
<1>1. ASSUME NEW s \in Streams, Take(s) \/ Ping(s) \/ Deliver(s) \/ Teardown(s)
      PROVE  IInv' /\ RowsStay /\ \A t \in Streams : OpenStay(t)
  <2>1. UNCHANGED <<reader, since, request>> /\ sse[s] # "new"
        /\ sse' = [sse EXCEPT ![s] = sse'[s]] /\ (sse[s] \in Open => sse'[s] \in Open)
    BY <1>0, <1>1 DEF Take, Ping, Deliver, Teardown, Unsubscribe, TypeOK, Open
  <2>2. UNCHANGED <<pc, to, flushed>> /\ Len(flushed) \in Nat
    BY <1>0, <2>1 DEF request, TypeOK
  <2>3. RowsStay
    BY <2>2 DEF RowsStay
  <2>4. \A t \in Streams : OpenStay(t)
    BY <1>0, <2>1 DEF OpenStay, TypeOK
  <2> QED BY <1>1, <2>3, <2>4, TakeKeeps, PingKeeps, DeliverKeeps, TeardownKeeps
<1>2. ASSUME NEW s \in Streams, NEW u \in Users, Subscribe(s, u)
      PROVE  IInv' /\ RowsStay /\ \A t \in Streams : OpenStay(t)
  <2>1. sse[s] = "new" /\ UNCHANGED request
        /\ sse' = [sse EXCEPT ![s] = "waiting"] /\ reader' = [reader EXCEPT ![s] = u]
        /\ since' = [since EXCEPT ![s] = Len(flushed)]
    BY <1>2 DEF Subscribe
  <2>2. UNCHANGED <<pc, to, flushed>> /\ Len(flushed) \in Nat
    BY <1>0, <2>1 DEF request, TypeOK
  <2>3. RowsStay
    BY <2>2 DEF RowsStay
  <2>4. \A t \in Streams : OpenStay(t)
    BY <1>0, <2>1 DEF OpenStay, TypeOK, Open
  <2> QED BY <1>2, <2>3, <2>4, SubscribeKeeps
<1>3. ASSUME NEW p \in Publishers, Begin(p) \/ Notifier(p) \/ Fail(p)
      PROVE  IInv' /\ RowsStay /\ \A t \in Streams : OpenStay(t)
  BY <1>3, NotifierRows, BeginKeeps, FlushKeeps, PublishKeeps, EndsKeep DEF Notifier, OpenStay
<1> QED BY <1>1, <1>2, <1>3 DEF HubStep

\* The rows that a call found stay rows.
LEMMA RowsGrow ==
  ASSUME RowsStay
  PROVE  Rows \subseteq Rows'
BY DEF RowsStay, Rows

LEMMA WorkGrows ==
  ASSUME Rows \subseteq Rows'
  PROVE  Work \subseteq Work'
BY SeqMonotonic DEF Work

LEMMA MarksStay ==
  ASSUME MarksInv, TypeOK', Rows \subseteq Rows', UNCHANGED marks, listed' \subseteq Rows',
         cursor' \in Rows' \cup {None}, pivots' \subseteq Rows',
         gap' \in [Streams -> (SUBSET Publishers) \cup {None}]
  PROVE  MarksInv'
<1>0. InboxTypeOK /\ \A c \in Calls : Marking(c)
  BY DEF MarksInv
<1>1. UNCHANGED <<readAt, locked, activity, upsert, step, does, asked>>
  BY DEF marks
<1>2. does' \in [Calls -> Work']
  BY <1>0, <1>1, WorkGrows DEF InboxTypeOK
<1>3. InboxTypeOK'
  BY <1>0, <1>1, <1>2 DEF InboxTypeOK
<1>4. \A c \in Calls : Marking(c)'
  BY <1>0, <1>1 DEF Marking
<1> QED BY <1>3, <1>4 DEF MarksInv

LEMMA NewerStays ==
  ASSUME RowsStay, flushed \in Seq(Publishers), flushed' \in Seq(Publishers), NEW p, NEW q, Newer(p, q)
  PROVE  Newer(p, q)'
<1>1. \A k \in DOMAIN flushed : k \in DOMAIN flushed' /\ flushed'[k] = flushed[k]
  BY DEF RowsStay
<1> QED BY <1>1 DEF Newer

LEMMA GappedStays ==
  ASSUME InboxInv, RowsStay, NEW s \in Streams, OpenStay(s), gap'[s] = gap[s],
         TypeOK', UNCHANGED <<listed, cursor, pivots>>
  PROVE  Gapped(s)'
<1>0. TypeOK /\ FlushedOnce /\ Gapped(s)
  BY DEF InboxInv, IInv
<1> SUFFICES ASSUME gap[s] # None
             PROVE  /\ sse'[s] \in Open /\ reader'[s] = Viewer
                    /\ \A p \in Earlier(s)' :
                         /\ pc'[p] = "committed" => Passed(p)' \/ p \in gap[s]
                         /\ pc'[p] = "publish" => p \in gap[s]
  BY DEF Gapped
<1>1. sse'[s] \in Open /\ reader'[s] = Viewer /\ since'[s] = since[s]
  BY <1>0 DEF Gapped, OpenStay
<1>2. ASSUME NEW p \in Earlier(s)', pc'[p] \in {"committed", "publish"}
      PROVE  p \in Earlier(s) /\ pc[p] \in {"committed", "publish"}
             /\ (pc'[p] = "publish" => pc[p] = "publish")
  <2>1. p \in Publishers /\ Viewer \in to'[p]
    BY DEF Earlier
  <2>2. PICK k \in 1..since[s] : flushed[k] = p /\ k \in DOMAIN flushed
    <3>1. PICK k \in 1..since[s] : flushed'[k] = p
      BY <1>1 DEF Earlier
    <3>2. k \in 1..Len(flushed) /\ DOMAIN flushed = 1..Len(flushed)
      BY <1>0 DEF TypeOK
    <3> QED BY <3>1, <3>2 DEF RowsStay
  <2>3. In(p, flushed)
    BY <2>2 DEF In
  <2>4. pc[p] \in {"committed", "publish"} /\ (pc'[p] = "publish" => pc[p] = "publish")
    BY <1>2, <2>1, <2>3 DEF RowsStay
  <2> QED BY <2>1, <2>2, <2>4 DEF RowsStay, Earlier
<1>3. ASSUME NEW p, Passed(p) PROVE Passed(p)'
  <2>1. CASE cursor # None /\ Newer(cursor, p)
    <3>1. Newer(cursor, p)'
      <4>1. flushed \in Seq(Publishers) /\ flushed' \in Seq(Publishers)
        BY <1>0 DEF TypeOK
      <4>2. \A q : Newer(q, p) => Newer(q, p)'
        BY <4>1, NewerStays
      <4> QED BY <2>1, <4>2 DEF Newer
    <3> QED BY <2>1, <3>1 DEF Passed
  <2> QED BY <1>3, <2>1 DEF Passed
<1> QED BY <1>0, <1>1, <1>2, <1>3 DEF Gapped

LEMMA SameRows ==
  ASSUME TypeOK, UNCHANGED request
  PROVE  RowsStay
<1>1. UNCHANGED <<pc, to, flushed>> /\ Len(flushed) \in Nat
  BY DEF request, TypeOK
<1> QED BY <1>1 DEF RowsStay

LEMMA HubStepKeeps == ASSUME InboxInv, HubStep PROVE InboxInv'
<1>1. IInv' /\ RowsStay /\ \A s \in Streams : OpenStay(s)
  BY HubKeeps DEF InboxInv
<1>2. UNCHANGED <<marks, listed, cursor, pivots, gap>> /\ TypeOK'
  BY <1>1 DEF HubStep, inbox, walk, IInv
<1>3. /\ listed \subseteq Rows /\ cursor \in Rows \cup {None} /\ pivots \subseteq Rows
      /\ gap \in [Streams -> (SUBSET Publishers) \cup {None}]
  BY DEF InboxInv, MarksInv, InboxTypeOK
<1>4. MarksInv'
  BY <1>1, <1>2, <1>3, RowsGrow, MarksStay DEF InboxInv
<1> QED BY <1>1, <1>2, <1>4, GappedStays DEF InboxInv

LEMMA LeaveStepKeeps == ASSUME InboxInv, NEW s \in Streams, LeaveStep(s) PROVE InboxInv'
<1>0. /\ IInv /\ TypeOK
      /\ listed \subseteq Rows /\ cursor \in Rows \cup {None} /\ pivots \subseteq Rows
      /\ gap \in [Streams -> (SUBSET Publishers) \cup {None}]
  BY DEF InboxInv, MarksInv, InboxTypeOK, IInv
<1>1. /\ UNCHANGED <<marks, listed, cursor, pivots, request>> /\ gap' = [gap EXCEPT ![s] = None]
      /\ \A t \in Streams : t # s => OpenStay(t)
  BY <1>0 DEF LeaveStep, Leave, Forget, Unsubscribe, OpenStay, TypeOK
<1>2. IInv' /\ TypeOK'
  BY <1>0, LeaveKeeps DEF LeaveStep, IInv
<1>3. RowsStay
  BY <1>0, <1>1, SameRows
<1>4. MarksInv'
  BY <1>0, <1>1, <1>2, <1>3, RowsGrow, MarksStay DEF InboxInv
<1>5. ASSUME NEW t \in Streams PROVE Gapped(t)'
  <2>1. CASE t = s
    BY <1>0, <1>1, <2>1 DEF Gapped
  <2>2. CASE t # s
    BY <1>0, <1>1, <1>2, <1>3, <2>2, GappedStays
  <2> QED BY <2>1, <2>2
<1> QED BY <1>2, <1>4, <1>5 DEF InboxInv

LEMMA RestartStepKeeps == ASSUME InboxInv, RestartStep PROVE InboxInv'
<1>0. /\ IInv /\ InboxTypeOK /\ TypeOK /\ \A c \in Calls : Marking(c)
  BY DEF InboxInv, MarksInv, InboxTypeOK
<1>1. IInv' /\ TypeOK'
  BY <1>0, RestartKeeps DEF RestartStep, IInv
<1>2. Rows \subseteq Rows'
  BY DEF RestartStep, Restart, Rows
<1>3. \A c \in Calls :
        /\ step'[c] = IF step[c] \in Running THEN "failed" ELSE step[c]
        /\ step'[c] \notin Running
        /\ does'[c] = Nothing
        /\ asked'[c] = IF step[c] \in Running THEN {} ELSE asked[c]
  BY DEF RestartStep, Running
<1>4. InboxTypeOK'
  <2>1. /\ locked' \in [Publishers -> Calls \cup {None}] /\ \A p \in Publishers : locked'[p] = None
        /\ upsert' \in [Pages -> Calls \cup {None}] /\ \A g \in Pages : upsert'[g] = None
        /\ gap' \in [Streams -> (SUBSET Publishers) \cup {None}]
        /\ step' \in [Calls -> Running \cup {"idle", "done", "failed"}]
    BY <1>0 DEF RestartStep, InboxTypeOK
  <2>2. asked' \in [Calls -> SUBSET Rows'] /\ listed' \subseteq Rows'
       /\ cursor' \in Rows' \cup {None} /\ pivots' \subseteq Rows'
    BY <1>0, <1>2 DEF RestartStep, InboxTypeOK
  <2>3. does' \in [Calls -> Work']
    <3>1. Nothing \in Work'
      BY DEF Nothing, Work
    <3> QED BY <3>1 DEF RestartStep
  <2>4. readAt' \in [Publishers -> Calls \cup {None}] /\ activity' \in [Pages -> BOOLEAN]
    BY <1>0 DEF RestartStep, InboxTypeOK
  <2> QED BY <1>1, <2>1, <2>2, <2>3, <2>4 DEF InboxTypeOK
<1>5. \A c \in Calls : Marking(c)'
  BY <1>0, <1>3 DEF Marking, RestartStep, Running
<1>6. \A s \in Streams : Gapped(s)'
  BY DEF RestartStep, Gapped
<1> QED BY <1>1, <1>4, <1>5, <1>6 DEF InboxInv, MarksInv

\* A page lists the rows that it is about or says where to go on for them.
LEMMA PagePasses ==
  ASSUME InboxInv, NEW S \in SUBSET Rows, Page(S)
  PROVE  /\ listed \subseteq listed' /\ listed' \subseteq Rows /\ cursor' \in S \cup {None}
         /\ \A p \in S : p \in listed' \/ (cursor' # None /\ (p = cursor' \/ Newer(cursor', p)))
<1>1. PICK items \in SUBSET S :
        /\ listed' = listed \cup items
        /\ \/ items = S /\ cursor' = None
           \/ cursor' \in S \ items /\ \A q \in S \ items : q = cursor' \/ Newer(cursor', q)
  BY DEF Page
<1>2. listed \subseteq Rows /\ None \notin S
  BY NoneIsNone DEF InboxInv, MarksInv, InboxTypeOK, Rows
<1> QED BY <1>1, <1>2

LEMMA PageMarks ==
  ASSUME InboxInv, UNCHANGED <<vars, marks>>, listed' \subseteq Rows, cursor' \in Rows \cup {None},
         pivots' \subseteq Rows, gap' \in [Streams -> (SUBSET Publishers) \cup {None}]
  PROVE  /\ IInv' /\ MarksInv' /\ Rows' = Rows
         /\ UNCHANGED <<pc, to, flushed, sse, reader, since>>
         /\ \A p, q : Newer(p, q)' = Newer(p, q)
<1>1. UNCHANGED <<pc, to, flushed, sse, reader, since>>
  BY DEF vars, stream, request
<1>2. IInv' /\ TypeOK' /\ Rows' = Rows
  BY <1>1, StutterKeeps DEF InboxInv, IInv, Rows
<1>3. MarksInv'
  BY <1>2, MarksStay DEF InboxInv
<1> QED BY <1>1, <1>2, <1>3 DEF Newer

LEMMA ListKeeps == ASSUME InboxInv, List PROVE InboxInv'
<1> DEFINE Missing(s) == {p \in Publishers : pc[p] = "publish" /\ \E k \in 1..since[s] : flushed[k] = p}
           First(s) == sse[s] \in Open /\ reader[s] = Viewer
<1>1. /\ UNCHANGED <<vars, marks>> /\ Page(Rows) /\ pivots' = {cursor'} \ {None}
      /\ gap' = [s \in Streams |-> IF First(s) THEN Missing(s) ELSE None]
  BY DEF List
<1>2. /\ listed' \subseteq Rows /\ cursor' \in Rows \cup {None}
      /\ \A p \in Rows : p \in listed' \/ (cursor' # None /\ (p = cursor' \/ Newer(cursor', p)))
  BY <1>1, PagePasses
<1>3. pivots' \subseteq Rows /\ gap' \in [Streams -> (SUBSET Publishers) \cup {None}]
  BY <1>1, <1>2
<1>4. /\ IInv' /\ MarksInv' /\ Rows' = Rows
      /\ UNCHANGED <<pc, to, flushed, sse, reader, since>>
      /\ \A p, q : Newer(p, q)' = Newer(p, q)
  BY <1>1, <1>2, <1>3, PageMarks
<1>5. ASSUME NEW s \in Streams PROVE Gapped(s)'
  <2>1. Earlier(s)' = Earlier(s)
    BY <1>4 DEF Earlier
  <2>2. ASSUME NEW p \in Earlier(s), pc[p] = "committed" PROVE Passed(p)'
    <3>1. p \in Rows
      BY <2>2 DEF Earlier, Rows
    <3>2. p = cursor' /\ cursor' # None => p \in pivots'
      BY <1>1
    <3> QED BY <1>2, <1>4, <3>1, <3>2 DEF Passed
  <2>3. CASE First(s)
    <3>1. \A p \in Earlier(s) : pc[p] = "publish" => p \in Missing(s)
      BY DEF Earlier
    <3>2. gap'[s] = Missing(s)
      BY <1>1, <2>3
    <3> QED BY <1>4, <2>1, <2>2, <2>3, <3>1, <3>2 DEF Gapped
  <2>4. CASE ~First(s)
    <3>1. gap'[s] = None
      BY <1>1, <2>4
    <3> QED BY <3>1 DEF Gapped
  <2> QED BY <2>3, <2>4
<1> QED BY <1>4, <1>5 DEF InboxInv

LEMMA ListOnKeeps == ASSUME InboxInv, ListOn PROVE InboxInv'
<1>1. /\ UNCHANGED <<vars, marks, gap>> /\ Page(Older(Rows, cursor)) /\ cursor # None
      /\ pivots' = pivots \cup ({cursor'} \ {None}) /\ Older(Rows, cursor) \in SUBSET Rows
  BY DEF ListOn, Older
<1>2. /\ listed \subseteq listed' /\ listed' \subseteq Rows /\ cursor' \in Rows \cup {None}
      /\ \A p \in Older(Rows, cursor) :
           p \in listed' \/ (cursor' # None /\ (p = cursor' \/ Newer(cursor', p)))
  <2> DEFINE S == Older(Rows, cursor)
  <2>1. S \in SUBSET Rows /\ Page(S)
    BY <1>1
  <2> HIDE DEF S
  <2>2. /\ listed \subseteq listed' /\ listed' \subseteq Rows /\ cursor' \in S \cup {None}
        /\ \A p \in S : p \in listed' \/ (cursor' # None /\ (p = cursor' \/ Newer(cursor', p)))
    BY <2>1, PagePasses
  <2> QED BY <2>1, <2>2 DEF S
<1>3. pivots' \subseteq Rows /\ gap' \in [Streams -> (SUBSET Publishers) \cup {None}]
  BY <1>1, <1>2 DEF InboxInv, MarksInv, InboxTypeOK
<1>4. /\ IInv' /\ MarksInv' /\ Rows' = Rows
      /\ UNCHANGED <<pc, to, flushed, sse, reader, since>>
      /\ \A p, q : Newer(p, q)' = Newer(p, q)
  BY <1>1, <1>2, <1>3, PageMarks
<1>5. ASSUME NEW p \in Rows, Passed(p) PROVE Passed(p)'
  <2>1. CASE p \in listed \cup pivots
    BY <1>1, <1>2, <2>1 DEF Passed
  <2>2. CASE Newer(cursor, p)
    <3>1. p \in Older(Rows, cursor)
      BY <2>2 DEF Older
    <3>2. p = cursor' /\ cursor' # None => p \in pivots'
      BY <1>1
    <3> QED BY <1>2, <1>4, <3>1, <3>2 DEF Passed
  <2> QED BY <1>5, <2>1, <2>2 DEF Passed
<1>6. ASSUME NEW s \in Streams PROVE Gapped(s)'
  <2>1. Earlier(s)' = Earlier(s) /\ \A p \in Earlier(s) : pc[p] = "committed" => p \in Rows
    BY <1>4 DEF Earlier, Rows
  <2>2. Gapped(s) /\ gap' = gap
    BY <1>1 DEF InboxInv
  <2> QED BY <1>4, <1>5, <2>1, <2>2 DEF Gapped
<1> QED BY <1>4, <1>6 DEF InboxInv

-----------------------------------------------------------------------------
\* A step of a call, which leaves the hub, the inbox and the gaps alone.
LEMMA CallStep ==
  ASSUME InboxInv, UNCHANGED <<vars, walk>>,
         readAt' \in [Publishers -> Calls \cup {None}],
         locked' \in [Publishers -> Calls \cup {None}],
         \A p \in Publishers : locked'[p] # None =>
           step'[locked'[p]] \in Running /\ readAt'[p] = None /\ p \in Rows,
         activity' \in [Pages -> BOOLEAN],
         upsert' \in [Pages -> Calls \cup {None}],
         \A g \in Pages : upsert'[g] # None => step'[upsert'[g]] = "commit",
         step' \in [Calls -> Running \cup {"idle", "done", "failed"}],
         does' \in [Calls -> Work],
         asked' \in [Calls -> SUBSET Rows],
         \A c \in Calls : Marking(c)'
  PROVE  InboxInv'
<1>1. UNCHANGED <<pc, to, flushed, sse, reader, since>>
  BY DEF vars, stream, request
<1>2. IInv' /\ TypeOK' /\ Rows' = Rows /\ Work' = Work
  BY <1>1, StutterKeeps DEF InboxInv, IInv, Rows, Work
<1>3. InboxTypeOK'
  BY <1>2 DEF InboxInv, MarksInv, InboxTypeOK, walk
<1>4. \A s \in Streams : Gapped(s)'
  BY <1>1 DEF InboxInv, Gapped, Passed, Newer, Earlier, walk
<1> QED BY <1>2, <1>3, <1>4 DEF InboxInv, MarksInv

LEMMA FindKeeps ==
  ASSUME InboxInv, NEW c \in Calls, NEW W, NEW g \in Pages \cup {None}, Find(c, W, g)
  PROVE  InboxInv'
<1>0. InboxTypeOK /\ \A d \in Calls : Marking(d)
  BY DEF InboxInv, MarksInv
<1> DEFINE S == {p \in W \cap Rows : readAt[p] = None}
<1>1. PICK order \in Orders(S) : does' = [does EXCEPT ![c] = [page |-> g, rows |-> order]]
  BY DEF Find
<1>2. /\ step[c] = "idle" /\ step' = [step EXCEPT ![c] = "update"]
      /\ asked' = [asked EXCEPT ![c] = W \cap listed]
      /\ UNCHANGED <<vars, walk, readAt, locked, activity, upsert>>
  BY DEF Find, Move
<1>3. S \in SUBSET Publishers /\ S \subseteq Rows
  BY DEF Rows
<1>4. order \in Seq(Rows) /\ \A p \in S : In(p, order)
  <2>1. order \in Seq(S) /\ \A p \in S : In(p, order)
    <3> HIDE DEF S
    <3> QED BY <1>3, OrdersCover
  <2> HIDE DEF S
  <2> QED BY <1>3, <2>1, SeqMonotonic
<1>5. \A d \in Calls : does'[d] = IF d = c THEN [page |-> g, rows |-> order] ELSE does[d]
  BY <1>0, <1>1 DEF InboxTypeOK
<1>6. \A d \in Calls : Marking(d)'
  <2>1. ASSUME NEW d \in Calls, d # c PROVE Marking(d)'
    BY <1>0, <1>2, <1>5, <2>1 DEF Marking, InboxTypeOK
  <2>2. Marking(c)'
    <3>1. step'[c] = "update" /\ asked'[c] = W \cap listed /\ does'[c].rows = order
      BY <1>0, <1>2, <1>5 DEF InboxTypeOK
    <3>2. \A p \in asked'[c] : readAt[p] # None \/ In(p, order)
      BY <1>0, <1>4, <3>1 DEF InboxTypeOK
    <3> QED BY <1>2, <3>1, <3>2 DEF Marking
  <2> QED BY <2>1, <2>2
<1>7. asked' \in [Calls -> SUBSET Rows]
  BY <1>0, <1>2 DEF InboxTypeOK
<1>8. does' \in [Calls -> Work]
  <2>1. [page |-> g, rows |-> order] \in Work
    BY <1>4 DEF Work
  <2> QED BY <1>0, <1>1, <2>1 DEF InboxTypeOK
<1>9. /\ step' \in [Calls -> Running \cup {"idle", "done", "failed"}]
      /\ \A p \in Publishers : locked[p] # None =>
           step'[locked[p]] \in Running /\ readAt[p] = None /\ p \in Rows
      /\ \A h \in Pages : upsert[h] # None => step'[upsert[h]] = "commit"
  BY <1>0, <1>2 DEF InboxTypeOK, Running
<1> QED BY <1>0, <1>2, <1>6, <1>7, <1>8, <1>9, CallStep DEF InboxTypeOK

LEMMA MarkNoneKeeps == ASSUME InboxInv, NEW c \in Calls, MarkNone(c) PROVE InboxInv'
<1>0. InboxTypeOK /\ \A d \in Calls : Marking(d)
  BY DEF InboxInv, MarksInv
<1>1. /\ step[c] = "idle" /\ step' = [step EXCEPT ![c] = "done"]
      /\ UNCHANGED <<vars, walk, readAt, locked, activity, upsert, does, asked>>
  BY DEF MarkNone, Move
<1>2. \A d \in Calls : Marking(d)'
  BY <1>0, <1>1 DEF Marking, InboxTypeOK, Running
<1>3. /\ step' \in [Calls -> Running \cup {"idle", "done", "failed"}]
      /\ \A p \in Publishers : locked[p] # None =>
           step'[locked[p]] \in Running /\ readAt[p] = None /\ p \in Rows
      /\ \A h \in Pages : upsert[h] # None => step'[upsert[h]] = "commit"
  BY <1>0, <1>1 DEF InboxTypeOK, Running
<1> QED BY <1>0, <1>1, <1>2, <1>3, CallStep DEF InboxTypeOK

LEMMA UpdateKeeps == ASSUME InboxInv, NEW c \in Calls, Update(c) PROVE InboxInv'
<1>0. InboxTypeOK /\ \A d \in Calls : Marking(d)
  BY DEF InboxInv, MarksInv
<1> DEFINE todo == does[c].rows
           p == Head(todo)
<1>1. /\ step[c] = "update" /\ todo # <<>> /\ locked[p] = None
      /\ does' = [does EXCEPT ![c].rows = Tail(todo)]
      /\ locked' = IF readAt[p] = None THEN [locked EXCEPT ![p] = c] ELSE locked
      /\ UNCHANGED <<vars, walk, readAt, activity, upsert, step, asked>>
  BY DEF Update
<1>2. does[c] \in Work /\ todo \in Seq(Rows)
  BY <1>0 DEF InboxTypeOK, Work
<1>3. p \in Rows /\ p \in Publishers /\ Tail(todo) \in Seq(Rows)
  <2> HIDE DEF todo
  <2>1. Head(todo) \in Rows /\ Tail(todo) \in Seq(Rows)
    BY <1>1, <1>2, HeadTailProperties
  <2> QED BY <2>1 DEF Rows
<1>4. \A q : In(q, todo) => q = p \/ In(q, Tail(todo))
  <2> SUFFICES ASSUME NEW q, In(q, todo) PROVE q = p \/ In(q, Tail(todo))
    OBVIOUS
  <2> HIDE DEF todo
  <2>1. PICK k \in DOMAIN todo : todo[k] = q
    BY DEF In
  <2>2. CASE k = 1
    BY <1>2, <2>1, <2>2
  <2>3. CASE k # 1
    <3>1. k \in Nat /\ k >= 1 /\ k <= Len(todo) /\ Len(todo) \in Nat
      BY <1>2
    <3>2. /\ Len(Tail(todo)) = Len(todo) - 1
          /\ \A i \in 1..Len(Tail(todo)) : Tail(todo)[i] = todo[i + 1]
      BY <1>1, <1>2, HeadTailProperties
    <3>3. k - 1 \in 1..Len(Tail(todo)) /\ (k - 1) + 1 = k
      BY <2>3, <3>1, <3>2
    <3>4. k - 1 \in DOMAIN Tail(todo)
      BY <1>3, <3>3
    <3>5. Tail(todo)[k - 1] = q
      BY <2>1, <3>2, <3>3
    <3> QED BY <3>4, <3>5 DEF In
  <2> QED BY <2>2, <2>3
<1> HIDE DEF p, todo
<1>5. \A d \in Calls : d # c => does'[d] = does[d]
  BY <1>0, <1>1 DEF InboxTypeOK
<1>6. does'[c] = [does[c] EXCEPT !.rows = Tail(todo)]
  BY <1>0, <1>1 DEF InboxTypeOK
<1>7. does'[c].rows = Tail(todo) /\ does'[c].page = does[c].page /\ does'[c] \in Work
  BY <1>2, <1>3, <1>6 DEF Work
<1>8. does' \in [Calls -> Work]
  BY <1>0, <1>1, <1>5, <1>7 DEF InboxTypeOK
<1>9. /\ locked' \in [Publishers -> Calls \cup {None}]
      /\ \A q \in Publishers : locked'[q] # None =>
           step[locked'[q]] \in Running /\ readAt[q] = None /\ q \in Rows
  BY <1>0, <1>1, <1>3 DEF InboxTypeOK, Running
<1>10. \A d \in Calls, q \in Publishers : locked[q] = d => locked'[q] = d
  BY <1>0, <1>1, <1>3, NoneIsNone, CallsDiffer DEF InboxTypeOK
<1>11. readAt[p] # None \/ locked'[p] = c
  BY <1>0, <1>1, <1>3 DEF InboxTypeOK
<1>12. \A d \in Calls : asked[d] \subseteq Publishers
  BY <1>0 DEF InboxTypeOK, Rows
<1>13. \A d \in Calls : Marking(d)'
  <2>1. ASSUME NEW d \in Calls, d # c PROVE Marking(d)'
    BY <1>0, <1>1, <1>5, <1>10, <1>12, <2>1 DEF Marking
  <2>2. Marking(c)'
    <3>1. \A q \in asked[c] : readAt[q] # None \/ locked[q] = c \/ In(q, todo)
      BY <1>0, <1>1 DEF Marking, Running, todo
    <3>2. \A q \in asked[c] : readAt[q] # None \/ locked'[q] = c \/ In(q, Tail(todo))
      BY <1>4, <1>10, <1>11, <1>12, <3>1
    <3> QED BY <1>1, <1>7, <3>2 DEF Marking
  <2> QED BY <2>1, <2>2
<1> QED BY <1>0, <1>1, <1>8, <1>9, <1>13, CallStep DEF InboxTypeOK

LEMMA EndUpdateKeeps == ASSUME InboxInv, NEW c \in Calls, EndUpdate(c) PROVE InboxInv'
<1>0. InboxTypeOK /\ \A d \in Calls : Marking(d)
  BY DEF InboxInv, MarksInv
<1> DEFINE next == IF does[c].page = None THEN "commit" ELSE "upsert"
<1>1. /\ step[c] = "update" /\ does[c].rows = <<>>
      /\ step' = [step EXCEPT ![c] = next]
      /\ UNCHANGED <<vars, walk, readAt, locked, activity, upsert, does, asked>>
  BY DEF EndUpdate, Move
<1>2. next \in Running /\ next # "idle" /\ next # "done" /\ next # "update"
      /\ (next = "upsert" => does[c].page # None)
  BY DEF Running
<1> HIDE DEF next
<1>3. \A d \in Calls : step'[d] = IF d = c THEN next ELSE step[d]
  BY <1>0, <1>1 DEF InboxTypeOK
<1>4. \A d \in Calls : Marking(d)'
  <2>1. ASSUME NEW d \in Calls, d # c PROVE Marking(d)'
    BY <1>0, <1>1, <1>3, <2>1 DEF Marking
  <2>2. Marking(c)'
    BY <1>0, <1>1, <1>2, <1>3 DEF Marking, Running
  <2> QED BY <2>1, <2>2
<1>5. /\ step' \in [Calls -> Running \cup {"idle", "done", "failed"}]
      /\ \A p \in Publishers : locked[p] # None =>
           step'[locked[p]] \in Running /\ readAt[p] = None /\ p \in Rows
      /\ \A h \in Pages : upsert[h] # None => step'[upsert[h]] = "commit"
  BY <1>0, <1>1, <1>2 DEF InboxTypeOK
<1> QED BY <1>0, <1>1, <1>4, <1>5, CallStep DEF InboxTypeOK

LEMMA UpsertKeeps == ASSUME InboxInv, NEW c \in Calls, Upsert(c) PROVE InboxInv'
<1>0. InboxTypeOK /\ \A d \in Calls : Marking(d)
  BY DEF InboxInv, MarksInv
<1> DEFINE g == does[c].page
<1>1. /\ step[c] = "upsert" /\ upsert' = [upsert EXCEPT ![g] = c]
      /\ step' = [step EXCEPT ![c] = "commit"]
      /\ UNCHANGED <<vars, walk, readAt, locked, activity, does, asked>>
  BY DEF Upsert, Move
<1>2. g \in Pages
  BY <1>0, <1>1 DEF InboxTypeOK, Work, Marking
<1>3. \A d \in Calls : Marking(d)'
  <2>1. ASSUME NEW d \in Calls, d # c PROVE Marking(d)'
    BY <1>0, <1>1, <2>1 DEF Marking, InboxTypeOK
  <2>2. Marking(c)'
    BY <1>0, <1>1 DEF Marking, Running, InboxTypeOK
  <2> QED BY <2>1, <2>2
<1>4. /\ step' \in [Calls -> Running \cup {"idle", "done", "failed"}]
      /\ \A p \in Publishers : locked[p] # None =>
           step'[locked[p]] \in Running /\ readAt[p] = None /\ p \in Rows
      /\ upsert' \in [Pages -> Calls \cup {None}]
      /\ \A h \in Pages : upsert'[h] # None => step'[upsert'[h]] = "commit"
  BY <1>0, <1>1, <1>2 DEF InboxTypeOK, Running
<1> QED BY <1>0, <1>1, <1>3, <1>4, CallStep DEF InboxTypeOK

LEMMA ReleaseKeeps ==
  ASSUME InboxInv, NEW c \in Calls, NEW answer \in {"done", "failed"}, Release(c, answer),
         step[c] \in Running,
         answer = "done" =>
           /\ step[c] = "commit" /\ UNCHANGED asked
           /\ readAt' = [p \in Publishers |-> IF locked[p] = c THEN c ELSE readAt[p]]
           /\ activity' = [g \in Pages |-> activity[g] \/ upsert[g] = c],
         answer = "failed" =>
           UNCHANGED <<readAt, activity>> /\ asked' = [asked EXCEPT ![c] = {}]
  PROVE  InboxInv'
<1>0. InboxTypeOK /\ \A d \in Calls : Marking(d)
  BY DEF InboxInv, MarksInv
<1>1. /\ locked' = [p \in Publishers |-> IF locked[p] = c THEN None ELSE locked[p]]
      /\ upsert' = [g \in Pages |-> IF upsert[g] = c THEN None ELSE upsert[g]]
      /\ step' = [step EXCEPT ![c] = answer]
      /\ does' = [does EXCEPT ![c] = Nothing]
      /\ UNCHANGED <<vars, walk>>
  BY DEF Release, Move
<1>2. /\ \A d \in Calls : d # c => step'[d] = step[d] /\ does'[d] = does[d]
      /\ step'[c] = answer /\ answer \notin Running /\ answer # "idle"
      /\ answer \notin {"upsert", "commit", "update"}
  BY <1>0, <1>1 DEF InboxTypeOK, Running
<1>3. /\ readAt' \in [Publishers -> Calls \cup {None}]
      /\ \A p \in Publishers : readAt'[p] # readAt[p] => locked[p] = c
      /\ \A p \in Publishers : readAt[p] # None => readAt'[p] # None
  BY <1>0, CallsDiffer DEF InboxTypeOK
<1>4. /\ locked' \in [Publishers -> Calls \cup {None}]
      /\ \A p \in Publishers : locked'[p] # None =>
           step'[locked'[p]] \in Running /\ readAt'[p] = None /\ p \in Rows
  <2>1. \A p \in Publishers : locked'[p] # None => locked'[p] = locked[p] /\ locked[p] # c
    BY <1>1
  <2>2. \A p \in Publishers : locked'[p] # None => readAt'[p] = None
    BY <1>0, <1>3, <2>1 DEF InboxTypeOK
  <2> QED BY <1>0, <1>1, <1>2, <2>1, <2>2 DEF InboxTypeOK
<1>5. /\ upsert' \in [Pages -> Calls \cup {None}]
      /\ \A g \in Pages : upsert'[g] # None => step'[upsert'[g]] = "commit"
  BY <1>0, <1>1, <1>2 DEF InboxTypeOK
<1>6. activity' \in [Pages -> BOOLEAN]
  <2>1. CASE answer = "done"
    BY <2>1
  <2>2. CASE answer = "failed"
    BY <1>0, <2>2 DEF InboxTypeOK
  <2> QED BY <2>1, <2>2
<1>7. step' \in [Calls -> Running \cup {"idle", "done", "failed"}]
  BY <1>0, <1>1 DEF InboxTypeOK
<1>8. does' \in [Calls -> Work]
  <2>1. Nothing \in Work
    BY DEF Nothing, Work
  <2> QED BY <1>0, <1>1, <2>1 DEF InboxTypeOK
<1>9. asked' \in [Calls -> SUBSET Rows] /\ \A d \in Calls : d # c => asked'[d] = asked[d]
  BY <1>0 DEF InboxTypeOK
<1>10. \A d \in Calls : Marking(d)'
  <2>1. ASSUME NEW d \in Calls, d # c PROVE Marking(d)'
    <3>1. \A p \in asked[d] : p \in Publishers /\ (locked[p] = d => locked'[p] = d)
      BY <1>0, <1>1, <2>1 DEF InboxTypeOK, Rows
    <3> QED BY <1>0, <1>2, <1>3, <1>9, <2>1, <3>1 DEF Marking
  <2>2. Marking(c)'
    <3>1. CASE answer = "done"
      <4>1. \A p \in asked[c] : readAt[p] # None \/ locked[p] = c
        BY <1>0, <3>1 DEF Marking, In
      <4>2. \A p \in asked[c] : readAt'[p] # None
        BY <1>0, <3>1, <4>1, CallsDiffer DEF InboxTypeOK, Rows
      <4> QED BY <1>2, <3>1, <4>2 DEF Marking
    <3>2. CASE answer = "failed"
      BY <1>0, <1>2, <3>2 DEF Marking, InboxTypeOK
    <3> QED BY <3>1, <3>2
  <2> QED BY <2>1, <2>2
<1> QED BY <1>1, <1>3, <1>4, <1>5, <1>6, <1>7, <1>8, <1>9, <1>10, CallStep

LEMMA MarkEndsKeep ==
  ASSUME InboxInv, NEW c \in Calls, MarkCommit(c) \/ MarkAbort(c)
  PROVE  InboxInv'
BY ReleaseKeeps DEF MarkCommit, MarkAbort, Running

-----------------------------------------------------------------------------
LEMMA InboxStutters == InboxInv /\ UNCHANGED all => InboxInv'
<1> SUFFICES ASSUME InboxInv, UNCHANGED all PROVE InboxInv'
  OBVIOUS
<1>1. /\ UNCHANGED <<vars, readAt, locked, activity, upsert, step, does, asked>>
      /\ UNCHANGED <<listed, cursor, pivots, gap>>
  BY DEF all, inbox, walk, marks
<1>2. \A c \in Calls : Marking(c)'
  BY <1>1 DEF InboxInv, MarksInv, Marking
<1> QED BY <1>1, <1>2, CallStep DEF InboxInv, MarksInv, InboxTypeOK, walk

LEMMA InboxStep == InboxInv /\ [InboxNext]_all => InboxInv'
<1> SUFFICES ASSUME InboxInv, [InboxNext]_all PROVE InboxInv'
  OBVIOUS
<1>1. CASE HubStep \/ (\E s \in Streams : LeaveStep(s)) \/ RestartStep \/ List \/ ListOn
  BY <1>1, HubStepKeeps, LeaveStepKeeps, RestartStepKeeps, ListKeeps, ListOnKeeps
<1>2. ASSUME NEW c \in Calls, MarkAll(c) \/ MarkIds(c) \/ Acknowledge(c) PROVE InboxInv'
  BY <1>2, FindKeeps DEF MarkAll, MarkIds, Acknowledge
<1>3. ASSUME NEW c \in Calls, MarkNone(c) \/ MarkStep(c) \/ MarkAbort(c) PROVE InboxInv'
  BY <1>3, MarkNoneKeeps, UpdateKeeps, EndUpdateKeeps, UpsertKeeps, MarkEndsKeep DEF MarkStep
<1>4. CASE UNCHANGED all
  BY <1>4, InboxStutters
<1> QED BY <1>1, <1>2, <1>3, <1>4 DEF InboxNext

\* The inductive invariant above holds, for any number of rows, calls and streams.
THEOREM InboxInvariant == InboxSpec => []InboxInv
BY InboxInitially, InboxStep, PTL DEF InboxSpec

\* A row that is locked is unread and its transaction still runs.
THEOREM InboxTypeCorrect == InboxSpec => []InboxTypeOK
<1>1. InboxInv => InboxTypeOK
  BY DEF InboxInv, MarksInv
<1> QED BY <1>1, InboxInvariant, PTL

\* update_notification_reads: what a call that answered was asked to mark is read.
THEOREM AskedIsRead == InboxSpec => []MarkedIsRead
<1>1. InboxInv => MarkedIsRead
  BY DEF InboxInv, MarksInv, Marking, MarkedIsRead
<1> QED BY <1>1, InboxInvariant, PTL

\* The WHERE read_at IS NULL of every UPDATE: the first read_at stays.
THEOREM FirstReadStays == InboxSpec => FirstReadKept
<1> DEFINE A == \A p \in Publishers : readAt[p] # None => readAt'[p] = readAt[p]
<1>1. InboxInv /\ [InboxNext]_all => [A]_all
  <2> SUFFICES ASSUME InboxInv, InboxNext PROVE A
    OBVIOUS
  <2>1. ASSUME NEW c \in Calls, MarkCommit(c) PROVE A
    <3>1. readAt' = [p \in Publishers |-> IF locked[p] = c THEN c ELSE readAt[p]]
      BY <2>1 DEF MarkCommit
    <3>2. \A p \in Publishers : locked[p] # None => readAt[p] = None
      BY DEF InboxInv, MarksInv, InboxTypeOK
    <3>3. c # None
      BY CallsDiffer
    <3> QED BY <3>1, <3>2, <3>3
  <2>2. CASE UNCHANGED readAt
    BY <2>2
  <2>3. CASE HubStep \/ (\E s \in Streams : LeaveStep(s)) \/ RestartStep \/ List \/ ListOn
    BY <2>2, <2>3 DEF HubStep, LeaveStep, RestartStep, List, ListOn, inbox, marks
  <2>4. ASSUME NEW c \in Calls,
               MarkAll(c) \/ MarkIds(c) \/ MarkNone(c) \/ Acknowledge(c) \/ MarkAbort(c)
        PROVE  A
    BY <2>2, <2>4 DEF MarkAll, MarkIds, MarkNone, Acknowledge, Find, MarkAbort
  <2>5. ASSUME NEW c \in Calls, Update(c) \/ EndUpdate(c) \/ Upsert(c) PROVE A
    BY <2>2, <2>5 DEF Update, EndUpdate, Upsert
  <2> QED BY <2>1, <2>3, <2>4, <2>5 DEF InboxNext, MarkStep
<1> QED BY <1>1, InboxInvariant, PTL DEF InboxSpec, FirstReadKept

\* GET /v1/notifications, page by page, and its stream together: what is committed and
\* not older than the pages so far is on them or was put to the stream, but for the
\* pivots and for what was under way when the stream and the first page were read.
THEOREM NothingIsMissed == InboxSpec => []NothingMissed
<1>1. InboxInv => NothingMissed
  <2> SUFFICES ASSUME InboxInv, NEW s \in Streams, sse[s] \in Open, gap[s] # None,
                      NEW p \in Rows \ (listed \cup pivots),
                      p \notin gap[s], ~(cursor # None /\ Newer(cursor, p))
               PROVE  Put(p, s)
    BY DEF NothingMissed, Put, In
  <2>1. /\ p \in Publishers /\ pc[p] = "committed" /\ Viewer \in to[p]
        /\ reader[s] = Viewer /\ TypeOK /\ Gapped(s)
    BY DEF Rows, InboxInv, Gapped, IInv
  <2>2. PICK k \in DOMAIN flushed : flushed[k] = p
    BY <2>1 DEF InboxInv, IInv, FlushedOnce, In
  <2>3. ~(k \in 1..since[s])
    BY <2>1, <2>2 DEF Gapped, Passed, Earlier
  <2>4. k > since[s]
    BY <2>1, <2>2, <2>3 DEF TypeOK
  <2>5. Due(p, s)
    BY <2>1, <2>2, <2>4 DEF Due
  <2> QED BY <2>1, <2>5 DEF InboxInv, IInv, Reached
<1> QED BY <1>1, InboxInvariant, PTL

-----------------------------------------------------------------------------
\* Inbox composes NotifyHub: it adds to the hub and takes nothing from it.

\* Nothing that the inbox adds moves the hub otherwise than the hub moves itself:
\* notify_hub and notify_users know nothing of read_at and of who marks it.
THEOREM InboxKeepsTheHub == InboxSpec => [][Next]_vars
<1>1. [InboxNext]_all => [Next]_vars
  <2> SUFFICES ASSUME [InboxNext]_all PROVE [Next]_vars
    OBVIOUS
  <2>1. CASE HubStep
    BY <2>1 DEF HubStep, Next, Generator
  <2>2. ASSUME NEW s \in Streams, LeaveStep(s) PROVE Next
    BY <2>2 DEF LeaveStep, Next, Generator
  <2>3. CASE RestartStep
    BY <2>3 DEF RestartStep, Next
  <2>4. CASE List \/ ListOn
    BY <2>4 DEF List, ListOn
  <2>5. ASSUME NEW c \in Calls,
               MarkAll(c) \/ MarkIds(c) \/ MarkNone(c) \/ Acknowledge(c)
        PROVE  UNCHANGED vars
    BY <2>5 DEF MarkAll, MarkIds, MarkNone, Acknowledge, Find
  <2>6. ASSUME NEW c \in Calls, MarkStep(c) \/ MarkAbort(c) PROVE UNCHANGED vars
    BY <2>6 DEF MarkStep, Update, EndUpdate, Upsert, MarkCommit, MarkAbort, Release
  <2>7. CASE UNCHANGED all
    BY <2>7 DEF all
  <2> QED BY <2>1, <2>2, <2>3, <2>4, <2>5, <2>6, <2>7 DEF InboxNext
<1> QED BY <1>1, PTL DEF InboxSpec

\* The events of a page reach the client in the order of the ids that it lists and
\* marks, rows from before the worker's start included.
THEOREM InboxInOrder == InboxSpec => []PageEventsInOrder
<1>1. InboxInv => PageEventsInOrder
  BY EventsOrdered DEF InboxInv
<1> QED BY <1>1, InboxInvariant, PTL

\* A row of the inbox that had its id after a stream opened was put to it once.
THEOREM InboxDeliversOnce == InboxSpec => []CommittedReachesOpenStreams
<1>1. InboxInv => CommittedReachesOpenStreams
  BY EventsOnce DEF InboxInv
<1> QED BY <1>1, InboxInvariant, PTL

-----------------------------------------------------------------------------
\* Circles of waits.

\* c cannot run its next statement before d's transaction ends.
WaitsFor(c, d) ==
  /\ c # d
  /\ \/ step[c] = "update" /\ does[c].rows # <<>> /\ locked[Head(does[c].rows)] = d
     \/ step[c] = "upsert" /\ upsert[does[c].page] = d

\* Calls that wait for each other in a circle are all in their UPDATEs.
EveryCircleIsACycle ==
  \A C \in (SUBSET Calls) \ {{}} :
    (\A c \in C : (\E d \in C : WaitsFor(c, d)) /\ (\E d \in C : WaitsFor(d, c)))
      => Cycle(C)

\* Of all circles that calls can wait in, BreakCycle leaves out none: who has the row of
\* source_activity_reads has nothing left to wait for, so MarksAnswer needs PostgreSQL's
\* deadlock detection only between the UPDATEs.
THEOREM CirclesAreCycles == InboxSpec => []EveryCircleIsACycle
<1>1. ASSUME InboxInv PROVE EveryCircleIsACycle
  <2> SUFFICES ASSUME NEW C \in SUBSET Calls, C # {},
                      \A c \in C : \E d \in C : WaitsFor(c, d)
               PROVE  Cycle(C)
    BY DEF EveryCircleIsACycle
  <2>1. InboxTypeOK /\ \A c \in C : Marking(c)
    BY <1>1 DEF InboxInv, MarksInv
  <2>2. ASSUME NEW c \in C, step[c] = "upsert" PROVE FALSE
    <3>1. PICK d \in C : upsert[does[c].page] = d
      BY <2>2 DEF WaitsFor
    <3>2. does[c].page \in Pages
      BY <2>1, <2>2 DEF InboxTypeOK, Work, Marking
    <3>3. step[d] = "commit"
      BY <2>1, <3>1, <3>2, CallsDiffer DEF InboxTypeOK
    <3> QED BY <3>3 DEF WaitsFor
  <2> QED BY <2>2 DEF WaitsFor, Cycle
<1> QED BY <1>1, InboxInvariant, PTL
=============================================================================
