---------------------------- MODULE SurfaceProofs ----------------------------
(***************************************************************************)
(* Proofs about Surface for any users, requests, jobs, notes and followers.*)
(*                                                                         *)
(* Only the holder of the page's row is past its increment of the revision *)
(* and it commits the revision that it read there, plus one; everything a  *)
(* body was read from is therefore as it was while the revision is.        *)
(*                                                                         *)
(* The tag covers the revision; a body, however many commits fell between  *)
(* its reads, is right about title, notes and handles for as long as the   *)
(* revision it starts with is the page's.                                  *)
(***************************************************************************)
EXTENDS Surface, TLAPS

Locals == {"kind", "user", "row", "parent", "note", "byUrl", "anchored", "notify",
           "bumped", "marks", "offered", "got"}

\* Steps of requests that will write a row of their own or about another one.
JobSteps == {"bump_job", "write_job"}
RowSteps == {"refresh_pin", "bump_note", "update_note", "bump_unpin", "delete_pin", "parent",
             "bump_comment", "insert_comment", "bump_remove", "set_deleted", "bump_edit",
             "set_body", "find_reaction", "anchor", "beneficiary", "delete_reaction",
             "bump_unreact", "end_unreact", "bump_react", "insert_reaction"}
BumpSteps == {"bump_pin", "bump_note", "bump_unpin", "bump_comment", "bump_remove", "bump_edit",
              "bump_unreact", "bump_react", "bump_job"}
\* Steps that only the holder of the page's row takes, and those it may take.
Locked == {"insert_pin", "update_note", "delete_pin", "insert_comment", "set_deleted",
           "set_body", "write_job"}
MayLock == Locked \cup {"end_unreact", "insert_reaction"}

\* Every task has its local variables.
LocalShape ==
  /\ req = [p \in Tasks |-> req[p]]
  /\ \A p \in Tasks : DOMAIN req[p] = Locals /\ req[p] = [f \in Locals |-> req[p][f]]

\* What the local variables of a task hold where they are used.
LocalTyped(p) ==
  /\ req[p].user \in Users \cup {None}
  /\ req[p].row \in Rows \cup {None}
  /\ req[p].note \in Notes \cup {None}
  /\ req[p].notify \subseteq Users
  /\ req[p].bumped \in Nat
  /\ pc[p] \in Busy \ JobSteps => p \in Requests /\ req[p].user \in Users
  /\ pc[p] \in JobSteps => p \in Jobs
  /\ pc[p] \in RowSteps => req[p].row \in Rows
  /\ pc[p] \in {"bump_remove", "set_deleted"} => req[p].row \in comments

LocalsTyped == \A p \in Tasks : LocalTyped(p)

\* A row that is committed has an owner, and who inserted it has answered.
RowsOwned ==
  \A x \in pins \cup comments :
    /\ owner[x] \in Users
    /\ x \in Requests => pc[x] \in Answers

\* The page's row is locked by one past its increment, which it is about to
\* commit; the others are not past theirs.
RevisionLocked ==
  /\ \A p \in Tasks : rowLock = p => pc[p] \in MayLock /\ req[p].bumped = rev + 1
  /\ \A p \in Tasks : pc[p] \in Locked => rowLock = p

IInv == TypeOK /\ LocalShape /\ LocalsTyped /\ RowsOwned /\ RevisionLocked /\ PageCoherent

-----------------------------------------------------------------------------
LEMMA BlankIs ==
  /\ DOMAIN Blank = Locals /\ Blank = [f \in Locals |-> Blank[f]]
  /\ Blank.user = None /\ Blank.row = None /\ Blank.note = None
  /\ Blank.notify = {} /\ Blank.bumped = 0
BY DEF Blank, Locals

\* Assigning one local variable.
LEMMA SetShape ==
  ASSUME LocalShape, NEW p \in Tasks, NEW f \in Locals, NEW v, Set(p, f, v)
  PROVE  /\ LocalShape'
         /\ req'[p][f] = v
         /\ \A g \in Locals \ {f} : req'[p][g] = req[p][g]
         /\ \A q \in Tasks \ {p} : req'[q] = req[q]
BY DEF LocalShape, Set

\* Assigning all of them.
LEMMA AllShape ==
  ASSUME LocalShape, NEW p \in Tasks, NEW r, req' = [req EXCEPT ![p] = r],
         DOMAIN r = Locals, r = [f \in Locals |-> r[f]]
  PROVE  /\ LocalShape'
         /\ req'[p] = r
         /\ \A q \in Tasks \ {p} : req'[q] = req[q]
BY DEF LocalShape

LEMMA GotoType ==
  ASSUME TypeOK, NEW p \in Tasks, NEW label \in Busy \cup Answers, Goto(p, label)
  PROVE  /\ pc' \in [Tasks -> {"idle"} \cup Busy \cup Answers]
         /\ pc'[p] = label
         /\ \A q \in Tasks \ {p} : pc'[q] = pc[q]
BY DEF TypeOK, Goto

LEMMA LabelsDiffer ==
  /\ \A label \in Answers : label \notin Busy
  /\ "idle" \notin Busy \cup Answers
  /\ JobSteps \cup RowSteps \cup BumpSteps \cup MayLock \subseteq Busy
  /\ \A label \in MayLock : label \notin BumpSteps
  /\ Locked \subseteq MayLock
  /\ {"bump_remove", "set_deleted"} \subseteq RowSteps
BY DEF Busy, Answers, JobSteps, RowSteps, BumpSteps, MayLock, Locked

\* A step that moves p on and leaves the committed state and the page's lock.
LEMMA MoveHolds ==
  ASSUME IInv, NEW p \in Tasks, NEW label \in Busy \cup Answers,
         pc[p] \notin Answers \cup MayLock, label \notin Locked,
         Goto(p, label), UNCHANGED <<table, rowLock>>,
         queued' \in Nat, quiet' \subseteq Requests, maker' \in Requests \cup {None},
         toggling' \in [Users \X Rows -> Requests \cup {None}],
         LocalShape', LocalTyped(p)', \A q \in Tasks \ {p} : req'[q] = req[q]
  PROVE  IInv'
<1>1. /\ TypeOK /\ LocalsTyped /\ RowsOwned /\ RevisionLocked /\ PageCoherent
  BY DEF IInv
<1>2. /\ pc' \in [Tasks -> {"idle"} \cup Busy \cup Answers]
      /\ pc'[p] = label /\ \A q \in Tasks \ {p} : pc'[q] = pc[q]
  BY <1>1, GotoType
<1>3. TypeOK'
  BY <1>1, <1>2 DEF TypeOK, table, rows
<1>4. LocalsTyped'
  <2> SUFFICES ASSUME NEW q \in Tasks, q # p PROVE LocalTyped(q)'
    BY DEF LocalsTyped
  <2>1. pc'[q] = pc[q] /\ req'[q] = req[q] /\ comments' = comments /\ LocalTyped(q)
    BY <1>1, <1>2 DEF LocalsTyped, table, rows
  <2> QED BY <2>1 DEF LocalTyped
<1>5. RowsOwned'
  <2> SUFFICES ASSUME NEW x \in pins \cup comments
               PROVE  owner[x] \in Users /\ (x \in Requests => pc'[x] \in Answers)
    BY DEF RowsOwned, table, rows
  <2>1. owner[x] \in Users /\ (x \in Requests => pc[x] \in Answers)
    BY <1>1 DEF RowsOwned
  <2> QED BY <1>2, <2>1 DEF Tasks
<1>6. RevisionLocked'
  <2>1. UNCHANGED <<rowLock, rev>> /\ rowLock # p
    BY <1>1 DEF RevisionLocked, table
  <2> QED BY <1>1, <1>2, <2>1 DEF RevisionLocked
<1>7. PageCoherent'
  BY <1>1 DEF PageCoherent, table, rows
<1> QED BY <1>3, <1>4, <1>5, <1>6, <1>7 DEF IInv

LEMMA EndType ==
  ASSUME TypeOK, LocalShape, NEW p \in Tasks, NEW answer \in Answers, End(p, answer)
  PROVE  /\ maker' \in Requests \cup {None} /\ rowLock' \in Tasks \cup {None}
         /\ toggling' \in [Users \X Rows -> Requests \cup {None}]
         /\ rowLock' # p /\ \A q \in Tasks \ {p} : rowLock' = q <=> rowLock = q
         /\ pc' \in [Tasks -> {"idle"} \cup Busy \cup Answers]
         /\ pc'[p] = answer /\ \A q \in Tasks \ {p} : pc'[q] = pc[q]
         /\ LocalShape'
         /\ req'[p] = Blank /\ \A q \in Tasks \ {p} : req'[q] = req[q]
<1>1. maker' \in Requests \cup {None} /\ rowLock' \in Tasks \cup {None}
  BY DEF End, TypeOK
<1>2. toggling' \in [Users \X Rows -> Requests \cup {None}]
  BY DEF End, TypeOK
<1>3. rowLock' # p /\ \A q \in Tasks \ {p} : rowLock' = q <=> rowLock = q
  BY TasksDiffer DEF End
<1>4. Goto(p, answer) /\ req' = [req EXCEPT ![p] = Blank]
  BY DEF End
<1> QED BY <1>1, <1>2, <1>3, <1>4, GotoType, AllShape, BlankIs

\* A transaction ends, with or without having changed the page; what matters is
\* what becomes of the tables.
LEMMA EndHolds ==
  ASSUME IInv, NEW p \in Tasks, NEW answer \in Answers, pc[p] \in Busy, End(p, answer),
         source' \in BOOLEAN, queued' \in Nat, quiet' \subseteq Requests,
         rev' \in Nat, rowLock = p \/ rev' = rev,
         meta' \in Jobs \cup {None},
         pins' \subseteq Rows, comments' \subseteq Rows, pins' \cap comments' = {},
         comments \subseteq comments', removed' \subseteq comments',
         pins' \cup comments' \subseteq pins \cup comments \cup {p},
         p \in pins' \cup comments' => owner'[p] \in Users,
         \A x \in Rows \ {p} : owner'[x] = owner[x],
         owner' \in [Rows -> Users \cup {None}],
         under' \in [Rows -> Rows \cup {None}],
         notes' \in [Rows -> Notes \cup {None}],
         reactions' \subseteq Users \X Rows, unread' \subseteq Users \X Rows,
         PageCoherent'
  PROVE  IInv'
<1>1. /\ TypeOK /\ LocalShape /\ LocalsTyped /\ RowsOwned /\ RevisionLocked
  BY DEF IInv
<1>2. /\ maker' \in Requests \cup {None} /\ rowLock' \in Tasks \cup {None}
      /\ toggling' \in [Users \X Rows -> Requests \cup {None}]
      /\ rowLock' # p /\ \A q \in Tasks \ {p} : rowLock' = q <=> rowLock = q
      /\ pc' \in [Tasks -> {"idle"} \cup Busy \cup Answers]
      /\ pc'[p] = answer /\ \A q \in Tasks \ {p} : pc'[q] = pc[q]
      /\ LocalShape'
      /\ req'[p] = Blank /\ \A q \in Tasks \ {p} : req'[q] = req[q]
  BY <1>1, EndType
<1>3. TypeOK'
  BY <1>2 DEF TypeOK
<1>4. LocalsTyped'
  <2>1. LocalTyped(p)'
    <3>1. pc'[p] \notin Busy /\ pc'[p] \notin JobSteps /\ pc'[p] \notin RowSteps
      BY <1>2, LabelsDiffer
    <3>2. /\ req'[p].user = None /\ req'[p].row = None /\ req'[p].note = None
          /\ req'[p].notify = {} /\ req'[p].bumped = 0
      BY <1>2, BlankIs
    <3>3. pc'[p] \notin {"bump_remove", "set_deleted"}
      BY <3>1, LabelsDiffer
    <3> QED BY <3>1, <3>2, <3>3 DEF LocalTyped
  <2>2. ASSUME NEW q \in Tasks, q # p PROVE LocalTyped(q)'
    <3>1. pc'[q] = pc[q] /\ req'[q] = req[q] /\ LocalTyped(q)
      BY <1>1, <1>2, <2>2 DEF LocalsTyped
    <3> QED BY <3>1 DEF LocalTyped
  <2> QED BY <2>1, <2>2 DEF LocalsTyped
<1>5. RowsOwned'
  <2> SUFFICES ASSUME NEW x \in pins' \cup comments'
               PROVE  owner'[x] \in Users /\ (x \in Requests => pc'[x] \in Answers)
    BY DEF RowsOwned
  <2>1. CASE x = p
    BY <1>2, <2>1
  <2>2. CASE x # p
    <3>1. owner[x] \in Users /\ (x \in Requests => pc[x] \in Answers)
      BY <1>1, <2>2 DEF RowsOwned
    <3> QED BY <1>2, <2>2, <3>1 DEF Tasks
  <2> QED BY <2>1, <2>2
<1>6. RevisionLocked'
  <2>1. ASSUME NEW q \in Tasks, rowLock' = q
        PROVE  pc'[q] \in MayLock /\ req'[q].bumped = rev' + 1
    <3>1. q # p /\ rowLock = q /\ rev' = rev
      BY <1>2, <2>1
    <3> QED BY <1>1, <1>2, <3>1 DEF RevisionLocked
  <2>2. ASSUME NEW q \in Tasks, pc'[q] \in Locked PROVE rowLock' = q
    <3>1. q # p
      BY <1>2, <2>2, LabelsDiffer
    <3> QED BY <1>1, <1>2, <2>2, <3>1 DEF RevisionLocked
  <2> QED BY <2>1, <2>2 DEF RevisionLocked
<1> QED BY <1>2, <1>3, <1>4, <1>5, <1>6 DEF IInv

\* Nobody who is on the way has a row in the tables.
LEMMA NoRowYet ==
  ASSUME IInv, NEW p \in Tasks, pc[p] \notin Answers
  PROVE  p \in Requests => p \notin pins \cup comments
BY DEF IInv, RowsOwned

\* A transaction that ends without having changed the page.
LEMMA RollbackHolds ==
  ASSUME IInv, NEW p \in Tasks, NEW answer \in Answers, pc[p] \in Busy, Rollback(p, answer)
  PROVE  IInv'
<1>1. TypeOK /\ RowsOwned /\ PageCoherent
  BY DEF IInv
<1>2. End(p, answer) /\ UNCHANGED <<table, shared>>
  BY DEF Rollback
<1>3. PageCoherent'
  BY <1>1, <1>2 DEF PageCoherent, table, rows
<1>4. \A x \in pins' \cup comments' : owner'[x] \in Users
  BY <1>1, <1>2 DEF RowsOwned, table, rows
<1> QED BY <1>1, <1>2, <1>3, <1>4, EndHolds DEF TypeOK, table, rows, shared

LEMMA BumpHolds ==
  ASSUME IInv, NEW p \in Tasks, NEW b \in Bumps, Bump(p, b[1], b[2])
  PROVE  IInv'
<1>1. /\ TypeOK /\ LocalShape /\ LocalsTyped /\ RowsOwned /\ RevisionLocked /\ PageCoherent
  BY DEF IInv
<1>2. /\ b[1] \in BumpSteps /\ b[2] \in MayLock
      /\ b[1] \in JobSteps <=> b[2] \in JobSteps
      /\ b[2] \in RowSteps => b[1] \in RowSteps
      /\ b[2] \in {"bump_remove", "set_deleted"} => b[1] = "bump_remove"
  BY DEF Bumps, BumpSteps, MayLock, Locked, JobSteps, RowSteps
<1>3. /\ pc[p] = b[1] /\ rowLock = None /\ rowLock' = p
      /\ Set(p, "bumped", rev + 1) /\ Goto(p, b[2])
      /\ UNCHANGED <<table, shared, maker, toggling>>
  BY DEF Bump
<1>4. /\ LocalShape' /\ req'[p].bumped = rev + 1
      /\ req'[p].user = req[p].user /\ req'[p].row = req[p].row
      /\ req'[p].note = req[p].note /\ req'[p].notify = req[p].notify
      /\ \A q \in Tasks \ {p} : req'[q] = req[q]
  BY <1>1, <1>3, SetShape DEF Locals
<1>5. /\ pc' \in [Tasks -> {"idle"} \cup Busy \cup Answers]
      /\ pc'[p] = b[2] /\ \A q \in Tasks \ {p} : pc'[q] = pc[q]
  BY <1>1, <1>2, <1>3, GotoType, LabelsDiffer
<1>6. TypeOK'
  BY <1>1, <1>3, <1>5 DEF TypeOK, table, rows, shared
<1>7. LocalsTyped'
  <2>1. LocalTyped(p) /\ comments' = comments /\ rev \in Nat
    BY <1>1, <1>3 DEF LocalsTyped, table, rows, TypeOK
  <2>2. LocalTyped(p)'
    BY <1>2, <1>3, <1>4, <1>5, <2>1, LabelsDiffer DEF LocalTyped
  <2>3. ASSUME NEW q \in Tasks, q # p PROVE LocalTyped(q)'
    <3>1. pc'[q] = pc[q] /\ req'[q] = req[q] /\ LocalTyped(q)
      BY <1>1, <1>4, <1>5, <2>3 DEF LocalsTyped
    <3> QED BY <2>1, <3>1 DEF LocalTyped
  <2> QED BY <2>2, <2>3 DEF LocalsTyped
<1>8. RowsOwned'
  <2>1. p \in Requests => p \notin pins \cup comments
    BY <1>2, <1>3, NoRowYet, LabelsDiffer
  <2> QED BY <1>1, <1>3, <1>5, <2>1 DEF RowsOwned, table, rows, Tasks
<1>9. RevisionLocked'
  <2>1. rev' = rev
    BY <1>3 DEF table
  <2>2. ASSUME NEW q \in Tasks, q # p PROVE rowLock' # q /\ pc'[q] \notin Locked
    BY <1>1, <1>3, <1>5, <2>2, TasksDiffer DEF RevisionLocked
  <2> QED BY <1>2, <1>3, <1>4, <1>5, <2>1, <2>2 DEF RevisionLocked
<1>10. PageCoherent'
  BY <1>1, <1>3 DEF PageCoherent, table, rows
<1> QED BY <1>4, <1>6, <1>7, <1>8, <1>9, <1>10 DEF IInv

-----------------------------------------------------------------------------
\* A request begins and is refused, or a SELECT that assigns nothing.
LEMMA UnsetHolds ==
  ASSUME IInv, NEW p \in Requests, NEW label \in Busy \cup Answers,
         pc[p] \notin Answers \cup MayLock, label \notin Locked, label \notin JobSteps,
         label \notin {"bump_remove", "set_deleted"},
         Read(p, label), UNCHANGED req,
         label \in Busy => pc[p] \in Busy \ JobSteps,
         label \in RowSteps => pc[p] \in RowSteps
  PROVE  IInv'
<1>1. TypeOK /\ LocalShape /\ LocalTyped(p) /\ p \in Tasks
  BY DEF IInv, LocalsTyped, Tasks
<1>2. pc'[p] = label /\ req'[p] = req[p] /\ comments' = comments
  BY <1>1, GotoType DEF Read, table, rows
<1>3. LocalTyped(p)'
  BY <1>1, <1>2, LabelsDiffer DEF LocalTyped
<1>4. LocalShape' /\ \A q \in Tasks \ {p} : req'[q] = req[q]
  BY <1>1 DEF LocalShape
<1> QED BY <1>1, <1>3, <1>4, MoveHolds DEF Read, table, shared, locks, TypeOK

\* A request begins.
LEMMA BeginHolds ==
  ASSUME IInv, NEW p \in Requests, NEW label \in Busy \ (MayLock \cup JobSteps), pc[p] = "idle",
         Read(p, label), NEW r, req' = [req EXCEPT ![p] = r],
         DOMAIN r = Locals, r = [f \in Locals |-> r[f]],
         r.user \in Users, r.row \in Rows \cup {None}, r.note \in Notes \cup {None},
         r.notify \subseteq Users, r.bumped = 0,
         label \in RowSteps => r.row \in Rows,
         label \in {"bump_remove", "set_deleted"} => r.row \in comments
  PROVE  IInv'
<1>1. TypeOK /\ LocalShape /\ p \in Tasks
  BY DEF IInv, Tasks
<1>2. pc'[p] = label /\ comments' = comments
  BY <1>1, GotoType DEF Read, table, rows
<1>3. LocalShape' /\ req'[p] = r /\ \A q \in Tasks \ {p} : req'[q] = req[q]
  BY <1>1, AllShape
<1>4. LocalTyped(p)'
  BY <1>2, <1>3 DEF LocalTyped
<1> QED BY <1>1, <1>3, <1>4, MoveHolds, LabelsDiffer DEF Read, table, shared, locks, TypeOK

\* A SELECT that assigns the local variable f.
LEMMA SelectHolds ==
  ASSUME IInv, NEW p \in Tasks, NEW label \in Busy \ (MayLock \cup JobSteps),
         pc[p] \in Busy \ (MayLock \cup JobSteps),
         NEW f \in Locals \ {"user", "note", "bumped"}, NEW v, Set(p, f, v), Read(p, label),
         f = "row" => v \in Rows,
         f = "notify" => v \subseteq Users,
         label \in RowSteps => pc[p] \in RowSteps \/ f = "row",
         label \notin {"bump_remove", "set_deleted"}
  PROVE  IInv'
<1>1. TypeOK /\ LocalShape /\ LocalTyped(p)
  BY DEF IInv, LocalsTyped
<1>2. pc'[p] = label /\ comments' = comments
  BY <1>1, GotoType DEF Read, table, rows
<1>3. /\ LocalShape' /\ req'[p][f] = v
      /\ \A g \in Locals \ {f} : req'[p][g] = req[p][g]
      /\ \A q \in Tasks \ {p} : req'[q] = req[q]
  BY <1>1, SetShape
<1>4. /\ req'[p].user = req[p].user /\ req'[p].note = req[p].note /\ req'[p].bumped = req[p].bumped
      /\ req'[p].row = (IF f = "row" THEN v ELSE req[p].row)
      /\ req'[p].notify = (IF f = "notify" THEN v ELSE req[p].notify)
  BY <1>3 DEF Locals
<1>5. LocalTyped(p)'
  BY <1>1, <1>2, <1>4 DEF LocalTyped
<1>6. pc[p] \notin Answers \cup MayLock /\ label \notin Locked
  BY LabelsDiffer
<1> QED BY <1>1, <1>3, <1>5, <1>6, MoveHolds DEF Read, table, shared, locks, TypeOK

\* The transaction's own part of a commit.
LEMMA CommitType ==
  ASSUME IInv, NEW p \in Tasks, NEW answer \in Answers, Commit(p, answer)
  PROVE  /\ End(p, answer)
         /\ source' \in BOOLEAN /\ queued' \in Nat
         /\ rev' \in Nat /\ (rowLock = p \/ rev' = rev)
         /\ rowLock = p => rev' = rev + 1
<1>1. TypeOK /\ LocalTyped(p) /\ RevisionLocked
  BY DEF IInv, LocalsTyped
<1>2. End(p, answer) /\ source' \in BOOLEAN
  BY DEF Commit
<1>3. queued' \in Nat
  BY <1>1 DEF Commit, TypeOK
<1>4. rev' \in Nat /\ (rowLock = p \/ rev' = rev) /\ (rowLock = p => rev' = rev + 1)
  BY <1>1 DEF Commit, TypeOK, RevisionLocked
<1> QED BY <1>2, <1>3, <1>4

\* A commit that leaves the rows of pins and comments alone.
LEMMA CommitHolds ==
  ASSUME IInv, NEW p \in Tasks, NEW answer \in Answers, pc[p] \in Busy, Commit(p, answer),
         UNCHANGED rows, quiet' \subseteq Requests, meta' \in Jobs \cup {None},
         reactions' \subseteq Users \X Rows, unread' \subseteq Users \X Rows
  PROVE  IInv'
<1>1. TypeOK /\ RowsOwned /\ PageCoherent
  BY DEF IInv
<1>2. /\ End(p, answer) /\ source' \in BOOLEAN /\ queued' \in Nat
      /\ rev' \in Nat /\ (rowLock = p \/ rev' = rev)
  BY CommitType
<1>3. PageCoherent'
  BY <1>1 DEF PageCoherent, rows
<1>4. \A x \in pins' \cup comments' : owner'[x] \in Users
  BY <1>1 DEF RowsOwned, rows
<1> QED BY <1>1, <1>2, <1>3, <1>4, EndHolds DEF TypeOK, rows

-----------------------------------------------------------------------------
\* Where a request goes from its begin.
LEMMA FirstSteps ==
  /\ {"ensure", "find_pin", "bump_unpin", "bump_comment", "parent", "bump_remove", "bump_edit",
      "find_reaction", "ack"} \subseteq Busy \ (MayLock \cup JobSteps)
  /\ RowSteps \cap {"ensure", "find_pin", "ack"} = {}
BY DEF Busy, MayLock, Locked, JobSteps, RowSteps

LEMMA RefusedHolds ==
  ASSUME IInv, NEW p \in Requests, NEW label \in {"not_found", "forbidden", "ok"}, pc[p] = "idle",
         Read(p, label), UNCHANGED req
  PROVE  IInv'
<1>1. label \in Answers /\ label \notin Busy
  BY DEF Answers, Busy
<1>2. label \notin Locked /\ label \notin JobSteps /\ label \notin {"bump_remove", "set_deleted"}
      /\ label \notin RowSteps
  BY <1>1, LabelsDiffer
<1>3. pc[p] \notin Answers \cup MayLock
  BY LabelsDiffer
<1> QED BY <1>1, <1>2, <1>3, UnsetHolds

\* A request about the row x begins.
LEMMA RowBeginHolds ==
  ASSUME IInv, NEW p \in Requests, NEW u \in Users, NEW x \in Rows, pc[p] = "idle",
         NEW label \in {"bump_unpin", "bump_remove", "bump_edit", "find_reaction"}, Read(p, label),
         req' = [req EXCEPT ![p] = [Blank EXCEPT !.user = u, !.row = x]],
         label = "bump_remove" => x \in comments
  PROVE  IInv'
<1> DEFINE r == [Blank EXCEPT !.user = u, !.row = x]
<1>1. /\ DOMAIN r = Locals /\ r = [f \in Locals |-> r[f]]
      /\ r.user = u /\ r.row = x /\ r.note = None /\ r.notify = {} /\ r.bumped = 0
  BY DEF Blank, Locals
<1>2. req' = [req EXCEPT ![p] = r]
  OBVIOUS
<1>3. label \in Busy \ (MayLock \cup JobSteps) /\ label # "set_deleted"
  BY FirstSteps
<1> HIDE DEF r
<1> QED BY <1>1, <1>2, <1>3, BeginHolds

LEMMA BeginStep ==
  ASSUME IInv, NEW p \in Requests, Begin(p)
  PROVE  IInv'
<1>0. \A x \in pins \cup comments : x \in Rows /\ owner[x] \in Users
  BY DEF IInv, TypeOK, RowsOwned
<1>1. ASSUME NEW u \in Users, ResolveBegin(p, u) PROVE IInv'
  <2>1. PICK copy \in {None, cache[u]} :
          req' = [req EXCEPT ![p] =
            [Blank EXCEPT !.kind = "resolve", !.user = u, !.byUrl = TRUE, !.offered = copy]]
    BY <1>1 DEF ResolveBegin
  <2> DEFINE r == [Blank EXCEPT !.kind = "resolve", !.user = u, !.byUrl = TRUE, !.offered = copy]
  <2>2. /\ DOMAIN r = Locals /\ r = [f \in Locals |-> r[f]]
        /\ r.user = u /\ r.row = None /\ r.note = None /\ r.notify = {} /\ r.bumped = 0
    BY DEF Blank, Locals
  <2>3. pc[p] = "idle" /\ Read(p, "ensure") /\ req' = [req EXCEPT ![p] = r]
    BY <1>1, <2>1 DEF ResolveBegin, Start
  <2> HIDE DEF r
  <2> QED BY <2>2, <2>3, BeginHolds, FirstSteps
<1>2. ASSUME NEW u \in Users, AckBegin(p, u) PROVE IInv'
  <2> DEFINE r == [Blank EXCEPT !.user = u, !.marks = {n \in unread : n[1] = u}]
  <2>1. /\ DOMAIN r = Locals /\ r = [f \in Locals |-> r[f]]
        /\ r.user = u /\ r.row = None /\ r.note = None /\ r.notify = {} /\ r.bumped = 0
    BY DEF Blank, Locals
  <2>2. pc[p] = "idle" /\ Read(p, "ack") /\ req' = [req EXCEPT ![p] = r]
    BY <1>2 DEF AckBegin, Start
  <2> HIDE DEF r
  <2> QED BY <2>1, <2>2, BeginHolds, FirstSteps
<1>3. ASSUME NEW u \in Users, NEW n \in Notes \cup {None}, PinBegin(p, u, n) PROVE IInv'
  <2>0. pc[p] = "idle"
    BY <1>3 DEF PinBegin, Start
  <2> DEFINE byUrl == [Blank EXCEPT !.kind = "pin", !.user = u, !.note = n, !.byUrl = TRUE]
             byId  == [Blank EXCEPT !.kind = "pin", !.user = u, !.note = n]
  <2>1. /\ DOMAIN byUrl = Locals /\ byUrl = [f \in Locals |-> byUrl[f]]
        /\ byUrl.user = u /\ byUrl.row = None /\ byUrl.note = n
        /\ byUrl.notify = {} /\ byUrl.bumped = 0
    BY DEF Blank, Locals
  <2>a. /\ DOMAIN byId = Locals /\ byId = [f \in Locals |-> byId[f]]
        /\ byId.user = u /\ byId.row = None /\ byId.note = n
        /\ byId.notify = {} /\ byId.bumped = 0
    BY DEF Blank, Locals
  <2>2. CASE req' = [req EXCEPT ![p] = byUrl] /\ Read(p, "ensure")
    <3> HIDE DEF byUrl
    <3> QED BY <2>0, <2>1, <2>2, BeginHolds, FirstSteps
  <2>3. CASE req' = [req EXCEPT ![p] = byId] /\ Read(p, "find_pin")
    <3> HIDE DEF byId
    <3> QED BY <2>0, <2>a, <2>3, BeginHolds, FirstSteps
  <2>4. CASE UNCHANGED req /\ Read(p, "not_found")
    BY <2>0, <2>4, RefusedHolds
  <2> QED BY <1>3, <2>2, <2>3, <2>4 DEF PinBegin
<1>4. ASSUME NEW u \in Users, NEW x \in Rows, UnpinBegin(p, u, x) PROVE IInv'
  <2>0. pc[p] = "idle"
    BY <1>4 DEF UnpinBegin, Start
  <2>1. CASE req' = [req EXCEPT ![p] = [Blank EXCEPT !.user = u, !.row = x]] /\ Read(p, "bump_unpin")
    BY <2>0, <2>1, RowBeginHolds
  <2>2. CASE UNCHANGED req /\ (Read(p, "not_found") \/ Read(p, "forbidden"))
    BY <2>0, <2>2, RefusedHolds
  <2> QED BY <1>4, <2>1, <2>2 DEF UnpinBegin
<1>5. ASSUME NEW u \in Users, NEW x \in Rows, RemoveBegin(p, u, x) PROVE IInv'
  <2>0. pc[p] = "idle"
    BY <1>5 DEF RemoveBegin, Start
  <2>1. CASE /\ req' = [req EXCEPT ![p] = [Blank EXCEPT !.user = u, !.row = x]]
             /\ Read(p, "bump_remove") /\ x \in comments
    BY <2>0, <2>1, RowBeginHolds
  <2>2. CASE UNCHANGED req /\ (Read(p, "not_found") \/ Read(p, "ok"))
    BY <2>0, <2>2, RefusedHolds
  <2> QED BY <1>5, <2>1, <2>2 DEF RemoveBegin
<1>6. ASSUME NEW u \in Users, NEW x \in Rows, EditBegin(p, u, x) PROVE IInv'
  <2>0. pc[p] = "idle"
    BY <1>6 DEF EditBegin, Start
  <2>1. CASE req' = [req EXCEPT ![p] = [Blank EXCEPT !.user = u, !.row = x]] /\ Read(p, "bump_edit")
    BY <2>0, <2>1, RowBeginHolds
  <2>2. CASE UNCHANGED req /\ Read(p, "not_found")
    BY <2>0, <2>2, RefusedHolds
  <2> QED BY <1>6, <2>1, <2>2 DEF EditBegin
<1>7. ASSUME NEW u \in Users, NEW x \in Rows, ReactBegin(p, u, x) PROVE IInv'
  <2>0. pc[p] = "idle"
    BY <1>7 DEF ReactBegin, Start
  <2>1. CASE req' = [req EXCEPT ![p] = [Blank EXCEPT !.user = u, !.row = x]] /\ Read(p, "find_reaction")
    BY <2>0, <2>1, RowBeginHolds
  <2>2. CASE UNCHANGED req /\ Read(p, "not_found")
    BY <2>0, <2>2, RefusedHolds
  <2> QED BY <1>7, <2>1, <2>2 DEF ReactBegin
<1>8. ASSUME NEW u \in Users, NEW x \in Rows, NEW c \in Rows \cup {None}, CommentBegin(p, u, x, c)
      PROVE  IInv'
  <2>0. pc[p] = "idle"
    BY <1>8 DEF CommentBegin, Start
  <2> DEFINE s == [Blank EXCEPT !.user = u, !.row = x, !.parent = c, !.notify = {owner[x]}]
  <2>1. CASE /\ x \in pins /\ req' = [req EXCEPT ![p] = s]
             /\ Read(p, IF c = None THEN "bump_comment" ELSE "parent")
    <3>1. /\ DOMAIN s = Locals /\ s = [f \in Locals |-> s[f]]
          /\ s.user = u /\ s.row = x /\ s.note = None /\ s.notify = {owner[x]} /\ s.bumped = 0
      BY DEF Blank, Locals
    <3>2. req' = [req EXCEPT ![p] = s] /\ (Read(p, "bump_comment") \/ Read(p, "parent"))
      BY <2>1
    <3>3. s.notify \subseteq Users
      BY <1>0, <2>1, <3>1
    <3> HIDE DEF s
    <3> QED BY <2>0, <3>1, <3>2, <3>3, BeginHolds, FirstSteps
  <2>2. CASE UNCHANGED req /\ Read(p, "not_found")
    BY <2>0, <2>2, RefusedHolds
  <2> QED BY <1>8, <2>1, <2>2 DEF CommentBegin
<1> QED
  BY <1>1, <1>2, <1>3, <1>4, <1>5, <1>6, <1>7, <1>8 DEF Begin

-----------------------------------------------------------------------------
\* The SELECTs of requests on their way.
LEMMA SelectSteps ==
  /\ {"ensure", "insert_source", "find_pin", "pins", "comments", "reactions", "unread", "mine",
      "recent", "compare", "refresh_pin", "parent", "find_reaction", "anchor", "beneficiary",
      "bump_pin", "bump_note", "bump_comment", "bump_react", "ack", "delete_reaction",
      "bump_unreact"} \subseteq Busy \ (MayLock \cup JobSteps)
  /\ {"ensure", "insert_source", "find_pin", "pins", "comments", "reactions", "unread", "mine",
      "recent", "compare", "bump_pin", "ack"} \cap RowSteps = {}
  /\ {"refresh_pin", "bump_note", "parent", "bump_comment", "find_reaction", "anchor",
      "beneficiary", "delete_reaction", "bump_unreact", "bump_react", "insert_reaction",
      "end_unreact"} \subseteq RowSteps
  /\ {"end_unreact", "insert_reaction"} \subseteq Busy \ (Locked \cup JobSteps)
BY DEF Busy, MayLock, Locked, JobSteps, RowSteps

\* After ensure_source.
LEMMA FoundHolds ==
  ASSUME IInv, NEW p \in Requests, pc[p] \in {"ensure", "insert_source"}, NEW n, NEW t, Found(p, n, t),
         UNCHANGED <<table, queued, toggling, rowLock>>, maker' \in Requests \cup {None}
  PROVE  IInv'
<1>1. TypeOK /\ LocalShape /\ LocalTyped(p) /\ p \in Tasks
  BY DEF IInv, LocalsTyped, Tasks
<1>2. pc[p] \in Busy \ JobSteps /\ pc[p] \notin Answers \cup MayLock
  BY SelectSteps, LabelsDiffer
<1>3. CASE /\ req' = [req EXCEPT ![p].got = [@ EXCEPT !.rev = n, !.meta = t]]
           /\ quiet' = quiet \cup {p} /\ Goto(p, "pins")
  <2> DEFINE got == [req[p].got EXCEPT !.rev = n, !.meta = t]
  <2>1. Set(p, "got", got)
    BY <1>3 DEF Set
  <2> HIDE DEF got
  <2>2. /\ LocalShape' /\ \A g \in Locals \ {"got"} : req'[p][g] = req[p][g]
        /\ \A q \in Tasks \ {p} : req'[q] = req[q]
    BY <1>1, <2>1, SetShape DEF Locals
  <2>3. /\ req'[p].user = req[p].user /\ req'[p].row = req[p].row /\ req'[p].note = req[p].note
        /\ req'[p].notify = req[p].notify /\ req'[p].bumped = req[p].bumped
    BY <2>2 DEF Locals
  <2>4. pc'[p] = "pins" /\ comments' = comments
    BY <1>1, <1>3, SelectSteps, GotoType DEF table, rows
  <2>5. LocalTyped(p)'
    BY <1>1, <1>2, <2>3, <2>4, SelectSteps DEF LocalTyped
  <2> QED BY <1>1, <1>2, <1>3, <2>2, <2>5, SelectSteps, MoveHolds, LabelsDiffer DEF TypeOK
<1>4. CASE Goto(p, "find_pin") /\ UNCHANGED <<req, quiet>>
  <2>1. pc'[p] = "find_pin" /\ comments' = comments
    BY <1>1, <1>4, SelectSteps, GotoType DEF table, rows
  <2>2. LocalTyped(p)'
    BY <1>1, <1>2, <1>4, <2>1, SelectSteps DEF LocalTyped
  <2>3. LocalShape' /\ \A q \in Tasks \ {p} : req'[q] = req[q]
    BY <1>1, <1>4 DEF LocalShape
  <2> QED BY <1>1, <1>2, <1>4, <2>2, <2>3, SelectSteps, MoveHolds, LabelsDiffer DEF TypeOK
<1> QED BY <1>3, <1>4 DEF Found

LEMMA SourceStep ==
  ASSUME IInv, NEW p \in Tasks, EnsureSource(p) \/ InsertSource(p)
  PROVE  IInv'
<1>1. TypeOK /\ LocalTyped(p)
  BY DEF IInv, LocalsTyped
<1>2. pc[p] \in {"ensure", "insert_source"} /\ pc[p] \in Busy \ (MayLock \cup JobSteps) /\ p \in Requests
  BY <1>1, SelectSteps DEF EnsureSource, InsertSource, LocalTyped
<1>3. CASE EnsureSource(p) /\ Found(p, rev, meta)
  BY <1>1, <1>2, <1>3, FoundHolds DEF EnsureSource, locks, TypeOK
<1>4. CASE EnsureSource(p) /\ Goto(p, "insert_source") /\ UNCHANGED <<req, quiet>>
  <2>1. Read(p, "insert_source") /\ UNCHANGED req
    BY <1>4 DEF EnsureSource, Read, shared
  <2> QED BY <1>2, <2>1, UnsetHolds, SelectSteps, LabelsDiffer
<1>5. CASE InsertSource(p) /\ Rollback(p, "write_failed")
  BY <1>2, <1>5, RollbackHolds DEF Answers
<1>6. CASE /\ InsertSource(p) /\ maker' = p /\ Found(p, 0, None)
           /\ UNCHANGED <<table, queued, cache, rowLock, toggling>>
  BY <1>2, <1>6, FoundHolds
<1> QED BY <1>3, <1>4, <1>5, <1>6 DEF EnsureSource, InsertSource

LEMMA ReadStep ==
  ASSUME IInv, NEW p \in Tasks, ReadSurface(p)
  PROVE  IInv'
<1>1. ASSUME NEW f \in {"pins", "comments", "reactions", "unread", "mine", "recent"},
             NEW label \in {"comments", "reactions", "unread", "mine", "recent", "compare"},
             ReadField(p, f, label)
      PROVE  IInv'
  <2>1. pc[p] = f /\ Set(p, "got", [req[p].got EXCEPT ![f] = Shown(req[p].user)[f]]) /\ Read(p, label)
    BY <1>1 DEF ReadField
  <2>2. pc[p] \in Busy \ (MayLock \cup JobSteps) /\ label \in Busy \ (MayLock \cup JobSteps)
        /\ label \notin RowSteps
    BY <2>1, SelectSteps
  <2> QED BY <2>1, <2>2, SelectHolds DEF Locals
<1> QED BY <1>1 DEF ReadSurface

LEMMA CompareStep ==
  ASSUME IInv, NEW p \in Tasks, Compare(p)
  PROVE  IInv'
<1>1. TypeOK
  BY DEF IInv
<1>2. pc[p] \in Busy /\ UNCHANGED <<meta, rows, reactions, unread>>
      /\ quiet' = (IF maker = p THEN {} ELSE quiet \ {p})
      /\ (Commit(p, "not_modified") \/ Commit(p, "fresh"))
  BY SelectSteps DEF Compare
<1>3. "not_modified" \in Answers /\ "fresh" \in Answers
  BY DEF Answers
<1> QED BY <1>1, <1>2, <1>3, CommitHolds DEF TypeOK

-----------------------------------------------------------------------------
LEMMA FindPinStep ==
  ASSUME IInv, NEW p \in Tasks, FindPin(p)
  PROVE  IInv'
<1>1. TypeOK /\ LocalTyped(p)
  BY DEF IInv, LocalsTyped
<1>2. pc[p] = "find_pin" /\ pc[p] \in Busy \ (MayLock \cup JobSteps) /\ p \in Requests
  BY <1>1, SelectSteps DEF FindPin, LocalTyped
<1>3. CASE UNCHANGED req /\ Read(p, "bump_pin")
  BY <1>2, <1>3, UnsetHolds, SelectSteps, LabelsDiffer
<1>4. ASSUME NEW x \in pins, Set(p, "row", x), Read(p, "bump_note") \/ Read(p, "refresh_pin")
      PROVE  IInv'
  <2>1. x \in Rows
    BY <1>1 DEF TypeOK
  <2> QED BY <1>2, <1>4, <2>1, SelectHolds, SelectSteps DEF Locals
<1> QED BY <1>3, <1>4 DEF FindPin

\* What a task knows when it is about to write.
LEMMA Writer ==
  ASSUME IInv, NEW p \in Tasks, pc[p] \in Locked \cup {"end_unreact", "insert_reaction", "refresh_pin", "ack"}
  PROVE  /\ pc[p] \in Busy
         /\ pc[p] # "write_job" => p \in Requests /\ req[p].user \in Users
         /\ pc[p] = "write_job" => p \in Jobs
         /\ pc[p] \in RowSteps => req[p].row \in Rows
         /\ req[p].note \in Notes \cup {None} /\ req[p].notify \subseteq Users
         /\ pc[p] = "set_deleted" => req[p].row \in comments
         /\ p \in Requests => p \notin pins \cup comments
<1>1. LocalTyped(p)
  BY DEF IInv, LocalsTyped
<1>2. pc[p] \in Busy /\ (pc[p] # "write_job" => pc[p] \notin JobSteps)
      /\ (pc[p] = "write_job" => pc[p] \in JobSteps)
  BY DEF Busy, Locked, JobSteps
<1>3. pc[p] \notin Answers
  BY <1>2, LabelsDiffer
<1> QED BY <1>1, <1>2, <1>3, NoRowYet DEF LocalTyped

LEMMA AnswersAre ==
  {"ok", "created", "not_found", "write_failed", "error", "skipped"} \subseteq Answers
BY DEF Answers

LEMMA InsertPinStep ==
  ASSUME IInv, NEW p \in Tasks, InsertPin(p)
  PROVE  IInv'
<1>1. TypeOK /\ RowsOwned /\ PageCoherent
  BY DEF IInv
<1>2. pc[p] = "insert_pin" /\ pc[p] \in Locked
  BY DEF InsertPin, Locked
<1>3. /\ pc[p] \in Busy /\ p \in Requests /\ req[p].user \in Users
      /\ req[p].note \in Notes \cup {None} /\ p \notin pins \cup comments
  BY <1>2, Writer
<1> DEFINE u == req[p].user
<1>4. CASE Rollback(p, "write_failed")
  BY <1>3, <1>4, RollbackHolds, AnswersAre
<1>5. CASE /\ \A x \in pins : owner[x] # u
           /\ pins' = pins \cup {p}
           /\ owner' = [owner EXCEPT ![p] = u]
           /\ notes' = [notes EXCEPT ![p] = req[p].note]
           /\ unread' = unread \cup {<<f, p>> : f \in Followers[u] \ {u}}
           /\ CommitWrite(p, "created")
           /\ UNCHANGED <<meta, comments, removed, under, reactions>>
  <2>1. p \in Rows
    BY <1>3 DEF Rows
  <2>2. /\ owner' \in [Rows -> Users \cup {None}] /\ owner'[p] = u
        /\ \A x \in Rows \ {p} : owner'[x] = owner[x]
        /\ notes' \in [Rows -> Notes \cup {None}]
    BY <1>1, <1>3, <1>5, <2>1 DEF TypeOK
  <2>3. unread' \subseteq Users \X Rows
    <3>1. Followers[u] \subseteq Users
      BY <1>3, FollowersKnown
    <3> QED BY <1>1, <1>5, <2>1, <3>1 DEF TypeOK
  <2>4. PageCoherent'
    <3>1. ASSUME NEW x \in pins', NEW y \in pins', owner'[x] = owner'[y] PROVE x = y
      BY <1>1, <1>5, <2>2, <3>1 DEF PageCoherent, TypeOK
    <3>2. ASSUME NEW c \in comments' PROVE under'[c] \in pins'
      BY <1>1, <1>5, <3>2 DEF PageCoherent
    <3> QED BY <3>1, <3>2 DEF PageCoherent
  <2>5. /\ End(p, "created") /\ source' \in BOOLEAN /\ queued' \in Nat
        /\ rev' \in Nat /\ (rowLock = p \/ rev' = rev)
    BY <1>5, CommitType, AnswersAre DEF CommitWrite
  <2>6. quiet' = {}
    BY <1>5 DEF CommitWrite
  <2>7. /\ pins' \subseteq Rows /\ comments' \subseteq Rows /\ pins' \cap comments' = {}
        /\ comments' = comments /\ removed' \subseteq comments' /\ meta' \in Jobs \cup {None}
        /\ under' \in [Rows -> Rows \cup {None}] /\ reactions' \subseteq Users \X Rows
        /\ pins' \cup comments' \subseteq pins \cup comments \cup {p}
    BY <1>1, <1>3, <1>5, <2>1 DEF TypeOK
  <2> QED BY <1>3, <2>2, <2>3, <2>4, <2>5, <2>6, <2>7, EndHolds, AnswersAre
<1> QED BY <1>4, <1>5 DEF InsertPin

LEMMA NoteSteps ==
  ASSUME IInv, NEW p \in Tasks, UpdateNote(p) \/ RefreshPin(p)
  PROVE  IInv'
<1>1. TypeOK /\ RowsOwned /\ PageCoherent
  BY DEF IInv
<1>2. pc[p] \in {"update_note", "refresh_pin"} /\ pc[p] \in Locked \cup {"refresh_pin"}
  BY DEF UpdateNote, RefreshPin, Locked
<1>3. /\ pc[p] \in Busy /\ p \in Requests
      /\ req[p].note \in Notes \cup {None} /\ p \notin pins \cup comments
  BY <1>2, Writer
<1>4. CASE Rollback(p, "write_failed")
  BY <1>3, <1>4, RollbackHolds, AnswersAre
<1>5. CASE Commit(p, "ok") /\ UNCHANGED <<meta, rows, reactions, unread, cache, quiet>>
  BY <1>1, <1>3, <1>5, CommitHolds, AnswersAre DEF TypeOK
<1>6. CASE /\ req[p].row \in pins
           /\ notes' = [notes EXCEPT ![req[p].row] = req[p].note]
           /\ CommitWrite(p, "ok")
           /\ UNCHANGED <<meta, pins, comments, removed, owner, under, reactions, unread>>
  <2>1. notes' \in [Rows -> Notes \cup {None}]
    BY <1>1, <1>3, <1>6 DEF TypeOK
  <2>2. PageCoherent'
    BY <1>1, <1>6 DEF PageCoherent
  <2>3. /\ End(p, "ok") /\ source' \in BOOLEAN /\ queued' \in Nat
        /\ rev' \in Nat /\ (rowLock = p \/ rev' = rev)
    BY <1>6, CommitType, AnswersAre DEF CommitWrite
  <2>4. quiet' = {}
    BY <1>6 DEF CommitWrite
  <2> QED BY <1>1, <1>3, <1>6, <2>1, <2>2, <2>3, <2>4, EndHolds, AnswersAre DEF TypeOK
<1> QED BY <1>4, <1>5, <1>6 DEF UpdateNote, RefreshPin

LEMMA DeletePinStep ==
  ASSUME IInv, NEW p \in Tasks, DeletePin(p)
  PROVE  IInv'
<1>1. TypeOK /\ RowsOwned /\ PageCoherent
  BY DEF IInv
<1>2. pc[p] = "delete_pin" /\ pc[p] \in Locked
  BY DEF DeletePin, Locked
<1>3. pc[p] \in Busy /\ p \in Requests /\ p \notin pins \cup comments
  BY <1>2, Writer
<1>4. CASE Rollback(p, "write_failed")
  BY <1>3, <1>4, RollbackHolds, AnswersAre
<1>5. CASE /\ \A c \in comments : under[c] # req[p].row
           /\ pins' = pins \ {req[p].row}
           /\ CommitWrite(p, "ok")
           /\ UNCHANGED <<meta, comments, removed, owner, under, notes, reactions, unread>>
  <2>1. PageCoherent'
    BY <1>1, <1>5 DEF PageCoherent
  <2>2. /\ End(p, "ok") /\ source' \in BOOLEAN /\ queued' \in Nat
        /\ rev' \in Nat /\ (rowLock = p \/ rev' = rev)
    BY <1>5, CommitType, AnswersAre DEF CommitWrite
  <2>3. quiet' = {}
    BY <1>5 DEF CommitWrite
  <2> QED BY <1>1, <1>3, <1>5, <2>1, <2>2, <2>3, EndHolds, AnswersAre DEF TypeOK
<1> QED BY <1>4, <1>5 DEF DeletePin

-----------------------------------------------------------------------------
LEMMA CommentParentStep ==
  ASSUME IInv, NEW p \in Tasks, CommentParent(p)
  PROVE  IInv'
<1>1. TypeOK /\ RowsOwned /\ LocalTyped(p)
  BY DEF IInv, LocalsTyped
<1>2. pc[p] = "parent" /\ pc[p] \in Busy \ (MayLock \cup JobSteps) /\ pc[p] \in RowSteps
  BY SelectSteps DEF CommentParent
<1>3. CASE Rollback(p, "not_found")
  BY <1>2, <1>3, RollbackHolds, AnswersAre
<1>4. CASE /\ req[p].parent \in comments
           /\ Set(p, "notify", req[p].notify \cup {owner[req[p].parent]})
           /\ Read(p, "bump_comment")
  <2>1. req[p].notify \cup {owner[req[p].parent]} \subseteq Users
    BY <1>1, <1>4 DEF LocalTyped, RowsOwned
  <2> QED BY <1>2, <1>4, <2>1, SelectHolds, SelectSteps DEF Locals
<1> QED BY <1>3, <1>4 DEF CommentParent

LEMMA InsertCommentStep ==
  ASSUME IInv, NEW p \in Tasks, InsertComment(p)
  PROVE  IInv'
<1>1. TypeOK /\ RowsOwned /\ PageCoherent
  BY DEF IInv
<1>2. pc[p] = "insert_comment" /\ pc[p] \in Locked /\ pc[p] \in RowSteps
  BY DEF InsertComment, Locked, RowSteps
<1>3. /\ pc[p] \in Busy /\ p \in Requests /\ req[p].user \in Users /\ req[p].row \in Rows
      /\ req[p].notify \subseteq Users /\ p \notin pins \cup comments
  BY <1>2, Writer
<1> DEFINE u == req[p].user
<1>4. CASE Rollback(p, "write_failed")
  BY <1>3, <1>4, RollbackHolds, AnswersAre
<1>5. CASE /\ req[p].row \in pins
           /\ comments' = comments \cup {p}
           /\ owner' = [owner EXCEPT ![p] = u]
           /\ under' = [under EXCEPT ![p] = req[p].row]
           /\ unread' = unread \cup {<<f, p>> : f \in (req[p].notify \cup Followers[u]) \ {u}}
           /\ CommitWrite(p, "created")
           /\ UNCHANGED <<meta, pins, removed, notes, reactions>>
  <2>1. p \in Rows
    BY <1>3 DEF Rows
  <2>2. /\ owner' \in [Rows -> Users \cup {None}] /\ owner'[p] = u
        /\ \A x \in Rows \ {p} : owner'[x] = owner[x] /\ under'[x] = under[x]
        /\ under' \in [Rows -> Rows \cup {None}] /\ under'[p] = req[p].row
    BY <1>1, <1>3, <1>5, <2>1 DEF TypeOK
  <2>3. unread' \subseteq Users \X Rows
    <3>1. Followers[u] \subseteq Users
      BY <1>3, FollowersKnown
    <3> QED BY <1>1, <1>3, <1>5, <2>1, <3>1 DEF TypeOK
  <2>4. PageCoherent'
    <3>1. ASSUME NEW x \in pins', NEW y \in pins', owner'[x] = owner'[y] PROVE x = y
      BY <1>1, <1>3, <1>5, <2>2, <3>1 DEF PageCoherent, TypeOK
    <3>2. ASSUME NEW c \in comments' PROVE under'[c] \in pins'
      BY <1>1, <1>5, <2>2, <3>2 DEF PageCoherent, TypeOK
    <3> QED BY <3>1, <3>2 DEF PageCoherent
  <2>5. /\ End(p, "created") /\ source' \in BOOLEAN /\ queued' \in Nat
        /\ rev' \in Nat /\ (rowLock = p \/ rev' = rev)
    BY <1>5, CommitType, AnswersAre DEF CommitWrite
  <2>6. quiet' = {}
    BY <1>5 DEF CommitWrite
  <2>7. /\ pins' \subseteq Rows /\ comments' \subseteq Rows /\ pins' \cap comments' = {}
        /\ comments \subseteq comments' /\ removed' \subseteq comments' /\ meta' \in Jobs \cup {None}
        /\ notes' \in [Rows -> Notes \cup {None}] /\ reactions' \subseteq Users \X Rows
        /\ pins' \cup comments' \subseteq pins \cup comments \cup {p}
    BY <1>1, <1>3, <1>5, <2>1 DEF TypeOK
  <2> QED BY <1>3, <2>2, <2>3, <2>4, <2>5, <2>6, <2>7, EndHolds, AnswersAre
<1> QED BY <1>4, <1>5 DEF InsertComment

LEMMA SetDeletedStep ==
  ASSUME IInv, NEW p \in Tasks, SetDeleted(p)
  PROVE  IInv'
<1>1. TypeOK /\ RowsOwned /\ PageCoherent
  BY DEF IInv
<1>2. pc[p] = "set_deleted" /\ pc[p] \in Locked
  BY DEF SetDeleted, Locked
<1>3. pc[p] \in Busy /\ p \in Requests /\ req[p].row \in comments /\ p \notin pins \cup comments
  BY <1>2, Writer
<1>4. PageCoherent'
  BY <1>1 DEF SetDeleted, PageCoherent
<1>5. /\ End(p, "ok") /\ source' \in BOOLEAN /\ queued' \in Nat
      /\ rev' \in Nat /\ (rowLock = p \/ rev' = rev)
  BY CommitType, AnswersAre DEF SetDeleted, CommitWrite
<1>6. quiet' = {}
  BY DEF SetDeleted, CommitWrite
<1>7. removed' \subseteq comments /\ UNCHANGED <<meta, pins, comments, owner, under, notes, reactions, unread>>
  BY <1>1, <1>3 DEF SetDeleted, TypeOK
<1> QED BY <1>1, <1>3, <1>4, <1>5, <1>6, <1>7, EndHolds, AnswersAre DEF TypeOK

\* The writes that leave pins and comments as they are.
LEMMA OtherWriteSteps ==
  ASSUME IInv, NEW p \in Tasks, SetBody(p) \/ EndUnreact(p) \/ Ack(p) \/ WriteJob(p)
  PROVE  IInv'
<1>1. TypeOK
  BY DEF IInv
<1>2. pc[p] \in Locked \cup {"end_unreact", "insert_reaction", "refresh_pin", "ack"}
  BY DEF SetBody, EndUnreact, Ack, WriteJob, Locked
<1>3. pc[p] \in Busy /\ (pc[p] = "write_job" => p \in Jobs)
  BY <1>2, Writer
<1>4. CASE Rollback(p, "write_failed")
  BY <1>3, <1>4, RollbackHolds, AnswersAre
<1>5. CASE /\ CommitWrite(p, "ok") /\ UNCHANGED rows
           /\ meta' \in Jobs \cup {None}
           /\ reactions' \subseteq reactions /\ unread' \subseteq unread
  <2>1. Commit(p, "ok") /\ quiet' = {}
    BY <1>5 DEF CommitWrite
  <2>2. reactions' \subseteq Users \X Rows /\ unread' \subseteq Users \X Rows
    BY <1>1, <1>5 DEF TypeOK
  <2> QED BY <1>3, <1>5, <2>1, <2>2, CommitHolds, AnswersAre
<1>6. CASE SetBody(p)
  BY <1>1, <1>5, <1>6 DEF SetBody, TypeOK
<1>7. CASE EndUnreact(p)
  BY <1>1, <1>5, <1>7 DEF EndUnreact, TypeOK
<1>8. CASE Ack(p)
  BY <1>1, <1>4, <1>5, <1>8 DEF Ack, TypeOK
<1>9. CASE WriteJob(p)
  BY <1>1, <1>3, <1>5, <1>9 DEF WriteJob, TypeOK
<1> QED BY <1>6, <1>7, <1>8, <1>9

-----------------------------------------------------------------------------
LEMMA ReactSelects ==
  ASSUME IInv, NEW p \in Tasks, FindReaction(p) \/ Anchor(p) \/ Beneficiary(p)
  PROVE  IInv'
<1>1. RowsOwned
  BY DEF IInv
<1>2. /\ pc[p] \in {"find_reaction", "anchor", "beneficiary"}
      /\ pc[p] \in Busy \ (MayLock \cup JobSteps) /\ pc[p] \in RowSteps
  BY SelectSteps DEF FindReaction, Anchor, Beneficiary
<1>3. CASE FindReaction(p)
  BY <1>2, <1>3, SelectHolds, SelectSteps DEF FindReaction, Locals
<1>4. CASE Anchor(p)
  BY <1>2, <1>4, SelectHolds, SelectSteps DEF Anchor, Locals
<1>5. CASE Beneficiary(p)
  <2> DEFINE owners == {owner[x] : x \in {req[p].row} \cap (pins \cup comments)}
  <2>1. Set(p, "notify", owners) /\ owners \subseteq Users
    BY <1>1, <1>5 DEF Beneficiary, RowsOwned
  <2> HIDE DEF owners
  <2>2. CASE Read(p, "delete_reaction") \/ Read(p, "bump_react")
    BY <1>2, <2>1, <2>2, SelectHolds, SelectSteps DEF Locals
  <2>3. CASE Read(p, "insert_reaction")
    <3>1. TypeOK /\ LocalShape /\ LocalTyped(p)
      BY DEF IInv, LocalsTyped
    <3>2. pc'[p] = "insert_reaction" /\ comments' = comments
      BY <2>3, <3>1, GotoType, SelectSteps DEF Read, table, rows
    <3>3. /\ LocalShape' /\ req'[p].notify = owners
          /\ req'[p].user = req[p].user /\ req'[p].note = req[p].note
          /\ req'[p].bumped = req[p].bumped /\ req'[p].row = req[p].row
          /\ \A q \in Tasks \ {p} : req'[q] = req[q]
      BY <2>1, <3>1, SetShape DEF Locals
    <3>4. LocalTyped(p)'
      BY <1>2, <2>1, <3>1, <3>2, <3>3, SelectSteps DEF LocalTyped
    <3>5. pc[p] \notin Answers \cup MayLock
      BY <1>2, LabelsDiffer
    <3> QED BY <2>3, <3>1, <3>3, <3>4, <3>5, MoveHolds, SelectSteps
          DEF Read, table, shared, locks, TypeOK
  <2> QED BY <1>5, <2>2, <2>3 DEF Beneficiary
<1> QED BY <1>3, <1>4, <1>5

LEMMA DeleteReactionStep ==
  ASSUME IInv, NEW p \in Tasks, DeleteReaction(p)
  PROVE  IInv'
<1>1. TypeOK /\ LocalShape /\ LocalTyped(p)
  BY DEF IInv, LocalsTyped
<1>2. /\ pc[p] = "delete_reaction"
      /\ pc[p] \in Busy \ (MayLock \cup JobSteps) /\ pc[p] \in RowSteps /\ p \in Requests
  BY <1>1, SelectSteps DEF DeleteReaction, LocalTyped
<1>3. /\ toggling' \in [Users \X Rows -> Requests \cup {None}]
      /\ UNCHANGED <<table, shared, maker, rowLock, req>>
  BY <1>1, <1>2 DEF DeleteReaction, TypeOK
<1>4. PICK label \in {"bump_unreact", "end_unreact"} : Goto(p, label)
  BY DEF DeleteReaction
<1>5. label \in Busy \ (Locked \cup JobSteps) /\ label \notin {"bump_remove", "set_deleted"}
  BY SelectSteps, LabelsDiffer
<1>6. pc'[p] = label /\ comments' = comments
  BY <1>1, <1>3, <1>4, <1>5, GotoType DEF table, rows
<1>7. LocalTyped(p)' /\ LocalShape' /\ \A q \in Tasks \ {p} : req'[q] = req[q]
  BY <1>1, <1>2, <1>3, <1>5, <1>6 DEF LocalTyped, LocalShape
<1>8. pc[p] \notin Answers \cup MayLock
  BY <1>2, LabelsDiffer
<1> QED BY <1>1, <1>3, <1>4, <1>5, <1>7, <1>8, MoveHolds DEF TypeOK, shared

LEMMA InsertReactionStep ==
  ASSUME IInv, NEW p \in Tasks, InsertReaction(p)
  PROVE  IInv'
<1>1. TypeOK
  BY DEF IInv
<1>2. pc[p] = "insert_reaction" /\ pc[p] \in RowSteps
  BY SelectSteps DEF InsertReaction
<1>3. /\ pc[p] \in Busy /\ p \in Requests /\ req[p].user \in Users /\ req[p].row \in Rows
      /\ req[p].notify \subseteq Users
  BY <1>2, Writer
<1>4. CASE Rollback(p, "write_failed")
  BY <1>3, <1>4, RollbackHolds, AnswersAre
<1>5. CASE /\ reactions' = reactions \cup {Key(p)}
           /\ unread' = IF req[p].anchored
                        THEN unread \cup {<<f, p>> : f \in req[p].notify \ {req[p].user}}
                        ELSE unread
           /\ CommitWrite(p, "created")
           /\ UNCHANGED <<meta, rows>>
  <2>1. reactions' \subseteq Users \X Rows
    BY <1>1, <1>3, <1>5 DEF TypeOK, Key
  <2>2. unread' \subseteq Users \X Rows
    BY <1>1, <1>3, <1>5 DEF TypeOK, Rows
  <2>3. Commit(p, "created") /\ quiet' = {}
    BY <1>5 DEF CommitWrite
  <2> QED BY <1>1, <1>3, <1>5, <2>1, <2>2, <2>3, CommitHolds, AnswersAre DEF TypeOK
<1> QED BY <1>4, <1>5 DEF InsertReaction

-----------------------------------------------------------------------------
LEMMA JobBeginStep ==
  ASSUME IInv, NEW j \in Jobs, JobBegin(j)
  PROVE  IInv'
<1>1. TypeOK /\ LocalShape /\ LocalTyped(j) /\ j \in Tasks
  BY DEF IInv, LocalsTyped, Tasks
<1>2. PICK label \in {"skipped", "bump_job"} : Goto(j, label)
  BY DEF JobBegin
<1>3. /\ label \in Busy \cup Answers /\ label \notin Locked
      /\ label \notin Busy \ JobSteps /\ label \notin RowSteps \cup {"bump_remove", "set_deleted"}
  BY DEF Busy, Answers, Locked, JobSteps, RowSteps
<1>4. pc[j] \notin Answers \cup MayLock
  BY LabelsDiffer DEF JobBegin
<1>5. queued' \in Nat /\ UNCHANGED <<table, cache, quiet, locks, req>>
  BY <1>1 DEF JobBegin, TypeOK
<1>6. pc'[j] = label /\ comments' = comments
  BY <1>1, <1>2, <1>3, <1>5, GotoType DEF table, rows
<1>7. LocalTyped(j)' /\ LocalShape' /\ \A q \in Tasks \ {j} : req'[q] = req[q]
  BY <1>1, <1>3, <1>5, <1>6 DEF LocalTyped, LocalShape
<1> QED BY <1>1, <1>2, <1>3, <1>4, <1>5, <1>7, MoveHolds DEF TypeOK, locks

LEMMA TaskStep ==
  ASSUME IInv, NEW p \in Tasks, Step(p) \/ Abort(p)
  PROVE  IInv'
<1>1. CASE Abort(p)
  BY <1>1, RollbackHolds, AnswersAre DEF Abort
<1>2. CASE \E b \in Bumps : Bump(p, b[1], b[2])
  BY <1>2, BumpHolds
<1> QED
  BY <1>1, <1>2, SourceStep, ReadStep, CompareStep, FindPinStep, InsertPinStep, NoteSteps,
     DeletePinStep, CommentParentStep, InsertCommentStep, SetDeletedStep, OtherWriteSteps,
     ReactSelects, DeleteReactionStep, InsertReactionStep DEF Step

LEMMA Initially == Init => IInv
<1> SUFFICES ASSUME Init PROVE IInv
  OBVIOUS
<1>1. TypeOK
  BY DEF Init, TypeOK, Rows, Tasks
<1>2. LocalShape
  BY BlankIs DEF Init, LocalShape
<1>3. LocalsTyped
  <2> SUFFICES ASSUME NEW p \in Tasks PROVE LocalTyped(p)
    BY DEF LocalsTyped
  <2>1. pc[p] = "idle" /\ req[p] = Blank
    BY DEF Init
  <2>2. /\ pc[p] \notin Busy /\ pc[p] \notin JobSteps /\ pc[p] \notin RowSteps
        /\ pc[p] \notin {"bump_remove", "set_deleted"}
    BY <2>1, LabelsDiffer
  <2>3. /\ req[p].user = None /\ req[p].row = None /\ req[p].note = None
        /\ req[p].notify = {} /\ req[p].bumped = 0
    BY <2>1, BlankIs
  <2> QED BY <2>2, <2>3 DEF LocalTyped
<1>4. RowsOwned
  BY TasksDiffer DEF Init, RowsOwned, Rows
<1>5. RevisionLocked
  BY TasksDiffer, LabelsDiffer DEF Init, RevisionLocked
<1>6. PageCoherent
  BY DEF Init, PageCoherent, Rows
<1> QED BY <1>1, <1>2, <1>3, <1>4, <1>5, <1>6 DEF IInv

LEMMA StutterHolds ==
  ASSUME IInv, UNCHANGED vars
  PROVE  IInv'
<1>1. /\ UNCHANGED <<source, rev, meta, pins, comments, removed, owner, under, notes>>
      /\ UNCHANGED <<reactions, unread, maker, rowLock, toggling, queued, quiet, pc, req>>
  BY DEF vars, table, rows, shared, locks
<1>2. TypeOK' /\ LocalShape'
  BY <1>1 DEF IInv, TypeOK, LocalShape
<1>3. LocalsTyped'
  BY <1>1 DEF IInv, LocalsTyped, LocalTyped
<1>4. RowsOwned' /\ RevisionLocked' /\ PageCoherent'
  BY <1>1 DEF IInv, RowsOwned, RevisionLocked, PageCoherent
<1> QED BY <1>2, <1>3, <1>4 DEF IInv

\* At every moment the tables are coherent and only the holder of the page's
\* row is past its increment of the revision.
THEOREM Invariant == Spec => []IInv
<1>1. IInv /\ [Next]_vars => IInv'
  <2> SUFFICES ASSUME IInv, [Next]_vars PROVE IInv'
    OBVIOUS
  <2>1. ASSUME NEW p \in Requests, Begin(p) PROVE IInv'
    BY <2>1, BeginStep
  <2>2. ASSUME NEW j \in Jobs, JobBegin(j) PROVE IInv'
    BY <2>2, JobBeginStep
  <2>3. ASSUME NEW p \in Tasks, Step(p) \/ Abort(p) PROVE IInv'
    BY <2>3, TaskStep
  <2>4. CASE UNCHANGED vars
    BY <2>4, StutterHolds
  <2> QED BY <2>1, <2>2, <2>3, <2>4 DEF Next
<1> QED BY Initially, <1>1, PTL DEF Spec

\* Every row, lock and local variable has its type whatever is called.
THEOREM TypeCorrect == Spec => []TypeOK
BY Invariant, PTL DEF IInv

\* Racing requests leave a user one pin on the page and no comment without its
\* pin, for any users, requests and rows.
THEOREM PagesStayCoherent == Spec => []PageCoherent
BY Invariant, PTL DEF IInv

-----------------------------------------------------------------------------
\* What a step may do to the page and its revision.
Counts ==
  /\ rev' \in {rev, rev + 1}
  /\ <<meta, rows>>' # <<meta, rows>> => rev' = rev + 1
  /\ removed \subseteq removed'

LEMMA RemovedKept == UNCHANGED rows => UNCHANGED <<removed, comments, pins, owner, notes>>
BY DEF rows

LEMMA CommitCounts ==
  ASSUME IInv, NEW p \in Tasks, NEW answer, Commit(p, answer)
  PROVE  /\ rev' \in {rev, rev + 1}
         /\ pc[p] \in Locked => rev' = rev + 1
<1>1. /\ rowLock = p => req[p].bumped = rev + 1
      /\ pc[p] \in Locked => rowLock = p
  BY DEF IInv, RevisionLocked
<1> QED BY <1>1 DEF Commit

LEMMA KeepsCount ==
  ASSUME UNCHANGED table
  PROVE  Counts
BY RemovedKept DEF table, Counts

\* Those who commit without the page's row leave the page alone.
LEMMA UnlockedCounts ==
  ASSUME IInv, NEW p \in Tasks, NEW answer, Commit(p, answer), UNCHANGED <<meta, rows>>
  PROVE  Counts
BY CommitCounts, RemovedKept DEF Counts

LEMMA LockedCounts ==
  ASSUME IInv, NEW p \in Tasks, NEW answer, Commit(p, answer), pc[p] \in Locked,
         removed \subseteq removed'
  PROVE  Counts
BY CommitCounts DEF Counts

LEMMA StepCounts ==
  ASSUME IInv, NEW p \in Tasks, Step(p)
  PROVE  Counts
<1>1. ASSUME EnsureSource(p) \/ InsertSource(p) PROVE Counts
  BY <1>1, KeepsCount DEF EnsureSource, InsertSource, Rollback
<1>2. ASSUME ReadSurface(p) PROVE Counts
  BY <1>2, KeepsCount DEF ReadSurface, ReadField, Read
<1>3. ASSUME Compare(p) PROVE Counts
  BY <1>3, UnlockedCounts DEF Compare
<1>4. ASSUME FindPin(p) \/ CommentParent(p) \/ FindReaction(p) \/ Anchor(p) \/ Beneficiary(p)
      PROVE  Counts
  BY <1>4, KeepsCount DEF FindPin, CommentParent, FindReaction, Anchor, Beneficiary, Read, Rollback
<1>5. ASSUME InsertPin(p) PROVE Counts
  BY <1>5, KeepsCount, LockedCounts DEF InsertPin, Rollback, CommitWrite, Locked
<1>6. ASSUME UpdateNote(p) PROVE Counts
  BY <1>6, KeepsCount, LockedCounts DEF UpdateNote, Rollback, CommitWrite, Locked
<1>7. ASSUME RefreshPin(p) PROVE Counts
  BY <1>7, KeepsCount, UnlockedCounts DEF RefreshPin, Rollback
<1>8. ASSUME DeletePin(p) PROVE Counts
  BY <1>8, KeepsCount, LockedCounts DEF DeletePin, Rollback, CommitWrite, Locked
<1>9. ASSUME InsertComment(p) PROVE Counts
  BY <1>9, KeepsCount, LockedCounts DEF InsertComment, Rollback, CommitWrite, Locked
<1>10. ASSUME SetDeleted(p) PROVE Counts
  BY <1>10, LockedCounts DEF SetDeleted, CommitWrite, Locked
<1>11. ASSUME SetBody(p) \/ EndUnreact(p) PROVE Counts
  BY <1>11, UnlockedCounts DEF SetBody, EndUnreact, CommitWrite
<1>12. ASSUME DeleteReaction(p) \/ \E b \in Bumps : Bump(p, b[1], b[2]) PROVE Counts
  BY <1>12, KeepsCount DEF DeleteReaction, Bump
<1>13. ASSUME InsertReaction(p) PROVE Counts
  BY <1>13, KeepsCount, UnlockedCounts DEF InsertReaction, Rollback, CommitWrite
<1>14. ASSUME Ack(p) PROVE Counts
  BY <1>14, KeepsCount, UnlockedCounts DEF Ack, Rollback, CommitWrite
<1>15. ASSUME WriteJob(p) PROVE Counts
  BY <1>15, LockedCounts DEF WriteJob, CommitWrite, Locked, rows
<1> QED
  BY <1>1, <1>2, <1>3, <1>4, <1>5, <1>6, <1>7, <1>8, <1>9, <1>10, <1>11, <1>12, <1>13, <1>14,
     <1>15 DEF Step

LEMMA NextCounts ==
  ASSUME IInv, [Next]_vars
  PROVE  Counts
<1>1. ASSUME NEW p \in Requests, Begin(p) PROVE Counts
  BY <1>1, KeepsCount DEF Begin, ResolveBegin, AckBegin, PinBegin, UnpinBegin, RemoveBegin,
     EditBegin, ReactBegin, CommentBegin, Read
<1>2. ASSUME NEW j \in Jobs, JobBegin(j) PROVE Counts
  BY <1>2, KeepsCount DEF JobBegin
<1>3. ASSUME NEW p \in Tasks, Abort(p) PROVE Counts
  BY <1>3, KeepsCount DEF Abort, Rollback
<1>4. CASE UNCHANGED vars
  BY <1>4, KeepsCount DEF vars
<1> QED BY <1>1, <1>2, <1>3, <1>4, StepCounts DEF Next

\* A comment that was removed is never shown again, whatever edits race with
\* the removal.
THEOREM RemovalsStay == Spec => RemovedStaysRemoved
<1>1. IInv /\ [Next]_vars => [removed \subseteq removed']_vars
  BY NextCounts DEF Counts
<1> QED BY Invariant, <1>1, PTL DEF Spec, RemovedStaysRemoved

-----------------------------------------------------------------------------
\* What the tag leaves to the revision.
Still == {"meta", "mine", "recent"}

\* What a resolve has read before each of its statements.
Had == [
  pins      |-> {"rev", "meta"},
  comments  |-> {"rev", "meta", "pins"},
  reactions |-> {"rev", "meta", "pins", "comments"},
  unread    |-> {"rev", "meta", "pins", "comments", "reactions"},
  mine      |-> {"rev", "meta", "pins", "comments", "reactions", "unread"},
  recent    |-> {"rev", "meta", "pins", "comments", "reactions", "unread", "mine"},
  compare   |-> Fields]
Reading == {"pins", "comments", "reactions", "unread", "mine", "recent", "compare"}

\* Steps of those who have seen the page's row or inserted it.
Sourced == Busy \ {"ensure", "insert_source", "ack"}

\* A body, so far as its fields are read, is right about what the tag leaves to
\* its revision, if that is still r, the page's.
Agrees(body, fields, r, shown) ==
  /\ body = [f \in Fields |-> body[f]]
  /\ body.rev \in Nat /\ body.rev <= r
  /\ body.rev = r => \A f \in fields \cap Still : body[f] = shown[f]

\* The page's row is committed before anything is left on the page.
SourceFirst ==
  /\ ~source => rev = 0 /\ pins = {} /\ comments = {}
  /\ rev = 0 => meta = None

CacheAgrees ==
  /\ cache = [u \in Users |-> cache[u]]
  /\ \A u \in Users : cache[u] # None => Agrees(cache[u], Fields, rev, Shown(u))

BodyAgrees(p) ==
  /\ req[p].got = [f \in Fields |-> req[p].got[f]]
  /\ \A u \in Users :
       req[p].user = u =>
         /\ req[p].offered # None => Agrees(req[p].offered, Fields, rev, Shown(u))
         /\ pc[p] \in Reading => Agrees(req[p].got, Had[pc[p]], rev, Shown(u))
         /\ p \in quiet /\ pc[p] \in Reading =>
              \A f \in Had[pc[p]] : req[p].got[f] = Shown(u)[f]
  /\ pc[p] \in Sourced => source \/ maker = p

BInv == SourceFirst /\ CacheAgrees /\ \A p \in Tasks : BodyAgrees(p)

-----------------------------------------------------------------------------
LEMMA ShownKept ==
  ASSUME UNCHANGED <<meta, rows>>, NEW u
  PROVE  \A f \in Still : Shown(u)'[f] = Shown(u)[f]
<1>1. UNCHANGED <<meta, pins, owner, notes>>
  BY DEF rows
<1>2. Shown(u)'["meta"] = Shown(u)["meta"]
  BY <1>1 DEF Shown
<1>3. Shown(u)'["mine"] = Shown(u)["mine"]
  <2>1. /\ Shown(u)["mine"] = {<<x, notes[x]>> : x \in {y \in pins : owner[y] = u}}
        /\ Shown(u)'["mine"] = {<<x, notes'[x]>> : x \in {y \in pins' : owner'[y] = u}}
    BY DEF Shown
  <2> QED BY <1>1, <2>1
<1>4. Shown(u)'["recent"] = Shown(u)["recent"]
  <2>1. /\ Shown(u)["recent"] = {owner[x] : x \in pins}
        /\ Shown(u)'["recent"] = {owner'[x] : x \in pins'}
    BY DEF Shown
  <2> QED BY <1>1, <2>1
<1> QED BY <1>2, <1>3, <1>4 DEF Still

LEMMA ShownSame ==
  ASSUME UNCHANGED <<rev, meta, rows, reactions, unread>>, NEW u
  PROVE  Shown(u)' = Shown(u)
<1>1. UNCHANGED <<rev, meta, pins, comments, removed, owner, notes, reactions, unread>>
  BY DEF rows
<1> QED BY <1>1 DEF Shown, Standing

\* A body stays right: the revision moves with whatever the body is about.
LEMMA AgreesKept ==
  ASSUME rev \in Nat, Counts, NEW body, NEW u, NEW fields, Agrees(body, fields, rev, Shown(u))
  PROVE  Agrees(body, fields, rev', Shown(u)')
<1>1. CASE rev' = rev + 1
  BY <1>1 DEF Agrees
<1>2. CASE rev' = rev
  <2>1. \A f \in Still : Shown(u)'[f] = Shown(u)[f]
    BY <1>2, ShownKept DEF Counts
  <2> QED BY <1>2, <2>1 DEF Agrees
<1> QED BY <1>1, <1>2 DEF Counts

LEMMA CacheKept ==
  ASSUME rev \in Nat, CacheAgrees, Counts, UNCHANGED cache
  PROVE  CacheAgrees'
<1>1. ASSUME NEW u \in Users, cache[u] # None
      PROVE  Agrees(cache[u], Fields, rev', Shown(u)')
  BY <1>1, AgreesKept DEF CacheAgrees
<1> QED BY <1>1 DEF CacheAgrees

\* The bodies of the tasks that do not move.
LEMMA BodyKept ==
  ASSUME rev \in Nat, Counts, NEW p \in Tasks, NEW q \in Tasks, q # p, BodyAgrees(q),
         pc'[q] = pc[q], req'[q] = req[q], source => source', maker = q => source' \/ maker' = q,
         \/ quiet' = {}
         \/ quiet' \subseteq quiet \cup {p} /\ UNCHANGED <<rev, meta, rows, reactions, unread>>
  PROVE  BodyAgrees(q)'
<1>1. req'[q].got = [f \in Fields |-> req'[q].got[f]]
  BY DEF BodyAgrees
<1>2. pc'[q] \in Sourced => source' \/ maker' = q
  BY DEF BodyAgrees
<1>3. ASSUME NEW u \in Users, req'[q].user = u
      PROVE  /\ req'[q].offered # None => Agrees(req'[q].offered, Fields, rev', Shown(u)')
             /\ pc'[q] \in Reading => Agrees(req'[q].got, Had[pc'[q]], rev', Shown(u)')
             /\ q \in quiet' /\ pc'[q] \in Reading =>
                  \A f \in Had[pc'[q]] : req'[q].got[f] = Shown(u)'[f]
  <2>1. req[q].user = u /\ req'[q] = req[q] /\ pc'[q] = pc[q]
    BY <1>3
  <2>2. /\ req[q].offered # None => Agrees(req[q].offered, Fields, rev, Shown(u))
        /\ pc[q] \in Reading => Agrees(req[q].got, Had[pc[q]], rev, Shown(u))
        /\ q \in quiet /\ pc[q] \in Reading =>
             \A f \in Had[pc[q]] : req[q].got[f] = Shown(u)[f]
    BY <2>1 DEF BodyAgrees
  <2>3. req'[q].offered # None => Agrees(req'[q].offered, Fields, rev', Shown(u)')
    BY <2>1, <2>2, AgreesKept
  <2>4. pc'[q] \in Reading => Agrees(req'[q].got, Had[pc'[q]], rev', Shown(u)')
    BY <2>1, <2>2, AgreesKept
  <2>5. ASSUME q \in quiet', pc'[q] \in Reading, NEW f \in Had[pc'[q]]
        PROVE  req'[q].got[f] = Shown(u)'[f]
    <3>1. q \in quiet /\ UNCHANGED <<rev, meta, rows, reactions, unread>>
      BY <2>5
    <3>2. Shown(u)' = Shown(u)
      BY <3>1, ShownSame
    <3> QED BY <2>1, <2>2, <2>5, <3>1, <3>2
  <2> QED BY <2>3, <2>4, <2>5
<1> QED BY <1>1, <1>2, <1>3 DEF BodyAgrees

LEMMA BodiesHold ==
  ASSUME IInv, BInv, Counts, NEW p \in Tasks,
         \A q \in Tasks \ {p} : pc'[q] = pc[q] /\ req'[q] = req[q],
         source => source', \A q \in Tasks \ {p} : maker = q => source' \/ maker' = q,
         \/ quiet' = {}
         \/ quiet' \subseteq quiet \cup {p} /\ UNCHANGED <<rev, meta, rows, reactions, unread>>,
         ~source' => UNCHANGED table,
         CacheAgrees', BodyAgrees(p)'
  PROVE  BInv'
<1>1. rev \in Nat
  BY DEF IInv, TypeOK
<1>2. SourceFirst'
  <2>1. ~source' => rev' = 0 /\ pins' = {} /\ comments' = {}
    BY DEF BInv, SourceFirst, table, rows
  <2>2. rev' = 0 => meta' = None
    <3>1. rev' = 0 => rev' = rev /\ rev' # rev + 1
      BY <1>1 DEF Counts
    <3>2. rev' = 0 => meta' = meta
      BY <3>1 DEF Counts
    <3> QED BY <3>1, <3>2 DEF BInv, SourceFirst
  <2> QED BY <2>1, <2>2 DEF SourceFirst
<1>3. ASSUME NEW q \in Tasks \ {p} PROVE BodyAgrees(q)'
  BY <1>1, BodyKept DEF BInv
<1> QED BY <1>2, <1>3 DEF BInv

LEMMA RestLabels ==
  /\ Reading \subseteq Sourced
  /\ \A label \in Answers : label \notin Sourced /\ label \notin Reading
  /\ "idle" \notin Sourced /\ "idle" \notin Reading
  /\ Sourced \subseteq Busy
BY DEF Sourced, Reading, Answers, Busy

LEMMA BlankBody ==
  Blank.got = [f \in Fields |-> Blank.got[f]] /\ Blank.offered = None
BY DEF Blank

\* A transaction ends.
LEMMA EndBodies ==
  ASSUME IInv, BInv, Counts, NEW p \in Tasks, NEW answer \in Answers, End(p, answer),
         source => source',
         \/ quiet' = {}
         \/ quiet' \subseteq quiet \cup {p} /\ UNCHANGED <<rev, meta, rows, reactions, unread>>,
         ~source' => UNCHANGED table,
         CacheAgrees'
  PROVE  BInv'
<1>1. /\ pc'[p] = answer /\ \A q \in Tasks \ {p} : pc'[q] = pc[q]
      /\ req'[p] = Blank /\ \A q \in Tasks \ {p} : req'[q] = req[q]
  BY EndType DEF IInv
<1>2. \A q \in Tasks \ {p} : maker = q => maker' = q
  BY DEF End
<1>3. BodyAgrees(p)'
  <2>1. pc'[p] \notin Sourced /\ pc'[p] \notin Reading
    BY <1>1, RestLabels
  <2>2. req'[p].got = [f \in Fields |-> req'[p].got[f]] /\ req'[p].offered = None
    BY <1>1, BlankBody
  <2> QED BY <2>1, <2>2 DEF BodyAgrees
<1> QED BY <1>1, <1>2, <1>3, BodiesHold

LEMMA RollbackBodies ==
  ASSUME IInv, BInv, NEW p \in Tasks, NEW answer \in Answers, Rollback(p, answer)
  PROVE  BInv'
<1>1. End(p, answer) /\ UNCHANGED <<table, source, rev, meta, rows, reactions, unread, cache, quiet>>
  BY DEF Rollback, table, shared
<1>2. Counts
  BY <1>1, KeepsCount
<1>3. CacheAgrees'
  BY <1>1, <1>2, CacheKept DEF IInv, TypeOK, BInv
<1> QED BY <1>1, <1>2, <1>3, EndBodies

\* A commit of one who has seen the page's row, or inserted it.
LEMMA CommitBodies ==
  ASSUME IInv, BInv, Counts, NEW p \in Tasks, NEW answer \in Answers, Commit(p, answer),
         source \/ pc[p] \in Sourced,
         \/ quiet' = {}
         \/ quiet' \subseteq quiet \cup {p} /\ UNCHANGED <<rev, meta, rows, reactions, unread>>,
         CacheAgrees'
  PROVE  BInv'
<1>1. source \/ maker = p
  BY DEF BInv, BodyAgrees
<1>2. source' /\ End(p, answer)
  BY <1>1 DEF Commit
<1> QED BY <1>2, EndBodies

LEMMA WriteBodies ==
  ASSUME IInv, BInv, Counts, NEW p \in Tasks, NEW answer \in Answers, CommitWrite(p, answer),
         source \/ pc[p] \in Sourced
  PROVE  BInv'
<1>1. Commit(p, answer) /\ quiet' = {} /\ UNCHANGED cache
  BY DEF CommitWrite
<1>2. CacheAgrees'
  BY <1>1, CacheKept DEF IInv, TypeOK, BInv
<1> QED BY <1>1, <1>2, CommitBodies

-----------------------------------------------------------------------------
\* A step that commits nothing.
LEMMA MoveBodies ==
  ASSUME IInv, BInv, NEW p \in Tasks, NEW label \in Busy \cup Answers, Goto(p, label),
         UNCHANGED <<table, cache>>, quiet' \subseteq quiet \cup {p},
         maker' = maker \/ maker = None, \A q \in Tasks \ {p} : req'[q] = req[q],
         BodyAgrees(p)'
  PROVE  BInv'
<1>1. Counts /\ UNCHANGED <<source, rev, meta, rows, reactions, unread>>
  BY KeepsCount DEF table
<1>2. \A q \in Tasks \ {p} : pc'[q] = pc[q] /\ req'[q] = req[q]
  BY GotoType DEF IInv
<1>3. CacheAgrees'
  BY <1>1, CacheKept DEF IInv, TypeOK, BInv
<1>4. \A q \in Tasks : q # None
  BY TasksDiffer
<1> QED BY <1>1, <1>2, <1>3, <1>4, BodiesHold

\* Such a step, if it is not one of a resolve that has read the page's row.
LEMMA PlainBodies ==
  ASSUME IInv, BInv, NEW p \in Tasks, NEW label \in (Busy \ Reading) \cup Answers, Goto(p, label),
         UNCHANGED <<table, cache, quiet>>, maker' = maker \/ maker = None,
         \A q \in Tasks \ {p} : req'[q] = req[q],
         req'[p].user = req[p].user, req'[p].offered = req[p].offered, req'[p].got = req[p].got,
         label \in Sourced => source \/ maker' = p
  PROVE  BInv'
<1>1. UNCHANGED <<rev, meta, rows, reactions, unread, source>>
  BY DEF table
<1>2. \A u \in Users : Shown(u)' = Shown(u)
  BY <1>1, ShownSame
<1>3. pc'[p] = label /\ label \notin Reading
  BY GotoType, RestLabels DEF IInv
<1>4. BodyAgrees(p)
  BY DEF BInv
<1>5. BodyAgrees(p)'
  BY <1>1, <1>2, <1>3, <1>4 DEF BodyAgrees
<1> QED BY <1>1, <1>5, MoveBodies

\* A call begins: what its client offers was once an answer to the same user.
LEMMA BeginBodies ==
  ASSUME IInv, BInv, NEW p \in Tasks, NEW label \in (Busy \ Reading) \cup Answers, Read(p, label),
         \A q \in Tasks \ {p} : req'[q] = req[q],
         req'[p].got = Blank.got,
         req'[p].offered # None => req'[p].user \in Users /\ req'[p].offered = cache[req'[p].user],
         label \in Sourced => source
  PROVE  BInv'
<1>1. /\ UNCHANGED <<rev, meta, rows, reactions, unread, source, table, cache, quiet, maker>>
      /\ Goto(p, label)
  BY DEF table, Read, shared, locks
<1>2. \A u \in Users : Shown(u)' = Shown(u)
  BY <1>1, ShownSame
<1>3. pc'[p] = label /\ label \notin Reading
  BY <1>1, GotoType, RestLabels DEF IInv
<1>4. \A u \in Users : cache[u] # None => Agrees(cache[u], Fields, rev, Shown(u))
  BY DEF BInv, CacheAgrees
<1>5. BodyAgrees(p)'
  BY <1>1, <1>2, <1>3, <1>4, BlankBody DEF BodyAgrees
<1> QED BY <1>1, <1>5, MoveBodies

LEMMA CallLabels ==
  /\ {"ensure", "find_pin", "ack", "bump_unpin", "bump_remove", "bump_edit", "find_reaction",
      "bump_comment", "parent", "insert_source"} \subseteq Busy \ Reading
  /\ \A label \in {"ensure", "ack", "insert_source"} : label \notin Sourced
  /\ {"not_found", "forbidden", "ok", "skipped"} \subseteq Answers
BY DEF Busy, Reading, Sourced, Answers

LEMMA RefusedBodies ==
  ASSUME IInv, BInv, NEW p \in Tasks, NEW label \in Answers, Read(p, label), UNCHANGED req
  PROVE  BInv'
<1>1. label \notin Sourced /\ Goto(p, label) /\ UNCHANGED <<table, cache, quiet, maker>>
  BY RestLabels DEF Read, shared, locks
<1> QED BY <1>1, PlainBodies

LEMMA StartBodies ==
  ASSUME IInv, BInv, NEW p \in Tasks, NEW label \in Busy \ Reading, Read(p, label),
         NEW r, req' = [req EXCEPT ![p] = r], DOMAIN r = Locals, r = [f \in Locals |-> r[f]],
         r.got = Blank.got, r.offered # None => r.user \in Users /\ r.offered = cache[r.user],
         label \in Sourced => source
  PROVE  BInv'
<1>1. req'[p] = r /\ \A q \in Tasks \ {p} : req'[q] = req[q]
  BY AllShape DEF IInv
<1> QED BY <1>1, BeginBodies

\* A call about a row that is there.
LEMMA RowBodies ==
  ASSUME IInv, BInv, NEW p \in Tasks, NEW u \in Users, NEW x \in pins \cup comments,
         NEW label \in Busy \ Reading, Read(p, label),
         req' = [req EXCEPT ![p] = [Blank EXCEPT !.user = u, !.row = x]]
  PROVE  BInv'
<1> DEFINE r == [Blank EXCEPT !.user = u, !.row = x]
<1>1. /\ DOMAIN r = Locals /\ r = [f \in Locals |-> r[f]]
      /\ r.got = Blank.got /\ r.offered = None
  BY DEF Blank, Locals
<1>2. req' = [req EXCEPT ![p] = r] /\ source
  BY DEF BInv, SourceFirst
<1> HIDE DEF r
<1> QED BY <1>1, <1>2, StartBodies

LEMMA CallBodies ==
  ASSUME IInv, BInv, NEW p \in Requests, Begin(p)
  PROVE  BInv'
<1>0. p \in Tasks /\ (pins # {} => source) /\ removed \subseteq comments
  BY DEF IInv, TypeOK, Tasks, BInv, SourceFirst
<1>1. ASSUME NEW u \in Users, ResolveBegin(p, u) PROVE BInv'
  <2>1. PICK copy \in {None, cache[u]} :
          req' = [req EXCEPT ![p] =
            [Blank EXCEPT !.kind = "resolve", !.user = u, !.byUrl = TRUE, !.offered = copy]]
    BY <1>1 DEF ResolveBegin
  <2> DEFINE r == [Blank EXCEPT !.kind = "resolve", !.user = u, !.byUrl = TRUE, !.offered = copy]
  <2>2. /\ DOMAIN r = Locals /\ r = [f \in Locals |-> r[f]]
        /\ r.got = Blank.got /\ r.offered = copy /\ r.user = u
    BY DEF Blank, Locals
  <2>3. Read(p, "ensure") /\ req' = [req EXCEPT ![p] = r]
    BY <1>1, <2>1 DEF ResolveBegin
  <2> HIDE DEF r
  <2> QED BY <1>0, <2>2, <2>3, StartBodies, CallLabels
<1>2. ASSUME NEW u \in Users, AckBegin(p, u) PROVE BInv'
  <2> DEFINE r == [Blank EXCEPT !.user = u, !.marks = {n \in unread : n[1] = u}]
  <2>1. /\ DOMAIN r = Locals /\ r = [f \in Locals |-> r[f]]
        /\ r.got = Blank.got /\ r.offered = None
    BY DEF Blank, Locals
  <2>2. Read(p, "ack") /\ req' = [req EXCEPT ![p] = r]
    BY <1>2 DEF AckBegin
  <2> HIDE DEF r
  <2> QED BY <1>0, <2>1, <2>2, StartBodies, CallLabels
<1>3. ASSUME NEW u \in Users, NEW n \in Notes \cup {None}, PinBegin(p, u, n) PROVE BInv'
  <2> DEFINE byUrl == [Blank EXCEPT !.kind = "pin", !.user = u, !.note = n, !.byUrl = TRUE]
             byId  == [Blank EXCEPT !.kind = "pin", !.user = u, !.note = n]
  <2>1. /\ DOMAIN byUrl = Locals /\ byUrl = [f \in Locals |-> byUrl[f]]
        /\ byUrl.got = Blank.got /\ byUrl.offered = None
    BY DEF Blank, Locals
  <2>2. /\ DOMAIN byId = Locals /\ byId = [f \in Locals |-> byId[f]]
        /\ byId.got = Blank.got /\ byId.offered = None
    BY DEF Blank, Locals
  <2>3. CASE req' = [req EXCEPT ![p] = byUrl] /\ Read(p, "ensure")
    <3> HIDE DEF byUrl
    <3> QED BY <1>0, <2>1, <2>3, StartBodies, CallLabels
  <2>4. CASE source /\ req' = [req EXCEPT ![p] = byId] /\ Read(p, "find_pin")
    <3> HIDE DEF byId
    <3> QED BY <1>0, <2>2, <2>4, StartBodies, CallLabels
  <2>5. CASE UNCHANGED req /\ Read(p, "not_found")
    BY <1>0, <2>5, RefusedBodies, CallLabels
  <2> QED BY <1>3, <2>3, <2>4, <2>5 DEF PinBegin
<1>4. ASSUME NEW u \in Users, NEW x \in Rows,
             UnpinBegin(p, u, x) \/ RemoveBegin(p, u, x) \/ EditBegin(p, u, x) \/ ReactBegin(p, u, x)
      PROVE  BInv'
  <2>1. \/ \E label \in {"not_found", "forbidden", "ok"} : UNCHANGED req /\ Read(p, label)
        \/ /\ x \in pins \cup comments
           /\ \E label \in {"bump_unpin", "bump_remove", "bump_edit", "find_reaction"} : Read(p, label)
           /\ req' = [req EXCEPT ![p] = [Blank EXCEPT !.user = u, !.row = x]]
    <3>1. CASE UnpinBegin(p, u, x)
      BY <3>1 DEF UnpinBegin
    <3>2. CASE RemoveBegin(p, u, x)
      BY <3>2 DEF RemoveBegin
    <3>3. CASE EditBegin(p, u, x)
      BY <3>3 DEF EditBegin
    <3>4. CASE ReactBegin(p, u, x)
      BY <3>4 DEF ReactBegin
    <3> QED BY <1>4, <3>1, <3>2, <3>3, <3>4
  <2>2. CASE \E label \in {"not_found", "forbidden", "ok"} : UNCHANGED req /\ Read(p, label)
    BY <1>0, <2>2, RefusedBodies, CallLabels
  <2>3. CASE /\ x \in pins \cup comments
             /\ \E label \in {"bump_unpin", "bump_remove", "bump_edit", "find_reaction"} : Read(p, label)
             /\ req' = [req EXCEPT ![p] = [Blank EXCEPT !.user = u, !.row = x]]
    <3>1. PICK label \in {"bump_unpin", "bump_remove", "bump_edit", "find_reaction"} : Read(p, label)
      BY <2>3
    <3>2. label \in Busy \ Reading
      BY CallLabels
    <3> QED BY <1>0, <2>3, <3>1, <3>2, RowBodies
  <2> QED BY <2>1, <2>2, <2>3
<1>5. ASSUME NEW u \in Users, NEW x \in Rows, NEW c \in Rows \cup {None}, CommentBegin(p, u, x, c)
      PROVE  BInv'
  <2> DEFINE r == [Blank EXCEPT !.user = u, !.row = x, !.parent = c, !.notify = {owner[x]}]
  <2>1. /\ DOMAIN r = Locals /\ r = [f \in Locals |-> r[f]]
        /\ r.got = Blank.got /\ r.offered = None
    BY DEF Blank, Locals
  <2>2. CASE /\ x \in pins /\ req' = [req EXCEPT ![p] = r]
             /\ Read(p, IF c = None THEN "bump_comment" ELSE "parent")
    <3>1. PICK label \in {"bump_comment", "parent"} : Read(p, label)
      BY <2>2
    <3>2. label \in Busy \ Reading /\ source /\ req' = [req EXCEPT ![p] = r]
      BY <1>0, <2>2, CallLabels
    <3> HIDE DEF r
    <3> QED BY <1>0, <2>1, <3>1, <3>2, StartBodies
  <2>3. CASE UNCHANGED req /\ Read(p, "not_found")
    BY <1>0, <2>3, RefusedBodies, CallLabels
  <2> QED BY <1>5, <2>2, <2>3 DEF CommentBegin
<1> QED BY <1>1, <1>2, <1>3, <1>4, <1>5 DEF Begin

-----------------------------------------------------------------------------
\* The row that a body starts from.
LEMMA FoundBodies ==
  ASSUME IInv, BInv, NEW p \in Tasks, NEW n, NEW t, Found(p, n, t), n = rev, t = meta,
         UNCHANGED <<table, cache>>, maker' = maker \/ maker = None, source \/ maker' = p
  PROVE  BInv'
<1>1. BodyAgrees(p) /\ rev \in Nat /\ LocalShape
  BY DEF BInv, IInv, TypeOK
<1>2. UNCHANGED <<rev, meta, rows, reactions, unread, source>>
  BY DEF table
<1>3. "pins" \in Busy /\ "pins" \in Reading /\ Had["pins"] = {"rev", "meta"}
  BY DEF Busy, Reading, Had
<1>4. CASE /\ req' = [req EXCEPT ![p].got = [@ EXCEPT !.rev = n, !.meta = t]]
           /\ quiet' = quiet \cup {p} /\ Goto(p, "pins")
  <2> DEFINE got == [req[p].got EXCEPT !.rev = n, !.meta = t]
  <2>1. Set(p, "got", got)
    BY <1>4 DEF Set
  <2>2. got = [f \in Fields |-> got[f]] /\ got.rev = rev /\ got.meta = meta /\ got["rev"] = got.rev
    BY <1>1 DEF BodyAgrees, Fields
  <2> HIDE DEF got
  <2>3. /\ req'[p].got = got /\ req'[p].user = req[p].user /\ req'[p].offered = req[p].offered
        /\ \A q \in Tasks \ {p} : req'[q] = req[q]
    BY <1>1, <2>1, SetShape DEF Locals
  <2>4. pc'[p] = "pins"
    BY <1>3, <1>4, GotoType DEF IInv
  <2>5. ASSUME NEW u \in Users
        PROVE  /\ Shown(u)' = Shown(u) /\ Shown(u)["rev"] = rev /\ Shown(u)["meta"] = meta
               /\ Agrees(got, Had["pins"], rev, Shown(u))
    <3>1. Shown(u)' = Shown(u)
      BY <1>2, ShownSame
    <3>2. Shown(u)["rev"] = rev /\ Shown(u)["meta"] = meta
      BY DEF Shown
    <3> QED BY <1>1, <1>3, <2>2, <3>1, <3>2 DEF Agrees, Still
  <2>6. BodyAgrees(p)'
    <3>1. ASSUME NEW u \in Users, req'[p].user = u
          PROVE  /\ req'[p].offered # None => Agrees(req'[p].offered, Fields, rev', Shown(u)')
                 /\ Agrees(req'[p].got, Had[pc'[p]], rev', Shown(u)')
                 /\ \A f \in Had[pc'[p]] : req'[p].got[f] = Shown(u)'[f]
      BY <1>1, <1>2, <1>3, <2>2, <2>3, <2>4, <2>5, <3>1 DEF BodyAgrees
    <3>2. req'[p].got = [f \in Fields |-> req'[p].got[f]]
      BY <2>2, <2>3
    <3> QED BY <1>2, <3>1, <3>2 DEF BodyAgrees
  <2> QED BY <1>3, <1>4, <2>3, <2>6, MoveBodies
<1>5. CASE Goto(p, "find_pin") /\ UNCHANGED <<req, quiet>>
  BY <1>5, PlainBodies, CallLabels
<1> QED BY <1>4, <1>5 DEF Found

LEMMA SourceBodies ==
  ASSUME IInv, BInv, NEW p \in Tasks, EnsureSource(p) \/ InsertSource(p)
  PROVE  BInv'
<1>1. CASE EnsureSource(p) /\ source /\ Found(p, rev, meta)
  BY <1>1, FoundBodies DEF EnsureSource, locks
<1>2. CASE EnsureSource(p) /\ Goto(p, "insert_source") /\ UNCHANGED <<req, quiet>>
  BY <1>2, PlainBodies, CallLabels DEF EnsureSource, locks
<1>3. CASE InsertSource(p) /\ Rollback(p, "write_failed")
  BY <1>3, RollbackBodies, AnswersAre
<1>4. CASE /\ InsertSource(p) /\ ~source /\ maker' = p /\ Found(p, 0, None)
           /\ UNCHANGED <<table, queued, cache, rowLock, toggling>>
  <2>1. rev = 0 /\ meta = None /\ maker = None
    BY <1>4 DEF BInv, SourceFirst, InsertSource
  <2> QED BY <1>4, <2>1, FoundBodies
<1> QED BY <1>1, <1>2, <1>3, <1>4 DEF EnsureSource, InsertSource

\* One more field.
LEMMA FieldBodies ==
  ASSUME IInv, BInv, NEW p \in Tasks, NEW f \in Reading \ {"compare"}, NEW label \in Reading,
         Had[label] = Had[f] \cup {f}, ReadField(p, f, label)
  PROVE  BInv'
<1>1. BodyAgrees(p) /\ LocalShape
  BY DEF BInv, IInv
<1>2. UNCHANGED <<rev, meta, rows, reactions, unread, source, maker, table, cache, quiet>>
  BY DEF table, ReadField, Read, shared, locks
<1>3. pc[p] = f /\ label \in Busy /\ Goto(p, label) /\ pc[p] \in Sourced /\ f \in Fields /\ f # "rev"
  BY RestLabels DEF ReadField, Read, Reading, Fields
<1> DEFINE got == [req[p].got EXCEPT ![f] = Shown(req[p].user)[f]]
<1>4. Set(p, "got", got)
  BY DEF ReadField
<1>5. /\ got = [g \in Fields |-> got[g]] /\ got[f] = Shown(req[p].user)[f]
      /\ \A g \in Fields \ {f} : got[g] = req[p].got[g]
  BY <1>1, <1>3 DEF BodyAgrees
<1>6. got.rev = req[p].got.rev
  BY <1>3, <1>5 DEF Fields
<1> HIDE DEF got
<1>7. /\ req'[p].got = got /\ req'[p].user = req[p].user /\ req'[p].offered = req[p].offered
      /\ \A q \in Tasks \ {p} : req'[q] = req[q]
  BY <1>1, <1>4, SetShape DEF Locals
<1>8. pc'[p] = label
  BY <1>3, GotoType DEF IInv
<1>9. Had[f] \subseteq Fields
  BY DEF Had, Reading, Fields
<1>10. ASSUME NEW u \in Users, req[p].user = u
       PROVE  /\ Shown(u)' = Shown(u)
              /\ Agrees(got, Had[label], rev, Shown(u))
              /\ p \in quiet => \A g \in Had[label] : got[g] = Shown(u)[g]
  <2>1. Shown(u)' = Shown(u)
    BY <1>2, ShownSame
  <2>2. Agrees(req[p].got, Had[f], rev, Shown(u)) /\ (p \in quiet => \A g \in Had[f] : req[p].got[g] = Shown(u)[g])
    BY <1>1, <1>3, <1>10 DEF BodyAgrees
  <2>3. Agrees(got, Had[label], rev, Shown(u))
    BY <1>5, <1>6, <1>9, <1>10, <2>2 DEF Agrees
  <2> QED BY <1>5, <1>9, <1>10, <2>1, <2>2, <2>3
<1>11. BodyAgrees(p)'
  <2>1. ASSUME NEW u \in Users, req'[p].user = u
        PROVE  /\ req'[p].offered # None => Agrees(req'[p].offered, Fields, rev', Shown(u)')
               /\ Agrees(req'[p].got, Had[pc'[p]], rev', Shown(u)')
               /\ p \in quiet' => \A g \in Had[pc'[p]] : req'[p].got[g] = Shown(u)'[g]
    BY <1>1, <1>2, <1>7, <1>8, <1>10, <2>1 DEF BodyAgrees
  <2>2. req'[p].got = [g \in Fields |-> req'[p].got[g]]
    BY <1>5, <1>7
  <2>3. source' \/ maker' = p
    BY <1>1, <1>2, <1>3 DEF BodyAgrees
  <2> QED BY <2>1, <2>2, <2>3 DEF BodyAgrees
<1> QED BY <1>2, <1>3, <1>7, <1>11, MoveBodies

LEMMA SurfaceBodies ==
  ASSUME IInv, BInv, NEW p \in Tasks, ReadSurface(p)
  PROVE  BInv'
<1>1. /\ Had["comments"] = Had["pins"] \cup {"pins"}
      /\ Had["reactions"] = Had["comments"] \cup {"comments"}
      /\ Had["unread"] = Had["reactions"] \cup {"reactions"}
      /\ Had["mine"] = Had["unread"] \cup {"unread"}
      /\ Had["recent"] = Had["mine"] \cup {"mine"}
      /\ Had["compare"] = Had["recent"] \cup {"recent"}
  BY DEF Had, Fields
<1>2. Reading = {"pins", "comments", "reactions", "unread", "mine", "recent", "compare"}
  BY DEF Reading
<1> QED BY <1>1, <1>2, FieldBodies DEF ReadSurface

\* The answer becomes the client's copy.
LEMMA CompareBodies ==
  ASSUME IInv, BInv, NEW p \in Tasks, Compare(p)
  PROVE  BInv'
<1>1. pc[p] = "compare" /\ pc[p] \in Reading /\ pc[p] \in Sourced /\ pc[p] \in Busy \ JobSteps
      /\ pc[p] \notin MayLock /\ Had[pc[p]] = Fields
  BY DEF Compare, Reading, Sourced, Busy, JobSteps, MayLock, Locked, Had
<1>2. Counts /\ rev \in Nat
  BY StepCounts DEF Step, IInv, TypeOK
<1>3. req[p].user \in Users
  BY <1>1 DEF IInv, LocalsTyped, LocalTyped
<1>4. /\ UNCHANGED <<meta, rows, reactions, unread>>
      /\ quiet' = (IF maker = p THEN {} ELSE quiet \ {p})
      /\ \/ Commit(p, "not_modified") /\ UNCHANGED cache
         \/ Commit(p, "fresh") /\ cache' = [cache EXCEPT ![req[p].user] = req[p].got]
  BY DEF Compare
<1>5. UNCHANGED rev
  BY <1>1, <1>4 DEF IInv, RevisionLocked, Commit
<1>6. CacheAgrees'
  <2>1. CASE UNCHANGED cache
    BY <1>2, <2>1, CacheKept DEF BInv
  <2>2. CASE cache' = [cache EXCEPT ![req[p].user] = req[p].got]
    <3>1. Agrees(req[p].got, Fields, rev, Shown(req[p].user))
      BY <1>1, <1>3 DEF BInv, BodyAgrees
    <3>2. /\ cache' = [u \in Users |-> cache'[u]] /\ cache'[req[p].user] = req[p].got
          /\ \A u \in Users \ {req[p].user} : cache'[u] = cache[u]
      BY <1>3, <2>2 DEF BInv, CacheAgrees
    <3>3. ASSUME NEW u \in Users, cache'[u] # None
          PROVE  Agrees(cache'[u], Fields, rev, Shown(u))
      BY <3>1, <3>2, <3>3 DEF BInv, CacheAgrees
    <3>4. \A u \in Users : Shown(u)' = Shown(u)
      BY <1>4, <1>5, ShownSame
    <3> QED BY <1>5, <3>2, <3>3, <3>4 DEF CacheAgrees
  <2> QED BY <1>4, <2>1, <2>2
<1>7. "not_modified" \in Answers /\ "fresh" \in Answers
  BY DEF Answers
<1> QED BY <1>1, <1>2, <1>4, <1>5, <1>6, <1>7, CommitBodies

LEMMA StepLabels ==
  /\ {"bump_pin", "bump_note", "refresh_pin", "bump_comment", "anchor", "beneficiary",
      "delete_reaction", "bump_react", "insert_reaction", "bump_unreact", "end_unreact",
      "bump_job"} \subseteq Busy \ Reading
  /\ {"find_pin", "refresh_pin", "insert_pin", "update_note", "delete_pin", "parent", "insert_comment",
      "set_deleted", "set_body", "find_reaction", "anchor", "beneficiary", "delete_reaction",
      "end_unreact", "insert_reaction", "write_job"} \subseteq Sourced
  /\ \A b \in Bumps : b[1] \in Sourced /\ b[2] \in Busy \ Reading
BY DEF Busy, Reading, Sourced, Bumps

\* A step of one who has seen the page's row, and reads or locks something.
LEMMA GoBodies ==
  ASSUME IInv, BInv, NEW p \in Tasks, pc[p] \in Sourced, NEW label \in Busy \ Reading, Goto(p, label),
         UNCHANGED <<table, cache, quiet, maker>>,
         \/ UNCHANGED req
         \/ \E f \in Locals \ {"user", "offered", "got"} : \E v : Set(p, f, v)
  PROVE  BInv'
<1>1. source \/ maker = p
  BY DEF BInv, BodyAgrees
<1>2. CASE UNCHANGED req
  BY <1>1, <1>2, PlainBodies
<1>3. ASSUME NEW f \in Locals \ {"user", "offered", "got"}, NEW v, Set(p, f, v)
      PROVE  BInv'
  <2>1. /\ \A g \in Locals \ {f} : req'[p][g] = req[p][g]
        /\ \A q \in Tasks \ {p} : req'[q] = req[q]
    BY <1>3, SetShape DEF IInv
  <2>2. req'[p].user = req[p].user /\ req'[p].offered = req[p].offered /\ req'[p].got = req[p].got
    BY <1>3, <2>1 DEF Locals
  <2> QED BY <1>1, <2>1, <2>2, PlainBodies
<1> QED BY <1>2, <1>3

LEMMA SelectBodies ==
  ASSUME IInv, BInv, NEW p \in Tasks,
         \/ FindPin(p) \/ CommentParent(p) \/ FindReaction(p) \/ Anchor(p) \/ Beneficiary(p)
         \/ DeleteReaction(p) \/ \E b \in Bumps : Bump(p, b[1], b[2])
  PROVE  BInv'
<1>0. {"row", "notify", "marks", "anchored", "bumped"} \subseteq Locals \ {"user", "offered", "got"}
  BY DEF Locals
<1> DEFINE Quietly(label) == Goto(p, label) /\ UNCHANGED <<table, cache, quiet, maker>>
<1>1. \A label : Read(p, label) => Quietly(label)
  BY DEF Read, shared, locks
<1> HIDE DEF Quietly
<1>2. CASE FindPin(p)
  <2>1. pc[p] = "find_pin" /\ (Quietly("bump_pin") \/ Quietly("bump_note") \/ Quietly("refresh_pin"))
        /\ (UNCHANGED req \/ \E x \in pins : Set(p, "row", x))
    BY <1>1, <1>2 DEF FindPin
  <2> QED BY <1>0, <2>1, GoBodies, StepLabels DEF Quietly
<1>3. CASE CommentParent(p)
  <2>1. CASE Rollback(p, "not_found")
    BY <2>1, RollbackBodies, CallLabels
  <2>2. CASE Set(p, "notify", req[p].notify \cup {owner[req[p].parent]}) /\ Read(p, "bump_comment")
    <3>1. pc[p] = "parent" /\ Quietly("bump_comment")
      BY <1>1, <1>3, <2>2 DEF CommentParent
    <3> QED BY <1>0, <2>2, <3>1, GoBodies, StepLabels DEF Quietly
  <2> QED BY <1>3, <2>1, <2>2 DEF CommentParent
<1>4. CASE FindReaction(p)
  <2>1. pc[p] = "find_reaction" /\ Quietly("anchor") /\ Set(p, "marks", reactions \cap {Key(p)})
    BY <1>1, <1>4 DEF FindReaction
  <2> QED BY <1>0, <2>1, GoBodies, StepLabels DEF Quietly
<1>5. CASE Anchor(p)
  <2>1. /\ pc[p] = "anchor" /\ Quietly("beneficiary")
        /\ Set(p, "anchored", req[p].row \in pins \cup (comments \ removed))
    BY <1>1, <1>5 DEF Anchor
  <2> QED BY <1>0, <2>1, GoBodies, StepLabels DEF Quietly
<1>6. CASE Beneficiary(p)
  <2>1. /\ pc[p] = "beneficiary"
        /\ Quietly("delete_reaction") \/ Quietly("bump_react") \/ Quietly("insert_reaction")
        /\ Set(p, "notify", {owner[x] : x \in {req[p].row} \cap (pins \cup comments)})
    BY <1>1, <1>6 DEF Beneficiary
  <2> QED BY <1>0, <2>1, GoBodies, StepLabels DEF Quietly
<1>7. CASE DeleteReaction(p)
  <2>1. /\ pc[p] = "delete_reaction" /\ UNCHANGED <<req, table, cache, quiet, maker>>
        /\ Goto(p, "bump_unreact") \/ Goto(p, "end_unreact")
    BY <1>7 DEF DeleteReaction, shared
  <2> QED BY <2>1, GoBodies, StepLabels
<1>8. ASSUME NEW b \in Bumps, Bump(p, b[1], b[2]) PROVE BInv'
  <2>1. /\ pc[p] \in Sourced /\ b[2] \in Busy \ Reading /\ Goto(p, b[2])
        /\ UNCHANGED <<table, cache, quiet, maker>> /\ Set(p, "bumped", rev + 1)
    BY <1>8, StepLabels DEF Bump, shared
  <2> QED BY <1>0, <2>1, GoBodies
<1> QED BY <1>2, <1>3, <1>4, <1>5, <1>6, <1>7, <1>8

LEMMA CommitsBodies ==
  ASSUME IInv, BInv, NEW p \in Tasks, Step(p),
         \/ InsertPin(p) \/ UpdateNote(p) \/ RefreshPin(p) \/ DeletePin(p) \/ InsertComment(p)
         \/ SetDeleted(p) \/ SetBody(p) \/ EndUnreact(p) \/ InsertReaction(p) \/ Ack(p) \/ WriteJob(p)
  PROVE  BInv'
<1>1. Counts
  BY StepCounts
<1>2. CASE \E answer \in {"write_failed"} : Rollback(p, answer)
  BY <1>2, RollbackBodies, AnswersAre
<1>3. CASE /\ CommitWrite(p, "ok") \/ CommitWrite(p, "created")
           /\ source \/ pc[p] \in Sourced
  BY <1>1, <1>3, WriteBodies, AnswersAre
<1>4. CASE /\ RefreshPin(p) /\ Commit(p, "ok")
           /\ UNCHANGED <<meta, rows, reactions, unread, cache, quiet>>
  <2>1. pc[p] = "refresh_pin" /\ pc[p] \in Sourced
    BY <1>4, StepLabels DEF RefreshPin
  <2>2. UNCHANGED rev
    BY <1>4, <2>1 DEF IInv, RevisionLocked, Commit, MayLock, Locked
  <2>3. CacheAgrees'
    BY <1>1, <1>4, CacheKept DEF IInv, TypeOK, BInv
  <2> QED BY <1>1, <1>4, <2>1, <2>2, <2>3, CommitBodies, AnswersAre
<1> QED
  BY <1>2, <1>3, <1>4, StepLabels DEF InsertPin, UpdateNote, RefreshPin, DeletePin, InsertComment,
     SetDeleted, SetBody, EndUnreact, InsertReaction, Ack, WriteJob

LEMMA JobBodies ==
  ASSUME IInv, BInv, NEW j \in Jobs, JobBegin(j)
  PROVE  BInv'
<1>1. PICK label \in {"skipped", "bump_job"} : Goto(j, label) /\ (label = "bump_job" => source)
  BY DEF JobBegin
<1>2. label \in (Busy \ Reading) \cup Answers /\ (label \in Sourced => source) /\ j \in Tasks
  BY <1>1, StepLabels, CallLabels, RestLabels DEF Tasks
<1> QED BY <1>1, <1>2, PlainBodies DEF JobBegin, locks

LEMMA BodiesInitially == Init => BInv
<1> SUFFICES ASSUME Init PROVE BInv
  OBVIOUS
<1>1. SourceFirst
  BY DEF Init, SourceFirst
<1>2. CacheAgrees
  BY DEF Init, CacheAgrees
<1>3. ASSUME NEW p \in Tasks PROVE BodyAgrees(p)
  <2>1. pc[p] = "idle" /\ req[p] = Blank
    BY DEF Init
  <2> QED BY <2>1, BlankBody, RestLabels DEF BodyAgrees
<1> QED BY <1>1, <1>2, <1>3 DEF BInv

LEMMA NextBodies ==
  ASSUME IInv, BInv, [Next]_vars
  PROVE  BInv'
<1>1. ASSUME NEW p \in Requests, Begin(p) PROVE BInv'
  BY <1>1, CallBodies
<1>2. ASSUME NEW j \in Jobs, JobBegin(j) PROVE BInv'
  BY <1>2, JobBodies
<1>3. ASSUME NEW p \in Tasks, Abort(p) PROVE BInv'
  BY <1>3, RollbackBodies, AnswersAre DEF Abort
<1>4. ASSUME NEW p \in Tasks, Step(p) PROVE BInv'
  BY <1>4, SourceBodies, SurfaceBodies, CompareBodies, SelectBodies, CommitsBodies DEF Step
<1>5. CASE UNCHANGED vars
  <2>1. /\ UNCHANGED <<source, rev, meta, pins, comments, removed, owner, under, notes>>
        /\ UNCHANGED <<reactions, unread, maker, rowLock, toggling, queued, quiet, cache, pc, req>>
        /\ UNCHANGED <<table, rows>>
    BY <1>5 DEF vars, table, rows, shared, locks
  <2>2. Counts /\ \A u \in Users : Shown(u)' = Shown(u)
    BY <2>1, KeepsCount, ShownSame
  <2>3. SourceFirst'
    BY <2>1 DEF BInv, SourceFirst
  <2>4. CacheAgrees'
    BY <2>1, <2>2, CacheKept DEF IInv, TypeOK, BInv
  <2>5. ASSUME NEW p \in Tasks PROVE BodyAgrees(p)'
    BY <2>1, <2>2 DEF BInv, BodyAgrees
  <2> QED BY <2>3, <2>4, <2>5 DEF BInv
<1> QED BY <1>1, <1>2, <1>3, <1>4, <1>5 DEF Next

-----------------------------------------------------------------------------
\* Only the last statement of a resolve answers 304.
LEMMA OneMoves ==
  ASSUME NEW p \in Tasks, Step(p)
  PROVE  \E label : Goto(p, label)
<1>1. ASSUME NEW f, NEW label, ReadField(p, f, label) PROVE \E l : Goto(p, l)
  BY <1>1 DEF ReadField, Read
<1>2. ASSUME NEW b, Bump(p, b[1], b[2]) PROVE \E l : Goto(p, l)
  BY <1>2 DEF Bump
<1>3. ASSUME NEW answer, CommitWrite(p, answer) \/ Commit(p, answer) \/ Rollback(p, answer)
      PROVE  \E l : Goto(p, l)
  BY <1>3 DEF CommitWrite, Commit, Rollback, End
<1>4. ASSUME NEW n, NEW t, Found(p, n, t) PROVE \E l : Goto(p, l)
  BY <1>4 DEF Found
<1>5. ASSUME EnsureSource(p) \/ InsertSource(p) PROVE \E l : Goto(p, l)
  BY <1>3, <1>4, <1>5 DEF EnsureSource, InsertSource
<1>6. ASSUME FindPin(p) \/ CommentParent(p) \/ FindReaction(p) \/ Anchor(p) \/ Beneficiary(p)
             \/ DeleteReaction(p)
      PROVE  \E l : Goto(p, l)
  BY <1>3, <1>6 DEF FindPin, CommentParent, FindReaction, Anchor, Beneficiary, DeleteReaction, Read
<1>7. ASSUME \/ InsertPin(p) \/ UpdateNote(p) \/ RefreshPin(p) \/ DeletePin(p) \/ InsertComment(p)
             \/ SetDeleted(p) \/ SetBody(p) \/ EndUnreact(p) \/ InsertReaction(p) \/ Ack(p)
             \/ WriteJob(p) \/ Compare(p)
      PROVE  \E l : Goto(p, l)
  BY <1>3, <1>7 DEF InsertPin, UpdateNote, RefreshPin, DeletePin, InsertComment, SetDeleted, SetBody,
     EndUnreact, InsertReaction, Ack, WriteJob, Compare
<1> QED BY <1>1, <1>2, <1>5, <1>6, <1>7 DEF Step, ReadSurface

LEMMA OnlyCompares ==
  ASSUME NEW p \in Tasks, Step(p), pc[p] = "compare"
  PROVE  Compare(p)
<1>1. \A b \in Bumps : b[1] # "compare"
  BY DEF Bumps
<1>2. ~ \E b \in Bumps : Bump(p, b[1], b[2])
  BY <1>1 DEF Bump
<1>3. ~ ReadSurface(p)
  BY DEF ReadSurface, ReadField
<1> QED
  BY <1>2, <1>3 DEF Step, EnsureSource, InsertSource, FindPin, InsertPin, UpdateNote, RefreshPin,
     DeletePin, CommentParent, InsertComment, SetDeleted, SetBody, FindReaction, Anchor, Beneficiary,
     DeleteReaction, EndUnreact, InsertReaction, Ack, WriteJob

LEMMA NotModifiedBy ==
  ASSUME IInv, NEW p \in Tasks, pc[p] = "compare", pc'[p] = "not_modified", [Next]_vars
  PROVE  Compare(p) /\ req[p].offered # None /\ Tag(req[p].offered) = Tag(req[p].got)
<1>0. TypeOK /\ LocalShape
  BY DEF IInv
<1>1. Compare(p)
  <2>1. \A q \in Tasks : \A label : Goto(q, label) => pc'[p] = IF q = p THEN label ELSE "compare"
    BY <1>0 DEF TypeOK, Goto
  <2>2. \A q \in Requests : ~ Begin(q)
    <3> SUFFICES ASSUME NEW q \in Requests, Begin(q) PROVE FALSE
      OBVIOUS
    <3>1. pc[q] = "idle" /\ \E label : Goto(q, label)
      BY DEF Begin, ResolveBegin, AckBegin, PinBegin, UnpinBegin, RemoveBegin, EditBegin, ReactBegin,
         CommentBegin, Start, Read
    <3> QED BY <2>1, <3>1 DEF Tasks
  <2>3. \A q \in Jobs : ~ JobBegin(q)
    BY <2>1 DEF JobBegin, Tasks
  <2>4. \A q \in Tasks : ~ Abort(q)
    BY <2>1 DEF Abort, Rollback, End
  <2>5. \A q \in Tasks \ {p} : ~ Step(q)
    BY <2>1, OneMoves
  <2>6. ~ UNCHANGED vars
    BY DEF vars
  <2> QED BY <2>2, <2>3, <2>4, <2>5, <2>6, OnlyCompares DEF Next
<1>2. ~Commit(p, "fresh")
  BY <1>0, EndType DEF Commit, Answers
<1> QED BY <1>1, <1>2 DEF Compare

\* Same revision and same tag as a body that shows the page: the same body.
LEMMA SameBody ==
  ASSUME NEW u, NEW copy, NEW got, Tag(copy) = Tag(got), got.rev = rev,
         \A f \in Fields : got[f] = Shown(u)[f],
         Agrees(copy, Fields, rev, Shown(u))
  PROVE  copy = Shown(u)
<1>1. /\ copy["rev"] = got["rev"] /\ copy["pins"] = got["pins"] /\ copy["comments"] = got["comments"]
      /\ copy["reactions"] = got["reactions"] /\ copy["unread"] = got["unread"]
  BY DEF Tag
<1>2. copy["meta"] = Shown(u)["meta"] /\ copy["mine"] = Shown(u)["mine"] /\ copy["recent"] = Shown(u)["recent"]
  BY <1>1 DEF Agrees, Fields, Still
<1>3. \A f \in Fields : copy[f] = Shown(u)[f]
  BY <1>1, <1>2 DEF Fields
<1>4. Shown(u) = [f \in Fields |-> Shown(u)[f]]
  BY DEF Shown, Fields
<1> QED BY <1>3, <1>4 DEF Agrees

LEMMA BodiesRight == Spec => []BInv
<1>1. IInv /\ BInv /\ [Next]_vars => BInv'
  BY NextBodies
<1> QED BY Invariant, BodiesInitially, <1>1, PTL DEF Spec

\* A resolve that no commit overlapped answers 304 only if the copy its client
\* offered is what the page shows: the tag may leave note, title and handles to
\* the revision.
THEOREM NotModifiedExactly == Spec => NotModifiedIsExact
<1>1. ASSUME IInv, BInv, [Next]_vars
      PROVE  [\A p \in quiet :
                pc[p] = "compare" /\ pc'[p] = "not_modified" =>
                  req[p].offered = Shown(req[p].user)]_vars
  <2> SUFFICES ASSUME NEW p \in quiet, pc[p] = "compare", pc'[p] = "not_modified"
               PROVE  req[p].offered = Shown(req[p].user)
    OBVIOUS
  <2>0. p \in Tasks
    BY <1>1 DEF IInv, TypeOK, Tasks
  <2>1. p \in Tasks /\ req[p].user \in Users
    BY <1>1, <2>0 DEF IInv, LocalsTyped, LocalTyped, Busy, JobSteps
  <2>2. Tag(req[p].offered) = Tag(req[p].got) /\ req[p].offered # None
    BY <2>1, <1>1, NotModifiedBy
  <2>3. pc[p] \in Reading /\ Had[pc[p]] = Fields /\ "rev" \in Fields
    BY DEF Reading, Had, Fields
  <2>4. /\ Agrees(req[p].offered, Fields, rev, Shown(req[p].user))
        /\ \A f \in Fields : req[p].got[f] = Shown(req[p].user)[f]
    BY <1>1, <2>1, <2>2, <2>3 DEF BInv, BodyAgrees
  <2>5. req[p].got.rev = rev
    BY <2>3, <2>4 DEF Shown
  <2> QED BY <2>2, <2>4, <2>5, SameBody
<1> QED BY Invariant, BodiesRight, <1>1, PTL DEF Spec, NotModifiedIsExact

-----------------------------------------------------------------------------
\* Steps of one that may have inserted the page's row, of one that adds a
\* comment or a reply, and of one that toggles a reaction.
MakerSteps == {"pins", "comments", "reactions", "unread", "mine", "recent", "compare",
               "find_pin", "bump_pin", "insert_pin"}
CommentSteps == {"bump_comment", "insert_comment"}
ToggleSteps == {"delete_reaction", "bump_unreact", "end_unreact", "bump_react", "insert_reaction"}
LastToggles == {"end_unreact", "insert_reaction"}
AnchorSteps == ToggleSteps \cup {"beneficiary"}

\* Whom a comment or a reply tells, apart from its author's followers.
Replies(p) ==
  \/ req[p].parent = None /\ req[p].notify = {owner[req[p].row]}
  \/ /\ req[p].parent \in comments /\ under[req[p].parent] = req[p].row
     /\ req[p].notify = {owner[req[p].row], owner[req[p].parent]}

\* What a task read before is what it may still rely on when it writes.
Knows(p) ==
  /\ pc[p] \in RowSteps \cup JobSteps => source
  /\ maker = p => ~source /\ pc[p] \in MakerSteps
  /\ pc[p] \in RowSteps => owner[req[p].row] # None
  /\ pc[p] \in {"bump_note", "update_note"} => req[p].note \in Notes
  /\ pc[p] = "parent" => req[p].parent # None /\ req[p].notify = {owner[req[p].row]}
  /\ pc[p] \in CommentSteps => Replies(p)
  /\ pc[p] \in AnchorSteps => /\ req[p].anchored \in BOOLEAN
                              /\ ~req[p].anchored => Page!Gone(req[p].row)
  /\ pc[p] \in ToggleSteps =>
       \/ req[p].notify = {owner[req[p].row]}
       \/ req[p].notify = {} /\ req[p].row \notin pins \cup comments
  /\ pc[p] \in {"bump_unreact", "bump_react"} => req[p].anchored
  /\ pc[p] \in LastToggles => (req[p].anchored <=> rowLock = p)
  /\ pc[p] = "ack" => \A n \in req[p].marks : n[1] = req[p].user

\* Until it has answered a request has left nothing.
Fresh ==
  \A p \in Requests :
    pc[p] \notin Answers => owner[p] = None /\ \A n \in unread : n[2] # p

KInv ==
  /\ pins \cup comments # {} => source
  /\ Fresh
  /\ \A p \in Tasks : Knows(p)

\* What a step of p may do to what others rely on: its own row at most is new,
\* nothing that was inserted changes hands and what is removed stays so.
Own(p) == Requests \cap {p}
Respects(p) ==
  /\ source => source'
  /\ source' => source \/ maker = p
  /\ \A x \in Rows \ Own(p) : owner'[x] = owner[x] /\ under'[x] = under[x]
  /\ pins' \subseteq pins \cup Own(p)
  /\ comments \subseteq comments' /\ comments' \subseteq comments \cup Own(p)
  /\ removed \subseteq removed'
  /\ \A n \in unread' : n \in unread \/ n[2] \in Own(p)
  /\ pins' \cup comments' # {} => source'

LEMMA KeepsRespect ==
  ASSUME KInv, NEW p, UNCHANGED table
  PROVE  Respects(p)
BY DEF table, rows, Respects, KInv

\* A step of p leaves what another task knows.
LEMMA OthersKnow ==
  ASSUME IInv, KInv, NEW p \in Tasks, NEW q \in Tasks \ {p}, pc[p] \notin Answers,
         Respects(p), pc'[q] = pc[q], req'[q] = req[q], maker' = q <=> maker = q,
         rowLock' = q <=> rowLock = q
  PROVE  Knows(q)'
<1>1. Knows(q) /\ LocalTyped(q) /\ Fresh /\ TypeOK
  BY DEF KInv, IInv, LocalsTyped
<1>2. pc[q] \in RowSteps => req[q].row \in Rows \ Own(p)
  BY <1>1 DEF Knows, LocalTyped, Fresh, Own
<1>3. CommentSteps \cup AnchorSteps \cup ToggleSteps \cup LastToggles \cup {"parent"} \subseteq RowSteps
  BY DEF CommentSteps, AnchorSteps, ToggleSteps, LastToggles, RowSteps
<1>4. pc[q] \in RowSteps => owner'[req[q].row] = owner[req[q].row]
  BY <1>2 DEF Respects
<1>5. maker' = q => ~source'
  BY <1>1, TasksDiffer DEF Knows, Respects
<1>6. pc[q] \in CommentSteps => Replies(q)'
  <2> SUFFICES ASSUME pc[q] \in CommentSteps PROVE Replies(q)'
    OBVIOUS
  <2>1. CASE req[q].parent = None /\ req[q].notify = {owner[req[q].row]}
    BY <1>3, <1>4, <2>1 DEF Replies
  <2>2. CASE /\ req[q].parent \in comments /\ under[req[q].parent] = req[q].row
             /\ req[q].notify = {owner[req[q].row], owner[req[q].parent]}
    <3>1. req[q].parent \in Rows \ Own(p)
      BY <1>1, <2>2, NoRowYet DEF TypeOK, Own
    <3> QED BY <1>3, <1>4, <2>2, <3>1 DEF Replies, Respects
  <2> QED BY <1>1, <2>1, <2>2 DEF Knows, Replies
<1>7. pc[q] \in RowSteps /\ Page!Gone(req[q].row) => Page!Gone(req[q].row)'
  BY <1>2 DEF Page!Gone, Respects
<1>8. pc[q] \in RowSteps /\ req[q].row \notin pins \cup comments => req[q].row \notin pins' \cup comments'
  BY <1>2 DEF Respects
<1>9. pc[q] \in RowSteps \cup JobSteps => source'
  BY <1>1 DEF Knows, Respects
<1>10. /\ pc[q] \in AnchorSteps =>
            req[q].anchored \in BOOLEAN /\ (~req[q].anchored => Page!Gone(req[q].row)')
       /\ pc[q] \in ToggleSteps =>
            \/ req[q].notify = {owner'[req[q].row]}
            \/ req[q].notify = {} /\ req[q].row \notin pins' \cup comments'
  BY <1>1, <1>3, <1>4, <1>7, <1>8 DEF Knows
<1> QED BY <1>1, <1>3, <1>4, <1>5, <1>6, <1>9, <1>10 DEF Knows

\* If a step of p respects the others and p knows what it has to, all do.
LEMMA AllKnow ==
  ASSUME IInv, KInv, NEW p \in Tasks, pc[p] \notin Answers, Respects(p),
         \A q \in Tasks \ {p} : /\ pc'[q] = pc[q] /\ req'[q] = req[q]
                                /\ maker' = q <=> maker = q
                                /\ rowLock' = q <=> rowLock = q,
         pc'[p] \notin Answers => UNCHANGED <<owner, unread>>,
         Knows(p)'
  PROVE  KInv'
<1>1. \A q \in Tasks : Knows(q)'
  BY OthersKnow
<1>2. Fresh'
  <2> SUFFICES ASSUME NEW q \in Requests, pc'[q] \notin Answers
               PROVE  owner'[q] = None /\ \A n \in unread' : n[2] # q
    BY DEF Fresh
  <2>1. Fresh /\ q \in Tasks /\ q \in Rows
    BY DEF KInv, Tasks, Rows
  <2>2. CASE q = p
    BY <2>1, <2>2 DEF Fresh
  <2>3. CASE q # p
    <3>1. pc[q] \notin Answers
      BY <2>1, <2>3
    <3> QED BY <2>1, <2>3, <3>1 DEF Fresh, Respects, Own
  <2> QED BY <2>2, <2>3
<1> QED BY <1>1, <1>2 DEF KInv, Respects

LEMMA EndKnows ==
  ASSUME IInv, KInv, NEW p \in Tasks, NEW answer \in Answers, pc[p] \in Busy, End(p, answer),
         Respects(p)
  PROVE  KInv'
<1>1. TypeOK /\ LocalShape /\ pc[p] \notin Answers /\ answer \notin Busy
  BY LabelsDiffer DEF IInv
<1>2. /\ pc'[p] = answer /\ rowLock' # p
      /\ \A q \in Tasks \ {p} : /\ pc'[q] = pc[q] /\ req'[q] = req[q]
                                /\ rowLock' = q <=> rowLock = q
  BY <1>1, EndType
<1>3. maker' # p /\ \A q \in Tasks \ {p} : maker' = q <=> maker = q
  BY TasksDiffer DEF End
<1>4. RowSteps \cup JobSteps \cup {"ack", "parent"} \cup CommentSteps \cup AnchorSteps
        \cup ToggleSteps \cup LastToggles \subseteq Busy
  BY DEF Busy, RowSteps, JobSteps, CommentSteps, AnchorSteps, ToggleSteps, LastToggles
<1>5. {"bump_note", "update_note", "bump_unreact", "bump_react"} \subseteq RowSteps
  BY DEF RowSteps
<1>6. Knows(p)'
  BY <1>1, <1>2, <1>3, <1>4, <1>5 DEF Knows
<1> QED BY <1>1, <1>2, <1>3, <1>6, AllKnow

LEMMA RollbackKnows ==
  ASSUME IInv, KInv, NEW p \in Tasks, NEW answer \in Answers, pc[p] \in Busy, Rollback(p, answer)
  PROVE  KInv'
BY EndKnows, KeepsRespect DEF Rollback

\* p goes on and has not changed the page.
LEMMA MoveKnows ==
  ASSUME IInv, KInv, NEW p \in Tasks, pc[p] \notin Answers, NEW label \in Busy \cup Answers,
         Goto(p, label), UNCHANGED <<table>>,
         maker' = maker \/ (maker = None /\ maker' = p),
         rowLock' = rowLock \/ (rowLock = None /\ rowLock' = p),
         \A q \in Tasks \ {p} : req'[q] = req[q],
         Knows(p)'
  PROVE  KInv'
<1>1. TypeOK
  BY DEF IInv
<1>2. \A q \in Tasks \ {p} : pc'[q] = pc[q]
  BY <1>1, GotoType
<1>3. \A q \in Tasks \ {p} : (maker' = q <=> maker = q) /\ (rowLock' = q <=> rowLock = q)
  BY TasksDiffer
<1>4. UNCHANGED <<owner, unread>>
  BY DEF table, rows
<1> QED BY <1>2, <1>3, <1>4, AllKnow, KeepsRespect

\* A step to a label where only whoever may have inserted the page's row has
\* something to know.
Easy == {"ensure", "insert_source"} \cup MakerSteps \cup Answers
LEMMA EasyKnows ==
  ASSUME NEW p \in Tasks, pc'[p] \in Easy, maker' = p => ~source' /\ pc'[p] \in MakerSteps
  PROVE  Knows(p)'
<1>1. /\ pc'[p] \notin RowSteps \cup JobSteps \cup {"ack", "parent"}
      /\ pc'[p] \notin CommentSteps \cup AnchorSteps \cup ToggleSteps \cup LastToggles
      /\ pc'[p] \notin {"bump_note", "update_note", "bump_unreact", "bump_react"}
  BY DEF Easy, MakerSteps, Answers, RowSteps, JobSteps, CommentSteps, AnchorSteps, ToggleSteps,
     LastToggles
<1> QED BY <1>1 DEF Knows

LEMMA NotMaker ==
  ASSUME KInv, NEW p \in Tasks, pc[p] \notin MakerSteps
  PROVE  maker # p
BY DEF KInv, Knows

\* A request begins, or is refused.
LEMMA BeginEasy ==
  ASSUME IInv, KInv, NEW p \in Requests, pc[p] = "idle", NEW label \in Easy, Read(p, label),
         \A q \in Tasks \ {p} : req'[q] = req[q]
  PROVE  KInv'
<1>1. p \in Tasks /\ TypeOK /\ label \in Busy \cup Answers /\ pc[p] \notin Answers
  BY LabelsDiffer DEF IInv, Tasks, Easy, MakerSteps, Busy
<1>2. pc'[p] = label /\ maker' = maker /\ rowLock' = rowLock /\ maker # p
  BY <1>1, GotoType, NotMaker DEF Read, locks, MakerSteps
<1>3. Knows(p)'
  BY <1>1, <1>2, EasyKnows
<1> QED BY <1>1, <1>2, <1>3, MoveKnows DEF Read

\* A request begins with the row x, which is there.
LEMMA BeginRow ==
  ASSUME IInv, KInv, NEW p \in Requests, pc[p] = "idle", NEW x \in pins \cup comments,
         NEW label \in {"bump_unpin", "bump_remove", "bump_edit", "find_reaction"},
         Read(p, label), NEW u, req' = [req EXCEPT ![p] = [Blank EXCEPT !.user = u, !.row = x]]
  PROVE  KInv'
<1>1. p \in Tasks /\ TypeOK /\ LocalShape /\ label \in Busy \cup Answers /\ pc[p] \notin Answers
  BY LabelsDiffer DEF IInv, Tasks, Busy
<1>2. /\ pc'[p] = label /\ maker' = maker /\ rowLock' = rowLock /\ maker # p
      /\ UNCHANGED table
  BY <1>1, GotoType, NotMaker DEF Read, locks, MakerSteps
<1>3. \A q \in Tasks \ {p} : req'[q] = req[q]
  BY <1>1 DEF LocalShape
<1>4. req'[p].row = x
  BY <1>1, BlankIs DEF LocalShape, Locals
<1>5. source' /\ owner'[x] # None
  BY <1>2, TasksDiffer DEF IInv, RowsOwned, KInv, table, rows
<1>6. pc'[p] \notin AnchorSteps \cup ToggleSteps \cup CommentSteps \cup LastToggles
      /\ pc'[p] \notin {"bump_note", "update_note", "parent", "bump_unreact", "bump_react", "ack"}
  BY <1>2 DEF AnchorSteps, ToggleSteps, CommentSteps, LastToggles
<1>7. Knows(p)'
  BY <1>2, <1>4, <1>5, <1>6 DEF Knows
<1> QED BY <1>1, <1>2, <1>3, <1>7, MoveKnows DEF Read

\* What Goto and a read leave of the others' and of p's own variables.
LEMMA ReadMoves ==
  ASSUME IInv, NEW p \in Tasks, NEW label \in Busy \cup Answers, Read(p, label)
  PROVE  /\ pc'[p] = label /\ UNCHANGED <<table, maker, rowLock>>
         /\ UNCHANGED <<source, rev, meta, pins, comments, removed, owner, under, notes>>
         /\ UNCHANGED <<reactions, unread>>
BY GotoType DEF IInv, Read, locks, table, rows

LEMMA CallKnows ==
  ASSUME IInv, KInv, NEW p \in Requests, Begin(p)
  PROVE  KInv'
<1>0. /\ p \in Tasks /\ TypeOK /\ LocalShape
      /\ {"ensure", "not_found", "forbidden", "ok"} \subseteq Easy /\ "find_pin" \in Easy
  BY DEF IInv, Tasks, Easy, Answers, MakerSteps
<1>1. ASSUME NEW u \in Users, ResolveBegin(p, u) PROVE KInv'
  <2>1. pc[p] = "idle" /\ Read(p, "ensure")
    BY <1>1 DEF ResolveBegin, Start
  <2>2. \A q \in Tasks \ {p} : req'[q] = req[q]
    BY <1>0, <1>1 DEF ResolveBegin, LocalShape
  <2> QED BY <1>0, <2>1, <2>2, BeginEasy
<1>2. ASSUME NEW u \in Users, AckBegin(p, u) PROVE KInv'
  <2>1. /\ pc[p] = "idle" /\ Read(p, "ack")
        /\ req' = [req EXCEPT ![p] = [Blank EXCEPT !.user = u, !.marks = {n \in unread : n[1] = u}]]
    BY <1>2 DEF AckBegin, Start
  <2>2. /\ \A q \in Tasks \ {p} : req'[q] = req[q]
        /\ req'[p].user = u /\ req'[p].marks = {n \in unread : n[1] = u}
    BY <1>0, <2>1 DEF LocalShape, Blank
  <2>3. "ack" \in Busy /\ pc[p] \notin Answers
    BY <2>1, LabelsDiffer DEF Busy
  <2>4. pc'[p] = "ack" /\ UNCHANGED <<table, maker, rowLock>> /\ maker # p
    BY <1>0, <2>1, <2>3, ReadMoves, NotMaker DEF MakerSteps
  <2>5. "ack" \notin RowSteps \cup JobSteps \cup {"parent"} \cup CommentSteps \cup AnchorSteps
                    \cup ToggleSteps \cup LastToggles
    BY DEF RowSteps, JobSteps, CommentSteps, AnchorSteps, ToggleSteps, LastToggles
  <2>6. Knows(p)'
    BY <2>2, <2>4, <2>5 DEF Knows
  <2> QED BY <1>0, <2>1, <2>2, <2>3, <2>4, <2>6, MoveKnows DEF Read
<1>3. ASSUME NEW u \in Users, NEW n \in Notes \cup {None}, PinBegin(p, u, n) PROVE KInv'
  <2>1. pc[p] = "idle" /\ (Read(p, "ensure") \/ Read(p, "find_pin") \/ Read(p, "not_found"))
    BY <1>3 DEF PinBegin, Start
  <2>2. \A q \in Tasks \ {p} : req'[q] = req[q]
    BY <1>0, <1>3 DEF PinBegin, LocalShape
  <2> QED BY <1>0, <2>1, <2>2, BeginEasy
<1>4. ASSUME NEW label \in {"not_found", "forbidden", "ok"}, pc[p] = "idle", Read(p, label),
             UNCHANGED req
      PROVE  KInv'
  BY <1>0, <1>4, BeginEasy
<1>5. ASSUME NEW u \in Users, NEW x \in Rows,
             UnpinBegin(p, u, x) \/ RemoveBegin(p, u, x) \/ EditBegin(p, u, x) \/ ReactBegin(p, u, x)
      PROVE  KInv'
  <2>1. CASE UnpinBegin(p, u, x)
    BY <1>4, <2>1, BeginRow DEF UnpinBegin, Start
  <2>2. CASE RemoveBegin(p, u, x)
    BY <1>4, <2>2, BeginRow DEF RemoveBegin, Start
  <2>3. CASE EditBegin(p, u, x)
    BY <1>4, <2>3, BeginRow DEF EditBegin, Start
  <2>4. CASE ReactBegin(p, u, x)
    BY <1>4, <2>4, BeginRow DEF ReactBegin, Start
  <2> QED BY <1>5, <2>1, <2>2, <2>3, <2>4
<1>6. ASSUME NEW u \in Users, NEW x \in Rows, NEW c \in Rows \cup {None}, CommentBegin(p, u, x, c)
      PROVE  KInv'
  <2>1. CASE UNCHANGED req /\ Read(p, "not_found")
    BY <1>4, <1>6, <2>1 DEF CommentBegin, Start
  <2>2. CASE /\ x \in pins
             /\ req' = [req EXCEPT ![p] = [Blank EXCEPT !.user = u, !.row = x, !.parent = c,
                                                        !.notify = {owner[x]}]]
             /\ Read(p, IF c = None THEN "bump_comment" ELSE "parent")
    <3>1. /\ \A q \in Tasks \ {p} : req'[q] = req[q]
          /\ req'[p].row = x /\ req'[p].parent = c /\ req'[p].notify = {owner[x]}
      BY <1>0, <2>2 DEF LocalShape, Blank
    <3>2. PICK label : /\ label = (IF c = None THEN "bump_comment" ELSE "parent")
                       /\ Read(p, label)
      BY <2>2
    <3>3. label \in Busy /\ label \in {"bump_comment", "parent"} /\ pc[p] = "idle" /\ pc[p] \notin Answers
      BY <1>6, <3>2, LabelsDiffer DEF CommentBegin, Start, Busy
    <3>4. /\ pc'[p] = label /\ UNCHANGED <<table, maker, rowLock>> /\ maker # p
          /\ UNCHANGED <<source, owner, under, comments>>
      BY <3>2, <3>3, <1>0, ReadMoves, NotMaker DEF MakerSteps
    <3>5. source /\ owner[x] # None
      BY <2>2, TasksDiffer DEF IInv, RowsOwned, KInv
    <3>6. label \notin AnchorSteps \cup ToggleSteps \cup LastToggles \cup {"ack"}
      BY <3>3 DEF AnchorSteps, ToggleSteps, LastToggles
    <3>7. (pc'[p] \in CommentSteps => Replies(p)') /\ (pc'[p] = "parent" => c # None)
      BY <3>1, <3>2, <3>4 DEF Replies, CommentSteps
    <3>8. Knows(p)'
      BY <3>1, <3>3, <3>4, <3>5, <3>6, <3>7 DEF Knows
    <3> QED BY <1>0, <3>1, <3>2, <3>3, <3>4, <3>8, MoveKnows DEF Read
  <2> QED BY <1>6, <2>1, <2>2 DEF CommentBegin
<1> QED
  BY <1>1, <1>2, <1>3, <1>5, <1>6 DEF Begin

LEMMA BumpKnows ==
  ASSUME IInv, KInv, NEW p \in Tasks, NEW b \in Bumps, Bump(p, b[1], b[2])
  PROVE  KInv'
<1>1. /\ pc[p] = b[1] /\ rowLock = None /\ rowLock' = p /\ Set(p, "bumped", rev + 1)
      /\ Goto(p, b[2]) /\ UNCHANGED <<table, shared, maker, toggling>>
  BY DEF Bump
<1>2. TypeOK /\ LocalShape /\ Knows(p)
  BY DEF IInv, KInv
<1>3. b[1] \in Busy /\ b[2] \in Busy /\ pc[p] \notin Answers
  BY <1>1, LabelsDiffer DEF Bumps, Busy
<1>4. /\ \A q \in Tasks \ {p} : req'[q] = req[q]
      /\ \A f \in Locals \ {"bumped"} : req'[p][f] = req[p][f]
  BY <1>1, <1>2, SetShape DEF Locals
<1>5. /\ req'[p].row = req[p].row /\ req'[p].note = req[p].note /\ req'[p].parent = req[p].parent
      /\ req'[p].notify = req[p].notify /\ req'[p].anchored = req[p].anchored
  BY <1>4 DEF Locals
<1>6. pc'[p] = b[2] /\ UNCHANGED <<source, pins, comments, removed, owner, under>>
  BY <1>1, <1>2, <1>3, GotoType DEF table, rows
<1>7. /\ b[2] \in RowSteps \cup JobSteps => b[1] \in RowSteps \cup JobSteps
      /\ b[2] \in RowSteps => b[1] \in RowSteps
      /\ b[1] \in MakerSteps => b[2] \in MakerSteps
      /\ b[2] = "update_note" => b[1] = "bump_note"
      /\ b[2] \in CommentSteps => b[1] \in CommentSteps
      /\ b[2] \in AnchorSteps => b[1] \in AnchorSteps
      /\ b[2] \in ToggleSteps => b[1] \in ToggleSteps
      /\ b[2] \in LastToggles => b[1] \in {"bump_unreact", "bump_react"}
      /\ b[2] \notin {"bump_note", "parent", "bump_unreact", "bump_react", "ack"}
  BY DEF Bumps, RowSteps, JobSteps, MakerSteps, CommentSteps, AnchorSteps, ToggleSteps, LastToggles
<1>8. b[2] \in CommentSteps => Replies(p)'
  BY <1>1, <1>2, <1>5, <1>6, <1>7 DEF Knows, Replies
<1>9. b[2] \in AnchorSteps => /\ req'[p].anchored \in BOOLEAN
                              /\ ~req'[p].anchored => Page!Gone(req[p].row)'
  BY <1>1, <1>2, <1>5, <1>6, <1>7 DEF Knows, Page!Gone
<1>10. Knows(p)'
  BY <1>1, <1>2, <1>5, <1>6, <1>7, <1>8, <1>9 DEF Knows, Page!Gone
<1> QED BY <1>1, <1>3, <1>4, <1>10, MoveKnows

LEMMA SourceKnows ==
  ASSUME IInv, KInv, NEW p \in Tasks, EnsureSource(p) \/ InsertSource(p)
  PROVE  KInv'
<1>1. TypeOK /\ LocalShape /\ p \in Tasks
  BY DEF IInv
<1>2. pc[p] \in {"ensure", "insert_source"} /\ pc[p] \in Busy /\ pc[p] \notin Answers /\ maker # p
  BY NotMaker, LabelsDiffer DEF EnsureSource, InsertSource, MakerSteps, Busy
<1>3. CASE InsertSource(p) /\ Rollback(p, "write_failed")
  BY <1>2, <1>3, RollbackKnows, AnswersAre
<1>4. ASSUME NEW label \in {"pins", "find_pin", "insert_source"}, Goto(p, label), UNCHANGED <<table, rowLock>>,
             \A q \in Tasks \ {p} : req'[q] = req[q],
             maker' = maker \/ (maker = None /\ maker' = p /\ ~source /\ label # "insert_source")
      PROVE  KInv'
  <2>1. label \in Busy /\ label \in Easy /\ (label # "insert_source" => label \in MakerSteps)
    BY DEF Busy, Easy, MakerSteps
  <2>2. pc'[p] = label /\ source' = source
    BY <1>1, <1>4, <2>1, GotoType DEF table
  <2>3. Knows(p)'
    BY <1>2, <1>4, <2>1, <2>2, EasyKnows
  <2> QED BY <1>2, <1>4, <2>1, <2>3, MoveKnows
<1>5. ASSUME NEW n, NEW t, Found(p, n, t)
      PROVE  /\ \A q \in Tasks \ {p} : req'[q] = req[q]
             /\ Goto(p, "pins") \/ Goto(p, "find_pin")
  BY <1>1, <1>5 DEF Found, LocalShape
<1>6. CASE EnsureSource(p) /\ Found(p, rev, meta)
  BY <1>4, <1>5, <1>6 DEF EnsureSource, locks
<1>7. CASE EnsureSource(p) /\ Goto(p, "insert_source") /\ UNCHANGED <<req, quiet>>
  BY <1>4, <1>7 DEF EnsureSource, locks
<1>8. CASE /\ InsertSource(p) /\ ~source /\ maker' = p /\ Found(p, 0, None)
           /\ UNCHANGED <<table, queued, cache, rowLock, toggling>>
  BY <1>4, <1>5, <1>8 DEF InsertSource
<1> QED BY <1>3, <1>6, <1>7, <1>8 DEF EnsureSource, InsertSource

LEMMA SurfaceKnows ==
  ASSUME IInv, KInv, NEW p \in Tasks, ReadSurface(p)
  PROVE  KInv'
<1> SUFFICES ASSUME NEW f \in {"pins", "comments", "reactions", "unread", "mine", "recent"},
                    NEW label \in {"comments", "reactions", "unread", "mine", "recent", "compare"},
                    ReadField(p, f, label)
             PROVE  KInv'
  BY DEF ReadSurface
<1>1. pc[p] = f /\ Set(p, "got", [req[p].got EXCEPT ![f] = Shown(req[p].user)[f]]) /\ Read(p, label)
  BY DEF ReadField
<1>2. LocalShape /\ Knows(p)
  BY DEF IInv, KInv
<1>3. f \in MakerSteps /\ f \notin Answers /\ label \in MakerSteps /\ label \in Easy /\ label \in Busy
  BY DEF MakerSteps, Easy, Answers, Busy
<1>4. \A q \in Tasks \ {p} : req'[q] = req[q]
  BY <1>1, <1>2, SetShape DEF Locals
<1>5. pc'[p] = label /\ UNCHANGED <<table, maker, rowLock, source>>
  BY <1>1, <1>3, ReadMoves
<1>6. Knows(p)'
  BY <1>2, <1>3, <1>5, EasyKnows DEF Knows
<1> QED BY <1>1, <1>3, <1>4, <1>5, <1>6, MoveKnows DEF Read

LEMMA FindPinKnows ==
  ASSUME IInv, KInv, NEW p \in Tasks, FindPin(p)
  PROVE  KInv'
<1>1. TypeOK /\ LocalShape /\ Knows(p) /\ LocalTyped(p)
  BY DEF IInv, LocalsTyped, KInv
<1>2. pc[p] = "find_pin" /\ pc[p] \in MakerSteps /\ pc[p] \notin Answers
  BY DEF FindPin, MakerSteps, Answers
<1>3. CASE UNCHANGED req /\ Read(p, "bump_pin")
  <2>1. "bump_pin" \in MakerSteps /\ "bump_pin" \in Easy /\ "bump_pin" \in Busy
    BY DEF MakerSteps, Easy, Busy
  <2>2. pc'[p] = "bump_pin" /\ UNCHANGED <<table, maker, rowLock, source>>
    BY <1>3, <2>1, ReadMoves
  <2>3. Knows(p)'
    BY <1>1, <2>1, <2>2, EasyKnows DEF Knows
  <2> QED BY <1>2, <1>3, <2>1, <2>2, <2>3, MoveKnows DEF Read
<1>4. ASSUME NEW x \in pins, Set(p, "row", x),
             NEW label, label = (IF req[p].note \notin {None, notes[x]} THEN "bump_note" ELSE "refresh_pin"),
             Read(p, label)
      PROVE  KInv'
  <2>1. label \in Busy /\ label \in {"bump_note", "refresh_pin"}
    BY <1>4 DEF Busy
  <2>2. /\ pc'[p] = label /\ UNCHANGED <<table, maker, rowLock>>
        /\ UNCHANGED <<source, owner>>
    BY <1>4, <2>1, ReadMoves
  <2>3. /\ \A q \in Tasks \ {p} : req'[q] = req[q]
        /\ req'[p].row = x /\ req'[p].note = req[p].note
    BY <1>1, <1>4, SetShape DEF Locals
  <2>4. source /\ owner[x] # None /\ maker # p
    BY <1>1, TasksDiffer DEF IInv, RowsOwned, KInv, Knows
  <2>5. label = "bump_note" => req[p].note \in Notes
    BY <1>1, <1>4 DEF LocalTyped
  <2>6. label \notin AnchorSteps \cup ToggleSteps \cup LastToggles \cup CommentSteps
                     \cup {"ack", "parent", "update_note", "bump_unreact", "bump_react"}
    BY <2>1 DEF AnchorSteps, ToggleSteps, LastToggles, CommentSteps
  <2>7. Knows(p)'
    BY <2>1, <2>2, <2>3, <2>4, <2>5, <2>6 DEF Knows
  <2> QED BY <1>2, <1>4, <2>1, <2>2, <2>3, <2>7, MoveKnows DEF Read
<1> QED BY <1>3, <1>4 DEF FindPin

LEMMA ParentKnows ==
  ASSUME IInv, KInv, NEW p \in Tasks, CommentParent(p)
  PROVE  KInv'
<1>1. LocalShape /\ Knows(p)
  BY DEF IInv, KInv
<1>2. pc[p] = "parent" /\ pc[p] \in RowSteps /\ pc[p] \in Busy /\ pc[p] \notin Answers
  BY LabelsDiffer DEF CommentParent, RowSteps, Busy
<1>3. CASE Rollback(p, "not_found")
  BY <1>2, <1>3, RollbackKnows, AnswersAre
<1>4. CASE /\ req[p].parent \in comments /\ under[req[p].parent] = req[p].row
           /\ Set(p, "notify", req[p].notify \cup {owner[req[p].parent]})
           /\ Read(p, "bump_comment")
  <2>1. "bump_comment" \in Busy /\ "bump_comment" \in RowSteps /\ "bump_comment" \in CommentSteps
        /\ "bump_comment" \notin AnchorSteps \cup ToggleSteps \cup LastToggles
    BY DEF Busy, RowSteps, CommentSteps, AnchorSteps, ToggleSteps, LastToggles
  <2>2. /\ pc'[p] = "bump_comment" /\ UNCHANGED <<table, maker, rowLock>>
        /\ UNCHANGED <<source, owner, under, comments>>
    BY <1>4, <2>1, ReadMoves
  <2>3. /\ \A q \in Tasks \ {p} : req'[q] = req[q]
        /\ req'[p].row = req[p].row /\ req'[p].parent = req[p].parent
        /\ req'[p].notify = {owner[req[p].row], owner[req[p].parent]}
    BY <1>1, <1>2, <1>4, SetShape DEF Locals, Knows
  <2>4. Replies(p)'
    BY <1>4, <2>2, <2>3 DEF Replies
  <2>5. Knows(p)'
    BY <1>1, <1>2, <2>1, <2>2, <2>3, <2>4 DEF Knows, MakerSteps
  <2> QED BY <1>2, <1>4, <2>1, <2>2, <2>3, <2>5, MoveKnows DEF Read
<1> QED BY <1>3, <1>4 DEF CommentParent

\* The SELECTs of a toggle before it has seen whom to tell.
LEMMA AnchorKnows ==
  ASSUME IInv, KInv, NEW p \in Tasks, FindReaction(p) \/ Anchor(p)
  PROVE  KInv'
<1>1. LocalShape /\ Knows(p)
  BY DEF IInv, KInv
<1>2. /\ pc[p] \in {"find_reaction", "anchor"} /\ pc[p] \in RowSteps /\ pc[p] \notin Answers
  BY DEF FindReaction, Anchor, RowSteps, Answers
<1>3. CASE FindReaction(p)
  <2>1. Set(p, "marks", reactions \cap {Key(p)}) /\ Read(p, "anchor")
    BY <1>3 DEF FindReaction
  <2>2. "anchor" \in Busy /\ "anchor" \in RowSteps
        /\ "anchor" \notin AnchorSteps \cup ToggleSteps \cup LastToggles \cup CommentSteps
    BY DEF Busy, RowSteps, CommentSteps, AnchorSteps, ToggleSteps, LastToggles
  <2>3. pc'[p] = "anchor" /\ UNCHANGED <<table, maker, rowLock, source, owner>>
    BY <2>1, <2>2, ReadMoves
  <2>4. /\ \A q \in Tasks \ {p} : req'[q] = req[q]
        /\ req'[p].row = req[p].row
    BY <1>1, <2>1, SetShape DEF Locals
  <2>5. Knows(p)'
    BY <1>1, <1>2, <2>2, <2>3, <2>4 DEF Knows, MakerSteps
  <2> QED BY <1>2, <2>1, <2>2, <2>3, <2>4, <2>5, MoveKnows DEF Read
<1>4. CASE Anchor(p)
  <2> DEFINE v == req[p].row \in pins \cup (comments \ removed)
  <2>1. Set(p, "anchored", v) /\ Read(p, "beneficiary")
    BY <1>4 DEF Anchor
  <2>2. "beneficiary" \in Busy /\ "beneficiary" \in RowSteps
        /\ "beneficiary" \notin ToggleSteps \cup LastToggles \cup CommentSteps
    BY DEF Busy, RowSteps, CommentSteps, ToggleSteps, LastToggles
  <2>3. /\ pc'[p] = "beneficiary" /\ UNCHANGED <<table, maker, rowLock, source, owner>>
        /\ UNCHANGED <<pins, comments, removed>>
    BY <2>1, <2>2, ReadMoves
  <2>4. /\ \A q \in Tasks \ {p} : req'[q] = req[q]
        /\ req'[p].row = req[p].row /\ req'[p].anchored = v
    BY <1>1, <2>1, SetShape DEF Locals
  <2>5. v \in BOOLEAN /\ (~v => req[p].row \notin pins' \cup (comments' \ removed'))
    BY <2>3
  <2> HIDE DEF v
  <2>6. Knows(p)'
    BY <1>1, <1>2, <2>2, <2>3, <2>4, <2>5 DEF Knows, MakerSteps, Page!Gone
  <2> QED BY <1>2, <2>1, <2>2, <2>3, <2>4, <2>6, MoveKnows DEF Read
<1> QED BY <1>3, <1>4

LEMMA BeneficiaryKnows ==
  ASSUME IInv, KInv, NEW p \in Tasks, Beneficiary(p)
  PROVE  KInv'
<1>1. LocalShape /\ Knows(p) /\ RevisionLocked
  BY DEF IInv, KInv
<1> DEFINE label == IF req[p].marks # {} THEN "delete_reaction"
                    ELSE IF req[p].anchored THEN "bump_react" ELSE "insert_reaction"
           owners == {owner[x] : x \in {req[p].row} \cap (pins \cup comments)}
<1>2. pc[p] = "beneficiary" /\ Set(p, "notify", owners) /\ Read(p, label)
  BY DEF Beneficiary
<1>3. /\ pc[p] \in RowSteps /\ pc[p] \in AnchorSteps /\ pc[p] \notin MayLock /\ pc[p] \notin Answers
      /\ pc[p] \notin MakerSteps
  BY <1>2 DEF RowSteps, AnchorSteps, MayLock, Locked, Answers, MakerSteps
<1>4. \/ owners = {owner[req[p].row]}
      \/ owners = {} /\ req[p].row \notin pins \cup comments
  OBVIOUS
<1>5. /\ label \in {"delete_reaction", "bump_react", "insert_reaction"}
      /\ label = "bump_react" => req[p].anchored
      /\ label = "insert_reaction" => ~req[p].anchored
  OBVIOUS
<1> HIDE DEF label, owners
<1>6. /\ label \in Busy /\ label \in RowSteps /\ label \in AnchorSteps /\ label \in ToggleSteps
      /\ label \notin CommentSteps \cup {"ack", "parent", "bump_unreact", "bump_note", "update_note", "end_unreact"}
  BY <1>5 DEF Busy, RowSteps, CommentSteps, AnchorSteps, ToggleSteps
<1>7. /\ pc'[p] = label /\ UNCHANGED <<table, maker, rowLock, source, owner>>
      /\ UNCHANGED <<pins, comments, removed>>
  BY <1>2, <1>6, ReadMoves
<1>8. /\ \A q \in Tasks \ {p} : req'[q] = req[q]
      /\ req'[p].row = req[p].row /\ req'[p].anchored = req[p].anchored /\ req'[p].notify = owners
  BY <1>1, <1>2, SetShape DEF Locals
<1>9. rowLock # p
  BY <1>1, <1>3 DEF RevisionLocked
<1>10. /\ req'[p].anchored \in BOOLEAN
       /\ ~req'[p].anchored => Page!Gone(req[p].row)'
  BY <1>1, <1>3, <1>7, <1>8 DEF Knows, Page!Gone
<1>11. \/ req'[p].notify = {owner'[req'[p].row]}
       \/ req'[p].notify = {} /\ req'[p].row \notin pins' \cup comments'
  BY <1>4, <1>7, <1>8
<1>12. label \in LastToggles => label = "insert_reaction"
  BY <1>5 DEF LastToggles
<1>13. Knows(p)'
  BY <1>1, <1>3, <1>5, <1>6, <1>7, <1>8, <1>9, <1>10, <1>11, <1>12 DEF Knows, Page!Gone
<1> QED BY <1>2, <1>3, <1>6, <1>7, <1>8, <1>13, MoveKnows DEF Read

LEMMA DeleteReactionKnows ==
  ASSUME IInv, KInv, NEW p \in Tasks, DeleteReaction(p)
  PROVE  KInv'
<1>1. TypeOK /\ LocalShape /\ Knows(p) /\ RevisionLocked
  BY DEF IInv, KInv
<1> DEFINE label == IF req[p].anchored THEN "bump_unreact" ELSE "end_unreact"
<1>2. /\ pc[p] = "delete_reaction" /\ Goto(p, label)
      /\ UNCHANGED <<table, shared, maker, rowLock, req>>
  BY DEF DeleteReaction
<1>3. /\ pc[p] \in RowSteps /\ pc[p] \in AnchorSteps /\ pc[p] \in ToggleSteps
      /\ pc[p] \notin MayLock /\ pc[p] \notin Answers /\ pc[p] \notin MakerSteps
  BY <1>2 DEF RowSteps, AnchorSteps, ToggleSteps, MayLock, Locked, Answers, MakerSteps
<1>4. /\ label \in {"bump_unreact", "end_unreact"}
      /\ label = "bump_unreact" => req[p].anchored
      /\ label = "end_unreact" => ~req[p].anchored
  OBVIOUS
<1> HIDE DEF label
<1>5. /\ label \in Busy /\ label \in RowSteps /\ label \in AnchorSteps /\ label \in ToggleSteps
      /\ label \notin CommentSteps
                      \cup {"ack", "parent", "bump_react", "bump_note", "update_note", "insert_reaction"}
      /\ label \in LastToggles => label = "end_unreact"
  BY <1>4 DEF Busy, RowSteps, CommentSteps, AnchorSteps, ToggleSteps, LastToggles
<1>6. pc'[p] = label /\ UNCHANGED <<source, owner, pins, comments, removed>>
  BY <1>1, <1>2, <1>5, GotoType DEF table, rows
<1>7. rowLock # p
  BY <1>1, <1>3 DEF RevisionLocked
<1>8. /\ req[p].anchored \in BOOLEAN /\ (~req[p].anchored => Page!Gone(req[p].row)')
      /\ \/ req[p].notify = {owner'[req[p].row]}
         \/ req[p].notify = {} /\ req[p].row \notin pins' \cup comments'
  BY <1>1, <1>2, <1>3, <1>6 DEF Knows, Page!Gone
<1>9. Knows(p)'
  BY <1>1, <1>2, <1>3, <1>4, <1>5, <1>6, <1>7, <1>8 DEF Knows, Page!Gone
<1> QED BY <1>2, <1>3, <1>5, <1>9, MoveKnows

LEMMA JobKnows ==
  ASSUME IInv, KInv, NEW j \in Jobs, JobBegin(j)
  PROVE  KInv'
<1>1. j \in Tasks /\ TypeOK /\ LocalShape /\ pc[j] = "idle" /\ pc[j] \notin Answers /\ maker # j
  BY NotMaker DEF IInv, Tasks, JobBegin, Answers, MakerSteps
<1>2. UNCHANGED <<table, maker, rowLock, req>>
  BY DEF JobBegin, locks
<1>3. CASE Goto(j, "skipped")
  <2>1. pc'[j] = "skipped" /\ "skipped" \in Easy
    BY <1>1, <1>3, GotoType, AnswersAre DEF Easy
  <2>2. Knows(j)'
    BY <1>1, <1>2, <2>1, EasyKnows
  <2> QED BY <1>1, <1>2, <1>3, <2>2, MoveKnows, AnswersAre
<1>4. CASE source /\ Goto(j, "bump_job")
  <2>1. "bump_job" \in Busy /\ "bump_job" \notin RowSteps \cup CommentSteps \cup AnchorSteps
             \cup ToggleSteps \cup LastToggles
    BY DEF Busy, RowSteps, CommentSteps, AnchorSteps, ToggleSteps, LastToggles
  <2>2. pc'[j] = "bump_job" /\ source'
    BY <1>1, <1>2, <1>4, <2>1, GotoType DEF table
  <2>3. Knows(j)'
    BY <1>1, <1>2, <2>1, <2>2 DEF Knows
  <2> QED BY <1>1, <1>2, <1>4, <2>1, <2>3, MoveKnows
<1> QED BY <1>3, <1>4 DEF JobBegin

-----------------------------------------------------------------------------
\* An act of the page, or none.
Acts == Page!Next \/ UNCHANGED Page!page

LEMMA KeepsPage == UNCHANGED table => Acts
BY DEF table, rows, Acts, Page!page

LEMMA RollbackActs ==
  ASSUME NEW p, NEW answer, Rollback(p, answer)
  PROVE  Acts
BY KeepsPage DEF Rollback

\* What the commit of one that knows a row, or of a job, leaves and counts.
LEMMA CommitCarries ==
  ASSUME IInv, KInv, NEW p \in Tasks, NEW answer, Commit(p, answer), pc[p] \in RowSteps \cup JobSteps
  PROVE  /\ source /\ source' = source
         /\ pc[p] \in Locked => Page!Counted
         /\ pc[p] \in LastToggles /\ req[p].anchored => Page!Counted
         /\ pc[p] \in LastToggles /\ ~req[p].anchored => rev' = rev
         /\ pc[p] \notin MayLock => rev' = rev
<1>1. source /\ source \in BOOLEAN /\ (pc[p] \in LastToggles => (req[p].anchored <=> rowLock = p))
  BY DEF IInv, TypeOK, KInv, Knows
<1>2. source' = source
  BY <1>1 DEF Commit
<1>3. /\ rowLock = p => req[p].bumped = rev + 1 /\ pc[p] \in MayLock
      /\ pc[p] \in Locked => rowLock = p
  BY DEF IInv, RevisionLocked
<1> QED BY <1>1, <1>2, <1>3 DEF Commit, Page!Counted

\* A commit that leaves the rows of pins and comments alone.
LEMMA PlainRespects ==
  ASSUME KInv, NEW p, NEW answer, Commit(p, answer), UNCHANGED rows,
         \A n \in unread' : n \in unread \/ n[2] \in Own(p)
  PROVE  Respects(p)
BY DEF Commit, rows, Respects, KInv

LEMMA PlainKnows ==
  ASSUME IInv, KInv, NEW p \in Tasks, NEW answer \in Answers, pc[p] \in Busy, Commit(p, answer),
         UNCHANGED rows, \A n \in unread' : n \in unread \/ n[2] \in Own(p)
  PROVE  KInv'
BY PlainRespects, EndKnows DEF Commit

\* The end of a resolve may make the page known.
LEMMA CompareActs ==
  ASSUME IInv, KInv, NEW p \in Tasks, Compare(p)
  PROVE  KInv' /\ Acts
<1>1. /\ pc[p] = "compare" /\ UNCHANGED <<meta, rows, reactions, unread>>
      /\ Commit(p, "not_modified") \/ Commit(p, "fresh")
  BY DEF Compare
<1>2. pc[p] \in Busy /\ pc[p] \notin MayLock /\ {"not_modified", "fresh"} \subseteq Answers
  BY <1>1 DEF Busy, MayLock, Locked, Answers
<1>3. KInv'
  BY <1>1, <1>2, PlainKnows
<1>4. rowLock # p /\ source \in BOOLEAN /\ (maker = p => ~source)
  BY <1>2 DEF IInv, RevisionLocked, TypeOK, KInv, Knows
<1>5. rev' = rev /\ source' = (source \/ maker = p)
  BY <1>1, <1>4 DEF Commit
<1>6. UNCHANGED <<pins, comments, removed, owner, under, notes>>
  BY <1>1 DEF rows
<1>7. CASE maker = p
  <2>1. Page!Find
    BY <1>1, <1>4, <1>5, <1>6, <1>7 DEF Page!Find
  <2> QED BY <1>3, <2>1 DEF Acts, Page!Next
<1>8. CASE maker # p
  BY <1>1, <1>3, <1>4, <1>5, <1>6, <1>8 DEF Acts, Page!page
<1> QED BY <1>7, <1>8

\* What a request that inserts a row knows of the page.
LEMMA NewRow ==
  ASSUME IInv, KInv, NEW p \in Requests, pc[p] \in Busy
  PROVE  Page!New(p)
<1>1. p \in Tasks /\ pc[p] \notin Answers
  BY LabelsDiffer DEF Tasks
<1> QED BY <1>1, NoRowYet DEF KInv, Fresh, Page!New

LEMMA InsertPinActs ==
  ASSUME IInv, KInv, BInv, NEW p \in Tasks, InsertPin(p)
  PROVE  KInv' /\ Acts
<1>1. pc[p] = "insert_pin" /\ pc[p] \in Locked
  BY DEF InsertPin, Locked
<1>2. /\ pc[p] \in Busy /\ p \in Requests /\ req[p].user \in Users
      /\ req[p].note \in Notes \cup {None} /\ p \notin pins \cup comments
  BY <1>1, Writer
<1>3. CASE Rollback(p, "write_failed")
  BY <1>2, <1>3, RollbackKnows, RollbackActs, AnswersAre
<1>4. ASSUME NEW u \in Users, u = req[p].user, NEW n \in Notes \cup {None}, n = req[p].note,
             \A x \in pins : owner[x] # u,
             pins' = pins \cup {p},
             owner' = [owner EXCEPT ![p] = u],
             notes' = [notes EXCEPT ![p] = n],
             unread' = unread \cup {<<f, p>> : f \in Followers[u] \ {u}},
             CommitWrite(p, "created"),
             UNCHANGED <<meta, comments, removed, under, reactions>>
      PROVE  KInv' /\ Acts
  <2>1. p \in Rows /\ Commit(p, "created") /\ owner \in [Rows -> Users \cup {None}]
    BY <1>2, <1>4 DEF Rows, CommitWrite, IInv, TypeOK
  <2>2. source \/ maker = p
    BY <1>1 DEF BInv, BodyAgrees, Sourced, Busy
  <2>3. source' = TRUE
    BY <2>1, <2>2 DEF Commit
  <2>4. Respects(p)
    <3>1. \A m \in unread' : m \in unread \/ m[2] = p
      BY <1>4
    <3> QED BY <1>2, <1>4, <2>1, <2>2, <2>3, <3>1 DEF Respects, Own
  <2>5. KInv'
    BY <1>2, <2>1, <2>4, EndKnows, AnswersAre DEF Commit
  <2>6. Page!Counted
    BY <1>1, <2>1, CommitCounts DEF Page!Counted
  <2>7. Page!Pin(u, p, n)
    BY <1>2, <1>4, <2>3, <2>6, NewRow DEF Page!Pin, Page!Tell
  <2> QED BY <1>2, <2>1, <2>5, <2>7 DEF Acts, Page!Next
<1>5. PICK u \in Users, n \in Notes \cup {None} : u = req[p].user /\ n = req[p].note
  BY <1>2
<1> QED BY <1>3, <1>4, <1>5 DEF InsertPin

LEMMA NoteActs ==
  ASSUME IInv, KInv, NEW p \in Tasks, UpdateNote(p) \/ RefreshPin(p)
  PROVE  KInv' /\ Acts
<1>1. /\ pc[p] \in RowSteps /\ pc[p] \in Locked \cup {"refresh_pin"}
      /\ UpdateNote(p) => pc[p] \in Locked
      /\ RefreshPin(p) => pc[p] \notin MayLock
  BY DEF UpdateNote, RefreshPin, RowSteps, MayLock, Locked
<1>2. pc[p] \in Busy /\ p \in Requests
  BY <1>1, Writer DEF UpdateNote, RefreshPin
<1>3. CASE Rollback(p, "write_failed")
  BY <1>2, <1>3, RollbackKnows, RollbackActs, AnswersAre
<1>4. CASE /\ RefreshPin(p) /\ Commit(p, "ok")
           /\ UNCHANGED <<meta, rows, reactions, unread, cache, quiet>>
  <2>1. KInv'
    BY <1>2, <1>4, PlainKnows, AnswersAre
  <2>2. source' = source /\ rev' = rev
    BY <1>1, <1>4, CommitCarries
  <2> QED BY <1>4, <2>1, <2>2 DEF rows, Acts, Page!page
<1>5. ASSUME UpdateNote(p), NEW x \in pins, x = req[p].row, NEW n \in Notes, n = req[p].note,
             notes' = [notes EXCEPT ![x] = n], CommitWrite(p, "ok"),
             UNCHANGED <<meta, pins, comments, removed, owner, under, reactions, unread>>
      PROVE  KInv' /\ Acts
  <2>1. Commit(p, "ok") /\ x \in Rows
    BY <1>5 DEF CommitWrite, IInv, TypeOK
  <2>2. source /\ source' = source /\ Page!Counted
    BY <1>1, <1>5, <2>1, CommitCarries
  <2>3. KInv'
    BY <1>2, <1>5, <2>1, <2>2, EndKnows, AnswersAre DEF Commit, Respects
  <2>4. Page!Annotate(x, n)
    BY <1>5, <2>2 DEF Page!Annotate
  <2> QED BY <2>1, <2>3, <2>4 DEF Acts, Page!Next
<1>6. UpdateNote(p) => req[p].note \in Notes
  BY DEF UpdateNote, KInv, Knows
<1> QED BY <1>3, <1>4, <1>5, <1>6 DEF UpdateNote, RefreshPin

\* A commit with a revision and nothing else.
LEMMA TouchActs ==
  ASSUME source, source' = source, Page!Counted, UNCHANGED <<meta, rows, reactions, unread>>
  PROVE  Acts
BY DEF rows, Page!Touch, Acts, Page!Next

LEMMA DeletePinActs ==
  ASSUME IInv, KInv, NEW p \in Tasks, DeletePin(p)
  PROVE  KInv' /\ Acts
<1>1. pc[p] = "delete_pin" /\ pc[p] \in RowSteps /\ pc[p] \in Locked
  BY DEF DeletePin, RowSteps, Locked
<1>2. pc[p] \in Busy /\ p \in Requests /\ req[p].row \in Rows
  BY <1>1, Writer
<1>3. CASE Rollback(p, "write_failed")
  BY <1>2, <1>3, RollbackKnows, RollbackActs, AnswersAre
<1>4. ASSUME NEW x \in Rows, x = req[p].row, \A c \in comments : under[c] # x,
             pins' = pins \ {x}, CommitWrite(p, "ok"),
             UNCHANGED <<meta, comments, removed, owner, under, notes, reactions, unread>>
      PROVE  KInv' /\ Acts
  <2>1. Commit(p, "ok")
    BY <1>4 DEF CommitWrite
  <2>2. source /\ source' = source /\ Page!Counted
    BY <1>1, <2>1, CommitCarries
  <2>3. KInv'
    BY <1>2, <1>4, <2>1, <2>2, EndKnows, AnswersAre DEF Commit, Respects
  <2>4. CASE x \in pins
    <3>1. Page!Unpin(x)
      BY <1>4, <2>2, <2>4 DEF Page!Unpin
    <3> QED BY <2>3, <3>1 DEF Acts, Page!Next
  <2>5. CASE x \notin pins
    BY <1>4, <2>2, <2>3, <2>5, TouchActs DEF rows
  <2> QED BY <2>4, <2>5
<1> QED BY <1>2, <1>3, <1>4 DEF DeletePin

LEMMA InsertCommentActs ==
  ASSUME IInv, KInv, NEW p \in Tasks, InsertComment(p)
  PROVE  KInv' /\ Acts
<1>1. pc[p] = "insert_comment" /\ pc[p] \in RowSteps /\ pc[p] \in Locked /\ pc[p] \in CommentSteps
  BY DEF InsertComment, RowSteps, Locked, CommentSteps
<1>2. /\ pc[p] \in Busy /\ p \in Requests /\ req[p].user \in Users /\ req[p].row \in Rows
      /\ p \notin pins \cup comments
  BY <1>1, Writer
<1>3. CASE Rollback(p, "write_failed")
  BY <1>2, <1>3, RollbackKnows, RollbackActs, AnswersAre
<1>4. ASSUME NEW u \in Users, u = req[p].user, NEW y \in Rows, y = req[p].row, y \in pins,
             comments' = comments \cup {p},
             owner' = [owner EXCEPT ![p] = u],
             under' = [under EXCEPT ![p] = y],
             unread' = unread \cup {<<f, p>> : f \in (req[p].notify \cup Followers[u]) \ {u}},
             CommitWrite(p, "created"),
             UNCHANGED <<meta, pins, removed, notes, reactions>>
      PROVE  KInv' /\ Acts
  <2>1. /\ p \in Rows /\ Commit(p, "created") /\ owner \in [Rows -> Users \cup {None}]
        /\ under \in [Rows -> Rows \cup {None}]
    BY <1>2, <1>4 DEF Rows, CommitWrite, IInv, TypeOK
  <2>2. source /\ source' = source /\ Page!Counted
    BY <1>1, <2>1, CommitCarries
  <2>3. Respects(p)
    <3>1. \A m \in unread' : m \in unread \/ m[2] = p
      BY <1>4
    <3> QED BY <1>2, <1>4, <2>1, <2>2, <3>1 DEF Respects, Own
  <2>4. KInv'
    BY <1>2, <2>1, <2>3, EndKnows, AnswersAre DEF Commit
  <2>5. PICK c \in Rows \cup {None} :
          /\ c = None \/ (c \in comments /\ under[c] = y)
          /\ req[p].notify = {owner[y]} \cup {owner[d] : d \in {c} \ {None}}
    <3>1. Replies(p) /\ None \notin Rows /\ comments \subseteq Rows
      BY <1>1, TasksDiffer DEF KInv, Knows, Rows, Tasks, IInv, TypeOK
    <3>2. CASE req[p].parent = None /\ req[p].notify = {owner[req[p].row]}
      BY <1>4, <3>2
    <3>3. CASE /\ req[p].parent \in comments /\ under[req[p].parent] = req[p].row
               /\ req[p].notify = {owner[req[p].row], owner[req[p].parent]}
      BY <1>4, <3>1, <3>3
    <3> QED BY <3>1, <3>2, <3>3 DEF Replies
  <2>6. Page!New(p)
    BY <1>2, NewRow
  <2>7. Page!Comment(u, p, y, c)
    BY <1>4, <2>2, <2>5, <2>6 DEF Page!Comment, Page!Tell
  <2> QED BY <2>1, <2>4, <2>7 DEF Acts, Page!Next
<1>5. PICK u \in Users, y \in Rows : u = req[p].user /\ y = req[p].row
  BY <1>2
<1> QED BY <1>3, <1>4, <1>5 DEF InsertComment

LEMMA SetDeletedActs ==
  ASSUME IInv, KInv, NEW p \in Tasks, SetDeleted(p)
  PROVE  KInv' /\ Acts
<1>1. pc[p] = "set_deleted" /\ pc[p] \in RowSteps /\ pc[p] \in Locked
  BY DEF SetDeleted, RowSteps, Locked
<1>2. pc[p] \in Busy /\ p \in Requests /\ req[p].row \in comments
  BY <1>1, Writer
<1>3. PICK c \in comments : c = req[p].row
  BY <1>2
<1>4. /\ removed' = removed \cup {c} /\ Commit(p, "ok") /\ c \in Rows
      /\ UNCHANGED <<meta, pins, comments, owner, under, notes, reactions, unread>>
  BY <1>3 DEF SetDeleted, CommitWrite, IInv, TypeOK
<1>5. source /\ source' = source /\ Page!Counted
  BY <1>1, <1>4, CommitCarries
<1>6. KInv'
  BY <1>2, <1>4, <1>5, EndKnows, AnswersAre DEF Commit, Respects
<1>7. Page!Delete(c)
  BY <1>4, <1>5 DEF Page!Delete
<1> QED BY <1>4, <1>6, <1>7 DEF Acts, Page!Next

LEMMA SetBodyActs ==
  ASSUME IInv, KInv, NEW p \in Tasks, SetBody(p)
  PROVE  KInv' /\ Acts
<1>1. pc[p] = "set_body" /\ pc[p] \in RowSteps /\ pc[p] \in Locked /\ pc[p] \in Busy
  BY DEF SetBody, RowSteps, Locked, Busy
<1>2. Commit(p, "ok") /\ UNCHANGED <<meta, rows, reactions, unread>>
  BY DEF SetBody, CommitWrite
<1>3. source /\ source' = source /\ Page!Counted
  BY <1>1, <1>2, CommitCarries
<1> QED BY <1>1, <1>2, <1>3, PlainKnows, TouchActs, AnswersAre

\* A toggle that withdraws a reaction, or finds that another one has.
LEMMA EndUnreactActs ==
  ASSUME IInv, KInv, NEW p \in Tasks, EndUnreact(p)
  PROVE  KInv' /\ Acts
<1>1. /\ pc[p] = "end_unreact" /\ pc[p] \in RowSteps /\ pc[p] \in LastToggles
      /\ pc[p] \in AnchorSteps
  BY DEF EndUnreact, RowSteps, LastToggles, AnchorSteps, ToggleSteps
<1>2. pc[p] \in Busy /\ req[p].user \in Users /\ req[p].row \in Rows
  BY <1>1, Writer
<1>3. Commit(p, "ok") /\ UNCHANGED <<meta, rows, unread>>
  BY DEF EndUnreact, CommitWrite
<1>4. KInv'
  BY <1>2, <1>3, PlainKnows, AnswersAre
<1>5. PICK u \in Users, y \in Rows : u = req[p].user /\ y = req[p].row
  BY <1>2
<1>6. /\ source /\ source' = source
      /\ req[p].anchored => Page!Counted
      /\ ~req[p].anchored => rev' = rev
  BY <1>1, <1>3, CommitCarries
<1>7. Page!Counted \/ (Page!Gone(y) /\ rev' = rev)
  BY <1>1, <1>5, <1>6 DEF KInv, Knows
<1>8. UNCHANGED <<pins, comments, removed, owner, under, notes>>
  BY <1>3 DEF rows
<1>9. CASE reactions' = reactions \ {<<u, y>>} /\ <<u, y>> \in reactions
  <2>1. Page!Unreact(u, y)
    BY <1>3, <1>6, <1>7, <1>8, <1>9 DEF Page!Unreact
  <2> QED BY <1>4, <2>1 DEF Acts, Page!Next
<1>10. CASE reactions' = reactions
  <2>1. CASE Page!Counted
    BY <1>3, <1>4, <1>6, <1>10, <2>1, TouchActs
  <2>2. CASE rev' = rev
    BY <1>3, <1>4, <1>6, <1>8, <1>10, <2>2 DEF Acts, Page!page
  <2> QED BY <1>7, <2>1, <2>2
<1>11. reactions' = reactions \ {<<u, y>>} \/ reactions' = reactions
  BY <1>5 DEF EndUnreact, Key
<1>12. reactions \ {<<u, y>>} = reactions \/ <<u, y>> \in reactions
  OBVIOUS
<1> QED BY <1>9, <1>10, <1>11, <1>12

LEMMA InsertReactionActs ==
  ASSUME IInv, KInv, NEW p \in Tasks, InsertReaction(p)
  PROVE  KInv' /\ Acts
<1>1. /\ pc[p] = "insert_reaction" /\ pc[p] \in RowSteps /\ pc[p] \in LastToggles
      /\ pc[p] \in AnchorSteps /\ pc[p] \in ToggleSteps
  BY DEF InsertReaction, RowSteps, LastToggles, AnchorSteps, ToggleSteps
<1>2. pc[p] \in Busy /\ p \in Requests /\ req[p].user \in Users /\ req[p].row \in Rows /\ p \in Rows
  BY <1>1, Writer DEF Rows
<1>3. CASE Rollback(p, "write_failed")
  BY <1>2, <1>3, RollbackKnows, RollbackActs, AnswersAre
<1>4. ASSUME NEW u \in Users, u = req[p].user, NEW y \in Rows, y = req[p].row,
             <<u, y>> \notin reactions,
             reactions' = reactions \cup {<<u, y>>},
             unread' = IF req[p].anchored
                       THEN unread \cup {<<f, p>> : f \in req[p].notify \ {u}}
                       ELSE unread,
             CommitWrite(p, "created"),
             UNCHANGED <<meta, rows>>
      PROVE  KInv' /\ Acts
  <2>1. /\ Commit(p, "created")
        /\ UNCHANGED <<pins, comments, removed, owner, under, notes>>
    BY <1>4 DEF CommitWrite, rows
  <2>2. KInv'
    <3>1. \A n \in unread' : n \in unread \/ n[2] = p
      BY <1>4
    <3> QED BY <1>2, <1>4, <2>1, <3>1, PlainKnows, AnswersAre DEF Own
  <2>3. /\ source /\ source' = source
        /\ req[p].anchored => Page!Counted
        /\ ~req[p].anchored => rev' = rev
    BY <1>1, <2>1, CommitCarries
  <2>4. /\ owner[y] # None /\ req[p].anchored \in BOOLEAN
        /\ ~req[p].anchored => Page!Gone(y)
        /\ \/ req[p].notify = {owner[y]}
           \/ req[p].notify = {} /\ y \notin pins \cup comments
    BY <1>1, <1>4 DEF KInv, Knows
  <2>5. Page!New(p)
    BY <1>2, NewRow
  <2>6. CASE req[p].anchored /\ req[p].notify = {owner[y]}
    <3>1. unread' = unread \cup {<<f, p>> : f \in {owner[y]} \ {u}}
      BY <1>4, <2>6
    <3>2. Page!React(u, y, p)
      BY <1>4, <2>1, <2>3, <2>4, <2>5, <2>6, <3>1 DEF Page!React, Page!Tell
    <3> QED BY <1>2, <2>2, <3>2 DEF Acts, Page!Next
  <2>7. CASE req[p].anchored /\ req[p].notify = {} /\ y \notin pins \cup comments
    <3>1. unread' = unread
      BY <1>4, <2>7
    <3>2. Page!React(u, y, p)
      BY <1>4, <2>1, <2>3, <2>4, <2>7, <3>1 DEF Page!React
    <3> QED BY <1>2, <2>2, <3>2 DEF Acts, Page!Next
  <2>8. CASE ~req[p].anchored
    <3>1. Page!React(u, y, p)
      BY <1>4, <2>1, <2>3, <2>4, <2>8 DEF Page!React
    <3> QED BY <1>2, <2>2, <3>1 DEF Acts, Page!Next
  <2> QED BY <2>4, <2>6, <2>7, <2>8
<1>5. PICK u \in Users, y \in Rows : u = req[p].user /\ y = req[p].row
  BY <1>2
<1> QED BY <1>3, <1>4, <1>5 DEF InsertReaction, Key

LEMMA AckActs ==
  ASSUME IInv, KInv, NEW p \in Tasks, Ack(p)
  PROVE  KInv' /\ Acts
<1>1. pc[p] = "ack" /\ pc[p] \notin MayLock
  BY DEF Ack, MayLock, Locked
<1>2. pc[p] \in Busy /\ req[p].user \in Users
  BY <1>1, Writer
<1>3. CASE Rollback(p, "write_failed")
  BY <1>2, <1>3, RollbackKnows, RollbackActs, AnswersAre
<1>4. CASE /\ source /\ unread' = unread \ req[p].marks
           /\ CommitWrite(p, "ok") /\ UNCHANGED <<meta, rows, reactions>>
  <2>1. Commit(p, "ok") /\ UNCHANGED <<pins, comments, removed, owner, under, notes>>
    BY <1>4 DEF CommitWrite, rows
  <2>2. KInv'
    BY <1>2, <1>4, <2>1, PlainKnows, AnswersAre
  <2>3. source' = source /\ rev' = rev
    BY <1>1, <1>4, <2>1 DEF Commit, IInv, RevisionLocked, TypeOK
  <2>4. PICK u \in Users : u = req[p].user
    BY <1>2
  <2>5. \A n \in req[p].marks : n[1] = u
    BY <1>1, <2>4 DEF KInv, Knows
  <2>6. Page!Acknowledge(u)
    BY <1>4, <2>1, <2>3, <2>5 DEF Page!Acknowledge
  <2> QED BY <2>2, <2>6 DEF Acts, Page!Next
<1> QED BY <1>3, <1>4 DEF Ack

LEMMA WriteJobActs ==
  ASSUME IInv, KInv, NEW j \in Tasks, WriteJob(j)
  PROVE  KInv' /\ Acts
<1>1. pc[j] = "write_job" /\ pc[j] \in JobSteps /\ pc[j] \in Locked
  BY DEF WriteJob, JobSteps, Locked
<1>2. pc[j] \in Busy /\ j \in Jobs
  BY <1>1, Writer
<1>3. Commit(j, "ok") /\ UNCHANGED <<rows, reactions, unread>>
  BY DEF WriteJob, CommitWrite
<1>4. source /\ source' = source /\ Page!Counted
  BY <1>1, <1>3, CommitCarries
<1>5. KInv'
  BY <1>2, <1>3, PlainKnows, AnswersAre
<1>6. CASE meta' = meta
  BY <1>3, <1>4, <1>5, <1>6, TouchActs
<1>7. CASE meta' = j
  <2>1. Page!Retitle(j)
    BY <1>3, <1>4, <1>7 DEF rows, Page!Retitle
  <2> QED BY <1>2, <1>5, <2>1 DEF Acts, Page!Next
<1> QED BY <1>6, <1>7 DEF WriteJob

LEMMA TaskActs ==
  ASSUME IInv, KInv, BInv, NEW p \in Tasks, Step(p) \/ Abort(p)
  PROVE  KInv' /\ Acts
<1>1. CASE Abort(p)
  BY <1>1, RollbackKnows, RollbackActs, AnswersAre DEF Abort
<1>2. ASSUME NEW b \in Bumps, Bump(p, b[1], b[2]) PROVE KInv' /\ Acts
  BY <1>2, BumpKnows, KeepsPage DEF Bump
<1>3. CASE EnsureSource(p) \/ InsertSource(p)
  BY <1>3, SourceKnows, KeepsPage DEF EnsureSource, InsertSource, Rollback
<1>4. CASE ReadSurface(p)
  BY <1>4, SurfaceKnows, KeepsPage DEF ReadSurface, ReadField, Read
<1>5. CASE FindPin(p) \/ CommentParent(p)
  BY <1>5, FindPinKnows, ParentKnows, KeepsPage DEF FindPin, CommentParent, Read, Rollback
<1>6. CASE FindReaction(p) \/ Anchor(p) \/ Beneficiary(p) \/ DeleteReaction(p)
  BY <1>6, AnchorKnows, BeneficiaryKnows, DeleteReactionKnows, KeepsPage
     DEF FindReaction, Anchor, Beneficiary, DeleteReaction, Read
<1> QED
  BY <1>1, <1>2, <1>3, <1>4, <1>5, <1>6, CompareActs, InsertPinActs, NoteActs, DeletePinActs,
     InsertCommentActs, SetDeletedActs, SetBodyActs, EndUnreactActs, InsertReactionActs, AckActs,
     WriteJobActs DEF Step

LEMMA NextActs ==
  ASSUME IInv, KInv, BInv, [Next]_vars
  PROVE  KInv' /\ Acts
<1>1. ASSUME NEW p \in Requests, Begin(p) PROVE KInv' /\ Acts
  <2>1. UNCHANGED table
    BY <1>1 DEF Begin, ResolveBegin, AckBegin, PinBegin, UnpinBegin, RemoveBegin, EditBegin,
       ReactBegin, CommentBegin, Read
  <2> QED BY <1>1, <2>1, CallKnows, KeepsPage
<1>2. ASSUME NEW j \in Jobs, JobBegin(j) PROVE KInv' /\ Acts
  BY <1>2, JobKnows, KeepsPage DEF JobBegin
<1>3. CASE UNCHANGED vars
  <2>1. /\ UNCHANGED <<table, pc, req, maker, rowLock, source, pins, comments, removed>>
        /\ UNCHANGED <<owner, under, notes, unread>>
    BY <1>3 DEF vars, locks, table, rows
  <2>2. KInv'
    BY <2>1 DEF KInv, Fresh, Knows, Replies, Page!Gone
  <2> QED BY <2>1, <2>2, KeepsPage
<1> QED BY <1>1, <1>2, <1>3, TaskActs DEF Next

LEMMA KnowsInitially == Init => KInv
<1> SUFFICES ASSUME Init PROVE KInv
  OBVIOUS
<1>1. Fresh
  BY TasksDiffer DEF Init, Fresh, Rows
<1>2. ASSUME NEW p \in Tasks PROVE Knows(p)
  <2>1. pc[p] = "idle" /\ maker # p
    BY TasksDiffer DEF Init
  <2>2. pc[p] \notin RowSteps \cup JobSteps \cup CommentSteps \cup AnchorSteps \cup ToggleSteps
                    \cup LastToggles \cup {"bump_note", "update_note", "parent", "bump_unreact",
                                          "bump_react", "ack"}
    BY <2>1 DEF RowSteps, JobSteps, CommentSteps, AnchorSteps, ToggleSteps, LastToggles
  <2> QED BY <2>1, <2>2 DEF Knows
<1>3. pins \cup comments # {} => source
  BY DEF Init
<1> QED BY <1>1, <1>2, <1>3 DEF KInv

\* The requests, which decide on what they read before they have the page's row
\* and whose statements interleave, do to the page what acts done one at a time
\* do: each is right about the page it changes, tells whom it has to, and counts.
THEOREM PageIsKept == Spec => PageKept
<1>1. Init => Page!Init
  <2> SUFFICES ASSUME Init PROVE Page!Init
    OBVIOUS
  <2>1. PageCoherent /\ removed \subseteq comments
    BY Initially DEF IInv, TypeOK
  <2>2. ~source => pins = {} /\ comments = {}
    BY DEF Init
  <2>3. ~source => unread = {}
    BY <2>2 DEF Init
  <2> QED BY <2>1, <2>2, <2>3 DEF Init, PageCoherent, Page!Init, Page!Coherent
<1>2. IInv /\ KInv /\ BInv /\ [Next]_vars => KInv' /\ [Page!Next]_(Page!page)
  BY NextActs DEF Acts
<1> QED BY <1>1, <1>2, KnowsInitially, Invariant, BodiesRight, PTL DEF Spec, PageKept, Page!Spec

\* A reaction comes or goes without an increment only when its pin is gone.
LEMMA ReactionsCount ==
  ASSUME Acts, Standing' # Standing
  PROVE  rev' = rev + 1
<1>1. CASE UNCHANGED Page!page
  BY <1>1 DEF Page!page, Standing
<1>2. ASSUME Page!Find \/ \E u \in Users : Page!Acknowledge(u) PROVE FALSE
  BY <1>2 DEF Page!Find, Page!Acknowledge, Standing
<1>3. ASSUME Page!Touch \/ \E j \in Jobs : Page!Retitle(j) PROVE rev' = rev + 1
  BY <1>3 DEF Page!Touch, Page!Retitle, Page!Counted
<1>4. ASSUME NEW x \in Rows,
             Page!Unpin(x) \/ Page!Delete(x) \/ \E n \in Notes : Page!Annotate(x, n)
      PROVE  rev' = rev + 1
  BY <1>4 DEF Page!Unpin, Page!Delete, Page!Annotate, Page!Counted
<1>5. ASSUME NEW u \in Users, NEW x \in Rows, \E n \in Notes \cup {None} : Page!Pin(u, x, n)
      PROVE  rev' = rev + 1
  BY <1>5 DEF Page!Pin, Page!Counted
<1>6. ASSUME NEW u \in Users, NEW x \in Rows, NEW y \in Rows,
             \E c \in Rows \cup {None} : Page!Comment(u, x, y, c)
      PROVE  rev' = rev + 1
  BY <1>6 DEF Page!Comment, Page!Counted
<1>7. ASSUME NEW u \in Users, NEW y \in Rows,
             Page!Unreact(u, y) \/ \E x \in Rows : Page!React(u, y, x)
      PROVE  rev' = rev + 1
  <2>1. \/ reactions' = reactions \ {<<u, y>>}
        \/ reactions' = reactions \cup {<<u, y>>}
    BY <1>7 DEF Page!Unreact, Page!React
  <2>2. rev' = rev + 1 \/ y \notin pins
    BY <1>7 DEF Page!Unreact, Page!React, Page!Counted, Page!Gone
  <2>3. pins' = pins
    BY <1>7 DEF Page!Unreact, Page!React
  <2>4. ASSUME y \notin pins PROVE Standing' = Standing
    BY <2>1, <2>3, <2>4 DEF Standing
  <2> QED BY <2>2, <2>4
<1> QED BY <1>1, <1>2, <1>3, <1>4, <1>5, <1>6, <1>7 DEF Acts, Page!Next

\* A change of the page's title, pins, notes, comments or reactions moves its revision
\* by one in the same commit, and two such changes never share an increment; a toggle
\* that goes on without the increment finds its pin gone.  The reader's own unread
\* mark is not among them.
THEOREM ChangesCount == Spec => EveryChangeCounts
<1>1. IInv /\ KInv /\ BInv /\ [Next]_vars =>
        /\ KInv'
        /\ [/\ rev' \in {rev, rev + 1}
            /\ <<meta, pins, comments, removed, notes, Standing>>'
                 # <<meta, pins, comments, removed, notes, Standing>> => rev' = rev + 1]_vars
  <2> SUFFICES ASSUME IInv, KInv, BInv, [Next]_vars
               PROVE  /\ KInv'
                      /\ rev' \in {rev, rev + 1}
                      /\ <<meta, pins, comments, removed, notes, Standing>>'
                           # <<meta, pins, comments, removed, notes, Standing>> => rev' = rev + 1
    OBVIOUS
  <2>1. KInv' /\ Acts
    BY NextActs
  <2>2. Counts
    BY NextCounts
  <2>3. <<meta, rows>>' = <<meta, rows>> => UNCHANGED <<meta, pins, comments, removed, notes>>
    BY DEF rows
  <2> QED BY <2>1, <2>2, <2>3, ReactionsCount DEF Counts
<1> QED BY <1>1, KnowsInitially, Invariant, BodiesRight, PTL DEF Spec, EveryChangeCounts

-----------------------------------------------------------------------------
\* Circles of waits.

\* p cannot run its next statement before q's transaction ends.
WaitsFor(p, q) ==
  /\ p # q
  /\ \/ pc[p] = "insert_source" /\ maker = q
     \/ pc[p] \in BumpSteps /\ rowLock = q
     \/ pc[p] \in {"delete_reaction", "insert_reaction"} /\ toggling[Key(p)] = q

\* Whenever requests and jobs wait for each other in a circle, however large, one of
\* them is in the deadlock of two toggles.
EveryCircleHasADeadlock ==
  \A C \in (SUBSET Tasks) \ {{}} :
    (\A p \in C : (\E q \in C : WaitsFor(p, q)) /\ (\E q \in C : WaitsFor(q, p)))
      => \E p \in C \cap Requests : Deadlocked(p)

\* Only who withdraws a reaction holds one, and has only the page's row to wait for.
Toggles ==
  \A k \in Users \X Rows, p \in Tasks :
    toggling[k] = p => pc[p] \in {"bump_unreact", "end_unreact"}

LEMMA CircleHasADeadlock ==
  IInv /\ KInv /\ BInv /\ Toggles => EveryCircleHasADeadlock
<1> SUFFICES ASSUME IInv, KInv, BInv, Toggles, NEW C \in SUBSET Tasks, C # {},
                    \A p \in C : \E q \in C : WaitsFor(p, q),
                    \A p \in C : \E q \in C : WaitsFor(q, p)
             PROVE  \E p \in C \cap Requests : Deadlocked(p)
  BY DEF EveryCircleHasADeadlock
<1>1. RevisionLocked /\ \A p \in C : Knows(p) /\ LocalTyped(p) /\ BodyAgrees(p)
  BY DEF IInv, LocalsTyped, KInv, BInv
<1>2. \A p \in C : pc[p] \in BumpSteps \cup {"insert_source", "delete_reaction", "insert_reaction"}
  BY DEF WaitsFor
<1>3. ASSUME NEW p \in C, pc[p] \in {"delete_reaction", "insert_reaction"}
      PROVE  p \in Requests /\ Key(p) \in Users \X Rows
  <2>1. pc[p] \in RowSteps /\ pc[p] \in Busy \ JobSteps
    BY <1>3 DEF RowSteps, Busy, JobSteps
  <2> QED BY <1>1, <2>1 DEF LocalTyped, Key
<1>4. ASSUME NEW q \in C, maker = q PROVE FALSE
  <2>1. ~source /\ pc[q] \in MakerSteps
    BY <1>1, <1>4 DEF Knows
  <2>2. pc[q] = "bump_pin"
    BY <1>2, <2>1 DEF MakerSteps, BumpSteps
  <2>3. PICK r \in C : rowLock = r /\ r # q
    BY <2>2 DEF WaitsFor
  <2>4. pc[r] \in MayLock /\ pc[r] \notin RowSteps \cup JobSteps
    BY <1>1, <2>1, <2>3 DEF RevisionLocked, Knows
  <2>5. pc[r] = "insert_pin"
    BY <2>4 DEF MayLock, Locked, RowSteps, JobSteps
  <2>6. pc[r] \in Sourced
    BY <2>5 DEF Sourced, Busy
  <2> QED BY <1>1, <1>4, <2>1, <2>3, <2>6 DEF BodyAgrees
<1>5. \A q \in C : rowLock = q => pc[q] = "insert_reaction"
  BY <1>1, <1>2 DEF RevisionLocked, MayLock, Locked, BumpSteps
<1>6. \A q \in C, k \in Users \X Rows : toggling[k] = q => pc[q] = "bump_unreact"
  BY <1>2 DEF Toggles, BumpSteps
<1>7. \A q \in C : pc[q] \in {"insert_reaction", "bump_unreact"}
  BY <1>3, <1>4, <1>5, <1>6 DEF WaitsFor
<1>8. ASSUME NEW q \in C, pc[q] = "insert_reaction"
      PROVE  \E r \in C : r # q /\ pc[r] = "bump_unreact" /\ toggling[Key(q)] = r
  <2>1. Key(q) \in Users \X Rows
    BY <1>3, <1>8
  <2>2. PICK r \in C : WaitsFor(q, r)
    OBVIOUS
  <2>3. r # q /\ toggling[Key(q)] = r
    BY <1>8, <2>2 DEF WaitsFor, BumpSteps
  <2>4. pc[r] = "bump_unreact"
    BY <1>6, <2>1, <2>3
  <2> QED BY <2>3, <2>4
<1>9. PICK p \in C : pc[p] = "bump_unreact"
  BY <1>7, <1>8
<1>10. PICK q \in C : rowLock = q /\ pc[q] = "insert_reaction"
  BY <1>5, <1>9 DEF WaitsFor
<1>11. PICK r \in C : r # q /\ pc[r] = "bump_unreact" /\ toggling[Key(q)] = r
  BY <1>8, <1>10
<1>12. r \in Requests
  BY <1>1, <1>11 DEF LocalTyped, Busy, JobSteps
<1>13. pc[r] \in {b[1] : b \in Bumps}
  BY <1>11 DEF Bumps
<1> QED BY <1>3, <1>10, <1>11, <1>12, <1>13 DEF Deadlocked

\* A step of p that leaves no reaction to p but at its last statements.
LEMMA TogglesKept ==
  ASSUME IInv, Toggles, NEW p \in Tasks, NEW label \in Busy \cup Answers, Goto(p, label),
         \A k \in Users \X Rows, q \in Tasks : q # p /\ toggling'[k] = q => toggling[k] = q,
         \A k \in Users \X Rows : toggling'[k] = p => label \in {"bump_unreact", "end_unreact"}
  PROVE  Toggles'
<1>1. pc'[p] = label /\ \A q \in Tasks \ {p} : pc'[q] = pc[q]
  BY GotoType DEF IInv
<1> QED BY <1>1 DEF Toggles

LEMMA EndToggles ==
  ASSUME IInv, Toggles, NEW p \in Tasks, NEW answer \in Answers, End(p, answer)
  PROVE  Toggles'
<1>1. \A k \in Users \X Rows : toggling'[k] = IF toggling[k] = p THEN None ELSE toggling[k]
  BY DEF IInv, TypeOK, End
<1>2. None \notin Tasks
  BY TasksDiffer DEF Tasks
<1> QED BY <1>1, <1>2, TogglesKept DEF End

LEMMA ReadToggles ==
  ASSUME IInv, Toggles, NEW p \in Tasks, NEW label \in Busy \cup Answers, Goto(p, label),
         UNCHANGED toggling, pc[p] \notin {"bump_unreact", "end_unreact"}
  PROVE  Toggles'
BY TogglesKept DEF Toggles

LEMMA StepToggles ==
  ASSUME IInv, Toggles, NEW p \in Tasks, Step(p)
  PROVE  Toggles'
<1>1. ASSUME NEW answer \in Answers,
             CommitWrite(p, answer) \/ Commit(p, answer) \/ Rollback(p, answer)
      PROVE  Toggles'
  BY <1>1, EndToggles DEF CommitWrite, Commit, Rollback
<1>2. ASSUME NEW f, NEW label \in Busy, pc[p] # "bump_unreact", pc[p] # "end_unreact",
             ReadField(p, f, label)
      PROVE  Toggles'
  BY <1>2, ReadToggles DEF ReadField, Read, locks
<1>3. CASE ReadSurface(p)
  <2>1. {"comments", "reactions", "unread", "mine", "recent", "compare"} \subseteq Busy
    BY DEF Busy
  <2>2. pc[p] # "bump_unreact" /\ pc[p] # "end_unreact"
    BY <1>3 DEF ReadSurface, ReadField
  <2> QED BY <1>2, <1>3, <2>1, <2>2 DEF ReadSurface
<1>4. CASE EnsureSource(p)
  <2>1. \E label \in Busy : Goto(p, label)
    BY <1>4 DEF EnsureSource, Found, Busy
  <2>2. pc[p] = "ensure" /\ UNCHANGED toggling
    BY <1>4 DEF EnsureSource, locks
  <2> QED BY <2>1, <2>2, ReadToggles
<1>5. CASE InsertSource(p)
  <2>1. ASSUME Found(p, 0, None) PROVE \E label \in Busy : Goto(p, label)
    BY <2>1 DEF Found, Busy
  <2>2. pc[p] = "insert_source"
    BY <1>5 DEF InsertSource
  <2>3. CASE Rollback(p, "write_failed")
    BY <1>1, <2>3, AnswersAre
  <2>4. CASE Found(p, 0, None) /\ UNCHANGED toggling
    BY <2>1, <2>2, <2>4, ReadToggles
  <2> QED BY <1>5, <2>3, <2>4 DEF InsertSource
<1>6. CASE FindPin(p)
  <2>1. /\ \E label \in Busy : Goto(p, label)
        /\ UNCHANGED toggling /\ pc[p] = "find_pin"
    BY <1>6 DEF FindPin, Read, locks, Busy
  <2> QED BY <2>1, ReadToggles
<1>7. CASE CommentParent(p)
  <2>1. CASE Rollback(p, "not_found")
    BY <1>1, <2>1, AnswersAre
  <2>2. CASE Read(p, "bump_comment")
    <3>1. "bump_comment" \in Busy /\ UNCHANGED toggling /\ pc[p] = "parent"
      BY <1>7, <2>2 DEF CommentParent, Read, locks, Busy
    <3> QED BY <2>2, <3>1, ReadToggles DEF Read
  <2> QED BY <1>7, <2>1, <2>2 DEF CommentParent
<1>8. CASE FindReaction(p) \/ Anchor(p) \/ Beneficiary(p)
  <2>1. /\ \E label \in Busy : Goto(p, label)
        /\ UNCHANGED toggling /\ pc[p] \notin {"bump_unreact", "end_unreact"}
    BY <1>8 DEF FindReaction, Anchor, Beneficiary, Read, locks, Busy
  <2> QED BY <2>1, ReadToggles
<1>9. CASE DeleteReaction(p)
  <2>1. PICK label \in {"bump_unreact", "end_unreact"} : Goto(p, label)
    BY <1>9 DEF DeleteReaction
  <2>2. label \in Busy
    BY DEF Busy
  <2>3. toggling' = toggling \/ toggling' = [toggling EXCEPT ![Key(p)] = p]
    BY <1>9 DEF DeleteReaction
  <2>4. \A k \in Users \X Rows, q \in Tasks : q # p /\ toggling'[k] = q => toggling[k] = q
    BY <2>3 DEF IInv, TypeOK
  <2> QED BY <2>1, <2>2, <2>4, TogglesKept
<1>10. ASSUME NEW b \in Bumps, Bump(p, b[1], b[2]) PROVE Toggles'
  <2>1. /\ b[2] \in Busy /\ Goto(p, b[2]) /\ UNCHANGED toggling /\ pc[p] = b[1]
        /\ pc[p] # "end_unreact" /\ (pc[p] = "bump_unreact" => b[2] = "end_unreact")
    BY <1>10 DEF Bump, Bumps, Busy
  <2>2. \A k \in Users \X Rows : toggling'[k] = p => b[2] = "end_unreact"
    BY <2>1 DEF Toggles
  <2> QED BY <2>1, <2>2, TogglesKept
<1>11. CASE \/ InsertPin(p) \/ UpdateNote(p) \/ RefreshPin(p) \/ DeletePin(p) \/ InsertComment(p)
            \/ SetDeleted(p) \/ SetBody(p) \/ EndUnreact(p) \/ InsertReaction(p) \/ Ack(p)
            \/ WriteJob(p) \/ Compare(p)
  <2>1. \/ \E answer \in {"ok", "created", "write_failed"} : CommitWrite(p, answer) \/ Rollback(p, answer)
        \/ \E answer \in {"ok", "fresh", "not_modified"} : Commit(p, answer)
    <3>1. CASE \/ InsertPin(p) \/ UpdateNote(p) \/ DeletePin(p) \/ InsertComment(p) \/ SetDeleted(p)
               \/ SetBody(p)
      BY <3>1 DEF InsertPin, UpdateNote, DeletePin, InsertComment, SetDeleted, SetBody
    <3>2. CASE EndUnreact(p) \/ InsertReaction(p) \/ Ack(p) \/ WriteJob(p)
      BY <3>2 DEF EndUnreact, InsertReaction, Ack, WriteJob
    <3>3. CASE RefreshPin(p) \/ Compare(p)
      BY <3>3 DEF RefreshPin, Compare
    <3> QED BY <1>11, <3>1, <3>2, <3>3
  <2>2. {"ok", "created", "write_failed", "fresh", "not_modified"} \subseteq Answers
    BY DEF Answers
  <2> QED BY <1>1, <2>1, <2>2
<1> QED BY <1>3, <1>4, <1>5, <1>6, <1>7, <1>8, <1>9, <1>10, <1>11 DEF Step

LEMMA NextToggles ==
  ASSUME IInv, Toggles, [Next]_vars
  PROVE  Toggles'
<1>1. ASSUME NEW p \in Requests, Begin(p) PROVE Toggles'
  <2>1. /\ pc[p] = "idle" /\ UNCHANGED toggling /\ p \in Tasks
        /\ \E label \in Busy \cup Answers : Goto(p, label)
    <3> DEFINE Calls(label) == pc[p] = "idle" /\ Read(p, label)
               labels == {"ensure", "find_pin", "ack", "not_found", "forbidden", "ok", "bump_unpin",
                          "bump_remove", "bump_edit", "find_reaction", "bump_comment", "parent"}
    <3>1. ASSUME NEW u \in Users, ResolveBegin(p, u) \/ AckBegin(p, u)
          PROVE  \E label \in labels : Calls(label)
      BY <3>1 DEF ResolveBegin, AckBegin, Start
    <3>2. ASSUME NEW u \in Users, NEW n, PinBegin(p, u, n)
          PROVE  \E label \in labels : Calls(label)
      BY <3>2 DEF PinBegin, Start
    <3>3. ASSUME NEW u \in Users, NEW x, UnpinBegin(p, u, x) \/ RemoveBegin(p, u, x)
          PROVE  \E label \in labels : Calls(label)
      BY <3>3 DEF UnpinBegin, RemoveBegin, Start
    <3>4. ASSUME NEW u \in Users, NEW x, EditBegin(p, u, x) \/ ReactBegin(p, u, x)
          PROVE  \E label \in labels : Calls(label)
      BY <3>4 DEF EditBegin, ReactBegin, Start
    <3>5. ASSUME NEW u \in Users, NEW x, NEW c, CommentBegin(p, u, x, c)
          PROVE  \E label \in labels : Calls(label)
      BY <3>5 DEF CommentBegin, Start
    <3>6. PICK label \in labels : Calls(label)
      BY <1>1, <3>1, <3>2, <3>3, <3>4, <3>5 DEF Begin
    <3>7. labels \subseteq Busy \cup Answers
      BY DEF Busy, Answers
    <3> HIDE DEF labels
    <3> QED BY <3>6, <3>7 DEF Read, locks, Tasks
  <2> QED BY <2>1, ReadToggles
<1>2. ASSUME NEW j \in Jobs, JobBegin(j) PROVE Toggles'
  <2>1. /\ pc[j] = "idle" /\ UNCHANGED toggling /\ j \in Tasks
        /\ \E label \in Busy \cup Answers : Goto(j, label)
    BY <1>2 DEF JobBegin, locks, Tasks, Busy, Answers
  <2> QED BY <2>1, ReadToggles
<1>3. ASSUME NEW p \in Tasks, Abort(p) PROVE Toggles'
  BY <1>3, EndToggles, AnswersAre DEF Abort, Rollback
<1>4. CASE UNCHANGED vars
  BY <1>4 DEF vars, locks, Toggles
<1> QED BY <1>1, <1>2, <1>3, <1>4, StepToggles DEF Next

\* Of all circles that requests and jobs of a page can wait in, FairSpec helps with
\* every one: two toggles, of which one adds a reaction that the other withdraws, are all
\* that PostgreSQL's deadlock detection has to find for EveryTaskAnswered.
THEOREM CirclesHaveDeadlocks == Spec => []EveryCircleHasADeadlock
<1>1. Init => Toggles
  BY TasksDiffer DEF Init, Toggles, Tasks
<1>2. Spec => []Toggles
  BY <1>1, NextToggles, Invariant, PTL DEF Spec
<1>3. Spec => []KInv
  <2>1. IInv /\ KInv /\ BInv /\ [Next]_vars => KInv'
    BY NextActs
  <2> QED BY <2>1, KnowsInitially, Invariant, BodiesRight, PTL DEF Spec
<1> QED BY <1>2, <1>3, CircleHasADeadlock, Invariant, BodiesRight, PTL
=============================================================================
