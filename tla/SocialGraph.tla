----------------------------- MODULE SocialGraph -----------------------------
(***************************************************************************)
(* Who follows whom (social_graph_ops): follow and unfollow, each meant to *)
(* be repeatable, and the seed script, which makes its roster follow each  *)
(* other, as the statements of READ COMMITTED transactions.                *)
(*                                                                         *)
(* An INSERT into follows enters the edge and then locks the accounts it   *)
(* refers to, FOR KEY SHARE; the script's upsert of an account, which sets *)
(* its unique email, locks it FOR UPDATE.  The script upserts its accounts *)
(* one after the other; that is one step here.                             *)
(*                                                                         *)
(* A row of follows has the pair as its primary key; to tell a row from a  *)
(* later one for the same pair it is named by the call that inserted it.   *)
(***************************************************************************)
EXTENDS Naturals, Sequences

CONSTANTS
  Calls,     \* calls of follow and unfollow, runs of the script
  Followers, Followees,
  Roster,    \* the edges that the script inserts, in its order
  Earlier,   \* stands for the call that made an edge which is there at first
  Nobody

Edges == Followers \X Followees

Seeded == {Roster[i] : i \in DOMAIN Roster}
Members == UNION {{e[1], e[2]} : e \in Seeded}

ASSUME CallsDiffer == Nobody \notin Calls \cup {Earlier} /\ Nobody \notin Edges
ASSUME RosterKnown == Roster \in Seq(Edges) /\ Roster # <<>>

VARIABLES
  edge,   \* edge[e]: the committed row, Nobody if there is none
  writer, \* writer[e]: who inserted or deletes a row of e and has not ended
  step,   \* next statement of a call, or its answer
  does,   \* does[c]: what c does, the edge, the row its DELETE found, and which
          \* of the roster's edges is next
  moments \* history: which of its edges were there, at each moment of the call

graph == <<edge, writer, step, does, moments>>

Ops == {"follow", "unfollow", "seed"}
Works == [op : Ops \cup {Nobody}, e : Edges \cup {Nobody},
          row : Calls \cup {Earlier, Nobody}, nth : 0..Len(Roster)]
Nothing == [op |-> Nobody, e |-> Nobody, row |-> Nobody, nth |-> 0]
Replies == {"followed", "unfollowed", "seeded", "missing", "conflict", "failed"}
Running == {"find", "insert", "refer", "delete", "lock", "accounts", "seed", "commit"}

GraphTypeOK ==
  /\ edge \in [Edges -> Calls \cup {Earlier, Nobody}]
  /\ writer \in [Edges -> Calls \cup {Nobody}]
  /\ \A e \in Edges : writer[e] # Nobody => step[writer[e]] \in {"refer", "seed", "commit"}
  /\ step \in [Calls -> {"idle"} \cup Running \cup Replies]
  /\ does \in [Calls -> Works]
  /\ moments \in [Calls -> SUBSET (Edges \X BOOLEAN)]

GraphInit ==
  /\ edge \in [Edges -> {Earlier, Nobody}]
  /\ \A e \in Edges : edge[e] = Earlier => e[1] # e[2]
  /\ writer = [e \in Edges |-> Nobody]
  /\ step = [c \in Calls |-> "idle"]
  /\ does = [c \in Calls |-> Nothing]
  /\ moments = [c \in Calls |-> {}]

-----------------------------------------------------------------------------
Move(c, label) == step' = [step EXCEPT ![c] = label]

Answer(c, reply) == Move(c, reply) /\ does' = [does EXCEPT ![c] = Nothing]

\* The edges whose presence a call is about.
Concern(c) == IF does[c].op = "seed" THEN Seeded ELSE {does[c].e} \ {Nobody}

\* Runs of the script that have locked its accounts, and whether e refers to one.
Seeding == {c \in Calls : does[c].op = "seed" /\ step[c] \in {"seed", "commit"}}
RefersToMember(e) == {e[1], e[2]} \cap Members # {}

\* The SELECT of the user behind the handle finds none.
Unknown(c) ==
  /\ step[c] = "idle"
  /\ Answer(c, "missing")
  /\ UNCHANGED <<edge, writer, moments>>

\* subscribe_to_handle, unsubscribe_from_handle: the user behind the handle is
\* there; only following oneself is refused.
GraphBegin(c, op, e) ==
  /\ step[c] = "idle" /\ op # "seed"
  /\ \/ op = "follow" /\ e[1] = e[2] /\ Answer(c, "conflict") /\ UNCHANGED moments
     \/ /\ op = "follow" => e[1] # e[2]
        /\ does' = [does EXCEPT ![c] = [Nothing EXCEPT !.op = op, !.e = e]]
        /\ moments' = [moments EXCEPT ![c] = {<<e, edge[e] # Nobody>>}]
        /\ Move(c, IF op = "follow" THEN "find" ELSE "delete")
  /\ UNCHANGED <<edge, writer>>

\* The SELECT of the edge: one that is there is the answer.
FindEdge(c) ==
  /\ step[c] = "find"
  /\ \/ edge[does[c].e] # Nobody /\ Answer(c, "followed")
     \/ edge[does[c].e] = Nobody /\ Move(c, "insert") /\ UNCHANGED does
  /\ UNCHANGED <<edge, writer, moments>>

\* Mutant of InsertEdge: ON CONFLICT DO NOTHING, and an insert that has not
\* committed yet is taken for an edge.
InsertEdgeUnlessWriting(c) ==
  LET e == does[c].e IN
  /\ step[c] = "insert"
  /\ \/ /\ edge[e] # Nobody \/ writer[e] # Nobody
        /\ Answer(c, "followed")
        /\ UNCHANGED writer
     \/ /\ edge[e] = Nobody /\ writer[e] = Nobody
        /\ writer' = [writer EXCEPT ![e] = c]
        /\ Move(c, "refer") /\ UNCHANGED does
  /\ UNCHANGED <<edge, moments>>

\* The INSERT waits for another INSERT or a DELETE of the same pair to end, and
\* fails if there is an edge then.
InsertEdge(c) ==
  LET e == does[c].e IN
  /\ step[c] = "insert"
  /\ writer[e] = Nobody
  /\ \/ edge[e] # Nobody /\ Answer(c, "failed") /\ UNCHANGED writer
     \/ /\ edge[e] = Nobody
        /\ writer' = [writer EXCEPT ![e] = c]
        /\ Move(c, "refer") /\ UNCHANGED does
  /\ UNCHANGED <<edge, moments>>

\* It refers to two accounts, and waits for a script that updates one of them.
Refer(c) ==
  /\ step[c] = "refer"
  /\ RefersToMember(does[c].e) => Seeding = {}
  /\ Move(c, "commit")
  /\ UNCHANGED <<edge, writer, does, moments>>

\* The DELETE looks for committed rows; an edge being inserted is not one.
DeleteEdge(c) ==
  LET e == does[c].e IN
  /\ step[c] = "delete"
  /\ does' = [does EXCEPT ![c].row = edge[e]]
  /\ Move(c, IF edge[e] = Nobody THEN "commit" ELSE "lock")
  /\ UNCHANGED <<edge, writer, moments>>

\* It waits for another DELETE of the row it found, which may be gone then.
LockEdge(c) ==
  LET e == does[c].e IN
  /\ step[c] = "lock"
  /\ \/ edge[e] # does[c].row /\ UNCHANGED writer
     \/ /\ edge[e] = does[c].row /\ writer[e] = Nobody
        /\ writer' = [writer EXCEPT ![e] = c]
  /\ Move(c, "commit")
  /\ UNCHANGED <<edge, does, moments>>

\* bootstrap_seed: the roster's pairs in the order of itertools.permutations.
SeedBegin(c) ==
  /\ step[c] = "idle"
  /\ does' = [does EXCEPT ![c] = [Nothing EXCEPT !.op = "seed", !.e = Roster[1], !.nth = 1]]
  /\ moments' = [moments EXCEPT ![c] = {<<e, edge[e] # Nobody>> : e \in Seeded}]
  /\ Move(c, "accounts")
  /\ UNCHANGED <<edge, writer>>

\* The accounts, for which it waits for other scripts and for new edges to them.
SeedAccounts(c) ==
  /\ step[c] = "accounts"
  /\ Seeding = {}
  /\ \A d \in Calls :
       step[d] = "commit" /\ does[d].op = "follow" => ~RefersToMember(does[d].e)
  /\ Move(c, "seed")
  /\ UNCHANGED <<edge, writer, does, moments>>

\* INSERT ... ON CONFLICT DO NOTHING waits as any INSERT, and keeps an edge that
\* is there then.
SeedEdge(c) ==
  LET e == does[c].e
      n == does[c].nth IN
  /\ step[c] = "seed"
  /\ writer[e] \in {Nobody, c}
  /\ writer' = IF edge[e] = Nobody THEN [writer EXCEPT ![e] = c] ELSE writer
  /\ \/ n < Len(Roster) /\ does' = [does EXCEPT ![c].e = Roster[n + 1], ![c].nth = n + 1]
                         /\ UNCHANGED step
     \/ n = Len(Roster) /\ Move(c, "commit") /\ UNCHANGED does
  /\ UNCHANGED <<edge, moments>>

Reply(c) ==
  CASE does[c].op = "follow" -> "followed"
    [] does[c].op = "unfollow" -> "unfollowed"
    [] OTHER -> "seeded"

Released(c) == [e \in Edges |-> IF writer[e] = c THEN Nobody ELSE writer[e]]

GraphCommit(c) ==
  /\ step[c] = "commit"
  /\ edge' = [e \in Edges |->
       IF writer[e] # c THEN edge[e] ELSE IF does[c].op = "unfollow" THEN Nobody ELSE c]
  /\ writer' = Released(c)
  /\ moments' = [d \in Calls |->
       moments[d] \cup {<<e, edge'[e] # Nobody>> : e \in Concern(d)}]
  /\ Answer(c, Reply(c))

\* Mutant of GraphAbort: the rows stay locked.
GraphAbortLocked(c) ==
  /\ step[c] \in Running
  /\ Answer(c, "failed")
  /\ UNCHANGED <<edge, writer, moments>>

\* A statement or the commit fails, or the connection is lost.
GraphAbort(c) ==
  /\ step[c] \in Running
  /\ writer' = Released(c)
  /\ Answer(c, "failed")
  /\ UNCHANGED <<edge, moments>>

-----------------------------------------------------------------------------
Statement(c) ==
  \/ FindEdge(c) \/ InsertEdge(c) \/ Refer(c) \/ DeleteEdge(c) \/ LockEdge(c)
  \/ SeedAccounts(c) \/ SeedEdge(c)

\* Steps that leave the committed edges alone.
GraphQuiet(c) ==
  \/ Unknown(c) \/ SeedBegin(c)
  \/ \E op \in Ops, e \in Edges : GraphBegin(c, op, e)
  \/ Statement(c) \/ GraphAbort(c)

GraphNext == \E c \in Calls : GraphQuiet(c) \/ GraphCommit(c)

GraphSpec == GraphInit /\ [][GraphNext]_graph

\* A follow waits for the accounts of a script that waits for its edge: PostgreSQL
\* finds the cycle and fails one of the two.
Cycle(c, d) ==
  /\ step[c] = "refer" /\ RefersToMember(does[c].e)
  /\ d \in Seeding /\ step[d] = "seed" /\ does[d].e = does[c].e

BreakCycle ==
  \E c, d \in Calls : Cycle(c, d) /\ (GraphAbort(c) \/ GraphAbort(d))

\* A call that began goes on with its next statement as soon as that does not wait.
GraphFairSpec ==
  /\ GraphSpec
  /\ \A c \in Calls : WF_graph(Statement(c) \/ GraphCommit(c))
  /\ WF_graph(BreakCycle)

-----------------------------------------------------------------------------
\* Each answered call took effect at some moment between its begin and its answer,
\* whatever other follows, unfollows and seeds ran meanwhile: a follow that answers
\* 201 had a moment with the edge, an unfollow that answers 204 one without, though
\* the first may have inserted nothing and the second deleted nothing; and a seed
\* saw each pair of its roster following, if not all of them at once.
AnswersHold ==
  \A c \in Calls :
    /\ step[c] = "followed" => \E e \in Edges : <<e, TRUE>> \in moments[c]
    /\ step[c] = "unfollowed" => \E e \in Edges : <<e, FALSE>> \in moments[c]
    /\ step[c] = "seeded" => \A e \in Seeded : <<e, TRUE>> \in moments[c]

\* Every call that began answers, for the only cycle of waits, a follow against a
\* seed script, is one that PostgreSQL breaks.
CallsAnswer ==
  \A c \in Calls : step[c] \in Running ~> step[c] \in Replies
=============================================================================
