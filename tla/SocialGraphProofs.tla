-------------------------- MODULE SocialGraphProofs --------------------------
(***************************************************************************)
(* Proofs about SocialGraph for any calls, users and roster.               *)
(*                                                                         *)
(* Whoever inserts an edge holds its place while there is no edge, so that *)
(* a committed row only ever gives way to none; whoever finds that the row *)
(* it meant to delete is another one has therefore lived through a moment  *)
(* without an edge.                                                        *)
(***************************************************************************)
EXTENDS SocialGraph, TLAPS

\* An edge is being inserted only while there is none.
InsertsAreNew ==
  \A e \in Edges :
    writer[e] # Nobody /\ does[writer[e]].op # "unfollow" => edge[e] = Nobody

\* A call takes the steps of what it does, on an edge.
OwnSteps(c) ==
  /\ step[c] \in Running => does[c].op \in Ops /\ does[c].e \in Edges
  /\ step[c] \in {"find", "insert", "refer"} => does[c].op = "follow"
  /\ step[c] \in {"delete", "lock"} => does[c].op = "unfollow"
  /\ step[c] \in {"accounts", "seed"} => does[c].op = "seed"
  /\ step[c] \notin Running => does[c] = Nothing
  /\ step[c] \in Running /\ does[c].op = "seed" =>
       does[c].nth \in DOMAIN Roster /\ does[c].e = Roster[does[c].nth]
  /\ step[c] = "accounts" => does[c].nth = 1

\* What is there now counts as a moment of the call.
SeesNow(c) ==
  step[c] \in Running =>
    \A e \in Concern(c) : <<e, edge[e] # Nobody>> \in moments[c]

\* A follow about to commit has its edge, an unfollow has its row or has seen it
\* gone, a seed has inserted or seen the edges it has passed.
Held(c) ==
  /\ step[c] = "refer" \/ (step[c] = "commit" /\ does[c].op = "follow") =>
       writer[does[c].e] = c
  /\ step[c] = "lock" => /\ does[c].row # Nobody
                         /\ \/ edge[does[c].e] = does[c].row
                            \/ <<does[c].e, FALSE>> \in moments[c]
  /\ step[c] = "commit" /\ does[c].op = "unfollow" =>
       writer[does[c].e] = c \/ <<does[c].e, FALSE>> \in moments[c]

Passed(c, i) == writer[Roster[i]] = c \/ <<Roster[i], TRUE>> \in moments[c]

Seeds(c) ==
  /\ step[c] = "seed" => \A i \in DOMAIN Roster : i < does[c].nth => Passed(c, i)
  /\ step[c] = "commit" /\ does[c].op = "seed" => \A i \in DOMAIN Roster : Passed(c, i)

Answered(c) ==
  /\ step[c] = "followed" => \E e \in Edges : <<e, TRUE>> \in moments[c]
  /\ step[c] = "unfollowed" => \E e \in Edges : <<e, FALSE>> \in moments[c]
  /\ step[c] = "seeded" => \A e \in Seeded : <<e, TRUE>> \in moments[c]

CallOK(c) == OwnSteps(c) /\ SeesNow(c) /\ Held(c) /\ Seeds(c) /\ Answered(c)

IInv == GraphTypeOK /\ InsertsAreNew /\ \A c \in Calls : CallOK(c)

-----------------------------------------------------------------------------
LEMMA RosterFacts ==
  /\ Seeded \subseteq Edges
  /\ 1 \in DOMAIN Roster
  /\ Len(Roster) \in Nat /\ DOMAIN Roster = 1..Len(Roster)
  /\ \A i \in DOMAIN Roster : Roster[i] \in Seeded
<1>1. Roster \in Seq(Edges) /\ Roster # <<>>
  BY RosterKnown
<1> QED BY <1>1 DEF Seeded

LEMMA Concerns ==
  ASSUME NEW c \in Calls, GraphTypeOK
  PROVE  Concern(c) \subseteq Edges
BY RosterFacts DEF Concern, GraphTypeOK, Works

LEMMA Initially == GraphInit => IInv
<1> SUFFICES ASSUME GraphInit PROVE IInv
  OBVIOUS
<1>1. GraphTypeOK
  BY RosterFacts, CallsDiffer DEF GraphInit, GraphTypeOK, Works, Nothing, Ops
<1>2. InsertsAreNew
  BY DEF GraphInit, InsertsAreNew
<1>3. ASSUME NEW c \in Calls PROVE CallOK(c)
  BY CallsDiffer DEF GraphInit, CallOK, OwnSteps, SeesNow, Held, Seeds, Answered, Running,
                     Nothing, Ops
<1> QED BY <1>1, <1>2, <1>3 DEF IInv

\* A step of one call that leaves the committed edges alone does not disturb another.
LEMMA OthersKeep ==
  ASSUME IInv, NEW c \in Calls, NEW d \in Calls, d # c, UNCHANGED edge,
         step'[d] = step[d], does'[d] = does[d], moments'[d] = moments[d],
         \A e \in Edges : writer[e] = d <=> writer'[e] = d
  PROVE  CallOK(d)'
<1>1. CallOK(d) /\ does[d].e \in Edges \cup {Nobody}
  BY DEF IInv, GraphTypeOK, Works
<1>2. OwnSteps(d)'
  BY <1>1 DEF CallOK, OwnSteps
<1>3. SeesNow(d)'
  BY <1>1 DEF CallOK, SeesNow, Concern
<1>4. Held(d)'
  BY <1>1 DEF CallOK, Held, OwnSteps, Running
<1>5. Seeds(d)'
  BY <1>1, RosterFacts DEF CallOK, Seeds, Passed
<1>6. Answered(d)'
  BY <1>1 DEF CallOK, Answered
<1> QED BY <1>2, <1>3, <1>4, <1>5, <1>6 DEF CallOK

\* What a call leaves alone of the others, and where that keeps the invariant.
OthersStay(c) ==
  \A d \in Calls : d # c =>
    /\ step'[d] = step[d] /\ does'[d] = does[d] /\ moments'[d] = moments[d]
    /\ \A e \in Edges : writer[e] = d <=> writer'[e] = d

LEMMA Assemble ==
  ASSUME IInv, NEW c \in Calls, UNCHANGED edge, OthersStay(c),
         GraphTypeOK', InsertsAreNew', CallOK(c)'
  PROVE  IInv'
<1>1. ASSUME NEW d \in Calls, d # c PROVE CallOK(d)'
  BY <1>1, OthersKeep DEF OthersStay
<1> QED BY <1>1 DEF IInv

\* A call that answers without having touched an edge.
LEMMA AnswerKeeps ==
  ASSUME IInv, NEW c \in Calls, NEW reply \in {"missing", "conflict", "failed", "followed"},
         UNCHANGED <<edge, moments>>, Answer(c, reply),
         \A e \in Edges : writer[e] # c, UNCHANGED writer,
         reply = "followed" => \E e \in Edges : <<e, TRUE>> \in moments[c]
  PROVE  IInv'
<1>1. GraphTypeOK /\ InsertsAreNew
  BY DEF IInv
<1>2. step' = [step EXCEPT ![c] = reply] /\ does' = [does EXCEPT ![c] = Nothing]
  BY DEF Answer, Move
<1>3. Nothing \in Works
  BY RosterFacts DEF Nothing, Works
<1>4. GraphTypeOK'
  BY <1>1, <1>2, <1>3 DEF GraphTypeOK, Replies
<1>5. InsertsAreNew'
  BY <1>1, <1>2 DEF InsertsAreNew, GraphTypeOK
<1>6. CallOK(c)'
  BY <1>1, <1>2 DEF CallOK, OwnSteps, SeesNow, Held, Seeds, Answered, GraphTypeOK, Running
<1>7. OthersStay(c)
  BY <1>1, <1>2 DEF OthersStay, GraphTypeOK
<1> QED BY <1>4, <1>5, <1>6, <1>7, Assemble

\* Who is not about to refer, to seed or to commit has no row.
LEMMA NoRowYet ==
  ASSUME GraphTypeOK, NEW c \in Calls, step[c] \notin {"refer", "seed", "commit"}
  PROVE  \A e \in Edges : writer[e] # c
BY CallsDiffer DEF GraphTypeOK

LEMMA UnknownKeeps == ASSUME IInv, NEW c \in Calls, Unknown(c) PROVE IInv'
<1>1. \A e \in Edges : writer[e] # c
  BY NoRowYet DEF IInv, Unknown
<1> QED BY <1>1, AnswerKeeps DEF Unknown

LEMMA FindEdgeKeeps == ASSUME IInv, NEW c \in Calls, FindEdge(c) PROVE IInv'
<1>0. GraphTypeOK /\ InsertsAreNew /\ CallOK(c)
  BY DEF IInv
<1>1. \A e \in Edges : writer[e] # c
  BY <1>0, NoRowYet DEF FindEdge
<1>2. does[c].e \in Edges /\ does[c].op = "follow"
  BY <1>0 DEF FindEdge, CallOK, OwnSteps, Running
<1>3. CASE edge[does[c].e] # Nobody /\ Answer(c, "followed")
  <2>1. does[c].e \in Concern(c)
    BY <1>2, CallsDiffer DEF Concern
  <2>2. <<does[c].e, TRUE>> \in moments[c]
    BY <1>0, <1>3, <2>1 DEF FindEdge, CallOK, SeesNow, Running
  <2> QED BY <1>1, <1>2, <1>3, <2>2, AnswerKeeps DEF FindEdge
<1>4. CASE Move(c, "insert") /\ UNCHANGED does
  <2>1. GraphTypeOK' /\ InsertsAreNew' /\ OthersStay(c)
    BY <1>0, <1>1, <1>4 DEF FindEdge, Move, GraphTypeOK, InsertsAreNew, OthersStay, Running
  <2>2. CallOK(c)'
    BY <1>0, <1>4 DEF FindEdge, Move, CallOK, OwnSteps, SeesNow, Held, Seeds, Answered,
                      GraphTypeOK, Running, Concern
  <2> QED BY <2>1, <2>2, Assemble DEF FindEdge
<1> QED BY <1>3, <1>4 DEF FindEdge

LEMMA BeginKeeps ==
  ASSUME IInv, NEW c \in Calls, NEW op \in Ops, NEW e \in Edges, GraphBegin(c, op, e)
  PROVE  IInv'
<1>0. GraphTypeOK /\ InsertsAreNew /\ CallOK(c)
  BY DEF IInv
<1>1. \A f \in Edges : writer[f] # c
  BY <1>0, NoRowYet DEF GraphBegin
<1>2. CASE op = "follow" /\ e[1] = e[2] /\ Answer(c, "conflict") /\ UNCHANGED moments
  BY <1>1, <1>2, AnswerKeeps DEF GraphBegin
<1>3. CASE /\ does' = [does EXCEPT ![c] = [Nothing EXCEPT !.op = op, !.e = e]]
           /\ moments' = [moments EXCEPT ![c] = {<<e, edge[e] # Nobody>>}]
           /\ Move(c, IF op = "follow" THEN "find" ELSE "delete")
  <2>1. /\ does'[c] = [op |-> op, e |-> e, row |-> Nobody, nth |-> 0]
        /\ moments'[c] = {<<e, edge[e] # Nobody>>}
        /\ step'[c] = IF op = "follow" THEN "find" ELSE "delete"
    BY <1>0, <1>3 DEF GraphTypeOK, Works, Nothing, Move
  <2>2. OthersStay(c)
    BY <1>0, <1>3 DEF GraphBegin, GraphTypeOK, OthersStay, Move
  <2>3. InsertsAreNew'
    BY <1>0, <1>1, <2>2 DEF GraphBegin, InsertsAreNew, OthersStay, GraphTypeOK
  <2>4. GraphTypeOK'
    <3>1. does' \in [Calls -> Works]
      <4>1. does'[c] \in Works
        BY <2>1, RosterFacts DEF Works
      <4> QED BY <1>0, <1>3, <4>1 DEF GraphTypeOK
    <3>2. moments' \in [Calls -> SUBSET (Edges \X BOOLEAN)]
      <4>1. (edge[e] # Nobody) \in BOOLEAN
        OBVIOUS
      <4>2. \A b \in BOOLEAN : {<<e, b>>} \in SUBSET (Edges \X BOOLEAN)
        OBVIOUS
      <4>3. {<<e, edge[e] # Nobody>>} \in SUBSET (Edges \X BOOLEAN)
        BY <4>1, <4>2, Zenon
      <4> QED BY <1>0, <1>3, <4>3 DEF GraphTypeOK
    <3>3. step' \in [Calls -> {"idle"} \cup Running \cup Replies]
      BY <1>0, <1>3 DEF GraphTypeOK, Move, Running
    <3> QED BY <1>0, <1>1, <1>3, <3>1, <3>2, <3>3 DEF GraphBegin, GraphTypeOK, Move
  <2>5. CallOK(c)'
    <3>1. OwnSteps(c)' /\ Held(c)' /\ Seeds(c)' /\ Answered(c)'
      BY <2>1 DEF GraphBegin, OwnSteps, Held, Seeds, Answered, Running, Ops
    <3>2. Concern(c)' \subseteq {e}
      BY <2>1 DEF GraphBegin, Concern, Ops
    <3> QED BY <2>1, <3>1, <3>2 DEF GraphBegin, CallOK, SeesNow
  <2> QED BY <2>2, <2>3, <2>4, <2>5, Assemble DEF GraphBegin
<1> QED BY <1>2, <1>3 DEF GraphBegin

LEMMA InsertEdgeKeeps == ASSUME IInv, NEW c \in Calls, InsertEdge(c) PROVE IInv'
<1>0. GraphTypeOK /\ InsertsAreNew /\ CallOK(c)
  BY DEF IInv
<1>1. does[c].e \in Edges /\ does[c].op = "follow"
  BY <1>0 DEF InsertEdge, CallOK, OwnSteps, Running
<1>2. \A e \in Edges : writer[e] # c
  BY <1>0, NoRowYet DEF InsertEdge
<1>3. CASE Answer(c, "failed") /\ UNCHANGED writer
  BY <1>2, <1>3, AnswerKeeps DEF InsertEdge
<1>4. CASE /\ edge[does[c].e] = Nobody
           /\ writer' = [writer EXCEPT ![does[c].e] = c]
           /\ Move(c, "refer") /\ UNCHANGED does
  <2>1. GraphTypeOK' /\ OthersStay(c)
    BY <1>0, <1>1, <1>4, CallsDiffer
       DEF InsertEdge, Move, GraphTypeOK, OthersStay, Running
  <2>2. InsertsAreNew'
    BY <1>0, <1>1, <1>4 DEF InsertEdge, GraphTypeOK, InsertsAreNew
  <2>3. CallOK(c)'
    BY <1>0, <1>1, <1>4 DEF InsertEdge, Move, CallOK, OwnSteps, SeesNow, Held, Seeds,
                            Answered, GraphTypeOK, Running, Concern
  <2> QED BY <2>1, <2>2, <2>3, Assemble DEF InsertEdge
<1> QED BY <1>3, <1>4 DEF InsertEdge

LEMMA ReferKeeps == ASSUME IInv, NEW c \in Calls, Refer(c) PROVE IInv'
<1>0. GraphTypeOK /\ InsertsAreNew /\ CallOK(c)
  BY DEF IInv
<1>1. step' = [step EXCEPT ![c] = "commit"] /\ UNCHANGED <<edge, writer, does, moments>>
  BY DEF Refer, Move
<1>2. GraphTypeOK' /\ InsertsAreNew' /\ OthersStay(c)
  BY <1>0, <1>1 DEF GraphTypeOK, InsertsAreNew, OthersStay, Running
<1>3. CallOK(c)'
  BY <1>0, <1>1 DEF Refer, CallOK, OwnSteps, SeesNow, Held, Seeds, Answered, GraphTypeOK,
                    Running, Concern
<1> QED BY <1>1, <1>2, <1>3, Assemble

LEMMA DeleteEdgeKeeps == ASSUME IInv, NEW c \in Calls, DeleteEdge(c) PROVE IInv'
<1>0. GraphTypeOK /\ InsertsAreNew /\ CallOK(c)
  BY DEF IInv
<1> DEFINE e == does[c].e
<1>1. e \in Edges /\ e # Nobody /\ does[c].op = "unfollow"
  BY <1>0, CallsDiffer DEF DeleteEdge, CallOK, OwnSteps, Running
<1>2. does' = [does EXCEPT ![c].row = edge[e]] /\ UNCHANGED <<edge, writer, moments>>
  BY DEF DeleteEdge
<1>3. does'[c] = [does[c] EXCEPT !.row = edge[e]] /\ does[c] \in Works
  BY <1>0, <1>2 DEF GraphTypeOK
<1>4. step' = [step EXCEPT ![c] = IF edge[e] = Nobody THEN "commit" ELSE "lock"]
  BY DEF DeleteEdge, Move
<1>5. GraphTypeOK'
  <2>1. does'[c] \in Works
    BY <1>0, <1>1, <1>3 DEF GraphTypeOK, Works
  <2>2. does' \in [Calls -> Works]
    BY <1>0, <1>2, <2>1 DEF GraphTypeOK
  <2>3. \A f \in Edges : writer[f] # c
    BY <1>0, NoRowYet DEF DeleteEdge
  <2> QED BY <1>0, <1>2, <1>4, <2>2, <2>3 DEF GraphTypeOK, Running
<1>6. /\ does'[c].op = does[c].op /\ does'[c].e = e /\ does'[c].nth = does[c].nth
      /\ does'[c].row = edge[e]
  BY <1>3 DEF Works
<1>7. OthersStay(c)
  BY <1>0, <1>2, <1>4 DEF OthersStay, GraphTypeOK
<1>8. InsertsAreNew'
  BY <1>0, <1>2, <1>6, <1>7 DEF InsertsAreNew, GraphTypeOK, OthersStay
<1>9. CallOK(c)'
  <2>1. e \in Concern(c) /\ Concern(c)' = Concern(c)
    BY <1>1, <1>6 DEF Concern
  <2>2. <<e, edge[e] # Nobody>> \in moments[c]
    BY <1>0, <2>1 DEF DeleteEdge, CallOK, SeesNow, Running
  <2>3. Held(c)'
    BY <1>0, <1>1, <1>2, <1>4, <1>6, <2>2 DEF Held, GraphTypeOK
  <2>4. OwnSteps(c)' /\ SeesNow(c)' /\ Seeds(c)' /\ Answered(c)'
    BY <1>0, <1>1, <1>2, <1>4, <1>6, <2>1
       DEF DeleteEdge, CallOK, OwnSteps, SeesNow, Seeds, Answered, GraphTypeOK, Running
  <2> QED BY <2>3, <2>4 DEF CallOK
<1> QED BY <1>2, <1>5, <1>7, <1>8, <1>9, Assemble

LEMMA LockEdgeKeeps == ASSUME IInv, NEW c \in Calls, LockEdge(c) PROVE IInv'
<1>0. GraphTypeOK /\ InsertsAreNew /\ CallOK(c)
  BY DEF IInv
<1> DEFINE e == does[c].e
<1>1. e \in Edges /\ does[c].op = "unfollow"
  BY <1>0 DEF LockEdge, CallOK, OwnSteps, Running
<1>2. step' = [step EXCEPT ![c] = "commit"] /\ UNCHANGED <<edge, does, moments>>
  BY DEF LockEdge, Move
<1>3. \/ edge[e] # does[c].row /\ UNCHANGED writer
      \/ writer[e] = Nobody /\ writer' = [writer EXCEPT ![e] = c]
  BY DEF LockEdge
<1>4. \A f \in Edges : writer[f] # c
  BY <1>0, NoRowYet DEF LockEdge
<1>5. GraphTypeOK' /\ OthersStay(c)
  BY <1>0, <1>1, <1>2, <1>3, <1>4, CallsDiffer DEF GraphTypeOK, OthersStay, Running
<1>6. InsertsAreNew'
  BY <1>0, <1>1, <1>2, <1>3 DEF InsertsAreNew, GraphTypeOK
<1>7. CallOK(c)'
  BY <1>0, <1>1, <1>2, <1>3 DEF LockEdge, CallOK, OwnSteps, SeesNow, Held, Seeds, Answered,
                                GraphTypeOK, Running, Concern
<1> QED BY <1>2, <1>5, <1>6, <1>7, Assemble

LEMMA SeedBeginKeeps == ASSUME IInv, NEW c \in Calls, SeedBegin(c) PROVE IInv'
<1>0. GraphTypeOK /\ InsertsAreNew /\ CallOK(c)
  BY DEF IInv
<1> DEFINE Now == {<<e, edge[e] # Nobody>> : e \in Seeded}
<1>1. /\ step' = [step EXCEPT ![c] = "accounts"]
      /\ does' = [does EXCEPT ![c] = [Nothing EXCEPT !.op = "seed", !.e = Roster[1], !.nth = 1]]
      /\ moments' = [moments EXCEPT ![c] = Now]
      /\ UNCHANGED <<edge, writer>>
  BY DEF SeedBegin, Move
<1>2. does'[c] = [op |-> "seed", e |-> Roster[1], row |-> Nobody, nth |-> 1]
  BY <1>0, <1>1 DEF GraphTypeOK, Nothing
<1>3. \A f \in Edges : writer[f] # c
  BY <1>0, NoRowYet DEF SeedBegin
<1>4. GraphTypeOK'
  <2>1. does'[c] \in Works
    BY <1>2, RosterFacts DEF Works, Ops
  <2>2. Now \in SUBSET (Edges \X BOOLEAN)
    <3>1. \A e \in Edges : (edge[e] # Nobody) \in BOOLEAN
      OBVIOUS
    <3>2. \A e \in Edges, b \in BOOLEAN : <<e, b>> \in Edges \X BOOLEAN
      OBVIOUS
    <3>3. \A e \in Seeded : <<e, edge[e] # Nobody>> \in Edges \X BOOLEAN
      BY <3>1, <3>2, RosterFacts, Zenon
    <3> QED BY <3>3, Zenon
  <2>3. does' \in [Calls -> Works] /\ moments' \in [Calls -> SUBSET (Edges \X BOOLEAN)]
    BY <1>0, <1>1, <2>1, <2>2 DEF GraphTypeOK
  <2> QED BY <1>0, <1>1, <1>3, <2>3 DEF GraphTypeOK, Running
<1>5. OthersStay(c)
  BY <1>0, <1>1 DEF OthersStay, GraphTypeOK
<1>6. InsertsAreNew'
  BY <1>0, <1>1, <1>3, <1>5 DEF InsertsAreNew, OthersStay, GraphTypeOK
<1>7. CallOK(c)'
  <2>1. Concern(c)' = Seeded /\ step'[c] = "accounts" /\ moments'[c] = Now
    BY <1>0, <1>1, <1>2 DEF Concern, GraphTypeOK
  <2>2. SeesNow(c)'
    BY <1>1, <2>1, Zenon DEF SeesNow
  <2> QED BY <1>2, <2>1, <2>2, RosterFacts
        DEF CallOK, OwnSteps, Held, Seeds, Answered, Running, Ops
<1> QED BY <1>1, <1>4, <1>5, <1>6, <1>7, Assemble

LEMMA SeedAccountsKeeps == ASSUME IInv, NEW c \in Calls, SeedAccounts(c) PROVE IInv'
<1>0. GraphTypeOK /\ InsertsAreNew /\ CallOK(c)
  BY DEF IInv
<1>1. step' = [step EXCEPT ![c] = "seed"] /\ UNCHANGED <<edge, writer, does, moments>>
  BY DEF SeedAccounts, Move
<1>2. GraphTypeOK' /\ InsertsAreNew' /\ OthersStay(c)
  BY <1>0, <1>1 DEF GraphTypeOK, InsertsAreNew, OthersStay, Running
<1>3. CallOK(c)'
  <2>1. does[c].op = "seed" /\ does[c].nth = 1 /\ Concern(c)' = Concern(c)
    BY <1>0, <1>1 DEF SeedAccounts, CallOK, OwnSteps, Concern
  <2>2. \A i \in DOMAIN Roster : ~(i < 1)
    BY RosterFacts
  <2> QED BY <1>0, <1>1, <2>1, <2>2
        DEF SeedAccounts, CallOK, OwnSteps, SeesNow, Held, Seeds, Answered, GraphTypeOK, Running
<1> QED BY <1>1, <1>2, <1>3, Assemble

LEMMA SeedEdgeKeeps == ASSUME IInv, NEW c \in Calls, SeedEdge(c) PROVE IInv'
<1>0. GraphTypeOK /\ InsertsAreNew /\ CallOK(c) /\ does[c] \in Works
  BY DEF IInv, GraphTypeOK
<1> DEFINE e == does[c].e
           n == does[c].nth
<1>1. /\ does[c].op = "seed" /\ n \in DOMAIN Roster /\ e = Roster[n] /\ e \in Edges
      /\ Concern(c) = Seeded
  BY <1>0 DEF SeedEdge, CallOK, OwnSteps, Running, Concern
<1>2. /\ writer[e] \in {Nobody, c} /\ UNCHANGED <<edge, moments>>
      /\ writer' = IF edge[e] = Nobody THEN [writer EXCEPT ![e] = c] ELSE writer
  BY DEF SeedEdge
<1>3. \/ /\ n < Len(Roster) /\ UNCHANGED step
         /\ does' = [does EXCEPT ![c].e = Roster[n + 1], ![c].nth = n + 1]
      \/ n = Len(Roster) /\ step' = [step EXCEPT ![c] = "commit"] /\ UNCHANGED does
  BY DEF SeedEdge, Move
<1>4. \/ does'[c] = does[c]
      \/ /\ n < Len(Roster) /\ UNCHANGED step
         /\ does'[c] = [does[c] EXCEPT !.e = Roster[n + 1], !.nth = n + 1]
  BY <1>0, <1>3 DEF GraphTypeOK
<1>5. does'[c] \in Works /\ does'[c].op = "seed"
  <2>1. CASE does'[c] = does[c]
    BY <1>0, <1>1, <2>1
  <2>2. CASE /\ n < Len(Roster)
             /\ does'[c] = [does[c] EXCEPT !.e = Roster[n + 1], !.nth = n + 1]
    <3>1. n + 1 \in DOMAIN Roster /\ n + 1 \in 0..Len(Roster) /\ Roster[n + 1] \in Edges
      BY <1>1, <2>2, RosterFacts
    <3> QED BY <1>0, <1>1, <2>2, <3>1 DEF Works
  <2> QED BY <1>4, <2>1, <2>2
<1>6. \A d \in Calls : d # c => step'[d] = step[d] /\ does'[d] = does[d]
  BY <1>0, <1>3 DEF GraphTypeOK
<1>7. does' \in [Calls -> Works]
  BY <1>0, <1>3, <1>5, <1>6 DEF GraphTypeOK
<1>8. \A f \in Edges : writer'[f] \in {writer[f], c} /\ (writer[f] = c => writer'[f] = c)
  BY <1>0, <1>1, <1>2 DEF GraphTypeOK
<1>9. \A f \in Edges : writer'[f] # writer[f] => f = e /\ edge[e] = Nobody
  BY <1>0, <1>1, <1>2 DEF GraphTypeOK
<1>10. GraphTypeOK'
  <2>1. writer' \in [Edges -> Calls \cup {Nobody}]
    BY <1>0, <1>1, <1>2 DEF GraphTypeOK
  <2>2. step' \in [Calls -> {"idle"} \cup Running \cup Replies] /\ step'[c] \in {"seed", "commit"}
    BY <1>0, <1>3 DEF GraphTypeOK, Running, SeedEdge
  <2>3. \A f \in Edges :
          writer'[f] # Nobody => step'[writer'[f]] \in {"refer", "seed", "commit"}
    BY <1>0, <1>6, <1>8, <2>2 DEF GraphTypeOK
  <2> QED BY <1>0, <1>2, <1>7, <2>1, <2>2, <2>3 DEF GraphTypeOK
<1>11. OthersStay(c)
  <2>1. \A f \in Edges : writer[f] # writer'[f] => writer[f] = Nobody /\ writer'[f] = c
    BY <1>0, <1>1, <1>2, <1>8, <1>9
  <2> QED BY <1>0, <1>2, <1>6, <2>1, CallsDiffer DEF OthersStay, GraphTypeOK
<1>12. InsertsAreNew'
  BY <1>0, <1>1, <1>2, <1>5, <1>6, <1>8, <1>9 DEF InsertsAreNew, GraphTypeOK
<1>13. CallOK(c)'
  <2>1. \A i \in DOMAIN Roster : i < n => Passed(c, i)
    BY <1>0 DEF SeedEdge, CallOK, Seeds
  <2>2. \A i \in DOMAIN Roster : i < n \/ i = n => Passed(c, i)'
    <3>1. \A i \in DOMAIN Roster : i < n => Passed(c, i)'
      BY <1>2, <1>8, <2>1, RosterFacts DEF Passed
    <3>2. edge[e] # Nobody => <<e, TRUE>> \in moments[c]
      BY <1>0, <1>1, RosterFacts DEF SeedEdge, CallOK, SeesNow, Running
    <3>3. \A i \in DOMAIN Roster : i = n => Passed(c, i)'
      BY <1>0, <1>1, <1>2, <3>2 DEF Passed, GraphTypeOK
    <3> QED BY <3>1, <3>3
  <2>3. Concern(c)' = Seeded
    BY <1>5 DEF Concern
  <2>4. SeesNow(c)'
    BY <1>0, <1>1, <1>2, <2>3, Zenon DEF SeesNow, SeedEdge, CallOK, Running
  <2>5. CASE UNCHANGED step
    <3>1. n < Len(Roster) /\ step'[c] = "seed"
      BY <1>0, <1>3, <2>5 DEF SeedEdge, GraphTypeOK
    <3>2. does'[c].nth = n + 1 /\ does'[c].e = Roster[n + 1] /\ n + 1 \in DOMAIN Roster
      BY <1>0, <1>1, <1>3, <2>5, <3>1, RosterFacts DEF SeedEdge, GraphTypeOK, Works
    <3>3. Seeds(c)'
      BY <1>1, <2>2, <3>1, <3>2, RosterFacts DEF Seeds
    <3> QED BY <1>1, <1>5, <2>4, <3>1, <3>2, <3>3, RosterFacts
          DEF CallOK, OwnSteps, Held, Answered, Running, Ops
  <2>6. CASE n = Len(Roster) /\ step' = [step EXCEPT ![c] = "commit"] /\ UNCHANGED does
    <3>1. step'[c] = "commit" /\ does'[c] = does[c]
      BY <1>0, <2>6 DEF GraphTypeOK
    <3>2. Seeds(c)'
      BY <1>1, <2>2, <2>6, <3>1, RosterFacts DEF Seeds
    <3> QED BY <1>1, <1>5, <2>4, <3>1, <3>2
          DEF CallOK, OwnSteps, Held, Answered, Running, Ops
  <2> QED BY <1>3, <2>5, <2>6
<1> QED BY <1>2, <1>10, <1>11, <1>12, <1>13, Assemble

\* What a call held is free when it ends, and the others keep theirs.
LEMMA Release ==
  ASSUME GraphTypeOK, NEW c \in Calls
  PROVE  /\ Released(c) \in [Edges -> Calls \cup {Nobody}]
         /\ \A e \in Edges : Released(c)[e] # c
         /\ \A e \in Edges, d \in Calls : d # c => (writer[e] = d <=> Released(c)[e] = d)
BY CallsDiffer DEF Released, GraphTypeOK

LEMMA AbortKeeps == ASSUME IInv, NEW c \in Calls, GraphAbort(c) PROVE IInv'
<1>0. GraphTypeOK /\ InsertsAreNew /\ CallOK(c)
  BY DEF IInv
<1>1. /\ step' = [step EXCEPT ![c] = "failed"] /\ does' = [does EXCEPT ![c] = Nothing]
      /\ writer' = Released(c) /\ UNCHANGED <<edge, moments>>
  BY DEF GraphAbort, Answer, Move
<1>2. GraphTypeOK'
  <2>1. Nothing \in Works
    BY RosterFacts DEF Works, Nothing
  <2> QED BY <1>0, <1>1, <2>1, Release DEF GraphTypeOK, Replies
<1>3. OthersStay(c)
  BY <1>0, <1>1, Release DEF OthersStay, GraphTypeOK
<1>4. InsertsAreNew'
  BY <1>0, <1>1, <1>2, <1>3, Release DEF InsertsAreNew, GraphTypeOK, OthersStay
<1>5. CallOK(c)'
  BY <1>0, <1>1 DEF CallOK, OwnSteps, SeesNow, Held, Seeds, Answered, GraphTypeOK, Running
<1> QED BY <1>1, <1>2, <1>3, <1>4, <1>5, Assemble

\* The moment at which a call's edges appear or go is one of every call that is
\* about them.
LEMMA CommitKeeps == ASSUME IInv, NEW c \in Calls, GraphCommit(c) PROVE IInv'
<1>0. GraphTypeOK /\ InsertsAreNew /\ \A d \in Calls : CallOK(d)
  BY DEF IInv
<1> DEFINE Seen(d) == {<<e, edge'[e] # Nobody>> : e \in Concern(d)}
<1>1. /\ step[c] = "commit" /\ writer' = Released(c)
      /\ step' = [step EXCEPT ![c] = Reply(c)] /\ does' = [does EXCEPT ![c] = Nothing]
      /\ moments' = [d \in Calls |-> moments[d] \cup Seen(d)]
      /\ edge' = [e \in Edges |->
            IF writer[e] # c THEN edge[e] ELSE IF does[c].op = "unfollow" THEN Nobody ELSE c]
  BY Zenon DEF GraphCommit, Answer, Move
<1>2. /\ does[c].op \in Ops /\ does[c].e \in Edges
      /\ Reply(c) \in {"followed", "unfollowed", "seeded"}
      /\ Reply(c) = "followed" <=> does[c].op = "follow"
      /\ Reply(c) = "unfollowed" <=> does[c].op = "unfollow"
      /\ Reply(c) = "seeded" <=> does[c].op = "seed"
  BY <1>0, <1>1 DEF CallOK, OwnSteps, Running, Ops, Reply
<1>3. GraphTypeOK'
  <2>1. \A d \in Calls : Seen(d) \in SUBSET (Edges \X BOOLEAN)
    <3>1. \A e \in Edges, b \in BOOLEAN : <<e, b>> \in Edges \X BOOLEAN
      OBVIOUS
    <3>2. \A e \in Edges : <<e, edge'[e] # Nobody>> \in Edges \X BOOLEAN
      <4>1. \A e \in Edges : (edge'[e] # Nobody) \in BOOLEAN
        OBVIOUS
      <4> QED BY <3>1, <4>1, Zenon
    <3> QED BY <1>0, <3>2, Concerns, Zenon
  <2>2. moments' \in [Calls -> SUBSET (Edges \X BOOLEAN)]
    <3> HIDE DEF Seen
    <3> QED BY <1>0, <1>1, <2>1 DEF GraphTypeOK
  <2>3. Nothing \in Works
    BY RosterFacts DEF Works, Nothing
  <2>4. edge' \in [Edges -> Calls \cup {Earlier, Nobody}]
    BY <1>0, <1>1 DEF GraphTypeOK
  <2>5. step' \in [Calls -> {"idle"} \cup Running \cup Replies] /\ does' \in [Calls -> Works]
    BY <1>0, <1>1, <1>2, <2>3 DEF GraphTypeOK, Replies
  <2>6. \A e \in Edges :
          writer'[e] # Nobody => step'[writer'[e]] \in {"refer", "seed", "commit"}
    BY <1>0, <1>1, Release DEF GraphTypeOK
  <2> QED BY <1>0, <1>1, <2>2, <2>4, <2>5, <2>6, Release DEF GraphTypeOK
<1>4. InsertsAreNew'
  <2>1. \A e \in Edges : writer'[e] # Nobody => writer'[e] = writer[e] /\ writer[e] # c
    BY <1>1 DEF Released
  <2>2. \A e \in Edges : writer[e] # c => edge'[e] = edge[e]
    BY <1>1
  <2>3. \A d \in Calls : d # c => does'[d] = does[d]
    BY <1>0, <1>1 DEF GraphTypeOK
  <2> QED BY <1>0, <2>1, <2>2, <2>3 DEF InsertsAreNew, GraphTypeOK
<1>5. ASSUME NEW d \in Calls, d # c PROVE CallOK(d)'
  <2>1. step'[d] = step[d] /\ does'[d] = does[d] /\ does[d] \in Works
    BY <1>0, <1>1, <1>5 DEF GraphTypeOK
  <2>2. moments[d] \subseteq moments'[d] /\ Seen(d) \subseteq moments'[d]
    BY <1>1, Zenon
  <2>3. \A e \in Edges : writer[e] = d <=> writer'[e] = d
    BY <1>0, <1>1, <1>5, Release
  <2>4. Concern(d)' = Concern(d)
    BY <2>1 DEF Concern
  <2>5. CallOK(d)
    BY <1>0
  <2>6. OwnSteps(d)'
    BY <2>1, <2>5 DEF CallOK, OwnSteps
  <2>7. SeesNow(d)'
    BY <2>2, <2>4, Zenon DEF SeesNow
  <2>8. Seeds(d)'
    BY <2>1, <2>2, <2>3, <2>5, RosterFacts DEF CallOK, Seeds, Passed
  <2>9. Held(d)'
    <3>1. step[d] = "lock" => /\ does[d].e \in Concern(d) /\ does[d].e \in Edges
      BY <2>5, CallsDiffer DEF CallOK, OwnSteps, Running, Concern
    <3>2. step[d] = "lock" /\ edge[does[d].e] # edge'[does[d].e] =>
             <<does[d].e, FALSE>> \in moments'[d] \/ edge[does[d].e] # does[d].row
      <4> SUFFICES ASSUME step[d] = "lock", edge[does[d].e] # edge'[does[d].e],
                          edge[does[d].e] = does[d].row
                   PROVE  <<does[d].e, FALSE>> \in moments'[d]
        OBVIOUS
      <4>1. writer[does[d].e] = c /\ does[d].row # Nobody
        BY <1>1, <2>5, <3>1 DEF CallOK, Held
      <4>2. edge'[does[d].e] = Nobody
        BY <1>0, <1>1, <3>1, <4>1, CallsDiffer DEF InsertsAreNew
      <4> QED BY <2>2, <3>1, <4>2
    <3>3. step[d] = "lock" =>
             edge'[does[d].e] = does[d].row \/ <<does[d].e, FALSE>> \in moments'[d]
      BY <2>2, <2>5, <3>2 DEF CallOK, Held
    <3> QED BY <2>1, <2>2, <2>3, <2>5, <3>3 DEF CallOK, Held, OwnSteps, Running
  <2>10. Answered(d)'
    BY <2>1, <2>2, <2>5 DEF CallOK, Answered
  <2> QED BY <2>6, <2>7, <2>8, <2>9, <2>10 DEF CallOK
<1>6. CallOK(c)'
  <2>1. step'[c] = Reply(c) /\ does'[c] = Nothing
    BY <1>0, <1>1 DEF GraphTypeOK
  <2>2. moments[c] \subseteq moments'[c] /\ Seen(c) \subseteq moments'[c]
    BY <1>1, Zenon
  <2>3. \A e \in Concern(c) : edge'[e] # Nobody => <<e, TRUE>> \in moments'[c]
    BY <2>2
  <2>4. \A e \in Concern(c) : edge'[e] = Nobody => <<e, FALSE>> \in moments'[c]
    BY <2>2
  <2>5. \A e \in Edges : writer[e] = c =>
          edge'[e] = IF does[c].op = "unfollow" THEN Nobody ELSE c
    BY <1>1
  <2>6. does[c].op # "seed" => does[c].e \in Concern(c)
    BY <1>2, CallsDiffer DEF Concern
  <2>7. does[c].op = "seed" => Concern(c) = Seeded
    BY DEF Concern
  <2>8. CallOK(c)
    BY <1>0
  <2>9. does[c].op = "follow" => <<does[c].e, TRUE>> \in moments'[c]
    BY <1>1, <1>2, <2>3, <2>5, <2>6, <2>8, CallsDiffer DEF CallOK, Held
  <2>10. does[c].op = "unfollow" => <<does[c].e, FALSE>> \in moments'[c]
    BY <1>1, <1>2, <2>2, <2>4, <2>5, <2>6, <2>8, CallsDiffer DEF CallOK, Held
  <2>11. does[c].op = "seed" => \A e \in Seeded : <<e, TRUE>> \in moments'[c]
    <3> SUFFICES ASSUME does[c].op = "seed", NEW i \in DOMAIN Roster
                 PROVE  <<Roster[i], TRUE>> \in moments'[c]
      BY DEF Seeded
    <3>1. Passed(c, i)
      BY <1>1, <2>8 DEF CallOK, Seeds
    <3> QED BY <2>2, <2>3, <2>5, <2>7, <3>1, RosterFacts, CallsDiffer DEF Passed
  <2>12. Answered(c)'
    BY <1>2, <2>1, <2>9, <2>10, <2>11 DEF Answered
  <2>13. OwnSteps(c)' /\ SeesNow(c)' /\ Held(c)' /\ Seeds(c)'
    BY <1>2, <2>1 DEF OwnSteps, SeesNow, Held, Seeds, Running
  <2> QED BY <2>12, <2>13 DEF CallOK
<1> QED BY <1>3, <1>4, <1>5, <1>6 DEF IInv

-----------------------------------------------------------------------------
LEMMA Step == IInv /\ [GraphNext]_graph => IInv'
<1> SUFFICES ASSUME IInv, [GraphNext]_graph PROVE IInv'
  OBVIOUS
<1>1. CASE UNCHANGED graph
  <2>1. ASSUME NEW c \in Calls, CallOK(c) PROVE CallOK(c)'
    <3>1. OwnSteps(c)' /\ Held(c)' /\ Seeds(c)' /\ Answered(c)'
      BY <1>1, <2>1, Zenon DEF graph, CallOK, OwnSteps, Held, Seeds, Passed, Answered
    <3>2. SeesNow(c)'
      BY <1>1, <2>1, Zenon DEF graph, CallOK, SeesNow, Concern
    <3> QED BY <3>1, <3>2 DEF CallOK
  <2> QED BY <1>1, <2>1 DEF graph, IInv, GraphTypeOK, InsertsAreNew
<1>2. ASSUME NEW c \in Calls, GraphQuiet(c) PROVE IInv'
  BY <1>2, UnknownKeeps, SeedBeginKeeps, BeginKeeps, FindEdgeKeeps, InsertEdgeKeeps, ReferKeeps,
     DeleteEdgeKeeps, LockEdgeKeeps, SeedAccountsKeeps, SeedEdgeKeeps, AbortKeeps
     DEF GraphQuiet, Statement
<1>3. ASSUME NEW c \in Calls, GraphCommit(c) PROVE IInv'
  BY <1>3, CommitKeeps
<1> QED BY <1>1, <1>2, <1>3 DEF GraphNext

\* However many follows, unfollows and seeds interleave, the inductive invariant
\* above holds: inserts hold the place of an edge that is not there, and each call
\* has recorded what its statements rely on.
THEOREM Invariant == GraphSpec => []IInv
BY Initially, Step, PTL DEF GraphSpec

\* Whoever holds a row has a statement or its commit still to come, and the state
\* stays within its type, for any users, roster and number of calls.
THEOREM TypeCorrect == GraphSpec => []GraphTypeOK
<1>1. IInv => GraphTypeOK
  BY DEF IInv
<1> QED BY <1>1, Invariant, PTL

\* subscribe_to_handle, unsubscribe_from_handle and bootstrap_seed: every answer was
\* true at some moment of its call.
THEOREM AnswersAlwaysHold == GraphSpec => []AnswersHold
<1>1. IInv => AnswersHold
  BY DEF IInv, CallOK, Answered, AnswersHold
<1> QED BY <1>1, Invariant, PTL

-----------------------------------------------------------------------------
\* Circles of waits.

\* c cannot run its next statement before d's transaction ends.
WaitsFor(c, d) ==
  LET e == does[c].e IN
  /\ c # d
  /\ \/ step[c] \in {"insert", "seed"} /\ writer[e] = d
     \/ step[c] = "lock" /\ edge[e] = does[c].row /\ writer[e] = d
     \/ step[c] = "refer" /\ RefersToMember(e) /\ d \in Seeding
     \/ /\ step[c] = "accounts"
        /\ \/ d \in Seeding
           \/ step[d] = "commit" /\ does[d].op = "follow" /\ RefersToMember(does[d].e)

\* Whenever calls wait for each other in a circle, however large, a follow and a
\* script are in it that wait for each other directly.
EveryCircleHasACycle ==
  \A C \in (SUBSET Calls) \ {{}} :
    (\A c \in C : (\E d \in C : WaitsFor(c, d)) /\ (\E d \in C : WaitsFor(d, c)))
      => \E c, d \in C : Cycle(c, d)

\* A follow and an unfollow touch one edge; one script at a time is past its accounts.
OwnEdges == \A c \in Calls, e \in Edges :
  writer[e] = c /\ does[c].op # "seed" => does[c].e = e
OneScript == \A c, d \in Seeding : c = d

CInv == OwnEdges /\ OneScript

LEMMA CircleHasACycle == IInv /\ CInv => EveryCircleHasACycle
<1> SUFFICES ASSUME IInv, CInv, NEW C \in SUBSET Calls, C # {},
                    \A c \in C : \E d \in C : WaitsFor(c, d),
                    \A c \in C : \E d \in C : WaitsFor(d, c)
             PROVE  \E c, d \in C : Cycle(c, d)
  BY DEF EveryCircleHasACycle
<1>1. GraphTypeOK /\ \A c \in Calls : OwnSteps(c) /\ Held(c)
  BY DEF IInv, CallOK
<1>2. \A c \in C : step[c] \in {"insert", "lock", "seed", "refer", "accounts"}
  BY DEF WaitsFor
<1>3. ASSUME NEW c \in C PROVE step[c] \in {"refer", "seed"}
  <2>1. PICK b \in C : WaitsFor(b, c)
    OBVIOUS
  <2>2. step[b] \in {"insert", "seed", "lock"} => does[b].e \in Edges
    BY <1>1 DEF OwnSteps, Running
  <2>3. c # Nobody
    BY CallsDiffer
  <2>4. step[b] \in {"insert", "seed", "lock"} => step[c] \in {"refer", "seed", "commit"}
    BY <1>1, <2>1, <2>2, <2>3 DEF WaitsFor, GraphTypeOK
  <2> QED BY <1>2, <2>1, <2>4 DEF WaitsFor, Seeding
<1>4. \A c \in C : step[c] = "seed" => c \in Seeding
  BY <1>1 DEF OwnSteps, Seeding
<1>5. ASSUME NEW d \in C, step[d] = "seed"
      PROVE  \E c \in C : Cycle(c, d)
  <2>1. PICK c \in C : WaitsFor(d, c)
    OBVIOUS
  <2>2. c # d /\ writer[does[d].e] = c /\ does[d].e \in Edges
    BY <1>1, <1>5, <2>1 DEF WaitsFor, OwnSteps, Running
  <2>3. step[c] = "refer"
    BY <1>3, <1>4, <1>5, <2>2 DEF CInv, OneScript
  <2>4. does[c].op = "follow"
    BY <1>1, <2>3 DEF OwnSteps
  <2>5. does[c].e = does[d].e
    BY <2>2, <2>4 DEF CInv, OwnEdges
  <2>6. RefersToMember(does[c].e)
    <3>1. PICK b \in C : WaitsFor(c, b)
      OBVIOUS
    <3> QED BY <2>3, <3>1 DEF WaitsFor
  <2> QED BY <1>4, <1>5, <2>3, <2>5, <2>6 DEF Cycle
<1>6. \E d \in C : step[d] = "seed"
  <2>1. PICK c \in C : TRUE
    OBVIOUS
  <2>2. CASE step[c] = "refer"
    <3>1. PICK d \in C : WaitsFor(c, d)
      OBVIOUS
    <3>2. d \in Seeding
      BY <2>2, <3>1 DEF WaitsFor
    <3> QED BY <1>3, <3>2 DEF Seeding
  <2> QED BY <1>3, <2>1, <2>2
<1> QED BY <1>5, <1>6

LEMMA CircleInit == GraphInit => CInv
<1> SUFFICES ASSUME GraphInit PROVE CInv
  OBVIOUS
<1>1. OwnEdges
  BY CallsDiffer DEF GraphInit, OwnEdges
<1>2. OneScript
  BY DEF GraphInit, OneScript, Seeding
<1> QED BY <1>1, <1>2 DEF CInv

\* A step of c that starts no script and takes no edge but its own.
LEMMA CircleKept ==
  ASSUME CInv, NEW c \in Calls,
         \A d \in Calls : d # c => step'[d] = step[d] /\ does'[d] = does[d],
         \A d \in Calls, e \in Edges : d # c /\ writer'[e] = d => writer[e] = d,
         \A e \in Edges : writer'[e] = c /\ does'[c].op # "seed" => does'[c].e = e,
         c \in Seeding' => c \in Seeding \/ Seeding = {}
  PROVE  CInv'
<1>1. OwnEdges'
  BY DEF CInv, OwnEdges
<1>2. \A d \in Calls : d # c /\ d \in Seeding' => d \in Seeding
  BY DEF Seeding
<1>3. OneScript'
  BY <1>2 DEF CInv, OneScript, Seeding
<1> QED BY <1>1, <1>3 DEF CInv

LEMMA CircleStep == IInv /\ CInv /\ [GraphNext]_graph => CInv'
<1> SUFFICES ASSUME IInv, CInv, [GraphNext]_graph PROVE CInv'
  OBVIOUS
<1>1. GraphTypeOK /\ \A c \in Calls : OwnSteps(c)
  BY DEF IInv, CallOK
<1>2. ASSUME NEW c \in Calls, Unknown(c) \/ SeedBegin(c) \/ \E op \in Ops, e \in Edges : GraphBegin(c, op, e)
      PROVE  CInv'
  <2>1. \A e \in Edges : writer[e] # c
    BY <1>1, <1>2, CallsDiffer DEF Unknown, SeedBegin, GraphBegin, GraphTypeOK
  <2>2. step' = [step EXCEPT ![c] = step'[c]] /\ does' = [does EXCEPT ![c] = does'[c]] /\ writer' = writer
    BY <1>1, <1>2 DEF Unknown, SeedBegin, GraphBegin, Answer, Move, GraphTypeOK
  <2>3. step'[c] \notin {"seed", "commit"}
    BY <1>1, <1>2 DEF Unknown, SeedBegin, GraphBegin, Answer, Move, GraphTypeOK
  <2> QED BY <1>1, <2>1, <2>2, <2>3, CircleKept DEF Seeding, GraphTypeOK
<1>3. ASSUME NEW c \in Calls, FindEdge(c) \/ DeleteEdge(c)
      PROVE  CInv'
  <2>1. \A e \in Edges : writer[e] # c
    BY <1>1, <1>3, CallsDiffer DEF FindEdge, DeleteEdge, GraphTypeOK
  <2>2. /\ step' = [step EXCEPT ![c] = step'[c]] /\ does' = [does EXCEPT ![c] = does'[c]]
        /\ writer' = writer
    BY <1>1, <1>3 DEF FindEdge, DeleteEdge, Answer, Move, GraphTypeOK
  <2>3. c \notin Seeding'
    <3>1. CASE FindEdge(c)
      BY <1>1, <3>1 DEF FindEdge, Answer, Move, GraphTypeOK, Seeding
    <3>2. CASE DeleteEdge(c)
      BY <1>1, <3>2 DEF DeleteEdge, Move, GraphTypeOK, Seeding, OwnSteps, Works
    <3> QED BY <1>3, <3>1, <3>2
  <2> QED BY <1>1, <2>1, <2>2, <2>3, CircleKept DEF GraphTypeOK
<1>4. ASSUME NEW c \in Calls, InsertEdge(c) \/ LockEdge(c) \/ Refer(c)
      PROVE  CInv'
  <2>1. step' = [step EXCEPT ![c] = step'[c]]
    BY <1>1, <1>4 DEF InsertEdge, LockEdge, Refer, Answer, Move, GraphTypeOK
  <2>2. does' = [does EXCEPT ![c] = does'[c]]
    BY <1>1, <1>4 DEF InsertEdge, LockEdge, Refer, Answer, GraphTypeOK
  <2>3. c \notin Seeding'
    BY <1>1, <1>4 DEF InsertEdge, LockEdge, Refer, Answer, Move, GraphTypeOK, Seeding, OwnSteps
  <2>4. /\ writer' \in {writer, [writer EXCEPT ![does[c].e] = c]}
        /\ does'[c] = does[c] \/ (does'[c] = Nothing /\ writer' = writer /\ step[c] = "insert")
    BY <1>1, <1>4 DEF InsertEdge, LockEdge, Refer, Answer, GraphTypeOK
  <2>5. \A d \in Calls, e \in Edges : d # c /\ writer'[e] = d => writer[e] = d
    BY <1>1, <2>4 DEF GraphTypeOK
  <2>6. ASSUME NEW e \in Edges, writer'[e] = c, does'[c].op # "seed" PROVE does'[c].e = e
    BY <1>1, <2>4, <2>6, CallsDiffer DEF GraphTypeOK, CInv, OwnEdges
  <2> QED BY <1>1, <2>1, <2>2, <2>3, <2>5, <2>6, CircleKept DEF GraphTypeOK
<1>5. ASSUME NEW c \in Calls, SeedAccounts(c) PROVE CInv'
  <2>1. /\ step' = [step EXCEPT ![c] = "seed"] /\ does' = does /\ writer' = writer /\ Seeding = {}
        /\ \A e \in Edges : writer[e] # c
    BY <1>1, <1>5, CallsDiffer DEF SeedAccounts, Move, GraphTypeOK
  <2> QED BY <1>1, <2>1, CircleKept DEF GraphTypeOK
<1>6. ASSUME NEW c \in Calls, SeedEdge(c) PROVE CInv'
  <2>1. c \in Seeding /\ does[c].op = "seed"
    BY <1>1, <1>6 DEF SeedEdge, OwnSteps, Seeding
  <2>2. step' = [step EXCEPT ![c] = step'[c]]
    BY <1>1, <1>6 DEF SeedEdge, Move, GraphTypeOK
  <2>3. does' = [does EXCEPT ![c] = does'[c]] /\ does'[c].op = "seed"
    BY <1>1, <1>6, <2>1 DEF SeedEdge, GraphTypeOK, Works
  <2>4. writer' \in {writer, [writer EXCEPT ![does[c].e] = c]}
    BY <1>1, <1>6 DEF SeedEdge
  <2> QED BY <1>1, <2>1, <2>2, <2>3, <2>4, CircleKept DEF GraphTypeOK
<1>7. ASSUME NEW c \in Calls, GraphCommit(c) \/ GraphAbort(c) PROVE CInv'
  <2>1. /\ step' = [step EXCEPT ![c] = step'[c]] /\ does' = [does EXCEPT ![c] = Nothing]
        /\ writer' = Released(c) /\ step'[c] \notin {"seed", "commit"}
    BY <1>1, <1>7 DEF GraphCommit, GraphAbort, Answer, Move, Reply, GraphTypeOK
  <2>2. \A e \in Edges : writer'[e] # c
    BY <2>1, CallsDiffer DEF Released
  <2>3. \A d \in Calls, e \in Edges : d # c /\ writer'[e] = d => writer[e] = d
    BY <2>1, CallsDiffer DEF Released
  <2> QED BY <1>1, <2>1, <2>2, <2>3, CircleKept DEF GraphTypeOK, Seeding
<1>8. CASE UNCHANGED graph
  BY <1>8 DEF graph, CInv, OwnEdges, OneScript, Seeding
<1> QED BY <1>2, <1>3, <1>4, <1>5, <1>6, <1>7, <1>8 DEF GraphNext, GraphQuiet, Statement

\* Of all circles that follows, unfollows and seeds can wait in, BreakCycle leaves out
\* none: where the liveness of CallsAnswer rests on PostgreSQL's deadlock detection, a
\* follow against the script is all that it must find.
THEOREM CirclesHaveCycles == GraphSpec => []EveryCircleHasACycle
<1>1. GraphSpec => []CInv
  BY CircleInit, CircleStep, Invariant, PTL DEF GraphSpec
<1> QED BY <1>1, CircleHasACycle, Invariant, PTL
=============================================================================
