------------------------------- MODULE Paging -------------------------------
(***************************************************************************)
(* Lists that a client walks page by page with next_cursor: the feed       *)
(* (collect_feed_pins), the pins of a page (enumerate_surface_pins) and    *)
(* the notifications (inbox_slice).  All three order rows by               *)
(* (created_at, id), newest first, fetch one row more than they show, and  *)
(* make that row, the pivot, the cursor.                                   *)
(*                                                                         *)
(* The cursor names created_at by its POSIX time: a double tells the       *)
(* microseconds of this era apart, so that a key survives the round trip.  *)
(***************************************************************************)
EXTENDS Integers, Sequences, FiniteSets

CONSTANTS
  Rows,
  Times, \* how far the clock goes
  None

ASSUME TimesNat == Times \in Nat
ASSUME RowsFinite == IsFiniteSet(Rows)
ASSUME NoneIsNone == None \notin Rows \cup Nat

VARIABLES
  clock,
  stamp, id, \* created_at, taken by the application, and id, given at the flush
  cursor,    \* None before the first page, <<>> after the last
  shown,     \* what the walk has shown, in order
  pivots     \* history: rows that were the cursor

rows == <<clock, stamp, id>>
walk == <<cursor, shown, pivots>>

Keys == (0..Times) \X (1..Cardinality(Rows))
Key(r) == <<stamp[r], id[r]>>

Below(k, l) == k[1] < l[1] \/ (k[1] = l[1] /\ k[2] < l[2])

RowsTypeOK ==
  /\ clock \in 0..Times
  /\ stamp \in [Rows -> (0..Times) \cup {None}]
  /\ id \in [Rows -> 1..Cardinality(Rows) \cup {None}]
  /\ \A r, q \in Rows : id[r] # None /\ id[r] = id[q] => r = q
  /\ cursor \in {None, <<>>} \cup Keys
  /\ shown \in Seq(Rows)
  /\ pivots \subseteq Rows

\* The rows of S were created before.
RowsInit(S) ==
  /\ clock = 0
  /\ stamp = [r \in Rows |-> IF r \in S THEN 0 ELSE None]
  /\ id \in [Rows -> 1..Cardinality(S) \cup {None}]
  /\ \A r, q \in S : id[r] = id[q] => r = q
  /\ \A r \in Rows : id[r] # None <=> r \in S
  /\ cursor = None /\ shown = <<>> /\ pivots = {}

-----------------------------------------------------------------------------
\* Time goes on between two calls of utcnow.
Advance == clock < Times /\ clock' = clock + 1 /\ UNCHANGED <<stamp, id>>

\* The object is built, with created_at = utcnow().
Stamp(r) == stamp' = [stamp EXCEPT ![r] = clock] /\ UNCHANGED <<clock, id>>

\* Mutant of Number: the last id is given again.
NumberTaken(r) ==
  /\ id' = [id EXCEPT ![r] = Cardinality({q \in Rows : id[q] # None})]
  /\ UNCHANGED <<clock, stamp>>

\* It is flushed: the sequence gives it the next id.
Number(r) ==
  /\ id' = [id EXCEPT ![r] = 1 + Cardinality({q \in Rows : id[q] # None})]
  /\ UNCHANGED <<clock, stamp>>

\* Mutant of Matching: rows of the cursor's created_at are shown again.
MatchingTies(S, from) == {r \in S : from = None \/ stamp[r] <= from[1]}

\* WHERE (created_at, id) < cursor
Matching(S, from) == {r \in S : from = None \/ Below(Key(r), from)}

Rank(S, r) == 1 + Cardinality({q \in S : Below(Key(r), Key(q))})

\* ORDER BY created_at DESC, id DESC LIMIT n
Newest(S, n) == {r \in S : Rank(S, r) <= n}

Descending(S) ==
  [i \in 1..Cardinality(S) |-> CHOOSE r \in S : Rank(S, r) = i]

\* Mutant of Slice: the cursor is the pivot's, and the pivot is shown too.
SliceWithPivot(S, from, limit) ==
  LET matching == Matching(S, from)
      more == Cardinality(matching) > limit
      pivot == CHOOSE r \in matching : Rank(matching, r) = limit + 1 IN
  [rows  |-> Descending(Newest(matching, limit + 1)),
   next  |-> IF more THEN Key(pivot) ELSE <<>>,
   pivot |-> IF more THEN {pivot} ELSE {}]

\* One page of the rows of S: those below the cursor that the client sent, and
\* the next cursor if there are more.
Slice(S, from, limit) ==
  LET matching == Matching(S, from)
      more == Cardinality(matching) > limit
      pivot == CHOOSE r \in matching : Rank(matching, r) = limit + 1 IN
  [rows  |-> Descending(Newest(matching, limit)),
   next  |-> IF more THEN Key(pivot) ELSE <<>>,
   pivot |-> IF more THEN {pivot} ELSE {}]

\* A walk starts with a first page, and goes on with another.
Restart(page) ==
  /\ shown' = page.rows /\ cursor' = page.next /\ pivots' = page.pivot

Continue(page) ==
  /\ shown' = shown \o page.rows
  /\ cursor' = page.next
  /\ pivots' = pivots \cup page.pivot

-----------------------------------------------------------------------------
\* A walk never shows a row twice nor goes back in time, whatever is inserted,
\* committed late or deleted between two of its pages, and whether its first page
\* was sent or was the client's own copy, confirmed by a 304.
WalkDescends ==
  \A i, j \in DOMAIN shown : i < j => Below(Key(shown[j]), Key(shown[i]))
=============================================================================
