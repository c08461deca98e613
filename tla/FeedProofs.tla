------------------------------ MODULE FeedProofs ------------------------------
(***************************************************************************)
(* Proofs about Feed and the Paging it is built on, for any users, pins,   *)
(* pages of the web, sizes of a page and calls of the social graph.        *)
(*                                                                         *)
(* A page shows the rows of a set from the highest key down; what it does  *)
(* not show is its pivot or lies below the pivot.  So whatever happens     *)
(* between two pages, they do not overlap, and leave out the pivots only.  *)
(* And a copy, however many commits fell between its reads, is right about *)
(* the comments of a pin for as long as the revision it has is the page's. *)
(***************************************************************************)
EXTENDS Feed, SocialGraphProofs, SequenceTheorems, FiniteSetTheorems

In(x, seq) == \E i \in DOMAIN seq : seq[i] = x

Numbered == {r \in Rows : id[r] # None}

\* Rows that have an id have a key, and no two the same.
KeysOK ==
  /\ \A r \in Numbered : stamp[r] \in 0..Times /\ id[r] \in 1..Cardinality(Rows)
  /\ \A r, q \in Numbered : id[r] = id[q] => r = q

-----------------------------------------------------------------------------
\* The order of the keys is total.
LEMMA KeyTyped ==
  ASSUME KeysOK, NEW r \in Numbered
  PROVE  Key(r) \in Keys /\ Key(r)[1] = stamp[r] /\ Key(r)[2] = id[r]
BY DEF KeysOK, Keys, Key

LEMMA CardRows == Cardinality(Rows) \in Nat
BY RowsFinite, FS_CardinalityType

LEMMA KeyParts ==
  ASSUME NEW k \in Keys
  PROVE  k[1] \in Int /\ k[2] \in Int /\ k # <<>>
<1>1. PICK t \in 0..Times, n \in 1..Cardinality(Rows) : k = <<t, n>>
  BY DEF Keys
<1>2. t \in Int /\ n \in Int
  BY TimesNat, CardRows
<1>3. k[1] \in Int /\ k[2] \in Int
  BY <1>1, <1>2
<1>4. k # <<>>
  BY <1>1
<1> QED BY <1>3, <1>4

LEMMA BelowIsOrder ==
  ASSUME NEW k \in Keys, NEW l \in Keys, NEW m \in Keys
  PROVE  ~Below(k, k) /\ (Below(k, l) /\ Below(l, m) => Below(k, m)) /\ ~(Below(k, l) /\ Below(l, k))
BY KeyParts DEF Below

LEMMA KeysCompare ==
  ASSUME KeysOK, NEW r \in Numbered, NEW q \in Numbered, r # q
  PROVE  Below(Key(r), Key(q)) \/ Below(Key(q), Key(r))
<1>1. id[r] # id[q]
  BY DEF KeysOK
<1>2. Key(r)[1] \in Int /\ Key(r)[2] \in Int /\ Key(q)[1] \in Int /\ Key(q)[2] \in Int
  BY KeyTyped, KeyParts
<1>3. Key(r)[2] # Key(q)[2]
  BY <1>1, KeyTyped
<1> QED BY <1>2, <1>3 DEF Below

-----------------------------------------------------------------------------
\* The rank of a row among those of a finite set.
Above(S, r) == {q \in S : Below(Key(r), Key(q))}

LEMMA FiniteRows ==
  ASSUME NEW S \in SUBSET Rows
  PROVE  IsFiniteSet(S) /\ Cardinality(S) \in Nat
BY RowsFinite, FS_Subset, FS_CardinalityType

LEMMA RankAbove ==
  ASSUME NEW S \in SUBSET Numbered, NEW r \in S
  PROVE  Rank(S, r) = 1 + Cardinality(Above(S, r)) /\ Cardinality(Above(S, r)) \in Nat
<1>1. Above(S, r) \in SUBSET Rows
  BY DEF Above, Numbered
<1>2. Cardinality(Above(S, r)) \in Nat
  BY <1>1, FiniteRows
<1> QED BY <1>2 DEF Rank, Above

LEMMA RankRange ==
  ASSUME KeysOK, NEW S \in SUBSET Numbered, NEW r \in S
  PROVE  Rank(S, r) \in 1..Cardinality(S)
<1>1. Above(S, r) \subseteq S \ {r}
  BY KeyTyped, BelowIsOrder DEF Above
<1>2. IsFiniteSet(S) /\ Cardinality(S) \in Nat
  BY FiniteRows DEF Numbered
<1>3. IsFiniteSet(S \ {r}) /\ Cardinality(S \ {r}) = Cardinality(S) - 1
  BY <1>2, FS_RemoveElement
<1>4. Cardinality(Above(S, r)) <= Cardinality(S) - 1
  BY <1>1, <1>3, FS_Subset
<1> QED BY <1>2, <1>4, RankAbove

\* Who is lower has a higher rank, and conversely.
LEMMA RankDescends ==
  ASSUME KeysOK, NEW S \in SUBSET Numbered, NEW r \in S, NEW q \in S, Below(Key(q), Key(r))
  PROVE  Rank(S, r) < Rank(S, q)
<1>1. Above(S, r) \subseteq Above(S, q)
  BY KeyTyped, BelowIsOrder DEF Above
<1>2. r \in Above(S, q) /\ r \notin Above(S, r)
  BY KeyTyped, BelowIsOrder DEF Above
<1>3. IsFiniteSet(Above(S, q))
  BY FiniteRows DEF Above, Numbered
<1>4. Cardinality(Above(S, r)) < Cardinality(Above(S, q))
  BY <1>1, <1>2, <1>3, FS_Subset, FS_CardinalityType
<1> QED BY <1>4, RankAbove

LEMMA RankOrders ==
  ASSUME KeysOK, NEW S \in SUBSET Numbered, NEW r \in S, NEW q \in S
  PROVE  /\ Rank(S, r) < Rank(S, q) <=> Below(Key(q), Key(r))
         /\ Rank(S, r) = Rank(S, q) => r = q
<1>1. Rank(S, r) \in Nat /\ Rank(S, q) \in Nat
  BY RankAbove
<1>2. CASE r = q
  BY <1>1, <1>2, KeyTyped, BelowIsOrder
<1>3. CASE r # q
  <2>1. Below(Key(r), Key(q)) \/ Below(Key(q), Key(r))
    BY <1>3, KeysCompare
  <2>2. ~(Below(Key(r), Key(q)) /\ Below(Key(q), Key(r)))
    BY KeyTyped, BelowIsOrder
  <2>3. Below(Key(q), Key(r)) => Rank(S, r) < Rank(S, q)
    BY RankDescends
  <2>4. Below(Key(r), Key(q)) => Rank(S, q) < Rank(S, r)
    BY RankDescends
  <2> QED BY <1>1, <2>1, <2>2, <2>3, <2>4
<1> QED BY <1>2, <1>3

\* Every rank is taken.
LEMMA RankTaken ==
  ASSUME KeysOK, NEW S \in SUBSET Numbered, NEW n \in 1..Cardinality(S)
  PROVE  \E r \in S : Rank(S, r) = n
<1> DEFINE N == 1..Cardinality(S)
           f == [r \in S |-> Rank(S, r)]
<1>1. IsFiniteSet(S) /\ Cardinality(S) \in Nat
  BY FiniteRows DEF Numbered
<1>2. IsFiniteSet(N) /\ Cardinality(N) = Cardinality(S)
  BY <1>1, FS_Interval
<1>3. f \in [S -> N]
  BY RankRange
<1>4. \A r, q \in S : f[r] = f[q] => r = q
  BY RankOrders
<1>5. f \in Injection(S, N)
  BY <1>3, <1>4 DEF Injection, IsInjective
<1>6. f \in Surjection(S, N)
  BY <1>2, <1>5, FS_Injection
<1>7. \E r \in S : f[r] = n
  BY <1>6 DEF Surjection
<1> QED BY <1>7

-----------------------------------------------------------------------------
\* f lists S by rank.
Ranked(f, S) ==
  f \in [1..Cardinality(S) -> S] /\ \A i \in 1..Cardinality(S) : Rank(S, f[i]) = i

Descends(seq) == \A i, j \in DOMAIN seq : i < j => Below(Key(seq[j]), Key(seq[i]))

LEMMA DescendingRanks ==
  ASSUME KeysOK, NEW S \in SUBSET Numbered
  PROVE  Ranked(Descending(S), S)
<1>1. ASSUME NEW i \in 1..Cardinality(S)
      PROVE  (CHOOSE r \in S : Rank(S, r) = i) \in S
             /\ Rank(S, CHOOSE r \in S : Rank(S, r) = i) = i
  <2>1. \E r \in S : Rank(S, r) = i
    BY RankTaken
  <2> QED BY <2>1
<1> QED BY <1>1 DEF Descending, Ranked

LEMMA RankedOnce ==
  ASSUME KeysOK, NEW S \in SUBSET Numbered, NEW f, NEW g, Ranked(f, S), Ranked(g, S)
  PROVE  f = g
<1>1. \A i \in 1..Cardinality(S) : f[i] = g[i]
  BY RankOrders DEF Ranked
<1>2. f = [i \in 1..Cardinality(S) |-> f[i]] /\ g = [i \in 1..Cardinality(S) |-> g[i]]
  BY DEF Ranked
<1> QED BY <1>1, <1>2

LEMMA RankedLists ==
  ASSUME KeysOK, NEW S \in SUBSET Numbered, NEW f, Ranked(f, S)
  PROVE  f \in Seq(S) /\ Len(f) = Cardinality(S) /\ Descends(f) /\ \A r \in S : In(r, f)
<1>1. Cardinality(S) \in Nat
  BY FiniteRows DEF Numbered
<1>2. f \in Seq(S) /\ Len(f) = Cardinality(S) /\ DOMAIN f = 1..Cardinality(S)
  BY <1>1 DEF Ranked
<1>3. Descends(f)
  <2> SUFFICES ASSUME NEW i \in 1..Cardinality(S), NEW j \in 1..Cardinality(S), i < j
               PROVE  Below(Key(f[j]), Key(f[i]))
    BY <1>2 DEF Descends
  <2>1. f[i] \in S /\ f[j] \in S /\ Rank(S, f[i]) < Rank(S, f[j])
    BY DEF Ranked
  <2> QED BY <2>1, RankOrders
<1>4. ASSUME NEW r \in S PROVE In(r, f)
  <2>1. Rank(S, r) \in 1..Cardinality(S)
    BY RankRange
  <2>2. f[Rank(S, r)] \in S /\ Rank(S, f[Rank(S, r)]) = Rank(S, r)
    BY <2>1 DEF Ranked
  <2>3. f[Rank(S, r)] = r
    BY <2>2, RankOrders
  <2> QED BY <1>2, <2>1, <2>3 DEF In
<1> QED BY <1>2, <1>3, <1>4

-----------------------------------------------------------------------------
\* Rows that were shown, the next cursor, and rows that were cursors: descending,
\* apart, and with nothing shown that is not above the next cursor.
WellMade(seq, next, out) ==
  /\ seq \in Seq(Numbered) /\ Descends(seq)
  /\ out \subseteq Numbered /\ \A r \in out : ~In(r, seq)
  /\ next \in Keys => /\ \A i \in DOMAIN seq : Below(next, Key(seq[i]))
                      /\ \A r \in out : ~Below(Key(r), next)

\* All of it lies below the cursor it was asked with.
Under(seq, next, out, from) ==
  /\ \A i \in DOMAIN seq : Below(Key(seq[i]), from)
  /\ \A r \in out : Below(Key(r), from)
  /\ next \in Keys => Below(next, from)

\* r is shown, left out or still to come.
Covers(seq, next, out, r) ==
  In(r, seq) \/ r \in out \/ (next \in Keys /\ Below(Key(r), next))

\* What a request from the cursor would show sooner or later.
Asks(from, r) == from = None \/ Below(Key(r), from)

LEMMA SliceMakes ==
  ASSUME KeysOK, NEW S \in SUBSET Numbered, NEW from \in Keys \cup {None}
  PROVE  LET p == Slice(S, from, Limit) IN
         /\ WellMade(p.rows, p.next, p.pivot) /\ p.next \in Keys \cup {<<>>}
         /\ from # None => Under(p.rows, p.next, p.pivot, from)
         /\ \A r \in S : Asks(from, r) => Covers(p.rows, p.next, p.pivot, r)
<1> DEFINE M == Matching(S, from)
           T == Newest(M, Limit)
           more == Cardinality(M) > Limit
           pivot == CHOOSE r \in M : Rank(M, r) = Limit + 1
           p == Slice(S, from, Limit)
<1>1. p = [rows |-> Descending(T), next |-> IF more THEN Key(pivot) ELSE <<>>,
           pivot |-> IF more THEN {pivot} ELSE {}]
  BY DEF Slice
<1>2. M \in SUBSET Numbered /\ M \subseteq S
  BY DEF Matching
<1>3. T \in SUBSET Numbered /\ T \subseteq M
  BY <1>2 DEF Newest
<1>4. Limit \in Nat \ {0} /\ Cardinality(M) \in Nat
  BY LimitPositive, <1>2, FiniteRows DEF Numbered
<1>5. more => pivot \in M /\ Rank(M, pivot) = Limit + 1
  <2>1. more => Limit + 1 \in 1..Cardinality(M)
    BY <1>4
  <2> HIDE DEF M
  <2>2. more => \E r \in M : Rank(M, r) = Limit + 1
    BY <1>2, <2>1, RankTaken
  <2> QED BY <2>2
<1>6. \A r \in T : Rank(M, r) <= Limit
  BY DEF Newest
<1>7. \A r \in M : Rank(M, r) \in Nat /\ Rank(M, r) <= Cardinality(M)
  BY <1>2, <1>4, RankRange
<1>8. \A r \in M : Rank(M, r) <= Limit => r \in T
  BY DEF Newest
<1>9. Descending(T) \in Seq(T) /\ Descends(Descending(T)) /\ \A r \in T : In(r, Descending(T))
  BY <1>3, DescendingRanks, RankedLists
<1>10. \A i \in DOMAIN Descending(T) : Descending(T)[i] \in T
  BY <1>9
<1>11. from # None => \A r \in M : Below(Key(r), from)
  BY DEF Matching
<1>12. \A r \in S : Asks(from, r) => r \in M
  BY DEF Matching, Asks
<1> HIDE DEF M, T, pivot, more
<1>13. CASE more
  <2>1. pivot \in M /\ pivot \in Numbered /\ Key(pivot) \in Keys /\ Rank(M, pivot) = Limit + 1
    BY <1>2, <1>5, <1>13, KeyTyped
  <2>2. \A r \in T : Below(Key(pivot), Key(r))
    BY <1>2, <1>3, <1>4, <1>6, <1>7, <2>1, RankOrders
  <2>3. pivot \notin T
    BY <1>4, <1>6, <2>1
  <2>4. ~Below(Key(pivot), Key(pivot))
    BY <2>1, BelowIsOrder
  <2>5. WellMade(p.rows, p.next, p.pivot)
    BY <1>1, <1>3, <1>9, <1>10, <1>13, <2>1, <2>2, <2>3, <2>4, SeqMonotonic DEF WellMade, In
  <2>6. from # None => Under(p.rows, p.next, p.pivot, from)
    BY <1>1, <1>3, <1>10, <1>11, <1>13, <2>1 DEF Under
  <2>7. ASSUME NEW r \in M PROVE Covers(p.rows, p.next, p.pivot, r)
    <3>1. CASE Rank(M, r) <= Limit
      BY <1>1, <1>8, <1>9, <3>1 DEF Covers
    <3>2. CASE Rank(M, r) = Limit + 1
      BY <1>1, <1>2, <1>13, <2>1, <3>2, RankOrders DEF Covers
    <3>3. CASE Rank(M, r) > Limit + 1
      <4>1. Below(Key(r), Key(pivot))
        BY <1>2, <2>1, <3>3, RankOrders
      <4> QED BY <1>1, <1>13, <2>1, <4>1 DEF Covers
    <3> QED BY <1>4, <1>7, <3>1, <3>2, <3>3
  <2>8. p.next \in Keys \cup {<<>>}
    BY <1>1, <1>13, <2>1
  <2>9. \A r \in S : Asks(from, r) => Covers(p.rows, p.next, p.pivot, r)
    BY <1>12, <2>7
  <2> QED BY <2>5, <2>6, <2>8, <2>9
<1>14. CASE ~more
  <2>1. \A r \in M : r \in T
    BY <1>4, <1>7, <1>8, <1>14 DEF more
  <2>2. <<>> \notin Keys
    BY KeyParts
  <2>3. WellMade(p.rows, p.next, p.pivot)
    BY <1>1, <1>3, <1>9, <1>14, <2>2, SeqMonotonic DEF WellMade
  <2>4. from # None => Under(p.rows, p.next, p.pivot, from)
    BY <1>1, <1>3, <1>10, <1>11, <1>14, <2>2 DEF Under
  <2> QED BY <1>1, <1>9, <1>12, <1>14, <2>1, <2>3, <2>4 DEF Covers
<1> QED BY <1>13, <1>14

\* A page that lies below the cursor goes on with what was shown.
LEMMA PagesJoin ==
  ASSUME KeysOK,
         NEW seq, NEW next \in Keys, NEW out, WellMade(seq, next, out),
         NEW seq2, NEW next2, NEW out2, WellMade(seq2, next2, out2),
         Under(seq2, next2, out2, next)
  PROVE  /\ WellMade(seq \o seq2, next2, out \cup out2)
         /\ \A r : Covers(seq, next, out, r) /\ (Below(Key(r), next) => Covers(seq2, next2, out2, r))
              => Covers(seq \o seq2, next2, out \cup out2, r)
<1> DEFINE all == seq \o seq2
           m == Len(seq)
           n == Len(seq2)
<1>1. /\ seq \in Seq(Numbered) /\ seq2 \in Seq(Numbered) /\ m \in Nat /\ n \in Nat
      /\ DOMAIN seq = 1..m /\ DOMAIN seq2 = 1..n
      /\ \A i \in 1..m : seq[i] \in Numbered
      /\ \A i \in 1..n : seq2[i] \in Numbered
  BY DEF WellMade
<1>2. all \in Seq(Numbered) /\ Len(all) = m + n /\ DOMAIN all = 1..(m + n)
  BY <1>1
<1>3. /\ \A i \in 1..m : all[i] = seq[i] /\ i \in DOMAIN all
      /\ \A i \in 1..n : all[m + i] = seq2[i] /\ m + i \in DOMAIN all
      /\ \A i \in DOMAIN all : i \in 1..m \/ (i - m \in 1..n /\ i = m + (i - m))
  BY <1>1, <1>2
<1> HIDE DEF all, m, n
<1>4. \A r : In(r, all) <=> In(r, seq) \/ In(r, seq2)
  <2>1. ASSUME NEW r, In(r, all) PROVE In(r, seq) \/ In(r, seq2)
    <3>1. PICK i \in DOMAIN all : all[i] = r
      BY <2>1 DEF In
    <3>2. CASE i \in 1..m
      BY <1>1, <1>3, <3>1, <3>2 DEF In
    <3>3. CASE i - m \in 1..n /\ i = m + (i - m)
      <4>1. seq2[i - m] = r
        BY <1>3, <3>1, <3>3
      <4> QED BY <1>1, <3>3, <4>1 DEF In
    <3> QED BY <1>3, <3>2, <3>3
  <2>2. ASSUME NEW r, In(r, seq) PROVE In(r, all)
    BY <1>1, <1>3, <2>2 DEF In
  <2>3. ASSUME NEW r, In(r, seq2) PROVE In(r, all)
    BY <1>1, <1>3, <2>3 DEF In
  <2> QED BY <2>1, <2>2, <2>3
<1>5. \A i \in 1..m : Below(next, Key(seq[i])) /\ Key(seq[i]) \in Keys
  BY <1>1, KeyTyped DEF WellMade
<1>6. \A i \in 1..n : Below(Key(seq2[i]), next) /\ Key(seq2[i]) \in Keys
  BY <1>1, KeyTyped DEF Under
<1>7. \A i \in 1..m, j \in 1..n : Below(Key(seq2[j]), Key(seq[i]))
  BY <1>5, <1>6, BelowIsOrder
<1>8. Descends(all)
  <2> SUFFICES ASSUME NEW i \in DOMAIN all, NEW j \in DOMAIN all, i < j
               PROVE  Below(Key(all[j]), Key(all[i]))
    BY DEF Descends
  <2>0. i \in 1..(m + n) /\ j \in 1..(m + n)
    BY <1>2
  <2>1. CASE i \in 1..m /\ j \in 1..m
    <3>1. Below(Key(seq[j]), Key(seq[i]))
      BY <1>1, <2>1 DEF WellMade, Descends
    <3> QED BY <1>3, <2>1, <3>1
  <2>2. CASE i \in 1..m /\ j \notin 1..m
    <3>1. j - m \in 1..n /\ all[j] = seq2[j - m]
      BY <1>3, <2>2
    <3> QED BY <1>3, <1>7, <2>2, <3>1
  <2>3. CASE i \notin 1..m
    <3>1. i - m \in 1..n /\ all[i] = seq2[i - m]
      BY <1>3, <2>3
    <3>2. j \notin 1..m
      BY <1>1, <2>0, <2>3
    <3>3. j - m \in 1..n /\ all[j] = seq2[j - m]
      BY <1>3, <3>2
    <3>4. i - m < j - m
      BY <1>1, <2>0
    <3>5. Below(Key(seq2[j - m]), Key(seq2[i - m]))
      BY <1>1, <3>1, <3>3, <3>4 DEF WellMade, Descends
    <3> QED BY <3>1, <3>3, <3>5
  <2> QED BY <2>1, <2>2, <2>3
<1>9. \A r \in out \cup out2 : r \in Numbered /\ Key(r) \in Keys
  BY KeyTyped DEF WellMade
<1>10. ASSUME NEW r \in out \cup out2 PROVE ~In(r, all)
  <2>1. CASE r \in out
    <3>1. ~In(r, seq) /\ ~Below(Key(r), next)
      BY <2>1 DEF WellMade
    <3> QED BY <1>1, <1>4, <1>6, <3>1 DEF In
  <2>2. CASE r \in out2
    <3>1. ~In(r, seq2) /\ Below(Key(r), next)
      BY <2>2 DEF WellMade, Under
    <3>2. \A i \in 1..m : seq[i] # r
      BY <1>5, <1>9, <3>1, BelowIsOrder
    <3> QED BY <1>1, <1>4, <3>1, <3>2 DEF In
  <2> QED BY <2>1, <2>2
<1>11. ASSUME next2 \in Keys
       PROVE  /\ \A i \in DOMAIN all : Below(next2, Key(all[i]))
              /\ \A r \in out \cup out2 : ~Below(Key(r), next2)
  <2>1. Below(next2, next)
    BY <1>11 DEF Under
  <2>2. \A i \in 1..m : Below(next2, Key(seq[i]))
    BY <1>5, <1>11, <2>1, BelowIsOrder
  <2>3. \A i \in 1..n : Below(next2, Key(seq2[i]))
    BY <1>1, <1>11 DEF WellMade
  <2>4. \A i \in DOMAIN all : Below(next2, Key(all[i]))
    BY <1>3, <2>2, <2>3
  <2>5. \A r \in out2 : ~Below(Key(r), next2)
    BY <1>11 DEF WellMade
  <2>6. \A r \in out : ~Below(Key(r), next2)
    <3>1. \A r \in out : ~Below(Key(r), next)
      BY DEF WellMade
    <3> QED BY <1>9, <1>11, <2>1, <3>1, BelowIsOrder
  <2> QED BY <2>4, <2>5, <2>6
<1>12. WellMade(all, next2, out \cup out2)
  BY <1>2, <1>8, <1>9, <1>10, <1>11 DEF WellMade
<1>13. \A r : Covers(seq, next, out, r) /\ (Below(Key(r), next) => Covers(seq2, next2, out2, r))
              => Covers(all, next2, out \cup out2, r)
  BY <1>4 DEF Covers
<1> QED BY <1>12, <1>13 DEF all

-----------------------------------------------------------------------------
\* A row is stamped when it is made and numbered when it is listed, and the
\* sequence has given as many ids as there are.
RowsKept ==
  /\ \A r \in Rows : status[r] \in {"new", "made"} => id[r] = None
  /\ \A r \in Rows : status[r] \in {"made", "listed"} => stamp[r] # None
  /\ \A r \in Rows : status[r] = "listed" => id[r] # None
  /\ \A r \in Numbered : stamp[r] # None /\ id[r] <= Cardinality(Numbered)

\* The walk is in order, and has shown or will come to what was listed ever since.
WalkKept ==
  /\ WellMade(shown, cursor, pivots)
  /\ \A r \in stayed : Covers(shown, cursor, pivots, r)

\* A page of the feed.
PageKept(p) == WellMade(p.rows, p.next, p.pivot) /\ p.next \in Keys \cup {<<>>}

\* The comments that were read with the revision v of the pin r, if v is still the
\* revision of its page.
Right(r, v, comments) ==
  v <= rev[Source[r]] /\ (v = rev[Source[r]] => comments = Thread(r))

CopyKept(copy) ==
  /\ PageKept(copy.page)
  /\ \A r \in stayed : Covers(copy.page.rows, copy.page.next, copy.page.pivot, r)
  /\ copy.items \in [DOMAIN copy.page.rows -> [row : Rows, rev : Nat, comments : BOOLEAN]]
  /\ \A i \in DOMAIN copy.items :
       Right(copy.items[i].row, copy.items[i].rev, copy.items[i].comments)

\* What the request was asked, and what its page is for.
ReaderKept ==
  /\ DOMAIN reader = DOMAIN Idle
  /\ PageKept(reader.page)
  /\ reader.from \in Keys \cup {None}
  /\ reader.at # "idle" =>
       IF reader.first THEN reader.from = None
       ELSE reader.from = cursor /\ reader.from \in Keys /\ reader.from # None
  /\ reader.at = "threads" => reader.first
  /\ reader.from # None =>
       Under(reader.page.rows, reader.page.next, reader.page.pivot, reader.from)
  /\ reader.at = "page" => \A r \in stayed : Author[r] \in reader.actors
  /\ reader.at \in {"threads", "answer"} =>
       \A r \in still \cup stayed : Asks(reader.from, r) =>
         Covers(reader.page.rows, reader.page.next, reader.page.pivot, r)
  /\ reader.offered # None => reader.offered = cache

\* How far the body is, and that what it has of the comments is right.
BodyKept ==
  /\ reader.at = "page" => reader.threads = <<>>
  /\ reader.at \in {"threads", "answer"} =>
       /\ reader.revs \in [DOMAIN reader.page.rows -> Nat]
       /\ reader.threads \in Seq(BOOLEAN) /\ Len(reader.threads) <= Len(reader.page.rows)
       /\ \A i \in DOMAIN reader.page.rows :
            reader.revs[i] <= rev[Source[reader.page.rows[i]]]
       /\ \A i \in DOMAIN reader.threads :
            Right(reader.page.rows[i], reader.revs[i], reader.threads[i])
  /\ reader.at = "threads" => Len(reader.threads) < Len(reader.page.rows)
  /\ reader.at = "answer" /\ reader.first => Len(reader.threads) = Len(reader.page.rows)

\* Without a commit in between the page is the one that would be read now.
QuietKept ==
  quiet /\ reader.first =>
    /\ reader.at = "page" => reader.actors = Followed
    /\ reader.at \in {"threads", "answer"} =>
         /\ Ranked(reader.page.rows, Newest(Listed, Limit))
         /\ \A i \in DOMAIN reader.page.rows :
              reader.revs[i] = rev[Source[reader.page.rows[i]]]

ClientKept == WalkKept /\ ReaderKept /\ BodyKept /\ (cache # None => CopyKept(cache))

FeedInv == IInv /\ TypeOK /\ RowsKept /\ KeysOK /\ ClientKept /\ QuietKept

-----------------------------------------------------------------------------
\* Rows keep their keys.
KeysStay == Numbered \subseteq Numbered' /\ \A r \in Numbered : Key(r)' = Key(r)

LEMMA WellMadeStays ==
  ASSUME KeysStay, NEW seq, NEW next, NEW out, WellMade(seq, next, out)
  PROVE  WellMade(seq, next, out)'
<1>1. seq \in Seq(Numbered) /\ seq \in Seq(Numbered')
  BY SeqMonotonic DEF WellMade, KeysStay
<1>2. \A i \in DOMAIN seq : seq[i] \in Numbered /\ Key(seq[i])' = Key(seq[i])
  BY <1>1 DEF KeysStay
<1>3. out \subseteq Numbered' /\ \A r \in out : Key(r)' = Key(r)
  BY DEF WellMade, KeysStay
<1>4. Descends(seq)'
  BY <1>2 DEF WellMade, Descends
<1>5. \A r : In(r, seq)' <=> In(r, seq)
  BY DEF In
<1>6. Keys' = Keys
  BY DEF Keys
<1> HIDE DEF Keys
<1> QED BY <1>1, <1>2, <1>3, <1>4, <1>5, <1>6 DEF WellMade, Below

LEMMA CoversStays ==
  ASSUME KeysStay, NEW seq, NEW next, NEW out, NEW r \in Numbered, Covers(seq, next, out, r)
  PROVE  Covers(seq, next, out, r)'
BY DEF KeysStay, Covers, In, Below, Keys

LEMMA UnderStays ==
  ASSUME KeysStay, NEW seq \in Seq(Numbered), NEW next, NEW out \in SUBSET Numbered, NEW from,
         Under(seq, next, out, from)
  PROVE  Under(seq, next, out, from)'
BY DEF KeysStay, Under, Below, Keys

\* Ranks among rows that keep their keys.
LEMMA RanksStay ==
  ASSUME KeysStay, NEW S \in SUBSET Numbered
  PROVE  /\ \A r \in S : Rank(S, r)' = Rank(S, r)
         /\ \A n : Newest(S, n)' = Newest(S, n)
         /\ \A f : Ranked(f, S) => Ranked(f, S)'
<1>1. ASSUME NEW r \in S PROVE Rank(S, r)' = Rank(S, r)
  <2>1. {q \in S : Below(Key(r), Key(q))}' = {q \in S : Below(Key(r), Key(q))}
    BY DEF KeysStay, Below
  <2> QED BY <2>1 DEF Rank
<1>2. \A n : Newest(S, n)' = Newest(S, n)
  BY <1>1 DEF Newest
<1>3. ASSUME NEW f, Ranked(f, S) PROVE Ranked(f, S)'
  BY <1>1, <1>3 DEF Ranked
<1> QED BY <1>1, <1>2, <1>3

-----------------------------------------------------------------------------
LEMMA ListedRows ==
  ASSUME RowsKept
  PROVE  Listed \in SUBSET Numbered
BY DEF RowsKept, Listed, Numbered

LEMMA SourcesTyped ==
  ASSUME NEW r \in Rows, TypeOK
  PROVE  Source[r] \in Sources /\ rev[Source[r]] \in Nat /\ Thread(r) \in BOOLEAN
BY DEF Sources, TypeOK, Thread

\* What a step may do to the rows and pages of the web.
WebStep ==
  /\ KeysStay
  /\ \A g \in Sources : rev'[g] >= rev[g]
  /\ \A r \in Rows : Thread(r)' # Thread(r) => rev'[Source[r]] > rev[Source[r]]

\* What others do between two steps of the viewer's client.
WorldStep ==
  /\ WebStep
  /\ UNCHANGED <<walk, client>>
  /\ still' \subseteq still /\ stayed' \subseteq stayed
  /\ quiet' => quiet /\ Listed' = Listed /\ Followed' = Followed /\ rev' = rev

LEMMA PageStays ==
  ASSUME KeysStay, NEW p, PageKept(p)
  PROVE  PageKept(p)'
<1>1. WellMade(p.rows, p.next, p.pivot)'
  BY WellMadeStays DEF PageKept
<1> QED BY <1>1 DEF PageKept, Keys

LEMMA RightStays ==
  ASSUME WebStep, TypeOK, rev' \in [Sources -> Nat], NEW r \in Rows, NEW v \in Nat,
         NEW comments, Right(r, v, comments)
  PROVE  Right(r, v, comments)'
<1>1. /\ rev[Source[r]] \in Nat /\ rev'[Source[r]] \in Nat /\ rev'[Source[r]] >= rev[Source[r]]
      /\ Thread(r)' # Thread(r) => rev'[Source[r]] > rev[Source[r]]
  BY SourcesTyped DEF WebStep
<1> QED BY <1>1 DEF Right

LEMMA Remembered ==
  ASSUME TypeOK, RowsKept
  PROVE  stayed \subseteq Numbered /\ still \subseteq Numbered
BY ListedRows DEF TypeOK

LEMMA WalkStays ==
  ASSUME FeedInv, KeysStay, UNCHANGED walk, stayed' \subseteq stayed
  PROVE  WalkKept'
<1>0. WalkKept /\ stayed \subseteq Numbered /\ shown' = shown /\ cursor' = cursor /\ pivots' = pivots
  BY Remembered DEF FeedInv, ClientKept, walk
<1>1. PICK seq, next, out : seq = shown /\ next = cursor /\ out = pivots
  OBVIOUS
<1>2. WellMade(seq, next, out)'
  BY <1>0, <1>1, WellMadeStays DEF WalkKept
<1>3. \A r \in stayed : Covers(seq, next, out, r)'
  BY <1>0, <1>1, CoversStays DEF WalkKept
<1> QED BY <1>0, <1>1, <1>2, <1>3 DEF WalkKept

LEMMA CopyStays ==
  ASSUME FeedInv, WebStep, rev' \in [Sources -> Nat], UNCHANGED cache,
         stayed' \subseteq stayed, cache # None
  PROVE  CopyKept(cache)'
<1>0. /\ TypeOK /\ KeysStay /\ stayed \subseteq Numbered /\ CopyKept(cache)
  BY Remembered DEF FeedInv, ClientKept, WebStep
<1>1. PICK copy : copy = cache
  OBVIOUS
<1>2. CopyKept(copy)
  BY <1>0, <1>1
<1>3. PageKept(copy.page)'
  BY <1>0, <1>2, PageStays DEF CopyKept
<1>4. \A r \in stayed : Covers(copy.page.rows, copy.page.next, copy.page.pivot, r)'
  BY <1>0, <1>2, CoversStays DEF CopyKept
<1>5. ASSUME NEW i \in DOMAIN copy.items
      PROVE  Right(copy.items[i].row, copy.items[i].rev, copy.items[i].comments)'
  <2>1. copy.items[i].row \in Rows /\ copy.items[i].rev \in Nat
        /\ Right(copy.items[i].row, copy.items[i].rev, copy.items[i].comments)
    BY <1>2 DEF CopyKept
  <2> QED BY <1>0, <2>1, RightStays
<1>6. CopyKept(copy)'
  BY <1>2, <1>3, <1>4, <1>5 DEF CopyKept
<1> QED BY <1>1, <1>6

LEMMA WorldKeeps ==
  ASSUME FeedInv, WorldStep, IInv', TypeOK', RowsKept', KeysOK'
  PROVE  FeedInv'
<1>0. /\ TypeOK /\ WalkKept /\ ReaderKept /\ BodyKept /\ QuietKept /\ RowsKept /\ KeysStay
      /\ rev' \in [Sources -> Nat]
      /\ reader' = reader /\ cache' = cache /\ cursor' = cursor
      /\ stayed' \subseteq stayed /\ still' \subseteq still
  BY DEF FeedInv, ClientKept, WorldStep, WebStep, walk, client, TypeOK
<1>1. stayed \subseteq Numbered /\ still \subseteq Numbered
  BY <1>0, Remembered
<1>2. WalkKept'
  BY <1>0, WalkStays DEF WorldStep
<1>3. PICK p : p = reader.page
  OBVIOUS
<1>4. PageKept(p)'
  BY <1>0, <1>3, PageStays DEF ReaderKept
<1>5. \A i \in DOMAIN p.rows : p.rows[i] \in Rows
  BY <1>0, <1>3 DEF ReaderKept, PageKept, WellMade, Numbered
<1>6. ReaderKept'
  <2>1. PICK from : from = reader.from
    OBVIOUS
  <2>2. p.rows \in Seq(Numbered) /\ p.pivot \in SUBSET Numbered
    BY <1>0, <1>3 DEF ReaderKept, PageKept, WellMade
  <2>3. from # None => Under(p.rows, p.next, p.pivot, from)'
    BY <1>0, <1>3, <2>1, <2>2, UnderStays DEF ReaderKept
  <2>4. ASSUME NEW r \in still \cup stayed PROVE Asks(from, r)' <=> Asks(from, r)
    BY <1>0, <1>1 DEF Asks, KeysStay, Below
  <2>5. reader.at \in {"threads", "answer"} => \A r \in still \cup stayed :
          Asks(from, r)' => Covers(p.rows, p.next, p.pivot, r)'
    BY <1>0, <1>1, <1>3, <2>1, <2>4, CoversStays DEF ReaderKept
  <2>6. PageKept(reader.page)'
    BY <1>0, <1>3, <1>4
  <2> QED BY <1>0, <1>3, <2>1, <2>3, <2>5, <2>6 DEF ReaderKept, Keys
<1>7. BodyKept'
  <2>1. ASSUME NEW i \in DOMAIN p.rows, reader.at \in {"threads", "answer"}
        PROVE  reader.revs[i] <= rev'[Source[p.rows[i]]]
    <3>1. rev[Source[p.rows[i]]] \in Nat /\ rev'[Source[p.rows[i]]] \in Nat
          /\ rev'[Source[p.rows[i]]] >= rev[Source[p.rows[i]]]
      BY <1>0, <1>5, SourcesTyped DEF WorldStep, WebStep
    <3>2. reader.revs[i] \in Nat /\ reader.revs[i] <= rev[Source[p.rows[i]]]
      BY <1>0, <1>3, <2>1 DEF BodyKept
    <3> QED BY <3>1, <3>2
  <2>2. ASSUME NEW i \in DOMAIN reader.threads, reader.at \in {"threads", "answer"}
        PROVE  Right(p.rows[i], reader.revs[i], reader.threads[i])'
    <3>1. i \in DOMAIN p.rows
      BY <1>0, <1>3, <2>2 DEF BodyKept, ReaderKept, PageKept, WellMade
    <3>2. reader.revs[i] \in Nat /\ Right(p.rows[i], reader.revs[i], reader.threads[i])
      BY <1>0, <1>3, <2>2, <3>1 DEF BodyKept
    <3>3. PICK r, v, t : r = p.rows[i] /\ v = reader.revs[i] /\ t = reader.threads[i]
      OBVIOUS
    <3>4. r \in Rows /\ v \in Nat /\ Right(r, v, t)
      BY <1>5, <3>1, <3>2, <3>3
    <3>5. Right(r, v, t)'
      BY <1>0, <3>4, RightStays DEF WorldStep
    <3> QED BY <1>0, <3>3, <3>5 DEF Right
  <2> QED BY <1>0, <1>3, <2>1, <2>2 DEF BodyKept
<1>8. cache # None => CopyKept(cache)'
  BY <1>0, CopyStays DEF WorldStep
<1>9. QuietKept'
  <2> SUFFICES ASSUME quiet', reader.first
               PROVE  /\ reader.at = "page" => reader.actors = Followed'
                      /\ reader.at \in {"threads", "answer"} =>
                           /\ Ranked(p.rows, Newest(Listed, Limit))'
                           /\ \A i \in DOMAIN p.rows :
                                reader.revs[i] = rev'[Source[p.rows[i]]]
    BY <1>0, <1>3 DEF QuietKept, Ranked
  <2>1. quiet /\ Listed' = Listed /\ Followed' = Followed /\ rev' = rev
    BY DEF WorldStep
  <2>2. PICK S \in SUBSET Numbered : S = Listed
    BY <1>0, ListedRows
  <2>3. PICK T \in SUBSET Numbered : T = Newest(S, Limit)
    BY DEF Newest
  <2>4. T = Newest(S, Limit)'
    BY <1>0, <2>3, RanksStay
  <2>5. T = Newest(Listed, Limit)'
    BY <2>1, <2>2, <2>4 DEF Newest, Rank
  <2>6. reader.at \in {"threads", "answer"} => Ranked(p.rows, T)'
    BY <1>0, <1>3, <2>1, <2>2, <2>3, RanksStay DEF QuietKept
  <2>7. reader.at \in {"threads", "answer"} => Ranked(p.rows, Newest(Listed, Limit))'
    BY <2>5, <2>6 DEF Ranked, Rank
  <2> QED BY <1>0, <1>3, <2>1, <2>7 DEF QuietKept
<1>10. ClientKept'
  BY <1>0, <1>2, <1>6, <1>7, <1>8 DEF ClientKept
<1> QED BY <1>9, <1>10 DEF FeedInv

-----------------------------------------------------------------------------
LEMMA NumbersStay ==
  ASSUME UNCHANGED id, \A r \in Numbered : stamp'[r] = stamp[r]
  PROVE  KeysStay /\ Numbered' = Numbered
BY DEF KeysStay, Numbered, Key

LEMMA GraphKept ==
  ASSUME IInv, UNCHANGED graph
  PROVE  IInv' /\ GraphTypeOK' /\ edge' = edge
<1>1. IInv'
  BY Step
<1> QED BY <1>1 DEF IInv, graph

\* A step that changes no key, no revision, no comment and nothing of what is listed.
LEMMA IdleKeeps ==
  ASSUME FeedInv, IInv', RowsTypeOK', RowsKept', UNCHANGED <<id, edge, talk, rev>>,
         UNCHANGED <<walk, client, history>>, \A r \in Numbered : stamp'[r] = stamp[r],
         status' \in [Rows -> {"new", "made", "listed", "gone"}],
         \A r \in Rows : status'[r] = "listed" <=> status[r] = "listed"
  PROVE  FeedInv'
<1>1. KeysStay /\ Numbered' = Numbered
  BY NumbersStay
<1>2. Listed' = Listed /\ Followed' = Followed
  BY DEF Listed, Followed
<1>3. KeysOK'
  BY <1>1 DEF FeedInv, KeysOK
<1>4. TypeOK /\ RowsKept /\ IInv
  BY DEF FeedInv
<1>5. \A r \in Rows : status'[r] = "listed" => Key(r)' \in Keys
  <2> SUFFICES ASSUME NEW r \in Rows, status[r] = "listed" PROVE Key(r)' \in Keys
    OBVIOUS
  <2>1. r \in Numbered
    BY <1>4 DEF RowsKept, Numbered
  <2> QED BY <1>1, <2>1, KeyTyped DEF KeysStay, FeedInv
<1>6. TypeOK'
  BY <1>2, <1>4, <1>5 DEF TypeOK, IInv, client, history, Keys
<1>7. rev \in [Sources -> Nat]
  BY <1>4 DEF TypeOK
<1>8. WorldStep
  BY <1>1, <1>2, <1>7 DEF WorldStep, WebStep, history, Thread
<1> QED BY <1>3, <1>6, <1>8, WorldKeeps

LEMMA TickKeeps == FeedInv /\ Tick => FeedInv'
<1> SUFFICES ASSUME FeedInv, Tick PROVE FeedInv'
  OBVIOUS
<1> USE DEF Tick, Advance, web
<1>1. RowsTypeOK'
  BY TimesNat DEF FeedInv, TypeOK, RowsTypeOK, walk, Keys
<1>2. RowsKept'
  BY DEF FeedInv, RowsKept, Numbered
<1> QED BY <1>1, <1>2, GraphKept, IdleKeeps DEF FeedInv, TypeOK

LEMMA MakePinKeeps == ASSUME FeedInv, NEW r \in Rows, MakePin(r) PROVE FeedInv'
<1> USE DEF MakePin, Stamp
<1>1. TypeOK /\ RowsKept /\ id[r] = None
  BY DEF FeedInv, RowsKept
<1>2. clock \in 0..Times /\ clock # None
  BY <1>1, NoneIsNone, TimesNat DEF TypeOK, RowsTypeOK
<1>3. RowsTypeOK'
  BY <1>1, <1>2 DEF TypeOK, RowsTypeOK, walk, Keys
<1>4. Numbered' = Numbered /\ \A q \in Numbered : stamp'[q] = stamp[q]
  BY <1>1 DEF Numbered, TypeOK, RowsTypeOK
<1>5. RowsKept'
  BY <1>1, <1>2, <1>4 DEF RowsKept, TypeOK, RowsTypeOK, Numbered
<1> QED BY <1>1, <1>3, <1>4, <1>5, GraphKept, IdleKeeps DEF FeedInv, TypeOK

LEMMA FailPinKeeps == ASSUME FeedInv, NEW r \in Rows, FailPin(r) PROVE FeedInv'
<1> USE DEF FailPin, rows
<1>1. TypeOK /\ RowsKept
  BY DEF FeedInv
<1>2. RowsTypeOK'
  BY <1>1 DEF TypeOK, RowsTypeOK, walk, Keys
<1>3. RowsKept'
  BY <1>1 DEF RowsKept, TypeOK, Numbered
<1> QED BY <1>1, <1>2, <1>3, GraphKept, IdleKeeps DEF FeedInv, TypeOK

LEMMA QuietEdges == \A c \in Calls : GraphQuiet(c) => UNCHANGED edge
BY DEF GraphQuiet, Unknown, SeedBegin, GraphBegin, Statement, FindEdge, InsertEdge, Refer,
       DeleteEdge, LockEdge, SeedAccounts, SeedEdge, GraphAbort

LEMMA QuietCallKeeps ==
  ASSUME FeedInv, NEW c \in Calls, GraphQuiet(c), UNCHANGED <<rows, walk, web, client, history>>
  PROVE  FeedInv'
<1>1. IInv'
  BY Step DEF FeedInv, GraphNext
<1>2. UNCHANGED <<id, edge, talk, rev, status, stamp, clock>>
  BY QuietEdges DEF rows, web
<1>3. RowsTypeOK' /\ RowsKept'
  BY <1>2 DEF FeedInv, TypeOK, RowsTypeOK, RowsKept, Numbered, walk, Keys
<1> QED BY <1>1, <1>2, <1>3, IdleKeeps DEF FeedInv, TypeOK

-----------------------------------------------------------------------------
\* A commit: revisions only grow, and grow where comments change.
LEMMA CommitKeepsFeed ==
  ASSUME FeedInv, IInv', RowsTypeOK', RowsKept', KeysOK', KeysStay,
         UNCHANGED <<walk, client>>, Observe,
         status' \in [Rows -> {"new", "made", "listed", "gone"}],
         talk' \in [Rows -> {"none", "shown", "removed"}],
         rev' \in [Sources -> Nat], \A g \in Sources : rev'[g] >= rev[g],
         \A r \in Rows : talk'[r] # talk[r] => rev'[Source[r]] > rev[Source[r]]
  PROVE  FeedInv'
<1>1. \A r \in Rows : status'[r] = "listed" => Key(r)' \in Keys
  <2> SUFFICES ASSUME NEW r \in Rows, status'[r] = "listed" PROVE Key(r)' \in Keys
    OBVIOUS
  <2>1. id'[r] # None
    BY DEF RowsKept
  <2>2. stamp'[r] \in 0..Times /\ id'[r] \in 1..Cardinality(Rows)
    BY <2>1 DEF KeysOK, Numbered
  <2> QED BY <2>2 DEF Key, Keys
<1>2. TypeOK'
  BY <1>1 DEF FeedInv, TypeOK, IInv, client, Observe, Keys
<1>3. WorldStep
  BY DEF WorldStep, WebStep, Observe, Thread
<1> QED BY <1>2, <1>3, WorldKeeps

LEMMA RowsStill ==
  ASSUME FeedInv, UNCHANGED <<rows, walk>>
  PROVE  RowsTypeOK' /\ KeysOK' /\ KeysStay /\ Numbered' = Numbered
<1>1. KeysStay /\ Numbered' = Numbered
  BY NumbersStay DEF rows
<1>2. RowsTypeOK'
  BY DEF FeedInv, TypeOK, RowsTypeOK, rows, walk, Keys
<1>3. KeysOK'
  BY <1>1 DEF FeedInv, KeysOK, rows
<1> QED BY <1>1, <1>2, <1>3

LEMMA Revised ==
  ASSUME TypeOK, NEW g \in Sources, Revise(g)
  PROVE  /\ rev' \in [Sources -> Nat] /\ rev'[g] > rev[g]
         /\ \A f \in Sources : rev'[f] >= rev[f]
BY DEF Revise, TypeOK

LEMMA GraphCommitKeeps ==
  ASSUME FeedInv, NEW c \in Calls, GraphCommit(c), UNCHANGED <<rows, walk, web, client>>, Observe
  PROVE  FeedInv'
<1>1. IInv'
  BY Step DEF FeedInv, GraphNext
<1>2. RowsTypeOK' /\ KeysOK' /\ KeysStay /\ Numbered' = Numbered
  BY RowsStill
<1>3. RowsKept'
  BY <1>2 DEF FeedInv, RowsKept, rows, web
<1>4. /\ status' \in [Rows -> {"new", "made", "listed", "gone"}]
      /\ talk' \in [Rows -> {"none", "shown", "removed"}] /\ talk' = talk
      /\ rev' \in [Sources -> Nat] /\ \A g \in Sources : rev'[g] >= rev[g]
  BY DEF FeedInv, TypeOK, web
<1> QED BY <1>1, <1>2, <1>3, <1>4, CommitKeepsFeed

LEMMA DropPinKeeps == ASSUME FeedInv, NEW r \in Rows, DropPin(r) PROVE FeedInv'
<1> USE DEF DropPin
<1>0. TypeOK /\ Source[r] \in Sources
  BY SourcesTyped DEF FeedInv
<1>1. RowsTypeOK' /\ KeysOK' /\ KeysStay /\ Numbered' = Numbered
  BY RowsStill
<1>2. RowsKept'
  BY <1>0, <1>1 DEF FeedInv, RowsKept, rows, TypeOK
<1>3. rev' \in [Sources -> Nat] /\ \A g \in Sources : rev'[g] >= rev[g]
  BY <1>0, Revised
<1>4. /\ status' \in [Rows -> {"new", "made", "listed", "gone"}]
      /\ talk' \in [Rows -> {"none", "shown", "removed"}]
      /\ \A q \in Rows : talk'[q] = talk[q]
  BY <1>0 DEF TypeOK
<1>5. IInv'
  BY GraphKept DEF FeedInv
<1> QED BY <1>1, <1>2, <1>3, <1>4, <1>5, CommitKeepsFeed

LEMMA CommentKeeps == ASSUME FeedInv, NEW r \in Rows, Comment(r) PROVE FeedInv'
<1> USE DEF Comment
<1>0. TypeOK /\ Source[r] \in Sources
  BY SourcesTyped DEF FeedInv
<1>1. RowsTypeOK' /\ KeysOK' /\ KeysStay /\ Numbered' = Numbered
  BY RowsStill
<1>2. RowsKept'
  BY <1>0, <1>1 DEF FeedInv, RowsKept, rows, TypeOK
<1>3. rev' \in [Sources -> Nat] /\ \A g \in Sources : rev'[g] >= rev[g]
  BY <1>0, Revised
<1>4. /\ status' \in [Rows -> {"new", "made", "listed", "gone"}]
      /\ talk' \in [Rows -> {"none", "shown", "removed"}]
  BY <1>0 DEF TypeOK
<1>5. \A q \in Rows : talk'[q] # talk[q] => rev'[Source[q]] > rev[Source[q]]
  BY <1>0, Revised DEF TypeOK
<1>6. IInv'
  BY GraphKept DEF FeedInv
<1> QED BY <1>1, <1>2, <1>3, <1>4, <1>5, <1>6, CommitKeepsFeed

LEMMA ListPinKeeps == ASSUME FeedInv, NEW r \in Rows, ListPin(r) PROVE FeedInv'
<1> USE DEF ListPin, Number
<1> DEFINE n == Cardinality(Numbered)
<1>0. TypeOK /\ RowsKept /\ KeysOK /\ Source[r] \in Sources
  BY SourcesTyped DEF FeedInv
<1>1. r \notin Numbered /\ stamp[r] # None
  BY <1>0 DEF RowsKept, Numbered
<1>2. /\ IsFiniteSet(Numbered) /\ n \in Nat
      /\ Cardinality(Numbered \cup {r}) = n + 1
  BY <1>1, FiniteRows, FS_AddElement DEF Numbered
<1>3. n + 1 \in 1..Cardinality(Rows) /\ n + 1 # None
  <2>1. Numbered \cup {r} \subseteq Rows
    BY DEF Numbered
  <2>2. n + 1 <= Cardinality(Rows)
    BY <1>2, <2>1, RowsFinite, FS_Subset
  <2> QED BY <1>2, <2>2, CardRows, NoneIsNone
<1>4. id' = [id EXCEPT ![r] = n + 1] /\ UNCHANGED <<clock, stamp>>
  <2>1. id' = [id EXCEPT ![r] = 1 + n] /\ UNCHANGED <<clock, stamp>>
    BY Zenon DEF Numbered
  <2>2. 1 + n = n + 1
    BY <1>2
  <2> QED BY <2>1, <2>2
<1>5. Numbered' = Numbered \cup {r} /\ id'[r] = n + 1 /\ \A q \in Numbered : id'[q] = id[q]
  BY <1>0, <1>1, <1>3, <1>4 DEF Numbered, TypeOK, RowsTypeOK
<1>6. KeysStay
  BY <1>4, <1>5 DEF KeysStay, Key
<1>7. \A q \in Numbered : id[q] \in Int /\ id[q] <= n
  BY <1>0, CardRows DEF RowsKept, KeysOK
<1>8. KeysOK'
  <2>1. \A q \in Numbered' : stamp'[q] \in 0..Times /\ id'[q] \in 1..Cardinality(Rows)
    BY <1>0, <1>1, <1>3, <1>4, <1>5 DEF KeysOK, TypeOK, RowsTypeOK
  <2>2. ASSUME NEW q \in Numbered', NEW p \in Numbered', id'[q] = id'[p] PROVE q = p
    <3>1. CASE q \in Numbered /\ p \in Numbered
      BY <1>0, <1>5, <2>2, <3>1 DEF KeysOK
    <3>2. CASE q = r \/ p = r
      BY <1>2, <1>5, <1>7, <2>2, <3>2
    <3> QED BY <1>5, <3>1, <3>2
  <2> QED BY <2>1, <2>2 DEF KeysOK
<1>9. RowsTypeOK'
  <2>1. id' \in [Rows -> 1..Cardinality(Rows) \cup {None}]
    BY <1>0, <1>3, <1>4 DEF TypeOK, RowsTypeOK
  <2>2. \A q, p \in Rows : id'[q] # None /\ id'[q] = id'[p] => q = p
    BY <1>8 DEF KeysOK, Numbered
  <2> QED BY <1>0, <1>4, <2>1, <2>2 DEF TypeOK, RowsTypeOK, walk, Keys
<1>10. RowsKept'
  <2>1. \A q \in Rows : q # r => id'[q] = id[q] /\ status'[q] = status[q]
    BY <1>0, <1>4 DEF TypeOK, RowsTypeOK
  <2>2. id'[r] # None /\ status'[r] = "listed" /\ stamp' = stamp
    BY <1>0, <1>3, <1>4, <1>5 DEF TypeOK
  <2>3. \A q \in Numbered' : stamp'[q] # None /\ id'[q] <= Cardinality(Numbered')
    <3>1. Cardinality(Numbered') = n + 1
      BY <1>2, <1>5
    <3>2. \A q \in Numbered : stamp[q] # None
      BY <1>0 DEF RowsKept
    <3> QED BY <1>1, <1>2, <1>5, <1>7, <2>2, <3>1, <3>2
  <2>4. \A q \in Rows : status'[q] \in {"new", "made"} => id'[q] = None
    BY <1>0, <2>1, <2>2 DEF RowsKept
  <2>5. \A q \in Rows : status'[q] \in {"made", "listed"} => stamp'[q] # None
    BY <1>0, <1>1, <2>1, <2>2 DEF RowsKept
  <2>6. \A q \in Rows : status'[q] = "listed" => id'[q] # None
    BY <1>0, <2>1, <2>2 DEF RowsKept
  <2> QED BY <2>3, <2>4, <2>5, <2>6 DEF RowsKept
<1>11. rev' \in [Sources -> Nat] /\ \A g \in Sources : rev'[g] >= rev[g]
  BY <1>0, Revised
<1>12. /\ status' \in [Rows -> {"new", "made", "listed", "gone"}]
       /\ talk' \in [Rows -> {"none", "shown", "removed"}] /\ talk' = talk
  BY <1>0 DEF TypeOK
<1>13. IInv'
  BY GraphKept DEF FeedInv
<1> QED BY <1>6, <1>8, <1>9, <1>10, <1>11, <1>12, <1>13, CommitKeepsFeed

-----------------------------------------------------------------------------
\* The client's own steps leave the rows and the pages of the web alone.
LEMMA WebStill ==
  ASSUME FeedInv, UNCHANGED <<graph, rows, web>>
  PROVE  /\ WebStep /\ KeysStay /\ IInv' /\ RowsKept' /\ KeysOK'
         /\ rev' = rev /\ talk' = talk /\ rev' \in [Sources -> Nat]
         /\ Listed' = Listed /\ Followed' = Followed
<1>1. KeysStay /\ Numbered' = Numbered
  BY NumbersStay DEF rows
<1>2. IInv' /\ edge' = edge
  BY GraphKept DEF FeedInv
<1>3. RowsKept' /\ KeysOK'
  BY <1>1 DEF FeedInv, RowsKept, KeysOK, rows, web
<1>4. rev' = rev /\ talk' = talk /\ rev \in [Sources -> Nat]
  BY DEF FeedInv, TypeOK, web
<1>5. Listed' = Listed /\ Followed' = Followed
  BY <1>2 DEF Listed, Followed, web
<1> QED BY <1>1, <1>2, <1>3, <1>4, <1>5 DEF WebStep, Thread

LEMMA ClientTyped ==
  ASSUME FeedInv, UNCHANGED <<graph, rows, web>>, WalkKept',
         cursor' \in {None, <<>>} \cup Keys,
         reader'.at \in {"idle", "page", "threads", "answer"}, reader'.actors \subseteq Followees,
         still' \subseteq Listed, stayed' \subseteq Listed
  PROVE  TypeOK'
<1>1. TypeOK /\ IInv' /\ Listed' = Listed /\ rev' = rev
  BY WebStill DEF FeedInv
<1>2. shown' \in Seq(Numbered') /\ pivots' \subseteq Numbered'
  BY DEF WalkKept, WellMade
<1>3. Numbered' \subseteq Rows
  BY DEF Numbered
<1>4. shown' \in Seq(Rows) /\ pivots' \subseteq Rows
  BY <1>2, <1>3, SeqMonotonic
<1>5. RowsTypeOK'
  BY <1>1, <1>4 DEF TypeOK, RowsTypeOK, rows, Keys
<1> QED BY <1>1, <1>5 DEF TypeOK, IInv, web, rows, Key, Keys

LEMMA EmptyPage ==
  /\ WellMade(<<>>, <<>>, {}) /\ WellMade(<<>>, <<>>, {})'
  /\ <<>> \notin Keys
<1>1. <<>> \notin Keys
  BY KeyParts
<1>2. <<>> \in Seq(Numbered) /\ <<>> \in Seq(Numbered') /\ DOMAIN <<>> = {}
  OBVIOUS
<1> QED BY <1>1, <1>2 DEF WellMade, Descends, Keys

LEMMA IdleReader ==
  ASSUME Finish
  PROVE  ReaderKept' /\ BodyKept' /\ QuietKept'
<1>1. PageKept(Idle.page)'
  BY EmptyPage DEF Idle, PageKept
<1>2. ReaderKept'
  BY <1>1 DEF Finish, Idle, ReaderKept
<1>3. BodyKept' /\ QuietKept'
  BY DEF Finish, Idle, BodyKept, QuietKept
<1> QED BY <1>2, <1>3

\* The end of a request.
LEMMA FinishKeeps ==
  ASSUME FeedInv, UNCHANGED <<graph, rows, web>>, Finish, WalkKept',
         cache' # None => CopyKept(cache)', cursor' \in {None, <<>>} \cup Keys,
         stayed' \subseteq Listed
  PROVE  FeedInv'
<1>1. /\ reader'.at = "idle" /\ reader'.actors = {} /\ still' = {}
  BY DEF Finish, Idle
<1>2. TypeOK'
  BY <1>1, ClientTyped
<1>3. ClientKept'
  BY IdleReader DEF ClientKept
<1> QED BY <1>2, <1>3, IdleReader, WebStill DEF FeedInv

LEMMA GiveUpKeeps == FeedInv /\ GiveUp => FeedInv'
<1> SUFFICES ASSUME FeedInv, GiveUp PROVE FeedInv'
  OBVIOUS
<1>1. WebStep /\ KeysStay /\ rev' \in [Sources -> Nat] /\ UNCHANGED <<graph, rows, web>>
  BY WebStill DEF GiveUp
<1>2. WalkKept'
  BY <1>1, WalkStays DEF GiveUp
<1>3. cache' # None => CopyKept(cache)'
  BY <1>1, CopyStays DEF GiveUp
<1>4. cursor' \in {None, <<>>} \cup Keys /\ stayed' \subseteq Listed
  BY DEF FeedInv, TypeOK, RowsTypeOK, GiveUp, walk
<1> QED BY <1>1, <1>2, <1>3, <1>4, FinishKeeps DEF GiveUp

LEMMA RestartMakes ==
  ASSUME FeedInv, UNCHANGED <<graph, rows, web>>, NEW p, PageKept(p), Restart(p),
         stayed' \subseteq Listed,
         \A r \in stayed' : Covers(p.rows, p.next, p.pivot, r)
  PROVE  WalkKept' /\ cursor' \in {None, <<>>} \cup Keys
<1>1. KeysStay /\ Listed \subseteq Numbered
  BY WebStill, ListedRows DEF FeedInv
<1>2. WellMade(p.rows, p.next, p.pivot)'
  BY <1>1, WellMadeStays DEF PageKept
<1>3. \A r \in stayed' : Covers(p.rows, p.next, p.pivot, r)'
  BY <1>1, CoversStays
<1>4. shown' = p.rows /\ cursor' = p.next /\ pivots' = p.pivot
  BY DEF Restart
<1>5. WalkKept'
  BY <1>2, <1>3, <1>4 DEF WalkKept
<1>6. cursor' \in {None, <<>>} \cup Keys
  BY <1>4 DEF PageKept
<1> QED BY <1>5, <1>6

LEMMA NotModifiedKeeps == FeedInv /\ NotModified => FeedInv'
<1> SUFFICES ASSUME FeedInv, NotModified PROVE FeedInv'
  OBVIOUS
<1>1. /\ WebStep /\ KeysStay /\ rev' \in [Sources -> Nat] /\ UNCHANGED <<graph, rows, web>>
      /\ stayed' = stayed /\ cache' = cache /\ stayed \subseteq Listed
  BY WebStill DEF NotModified, FeedInv, TypeOK
<1>2. cache # None => CopyKept(cache)'
  BY <1>1, CopyStays
<1>3. cache # None /\ reader.offered = cache /\ CopyKept(cache)
  BY DEF NotModified, FeedInv, ClientKept, ReaderKept
<1>4. PICK p : p = cache.page
  OBVIOUS
<1>5. PageKept(p) /\ Restart(p) /\ \A r \in stayed : Covers(p.rows, p.next, p.pivot, r)
  BY <1>3, <1>4 DEF CopyKept, NotModified, Restart
<1>6. WalkKept' /\ cursor' \in {None, <<>>} \cup Keys
  BY <1>1, <1>5, RestartMakes
<1> QED BY <1>1, <1>2, <1>6, FinishKeeps DEF NotModified

LEMMA FreshKeeps == FeedInv /\ Fresh => FeedInv'
<1> SUFFICES ASSUME FeedInv, Fresh PROVE FeedInv'
  OBVIOUS
<1>1. /\ WebStep /\ KeysStay /\ rev' \in [Sources -> Nat] /\ UNCHANGED <<graph, rows, web>>
      /\ stayed' = still /\ cache' = Body /\ still \subseteq Listed /\ Listed \subseteq Numbered
      /\ TypeOK
  BY WebStill, ListedRows DEF Fresh, FeedInv, TypeOK
<1>2. PICK p : p = reader.page
  OBVIOUS
<1>3. /\ PageKept(p) /\ reader.at = "answer" /\ reader.first /\ reader.from = None
      /\ \A r \in still : Covers(p.rows, p.next, p.pivot, r)
  BY <1>2 DEF Fresh, FeedInv, ClientKept, ReaderKept, Asks
<1>4. Restart(p)
  BY <1>2 DEF Fresh, Body, Restart
<1>5. WalkKept' /\ cursor' \in {None, <<>>} \cup Keys
  BY <1>1, <1>3, <1>4, RestartMakes
<1>6. /\ reader.revs \in [DOMAIN p.rows -> Nat] /\ reader.threads \in Seq(BOOLEAN)
      /\ Len(reader.threads) = Len(p.rows)
      /\ \A i \in DOMAIN reader.threads : Right(p.rows[i], reader.revs[i], reader.threads[i])
  BY <1>2, <1>3 DEF FeedInv, ClientKept, BodyKept
<1>7. p.rows \in Seq(Rows) /\ DOMAIN reader.threads = DOMAIN p.rows
  <2>1. p.rows \in Seq(Numbered)
    BY <1>3 DEF PageKept, WellMade
  <2> QED BY <1>6, <2>1, SeqMonotonic DEF Numbered
<1>8. PICK items : items = [i \in DOMAIN p.rows |->
        [row |-> p.rows[i], rev |-> reader.revs[i], comments |-> reader.threads[i]]]
  OBVIOUS
<1>9. cache' = [page |-> p, items |-> items]
  BY <1>1, <1>2, <1>8 DEF Body
<1>10. \A i \in DOMAIN p.rows :
         /\ p.rows[i] \in Rows /\ reader.revs[i] \in Nat /\ reader.threads[i] \in BOOLEAN
         /\ Right(p.rows[i], reader.revs[i], reader.threads[i])
  BY <1>6, <1>7
<1>11. items \in [DOMAIN p.rows -> [row : Rows, rev : Nat, comments : BOOLEAN]]
  BY <1>8, <1>10
<1>12. ASSUME NEW i \in DOMAIN items
       PROVE  Right(items[i].row, items[i].rev, items[i].comments)'
  <2>1. items[i].row \in Rows /\ items[i].rev \in Nat
        /\ Right(items[i].row, items[i].rev, items[i].comments)
    BY <1>8, <1>10
  <2> QED BY <1>1, <2>1, RightStays
<1>13. PageKept(p)' /\ \A r \in still : Covers(p.rows, p.next, p.pivot, r)'
  BY <1>1, <1>3, PageStays, CoversStays
<1>14. PICK copy : copy = [page |-> p, items |-> items]
  OBVIOUS
<1>15. copy.page = p /\ copy.items = items /\ cache' = copy
  BY <1>9, <1>14
<1>16. CopyKept(copy)'
  BY <1>1, <1>11, <1>12, <1>13, <1>15 DEF CopyKept
<1>17. CopyKept(cache)'
  BY <1>15, <1>16
<1> QED BY <1>1, <1>5, <1>17, FinishKeeps DEF Fresh

LEMMA NextPageKeeps == FeedInv /\ NextPage => FeedInv'
<1> SUFFICES ASSUME FeedInv, NextPage PROVE FeedInv'
  OBVIOUS
<1>1. /\ WebStep /\ KeysStay /\ rev' \in [Sources -> Nat] /\ UNCHANGED <<graph, rows, web>>
      /\ stayed' = stayed /\ cache' = cache /\ stayed \subseteq Listed /\ stayed \subseteq Numbered
      /\ KeysOK
  BY WebStill, Remembered DEF NextPage, FeedInv, TypeOK
<1>2. cache # None => CopyKept(cache)'
  BY <1>1, CopyStays
<1>3. PICK p, seq, next, out : p = reader.page /\ seq = shown /\ next = cursor /\ out = pivots
  OBVIOUS
<1>4. /\ WellMade(seq, next, out) /\ \A r \in stayed : Covers(seq, next, out, r)
      /\ WellMade(p.rows, p.next, p.pivot) /\ p.next \in Keys \cup {<<>>}
      /\ next \in Keys /\ Under(p.rows, p.next, p.pivot, next)
      /\ \A r \in stayed : Below(Key(r), next) => Covers(p.rows, p.next, p.pivot, r)
  BY <1>3 DEF NextPage, FeedInv, ClientKept, WalkKept, ReaderKept, PageKept, Asks
<1>5. /\ WellMade(seq \o p.rows, p.next, out \cup p.pivot)
      /\ \A r \in stayed : Covers(seq \o p.rows, p.next, out \cup p.pivot, r)
  BY <1>1, <1>4, PagesJoin
<1>6. PICK seq2, out2 : seq2 = seq \o p.rows /\ out2 = out \cup p.pivot
  OBVIOUS
<1>7. WellMade(seq2, p.next, out2)' /\ \A r \in stayed : Covers(seq2, p.next, out2, r)'
  BY <1>1, <1>5, <1>6, WellMadeStays, CoversStays
<1>8. shown' = seq2 /\ cursor' = p.next /\ pivots' = out2
  BY <1>3, <1>6 DEF NextPage, Continue
<1>9. WalkKept' /\ cursor' \in {None, <<>>} \cup Keys
  BY <1>1, <1>4, <1>7, <1>8 DEF WalkKept
<1> QED BY <1>1, <1>2, <1>9, FinishKeeps DEF NextPage

-----------------------------------------------------------------------------
\* The request's own steps, up to its end.
LEMMA ReaderStep ==
  ASSUME FeedInv, UNCHANGED <<graph, rows, walk, web, cache, stayed>>,
         reader'.at \in {"idle", "page", "threads", "answer"}, reader'.actors \subseteq Followees,
         still' \subseteq Listed, ReaderKept', BodyKept', QuietKept'
  PROVE  FeedInv'
<1>1. WebStep /\ KeysStay /\ rev' \in [Sources -> Nat] /\ stayed' \subseteq Listed
  BY WebStill DEF FeedInv, TypeOK
<1>2. WalkKept'
  BY <1>1, WalkStays
<1>3. cache' # None => CopyKept(cache)'
  BY <1>1, CopyStays
<1>4. cursor' \in {None, <<>>} \cup Keys
  BY DEF FeedInv, TypeOK, RowsTypeOK, walk
<1>5. TypeOK'
  BY <1>1, <1>2, <1>4, ClientTyped
<1>6. ClientKept'
  BY <1>2, <1>3 DEF ClientKept
<1> QED BY <1>5, <1>6, WebStill DEF FeedInv

LEMMA NothingListed ==
  ASSUME Followed = {}
  PROVE  Listed = {} /\ Ranked(<<>>, Newest(Listed, Limit))
<1>1. Listed = {}
  BY DEF Listed
<1>2. Newest({}, Limit) = {}
  BY DEF Newest
<1>3. Cardinality({}) = 0 /\ 1..0 = {}
  BY FS_EmptySet
<1>4. <<>> \in [1..0 -> {}]
  OBVIOUS
<1> QED BY <1>1, <1>2, <1>3, <1>4 DEF Ranked

LEMMA AskFeedKeeps ==
  ASSUME FeedInv, NEW first \in BOOLEAN, NEW copy \in {None, cache}, AskFeed(first, copy)
  PROVE  FeedInv'
<1>1. /\ UNCHANGED <<graph, rows, walk, web, cache, stayed>> /\ still' = {}
      /\ first \/ cursor \notin {None, <<>>}
      /\ reader'.at = IF Followed = {} THEN "answer" ELSE "page"
      /\ reader'.first = first /\ reader'.offered = copy /\ reader'.actors = Followed
      /\ reader'.from = (IF first THEN None ELSE cursor)
      /\ reader'.page = [rows |-> <<>>, next |-> <<>>, pivot |-> {}]
      /\ reader'.revs = <<>> /\ reader'.threads = <<>>
  BY DEF AskFeed, Idle
<1>2. TypeOK /\ stayed \subseteq Listed /\ Listed' = Listed /\ Followed' = Followed
  BY <1>1, WebStill DEF FeedInv, TypeOK
<1>3. cursor \in Keys \cup {None, <<>>} /\ cursor' = cursor
  BY <1>1, <1>2 DEF TypeOK, RowsTypeOK, walk
<1>4. PageKept(reader.page)'
  BY <1>1, EmptyPage DEF PageKept
<1>5. \A r \in stayed : Author[r] \in Followed
  BY <1>2 DEF Listed
<1>6. Followed = {} => stayed = {}
  BY <1>2, NothingListed
<1>7. Keys' = Keys
  BY DEF Keys
<1>8. ReaderKept'
  <2>1. (DOMAIN reader = DOMAIN Idle)'
    BY DEF AskFeed, Idle
  <2> QED BY <1>1, <1>3, <1>4, <1>5, <1>6, <1>7, <2>1, EmptyPage DEF ReaderKept, Under
<1>9. BodyKept'
  <2>1. DOMAIN reader'.page.rows = {} /\ DOMAIN reader'.threads = {}
        /\ reader'.revs \in [{} -> Nat] /\ reader'.threads \in Seq(BOOLEAN)
        /\ Len(reader'.threads) = 0 /\ Len(reader'.page.rows) = 0
    BY <1>1
  <2> QED BY <1>1, <2>1 DEF BodyKept
<1>10. QuietKept'
  <2>1. Followed = {} => Ranked(<<>>, Newest(Listed, Limit))'
    <3>1. Followed = {} => Newest(Listed, Limit)' = {}
      BY <1>2, NothingListed DEF Newest
    <3>2. Cardinality({}) = 0 /\ 1..0 = {} /\ <<>> \in [1..0 -> {}]
      BY FS_EmptySet
    <3> QED BY <3>1, <3>2 DEF Ranked
  <2>2. DOMAIN reader'.page.rows = {}
    BY <1>1
  <2> QED BY <1>1, <1>2, <2>1, <2>2 DEF QuietKept, Ranked
<1>11. reader'.actors \subseteq Followees
  BY <1>1 DEF Followed
<1> QED BY <1>1, <1>8, <1>9, <1>10, <1>11, ReaderStep

LEMMA ReadPinsKeeps == FeedInv /\ ReadPins => FeedInv'
<1> SUFFICES ASSUME FeedInv, ReadPins PROVE FeedInv'
  OBVIOUS
<1> DEFINE S == {r \in Rows : status[r] = "listed" /\ Author[r] \in reader.actors}
           page == Slice(S, reader.from, Limit)
           revs == [i \in DOMAIN page.rows |-> rev[Source[page.rows[i]]]]
<1>1. /\ TypeOK /\ RowsKept /\ KeysOK /\ ReaderKept /\ BodyKept /\ QuietKept
      /\ reader.at = "page" /\ UNCHANGED <<graph, rows, walk, web, cache, quiet, stayed>>
      /\ still' = S \cap Listed
      /\ reader' = [reader EXCEPT !.page = page, !.revs = revs,
           !.at = IF reader.first /\ page.rows # <<>> THEN "threads" ELSE "answer"]
  BY DEF ReadPins, FeedInv, ClientKept
<1>2. S \in SUBSET Numbered
  BY <1>1 DEF RowsKept, Numbered
<1>3. reader.from \in Keys \cup {None}
  BY <1>1 DEF ReaderKept
<1> HIDE DEF S
<1>4. /\ WellMade(page.rows, page.next, page.pivot) /\ page.next \in Keys \cup {<<>>}
      /\ reader.from # None => Under(page.rows, page.next, page.pivot, reader.from)
      /\ \A r \in S : Asks(reader.from, r) => Covers(page.rows, page.next, page.pivot, r)
  BY <1>1, <1>2, <1>3, SliceMakes
<1>5. stayed \subseteq S
  BY <1>1 DEF S, ReaderKept, TypeOK, Listed
<1> HIDE DEF page, revs
<1>6. /\ WebStep /\ KeysStay /\ rev' = rev /\ Listed' = Listed /\ Followed' = Followed
      /\ rev' \in [Sources -> Nat]
  BY <1>1, WebStill
<1>7. PICK p, from : p = page /\ from = reader.from
  OBVIOUS
<1>8. /\ p.rows \in Seq(Numbered) /\ p.pivot \in SUBSET Numbered
      /\ \A i \in DOMAIN p.rows : p.rows[i] \in Rows
  BY <1>4, <1>7 DEF WellMade, Numbered
<1>9. PageKept(p)'
  BY <1>4, <1>6, <1>7, PageStays DEF PageKept
<1>10. from # None => Under(p.rows, p.next, p.pivot, from)'
  BY <1>4, <1>6, <1>7, <1>8, UnderStays
<1>11. \A r \in S : Asks(from, r)' => Covers(p.rows, p.next, p.pivot, r)'
  <2> SUFFICES ASSUME NEW r \in S, Asks(from, r)' PROVE Covers(p.rows, p.next, p.pivot, r)'
    OBVIOUS
  <2>1. r \in Numbered /\ Asks(from, r)
    BY <1>2, <1>6 DEF Asks, KeysStay, Below
  <2> QED BY <1>4, <1>6, <1>7, <2>1, CoversStays
<1>12. /\ reader'.page = p /\ reader'.revs = revs /\ reader'.from = from
       /\ reader'.first = reader.first /\ reader'.offered = reader.offered
       /\ reader'.actors = reader.actors /\ reader'.threads = reader.threads
       /\ reader'.at = IF reader.first /\ p.rows # <<>> THEN "threads" ELSE "answer"
       /\ still' \subseteq S /\ stayed' \subseteq S /\ cursor' = cursor /\ cache' = cache
  <2>1. /\ reader'.page = page /\ reader'.revs = revs
        /\ reader'.at = IF reader.first /\ page.rows # <<>> THEN "threads" ELSE "answer"
    BY <1>1 DEF TypeOK
  <2> QED BY <1>1, <1>5, <1>7, <2>1 DEF walk
<1>13. ReaderKept'
  <2>1. PageKept(reader.page)'
    BY <1>9, <1>12
  <2> QED BY <1>1, <1>7, <1>10, <1>11, <1>12, <2>1 DEF ReaderKept, Keys
<1>14. \A i \in DOMAIN p.rows : revs[i] = rev[Source[p.rows[i]]] /\ revs[i] \in Nat
  BY <1>1, <1>7, <1>8, SourcesTyped DEF revs
<1>15. revs \in [DOMAIN p.rows -> Nat]
  BY <1>7, <1>14 DEF revs
<1>16. BodyKept'
  <2>1. reader'.threads = <<>>
    BY <1>1, <1>12 DEF BodyKept
  <2>2. Len(p.rows) \in Nat /\ (p.rows = <<>> <=> Len(p.rows) = 0)
    BY <1>8
  <2>3. \A i \in DOMAIN p.rows : revs[i] <= rev[Source[p.rows[i]]]
    BY <1>14
  <2> QED BY <1>6, <1>12, <1>15, <2>1, <2>2, <2>3 DEF BodyKept
<1>17. QuietKept'
  <2> SUFFICES ASSUME quiet, reader.first
               PROVE  Ranked(p.rows, Newest(Listed, Limit))'
    BY <1>1, <1>6, <1>12, <1>14 DEF QuietKept, Ranked
  <2>1. reader.actors = Followed /\ reader.from = None
    BY <1>1 DEF QuietKept, ReaderKept
  <2>2. S = Listed
    BY <2>1 DEF S, Listed
  <2>3. Matching(S, None) = S
    BY DEF Matching
  <2>4. PICK T \in SUBSET Numbered : T = Newest(S, Limit)
    BY <1>2 DEF Newest
  <2>5. p.rows = Descending(T)
    BY <1>7, <2>1, <2>3, <2>4 DEF page, Slice
  <2>6. Ranked(p.rows, T)'
    BY <1>1, <1>6, <2>5, DescendingRanks, RanksStay
  <2>7. PICK L \in SUBSET Numbered : L = S
    BY <1>2
  <2>8. T = Newest(L, Limit)'
    BY <1>6, <2>4, <2>7, RanksStay
  <2>9. T = Newest(Listed, Limit)'
    BY <1>6, <2>2, <2>7, <2>8 DEF Newest, Rank
  <2> QED BY <2>6, <2>9 DEF Ranked, Rank
<1>18. /\ reader'.at \in {"threads", "answer"} /\ reader'.actors \subseteq Followees
       /\ still' \subseteq Listed
  BY <1>1, <1>12 DEF TypeOK
<1> QED BY <1>1, <1>13, <1>16, <1>17, <1>18, ReaderStep

LEMMA ReadThreadKeeps == FeedInv /\ ReadThread => FeedInv'
<1> SUFFICES ASSUME FeedInv, ReadThread PROVE FeedInv'
  OBVIOUS
<1> DEFINE n == Len(reader.threads) + 1
           at == IF n = Len(reader.page.rows) THEN "answer" ELSE "threads"
<1>1. /\ TypeOK /\ ReaderKept /\ BodyKept /\ QuietKept /\ reader.at = "threads"
      /\ UNCHANGED <<graph, rows, walk, web, cache, history>>
  BY DEF ReadThread, FeedInv, ClientKept
<1>2. reader' = [reader EXCEPT
        !.threads = Append(reader.threads, Thread(reader.page.rows[n])), !.at = at]
  BY <1>1 DEF ReadThread
<1>3. PICK p, from, revs, threads :
        p = reader.page /\ from = reader.from /\ revs = reader.revs /\ threads = reader.threads
  OBVIOUS
<1>4. /\ reader'.threads = Append(threads, Thread(p.rows[n])) /\ reader'.at = at
      /\ reader'.page = p /\ reader'.revs = revs /\ reader'.from = from
      /\ reader'.first = reader.first /\ reader'.offered = reader.offered
      /\ reader'.actors = reader.actors
      /\ still' = still /\ stayed' = stayed /\ quiet' = quiet
      /\ cursor' = cursor /\ cache' = cache
  BY <1>1, <1>2, <1>3 DEF TypeOK, walk, history
<1>5. /\ p.rows \in Seq(Numbered) /\ p.pivot \in SUBSET Numbered
      /\ threads \in Seq(BOOLEAN) /\ Len(threads) \in Nat /\ Len(p.rows) \in Nat
      /\ Len(threads) < Len(p.rows) /\ reader.first /\ from = None
      /\ revs \in [DOMAIN p.rows -> Nat] /\ PageKept(p)
  <2>1. PageKept(p) /\ reader.first /\ from = None
    BY <1>1, <1>3 DEF ReaderKept
  <2>2. p.rows \in Seq(Numbered) /\ p.pivot \in SUBSET Numbered
    BY <2>1 DEF PageKept, WellMade
  <2>3. threads \in Seq(BOOLEAN) /\ Len(threads) < Len(p.rows) /\ revs \in [DOMAIN p.rows -> Nat]
    BY <1>1, <1>3 DEF BodyKept
  <2> QED BY <2>1, <2>2, <2>3
<1>6. n \in DOMAIN p.rows /\ n = Len(threads) + 1 /\ n <= Len(p.rows) /\ n \in Nat
  BY <1>3, <1>5
<1> HIDE DEF n
<1>7. at \in {"threads", "answer"} /\ (at = "threads" => n < Len(p.rows))
      /\ (at = "answer" => n = Len(p.rows))
  BY <1>3, <1>5, <1>6
<1> HIDE DEF at
<1>8. /\ WebStep /\ KeysStay /\ rev' = rev /\ Listed' = Listed /\ Followed' = Followed
      /\ talk' = talk
  BY <1>1, WebStill
<1>9. PageKept(p)'
  BY <1>5, <1>8, PageStays
<1>10. still \cup stayed \subseteq Numbered
  BY <1>1, Remembered DEF FeedInv
<1>11. \A r \in still \cup stayed : Covers(p.rows, p.next, p.pivot, r)'
  <2>1. \A r \in still \cup stayed : Covers(p.rows, p.next, p.pivot, r)
    BY <1>1, <1>3, <1>5 DEF ReaderKept, Asks
  <2> QED BY <1>8, <1>10, <2>1, CoversStays
<1>12. ReaderKept'
  <2>1. PageKept(reader.page)'
    BY <1>4, <1>9
  <2>2. reader'.first /\ reader'.from = None /\ (reader.offered # None => reader.offered = cache)
    BY <1>1, <1>4, <1>5 DEF ReaderKept
  <2>3. (DOMAIN reader = DOMAIN Idle)'
    BY <1>1, <1>2 DEF ReaderKept, Idle
  <2> QED BY <1>4, <1>7, <1>11, <2>1, <2>2, <2>3 DEF ReaderKept
<1>13. p.rows[n] \in Rows /\ Thread(p.rows[n]) \in BOOLEAN
  BY <1>1, <1>5, <1>6, SourcesTyped DEF Numbered
<1>14. PICK more : more = Append(threads, Thread(p.rows[n]))
  OBVIOUS
<1>15. /\ more \in Seq(BOOLEAN) /\ Len(more) = n /\ more[n] = Thread(p.rows[n])
       /\ \A i \in DOMAIN more : i = n \/ (i \in DOMAIN threads /\ more[i] = threads[i])
  BY <1>5, <1>6, <1>13, <1>14
<1>16. /\ \A i \in DOMAIN p.rows : revs[i] <= rev[Source[p.rows[i]]]
       /\ \A i \in DOMAIN threads : Right(p.rows[i], revs[i], threads[i])
  BY <1>1, <1>3 DEF BodyKept
<1>17. \A i \in DOMAIN more : Right(p.rows[i], revs[i], more[i])
  BY <1>6, <1>15, <1>16 DEF Right
<1>18. \A i \in DOMAIN more : Right(p.rows[i], revs[i], more[i])'
  BY <1>8, <1>17 DEF Right, Thread
<1>19. BodyKept'
  BY <1>4, <1>5, <1>6, <1>7, <1>8, <1>14, <1>15, <1>16, <1>18 DEF BodyKept, Right, Thread
<1>20. QuietKept'
  <2> SUFFICES ASSUME quiet
               PROVE  /\ Ranked(p.rows, Newest(Listed, Limit))'
                      /\ \A i \in DOMAIN p.rows : revs[i] = rev[Source[p.rows[i]]]
    BY <1>4, <1>7, <1>8 DEF QuietKept, Ranked
  <2>1. /\ Ranked(p.rows, Newest(Listed, Limit))
        /\ \A i \in DOMAIN p.rows : revs[i] = rev[Source[p.rows[i]]]
    BY <1>1, <1>3, <1>5 DEF QuietKept
  <2>2. PICK S \in SUBSET Numbered : S = Listed
    BY ListedRows DEF FeedInv
  <2>3. PICK T \in SUBSET Numbered : T = Newest(S, Limit)
    BY <2>2 DEF Newest
  <2>4. T = Newest(S, Limit)' /\ Ranked(p.rows, T)'
    BY <1>8, <2>1, <2>2, <2>3, RanksStay
  <2>5. T = Newest(Listed, Limit)'
    BY <1>8, <2>2, <2>4 DEF Newest, Rank
  <2> QED BY <2>1, <2>4, <2>5 DEF Ranked, Rank
<1>21. /\ reader'.at \in {"threads", "answer"} /\ reader'.actors \subseteq Followees
       /\ still' \subseteq Listed
  BY <1>1, <1>4, <1>7 DEF TypeOK
<1> QED BY <1>1, <1>4, <1>12, <1>19, <1>20, <1>21, ReaderStep

-----------------------------------------------------------------------------
LEMMA FeedInitially == Init => FeedInv
<1> SUFFICES ASSUME Init PROVE FeedInv
  OBVIOUS
<1>1. /\ RowsInit(Old) /\ GraphInit
      /\ status = [r \in Rows |-> IF r \in Old THEN "listed" ELSE "new"]
      /\ talk = [r \in Rows |-> "none"] /\ rev = [g \in Sources |-> 0]
      /\ reader = Idle /\ cache = None /\ quiet = FALSE /\ still = {} /\ stayed = {}
  BY DEF Init
<1>2. IInv /\ GraphTypeOK
  BY <1>1, Initially DEF IInv
<1>3. /\ clock = 0 /\ stamp = [r \in Rows |-> IF r \in Old THEN 0 ELSE None]
      /\ id \in [Rows -> 1..Cardinality(Old) \cup {None}]
      /\ \A r, q \in Old : id[r] = id[q] => r = q
      /\ \A r \in Rows : id[r] # None <=> r \in Old
      /\ cursor = None /\ shown = <<>> /\ pivots = {}
  BY <1>1 DEF RowsInit
<1>4. Numbered = Old /\ Old \in SUBSET Rows
  BY <1>3, OldKnown DEF Numbered
<1>5. Cardinality(Old) \in Nat /\ Cardinality(Old) <= Cardinality(Rows)
  BY OldKnown, RowsFinite, FiniteRows, FS_Subset
<1>6. 0 \in 0..Times /\ None # 0
  BY TimesNat, NoneIsNone
<1>7. \A r \in Old : stamp[r] = 0 /\ id[r] \in 1..Cardinality(Old) /\ id[r] \in 1..Cardinality(Rows)
  BY <1>3, <1>5, CardRows, OldKnown
<1>8. KeysOK
  BY <1>3, <1>4, <1>6, <1>7 DEF KeysOK
<1>9. RowsKept
  BY <1>1, <1>3, <1>4, <1>5, <1>6, <1>7 DEF RowsKept
<1>10. RowsTypeOK
  <2>1. id \in [Rows -> 1..Cardinality(Rows) \cup {None}]
    BY <1>3, <1>5, CardRows
  <2>2. \A r, q \in Rows : id[r] # None /\ id[r] = id[q] => r = q
    BY <1>3
  <2> QED BY <1>3, <1>6, <2>1, <2>2 DEF RowsTypeOK
<1>11. \A r \in Rows : status[r] = "listed" => Key(r) \in Keys
  BY <1>1, <1>4, <1>8, KeyTyped
<1>12. /\ reader.at = "idle" /\ reader.first = FALSE /\ reader.offered = None /\ reader.from = None
       /\ reader.actors = {} /\ reader.page = [rows |-> <<>>, next |-> <<>>, pivot |-> {}]
  BY <1>1 DEF Idle
<1>13. TypeOK
  BY <1>1, <1>2, <1>10, <1>11, <1>12 DEF TypeOK
<1>14. WalkKept
  BY <1>1, <1>3, EmptyPage DEF WalkKept, WellMade
<1>15. ReaderKept
  BY <1>1, <1>12, EmptyPage DEF ReaderKept, PageKept
<1>16. BodyKept /\ QuietKept
  BY <1>1, <1>12 DEF BodyKept, QuietKept
<1> QED BY <1>1, <1>2, <1>8, <1>9, <1>13, <1>14, <1>15, <1>16 DEF FeedInv, ClientKept

LEMMA FeedStutter == FeedInv /\ UNCHANGED vars => FeedInv'
<1> SUFFICES ASSUME FeedInv, UNCHANGED vars PROVE FeedInv'
  OBVIOUS
<1>1. UNCHANGED <<rows, walk, client, history>> /\ UNCHANGED <<id, stamp, status, talk, rev>>
  BY DEF vars, rows, web
<1>2. IInv' /\ edge' = edge
  BY GraphKept DEF FeedInv, vars
<1>3. RowsTypeOK' /\ RowsKept'
  BY <1>1, RowsStill DEF FeedInv, RowsKept
<1> QED BY <1>1, <1>2, <1>3, IdleKeeps DEF FeedInv, TypeOK

LEMMA FeedStep == FeedInv /\ [Next]_vars => FeedInv'
<1> SUFFICES ASSUME FeedInv, [Next]_vars PROVE FeedInv'
  OBVIOUS
<1>1. CASE Tick
  BY <1>1, TickKeeps
<1>2. CASE Relation
  BY <1>2, QuietCallKeeps, GraphCommitKeeps DEF Relation
<1>3. ASSUME NEW r \in Rows, MakePin(r) \/ ListPin(r) \/ FailPin(r) \/ DropPin(r) \/ Comment(r)
      PROVE  FeedInv'
  BY <1>3, MakePinKeeps, ListPinKeeps, FailPinKeeps, DropPinKeeps, CommentKeeps
<1>4. ASSUME NEW copy \in {None, cache}, AskFeed(TRUE, copy) PROVE FeedInv'
  BY <1>4, AskFeedKeeps
<1>5. CASE AskFeed(FALSE, None)
  BY <1>5, AskFeedKeeps
<1>6. CASE ReadPins \/ ReadThread
  BY <1>6, ReadPinsKeeps, ReadThreadKeeps
<1>7. CASE NotModified \/ Fresh \/ NextPage \/ GiveUp
  BY <1>7, NotModifiedKeeps, FreshKeeps, NextPageKeeps, GiveUpKeeps
<1>8. CASE UNCHANGED vars
  BY <1>8, FeedStutter
<1> QED BY <1>1, <1>2, <1>3, <1>4, <1>5, <1>6, <1>7, <1>8 DEF Next

\* Whatever is pinned, dropped, commented, followed and unfollowed between the
\* statements of a request and between two requests, the inductive invariant above
\* holds: keys stay, and the walk, the request and the copy are right about them.
THEOREM FeedInvariant == Spec => []FeedInv
BY FeedInitially, FeedStep, PTL DEF Spec

\* The state of the feed stays within its type, and what a request or a copy is
\* remembered to cover is still listed.
THEOREM FeedTypeCorrect == Spec => []TypeOK
<1>1. FeedInv => TypeOK
  BY DEF FeedInv
<1> QED BY <1>1, FeedInvariant, PTL

\* collect_feed_pins: a walk never shows a pin twice nor goes back in time, for any
\* size of a page and however many pins have one created_at.
THEOREM WalksDescend == Spec => []WalkDescends
<1>1. FeedInv => WalkDescends
  BY DEF FeedInv, ClientKept, WalkKept, WellMade, Descends, WalkDescends
<1> QED BY <1>1, FeedInvariant, PTL

\* collect_feed_pins and a 304 of social_feed_wall: of the pins listed ever since
\* the copy was read, a walk that has ended has left out the pivots, and no other.
THEOREM PivotsOnly == Spec => []WalkMissesThePivots
<1>1. FeedInv => WalkMissesThePivots
  <2> SUFFICES ASSUME FeedInv, cursor = <<>>, NEW r \in stayed
               PROVE  r \in pivots <=> ~In(r, shown)
    BY DEF WalkMissesThePivots, In
  <2>1. WellMade(shown, cursor, pivots) /\ Covers(shown, cursor, pivots, r)
    BY DEF FeedInv, ClientKept, WalkKept
  <2>2. cursor \notin Keys
    BY EmptyPage
  <2> QED BY <2>1, <2>2 DEF WellMade, Covers
<1> QED BY <1>1, FeedInvariant, PTL

-----------------------------------------------------------------------------
\* What the page holds is what a request would read now, unless a commit came
\* between.
LEMMA PageIsCurrent ==
  ASSUME FeedInv, reader.at = "answer", reader.first, quiet
  PROVE  /\ reader.page.rows = Slice(Listed, None, Limit).rows
         /\ \A i \in DOMAIN reader.page.rows :
              reader.revs[i] = rev[Source[reader.page.rows[i]]]
<1>1. /\ Ranked(reader.page.rows, Newest(Listed, Limit))
      /\ \A i \in DOMAIN reader.page.rows : reader.revs[i] = rev[Source[reader.page.rows[i]]]
  BY DEF FeedInv, QuietKept
<1>2. Newest(Listed, Limit) \in SUBSET Numbered
  BY ListedRows DEF FeedInv, Newest
<1>3. Ranked(Descending(Newest(Listed, Limit)), Newest(Listed, Limit))
  BY <1>2, DescendingRanks DEF FeedInv
<1>4. reader.page.rows = Descending(Newest(Listed, Limit))
  BY <1>1, <1>2, <1>3, RankedOnce DEF FeedInv
<1>5. Matching(Listed, None) = Listed
  BY DEF Matching
<1> QED BY <1>1, <1>4, <1>5 DEF Slice

LEMMA SameTag ==
  ASSUME FeedInv, NotModified, quiet
  PROVE  reader.offered.items = Current
<1>1. /\ reader.at = "answer" /\ reader.first /\ TypeOK /\ ReaderKept
      /\ reader.offered # None /\ reader.offered = cache /\ CopyKept(cache)
      /\ FeedTag(reader.offered) = FeedTag(Body)
  BY DEF NotModified, FeedInv, ClientKept, ReaderKept
<1>2. PICK rs, revs, items, page :
        /\ rs = reader.page.rows /\ revs = reader.revs
        /\ items = cache.items /\ page = cache.page.rows
  OBVIOUS
<1>3. /\ rs = Slice(Listed, None, Limit).rows
      /\ \A i \in DOMAIN rs : revs[i] = rev[Source[rs[i]]]
  BY <1>1, <1>2, PageIsCurrent
<1>4. /\ items \in [DOMAIN page -> [row : Rows, rev : Nat, comments : BOOLEAN]]
      /\ \A i \in DOMAIN items : Right(items[i].row, items[i].rev, items[i].comments)
  BY <1>1, <1>2 DEF CopyKept
<1>5. [i \in DOMAIN items |-> <<items[i].row, items[i].rev>>] = [i \in DOMAIN rs |-> <<rs[i], revs[i]>>]
  BY <1>1, <1>2 DEF FeedTag, Body
<1>6. DOMAIN items = DOMAIN rs
  BY <1>5
<1>7. ASSUME NEW i \in DOMAIN rs
      PROVE  items[i] = Item(rs[i], Thread(rs[i]))
  <2>1. <<items[i].row, items[i].rev>> = <<rs[i], revs[i]>>
    BY <1>5, <1>6
  <2>2. items[i].row = rs[i] /\ items[i].rev = rev[Source[rs[i]]]
    BY <1>3, <2>1
  <2>3. items[i].comments = Thread(rs[i])
    BY <1>4, <1>6, <2>2 DEF Right
  <2>4. items[i] = [row |-> items[i].row, rev |-> items[i].rev, comments |-> items[i].comments]
    BY <1>4, <1>6
  <2> QED BY <2>2, <2>3, <2>4 DEF Item
<1>8. items = [i \in DOMAIN rs |-> Item(rs[i], Thread(rs[i]))]
  BY <1>4, <1>6, <1>7
<1>9. Current = [i \in DOMAIN rs |-> Item(rs[i], [j \in DOMAIN rs |-> Thread(rs[j])][i])]
  BY <1>3 DEF Current, Items
<1>10. \A i \in DOMAIN rs : [j \in DOMAIN rs |-> Thread(rs[j])][i] = Thread(rs[i])
  OBVIOUS
<1> QED BY <1>1, <1>2, <1>8, <1>9, <1>10

\* summarize_feed_digest, social_feed_wall: pins and revisions are enough of a tag
\* for the comments as well, however many commits fell between the statements that
\* read the copy.
THEOREM FeedNotModifiedExactly == Spec => FeedNotModifiedIsExact
<1>1. FeedInv /\ [Next]_vars => [NotModified /\ quiet => reader.offered.items = Current]_vars
  BY SameTag
<1> QED BY <1>1, FeedInvariant, PTL DEF Spec, FeedNotModifiedIsExact

-----------------------------------------------------------------------------
\* Feed composes SocialGraph: whatever is pinned and read, its calls are those of
\* SocialGraph alone, so what is proved of them there holds here.
THEOREM FeedKeepsTheGraph == Spec => GraphSpec
<1>1. Init => GraphInit
  BY DEF Init
<1>2. [Next]_vars => [GraphNext]_graph
  <2> SUFFICES ASSUME [Next]_vars PROVE [GraphNext]_graph
    OBVIOUS
  <2>1. CASE Relation
    BY <2>1 DEF Relation, GraphNext
  <2>2. CASE Tick
    BY <2>2 DEF Tick
  <2>3. ASSUME NEW r \in Rows, MakePin(r) \/ ListPin(r) \/ FailPin(r) \/ DropPin(r) \/ Comment(r)
        PROVE  UNCHANGED graph
    BY <2>3 DEF MakePin, ListPin, FailPin, DropPin, Comment
  <2>4. ASSUME NEW first, NEW copy, AskFeed(first, copy) PROVE UNCHANGED graph
    BY <2>4 DEF AskFeed
  <2>5. CASE ReadPins \/ ReadThread \/ NotModified \/ Fresh \/ NextPage \/ GiveUp
    BY <2>5 DEF ReadPins, ReadThread, NotModified, Fresh, NextPage, GiveUp
  <2>6. CASE UNCHANGED vars
    BY <2>6 DEF vars
  <2> QED BY <2>1, <2>2, <2>3, <2>4, <2>5, <2>6 DEF Next
<1> QED BY <1>1, <1>2, PTL DEF Spec, GraphSpec

\* While pins are made and feeds are read, each answer that follow_member and
\* unfollow_member give was true at some moment of the call it answers.
THEOREM FeedAnswersHold == Spec => []AnswersHold
BY FeedKeepsTheGraph, AnswersAlwaysHold, PTL
=============================================================================
