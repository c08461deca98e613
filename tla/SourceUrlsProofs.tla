-------------------------- MODULE SourceUrlsProofs --------------------------
(***************************************************************************)
(* Proofs about SourceUrls for any requests, spellings, servers and pages. *)
(*                                                                         *)
(* normalize_url sorts what it keeps of a query.  A value's place in the   *)
(* result is the number of kept values up to it (Place), so that two       *)
(* queries have one result exactly if some map between their kept values   *)
(* preserves Before, and sorting the sorted changes nothing.               *)
(*                                                                         *)
(* A job's value for a column is what the page said or else what the row   *)
(* had when the job read it, so that an empty value is one it does not     *)
(* write.                                                                  *)
(***************************************************************************)
EXTENDS SourceUrls, TLAPS, FiniteSetTheorems

Columns == Fields \cup {"kind"}

\* What a job holds are rows; it has an empty column only if it read one.
JobsMerge ==
  /\ DOMAIN job = Requests
  /\ \A r \in Requests :
    /\ DOMAIN job[r].seen = Columns /\ DOMAIN job[r].new = Columns
    /\ \A f \in Fields : job[r].new[f] = None => job[r].seen[f] = None
    /\ job[r].new["kind"] \in {"video", "article", "other"}

\* Who goes on has asked for something that has a normal form, and is given the row
\* of where it led.
Asked ==
  /\ \A r \in Requests : pc[r] \notin {"idle", "refused"} =>
       asked[r] \in Spellings /\ ~Refused(asked[r])
  /\ \A r \in Requests : found[r] # None =>
       /\ pc[r] \in {"job", "bump", "commit", "done"}
       /\ found[r] = Finalize(asked[r], landed[r])

\* Each row is one that somebody's address led to.
RowsAsked ==
  \A u \in DOMAIN sources : \E a \in Spellings, b \in BOOLEAN :
    ~Refused(a) /\ u = Finalize(a, b)

IInv == TypeOK /\ JobsMerge /\ Asked /\ RowsAsked

-----------------------------------------------------------------------------
\* The places of a query's kept values: Before orders them, Place numbers them.

LEMMA KeptAre ==
  ASSUME NEW s \in Seq(Values)
  PROVE  /\ KeptPlaces(s) \in SUBSET Nat
         /\ IsFiniteSet(KeptPlaces(s))
         /\ Cardinality(KeptPlaces(s)) \in Nat
         /\ \A i \in KeptPlaces(s) : i \in DOMAIN s /\ s[i] \in Values /\ Kept(s[i])
<1>1. /\ KeptPlaces(s) \in SUBSET (1..Len(s)) /\ Len(s) \in Nat
      /\ \A i \in DOMAIN s : s[i] \in Values
  BY DEF KeptPlaces
<1>2. IsFiniteSet(1..Len(s))
  BY <1>1, FS_Interval
<1> QED BY <1>1, <1>2, FS_Subset, FS_CardinalityType DEF KeptPlaces

LEMMA BeforeOrders ==
  ASSUME NEW s \in Seq(Values),
         NEW i \in KeptPlaces(s), NEW j \in KeptPlaces(s), NEW k \in KeptPlaces(s)
  PROVE  /\ Before(s, i, i)
         /\ Before(s, i, j) \/ Before(s, j, i)
         /\ Before(s, i, j) /\ Before(s, j, i) => i = j
         /\ Before(s, i, j) /\ Before(s, j, k) => Before(s, i, k)
<1>1. /\ i \in Nat /\ j \in Nat /\ k \in Nat
      /\ s[i].key \in Nat /\ s[j].key \in Nat /\ s[k].key \in Nat
  BY KeptAre DEF Values
<1> QED BY <1>1 DEF Before

LEMMA PlaceRange ==
  ASSUME NEW s \in Seq(Values), NEW i \in KeptPlaces(s)
  PROVE  Place(s, i) \in 1..Cardinality(KeptPlaces(s))
<1> DEFINE I == KeptPlaces(s)
           D == {j \in I : Before(s, j, i)}
<1>1. i \in D
  BY BeforeOrders
<1>2. IsFiniteSet(I) /\ Cardinality(I) \in Nat
  BY KeptAre
<1>3. IsFiniteSet(D) /\ Cardinality(D) <= Cardinality(I) /\ Cardinality(D) \in Nat
  BY <1>2, FS_Subset, FS_CardinalityType
<1>4. Cardinality(D) # 0
  BY <1>1, <1>3, FS_EmptySet
<1> QED BY <1>2, <1>3, <1>4 DEF Place

LEMMA PlaceOrders ==
  ASSUME NEW s \in Seq(Values), NEW i \in KeptPlaces(s), NEW j \in KeptPlaces(s)
  PROVE  /\ Before(s, i, j) <=> Place(s, i) <= Place(s, j)
         /\ Place(s, i) = Place(s, j) => i = j
<1> DEFINE I == KeptPlaces(s)
           D(m) == {n \in I : Before(s, n, m)}
<1>1. /\ \A m \in I : IsFiniteSet(D(m)) /\ Cardinality(D(m)) \in Nat /\ m \in D(m)
      /\ \A m \in I : Place(s, m) = Cardinality(D(m))
  BY KeptAre, BeforeOrders, FS_Subset, FS_CardinalityType DEF Place
<1>2. ASSUME NEW m \in I, NEW n \in I, Before(s, m, n), m # n
      PROVE  Place(s, m) < Place(s, n)
  <2>1. D(m) \in SUBSET D(n)
    BY <1>2, BeforeOrders
  <2>2. n \notin D(m) /\ n \in D(n)
    BY <1>2, BeforeOrders
  <2> HIDE DEF D
  <2>3. /\ Cardinality(D(m)) <= Cardinality(D(n))
        /\ Cardinality(D(n)) = Cardinality(D(m)) => D(n) = D(m)
    BY <1>1, <2>1, FS_Subset
  <2> QED BY <1>1, <2>2, <2>3
<1>3. Place(s, i) \in Nat /\ Place(s, j) \in Nat
  BY <1>1
<1> QED BY <1>2, <1>3, BeforeOrders

LEMMA PlaceTaken ==
  ASSUME NEW s \in Seq(Values), NEW k \in 1..Cardinality(KeptPlaces(s))
  PROVE  \E i \in KeptPlaces(s) : Place(s, i) = k
<1> DEFINE I == KeptPlaces(s)
           N == Cardinality(I)
           f == [i \in I |-> Place(s, i)]
<1>1. N \in Nat
  BY KeptAre
<1>2. IsFiniteSet(1..N) /\ Cardinality(1..N) = N
  BY <1>1, FS_Interval
<1>3. f \in [I -> 1..N]
  BY PlaceRange
<1>4. \A i, j \in I : f[i] = f[j] => i = j
  BY PlaceOrders
<1>5. f \in Injection(I, 1..N)
  BY <1>3, <1>4 DEF Injection, IsInjective
<1>6. f \in Surjection(I, 1..N)
  BY <1>2, <1>5, FS_Injection
<1> QED BY <1>6 DEF Surjection

\* Nth inverts Place.
LEMMA NthIs ==
  ASSUME NEW s \in Seq(Values)
  PROVE  /\ \A k \in 1..Cardinality(KeptPlaces(s)) :
              Nth(s, k) \in KeptPlaces(s) /\ Place(s, Nth(s, k)) = k
         /\ \A i \in KeptPlaces(s) : Nth(s, Place(s, i)) = i
<1>1. ASSUME NEW k \in 1..Cardinality(KeptPlaces(s))
      PROVE  Nth(s, k) \in KeptPlaces(s) /\ Place(s, Nth(s, k)) = k
  BY PlaceTaken DEF Nth
<1>2. ASSUME NEW i \in KeptPlaces(s)
      PROVE  Nth(s, Place(s, i)) = i
  BY <1>1, PlaceRange, PlaceOrders
<1> QED BY <1>1, <1>2

-----------------------------------------------------------------------------
\* A normalized address is its own normal form.

LEMMA RecodedIs ==
  ASSUME NEW q \in Values
  PROVE  /\ Recoded(q) \in Values
         /\ Recoded(q).key = q.key /\ Recoded(q).upper = q.upper /\ Recoded(q).text = q.text
         /\ Recoded(Recoded(q)) = Recoded(q)
         /\ Kept(q) => Kept(Recoded(q))
<1> DEFINE d == IF q.text \in Special THEN Decoded(q.depth) + 1 ELSE 0
<1>1. d \in Nat /\ (q.text \in Special => Decoded(d) + 1 = d) /\ (q.text \notin Special => d = 0)
  BY DEF Values, Decoded
<1>2. Recoded(q) = [key |-> q.key, upper |-> q.upper, text |-> q.text, depth |-> d]
  BY DEF Recoded, Values
<1> HIDE DEF d
<1>3. Recoded(q) \in Values
  BY <1>1, <1>2 DEF Values
<1>4. Recoded(Recoded(q)) = Recoded(q)
  BY <1>1, <1>2 DEF Recoded
<1> QED BY <1>2, <1>3, <1>4 DEF Kept

LEMMA QueryIs ==
  ASSUME NEW u, u.query \in Seq(Values)
  PROVE  /\ Query(u) \in Seq(Values)
         /\ DOMAIN Query(u) = 1..Cardinality(KeptPlaces(u.query))
         /\ \A k \in DOMAIN Query(u) :
              /\ Nth(u.query, k) \in KeptPlaces(u.query)
              /\ u.query[Nth(u.query, k)] \in Values
              /\ Query(u)[k] = Recoded(u.query[Nth(u.query, k)])
              /\ Kept(Query(u)[k])
<1> DEFINE s == u.query
           N == Cardinality(KeptPlaces(s))
<1>1. N \in Nat
  BY KeptAre
<1>2. \A k \in 1..N : /\ Nth(s, k) \in KeptPlaces(s) /\ s[Nth(s, k)] \in Values
                      /\ Recoded(s[Nth(s, k)]) \in Values /\ Kept(Recoded(s[Nth(s, k)]))
  BY NthIs, KeptAre, RecodedIs
<1>3. Query(u) = [k \in 1..N |-> Recoded(s[Nth(s, k)])]
  BY DEF Query
<1>4. Query(u) \in Seq(Values)
  BY <1>1, <1>2, <1>3
<1> QED BY <1>2, <1>3, <1>4

\* The values of a query that has been through Query are kept, and in their places.
LEMMA QuerySorted ==
  ASSUME NEW u, u.query \in Seq(Values)
  PROVE  LET t == Query(u) IN
         /\ KeptPlaces(t) = DOMAIN t
         /\ \A k \in DOMAIN t : Nth(t, k) = k
<1> DEFINE s == u.query
           t == Query(u)
           N == Cardinality(KeptPlaces(s))
<1>1. N \in Nat /\ t \in Seq(Values) /\ DOMAIN t = 1..N
  BY KeptAre, QueryIs
<1>2. KeptPlaces(t) = 1..N
  BY <1>1, QueryIs DEF KeptPlaces
<1>3. ASSUME NEW k \in 1..N
      PROVE  /\ t[k].key = s[Nth(s, k)].key /\ t[k].key \in Nat
             /\ Nth(s, k) \in KeptPlaces(s) /\ Place(s, Nth(s, k)) = k
  <2>1. s[Nth(s, k)] \in Values /\ t[k] = Recoded(s[Nth(s, k)])
    BY <1>1, QueryIs
  <2>2. t[k].key = s[Nth(s, k)].key /\ s[Nth(s, k)].key \in Nat
    BY <2>1, RecodedIs DEF Values
  <2> QED BY <2>2, NthIs
<1>4. ASSUME NEW i \in 1..N, NEW j \in 1..N
      PROVE  i <= j <=> Before(t, i, j)
  <2>1. i <= j <=> Before(s, Nth(s, i), Nth(s, j))
    BY <1>3, PlaceOrders
  <2>2. j <= i <=> Before(s, Nth(s, j), Nth(s, i))
    BY <1>3, PlaceOrders
  <2> QED BY <1>1, <1>3, <2>1, <2>2 DEF Before
<1>5. ASSUME NEW k \in 1..N
      PROVE  Place(t, k) = k
  <2>1. {j \in KeptPlaces(t) : Before(t, j, k)} = 1..k
    BY <1>1, <1>2, <1>4
  <2>2. Cardinality(1..k) = k
    BY FS_Interval
  <2> QED BY <2>1, <2>2 DEF Place
<1>6. Cardinality(KeptPlaces(t)) = N
  BY <1>1, <1>2, FS_Interval
<1>7. \A k \in 1..N : Nth(t, k) = k
  BY <1>1, <1>2, <1>5, NthIs
<1> QED BY <1>1, <1>2, <1>7

LEMMA NormalIsNormal ==
  ASSUME NEW u, u.query \in Seq(Values)
  PROVE  Normalize(Normalize(u)) = Normalize(u)
<1> DEFINE n == Normalize(u)
           t == Query(u)
<1>1. n.query = t /\ t \in Seq(Values)
  BY QueryIs DEF Normalize
<1>2. DOMAIN Query(n) = DOMAIN t
  <2>1. DOMAIN t = 1..Cardinality(KeptPlaces(u.query)) /\ Cardinality(KeptPlaces(u.query)) \in Nat
    BY QueryIs, KeptAre
  <2>2. Cardinality(DOMAIN t) = Cardinality(KeptPlaces(u.query))
    BY <2>1, FS_Interval
  <2>3. DOMAIN Query(n) = 1..Cardinality(DOMAIN t)
    BY <1>1, QueryIs, QuerySorted
  <2> QED BY <2>1, <2>2, <2>3
<1>3. ASSUME NEW k \in DOMAIN t
      PROVE  Query(n)[k] = t[k]
  <2>1. Query(n)[k] = Recoded(t[k])
    BY <1>1, <1>2, QueryIs, QuerySorted
  <2>2. Recoded(t[k]) = t[k]
    BY QueryIs, RecodedIs
  <2> QED BY <2>1, <2>2
<1>4. Query(n) = t
  <2>1. Query(n) \in Seq(Values)
    BY <1>1, QueryIs
  <2> QED BY <1>1, <1>2, <1>3, <2>1
<1> QED BY <1>4 DEF Normalize

-----------------------------------------------------------------------------
\* Two addresses are of one page exactly if they have one normal form.

LEMMA MeaningIs ==
  ASSUME NEW q \in Values, NEW p \in Values
  PROVE  Recoded(q) = Recoded(p) <=> Meaning(q) = Meaning(p) /\ q.key = p.key
<1> DEFINE d(z) == IF z.text \in Special THEN Decoded(z.depth) + 1 ELSE 0
           m(z) == IF z.text \in Special THEN Decoded(z.depth) ELSE 0
<1>1. \A z \in Values : Recoded(z) = [key |-> z.key, upper |-> z.upper, text |-> z.text,
                                      depth |-> d(z)]
  BY DEF Recoded, Values
<1>2. \A z \in Values : Decoded(z.depth) \in Nat
  BY DEF Values, Decoded
<1>3. q.text = p.text => (d(q) = d(p) <=> m(q) = m(p))
  BY <1>2
<1>4. Recoded(q) = Recoded(p) <=>
        q.key = p.key /\ q.upper = p.upper /\ q.text = p.text /\ d(q) = d(p)
  <2> HIDE DEF d
  <2> QED BY <1>1
<1>5. Meaning(q) = Meaning(p) <=> q.upper = p.upper /\ q.text = p.text /\ m(q) = m(p)
  BY DEF Meaning
<1> QED BY <1>3, <1>4, <1>5

LEMMA PlacesAreKept ==
  ASSUME NEW u, u.query \in Seq(Values), NEW k, k \notin Trackers
  PROVE  Places(u, k) = {i \in KeptPlaces(u.query) : u.query[i].key = k}
BY DEF Places, KeptPlaces, Kept

\* F matches the kept values of u with those of v, in the order of their places.
Matched(F, u, v) ==
  /\ F \in [KeptPlaces(u.query) -> KeptPlaces(v.query)]
  /\ \A j \in KeptPlaces(v.query) : \E i \in KeptPlaces(u.query) : F[i] = j
  /\ \A i, j \in KeptPlaces(u.query) : F[i] = F[j] => i = j
  /\ \A i, j \in KeptPlaces(u.query) : Before(u.query, i, j) <=> Before(v.query, F[i], F[j])
  /\ \A i \in KeptPlaces(u.query) : Recoded(u.query[i]) = Recoded(v.query[F[i]])

\* What is matched is in the same place.
LEMMA MatchedPlace ==
  ASSUME NEW u, NEW v, u.query \in Seq(Values), v.query \in Seq(Values), NEW F, Matched(F, u, v)
  PROVE  /\ Cardinality(KeptPlaces(v.query)) = Cardinality(KeptPlaces(u.query))
         /\ \A i \in KeptPlaces(u.query) : Place(v.query, F[i]) = Place(u.query, i)
<1> DEFINE I == KeptPlaces(u.query)
           J == KeptPlaces(v.query)
<1>1. IsFiniteSet(I) /\ IsFiniteSet(J)
  BY KeptAre
<1>2. F \in Bijection(I, J)
  BY DEF Matched, Bijection, Injection, Surjection, IsInjective
<1>3. Cardinality(J) = Cardinality(I)
  BY <1>1, <1>2, FS_Bijection DEF ExistsBijection
<1>4. ASSUME NEW i \in I
      PROVE  Place(v.query, F[i]) = Place(u.query, i)
  <2> DEFINE A == {j \in I : Before(u.query, j, i)}
             B == {j \in J : Before(v.query, j, F[i])}
             G == [j \in A |-> F[j]]
  <2>1. G \in [A -> B] /\ \A j, k \in A : G[j] = G[k] => j = k
    BY DEF Matched
  <2>2. ASSUME NEW n \in B
        PROVE  \E j \in A : G[j] = n
    <3>1. PICK j \in I : F[j] = n
      BY DEF Matched
    <3>2. j \in A
      BY <3>1 DEF Matched
    <3> QED BY <3>1, <3>2
  <2>3. G \in Bijection(A, B)
    BY <2>1, <2>2 DEF Bijection, Injection, Surjection, IsInjective
  <2>4. IsFiniteSet(A)
    BY <1>1, FS_Subset
  <2>5. Cardinality(B) = Cardinality(A)
    BY <2>3, <2>4, FS_Bijection DEF ExistsBijection
  <2> QED BY <2>5 DEF Place
<1> QED BY <1>3, <1>4

LEMMA MatchedQueries ==
  ASSUME NEW u, NEW v, u.query \in Seq(Values), v.query \in Seq(Values), NEW F, Matched(F, u, v)
  PROVE  Query(u) = Query(v)
<1> DEFINE N == Cardinality(KeptPlaces(u.query))
<1>1. /\ Cardinality(KeptPlaces(v.query)) = N
      /\ \A i \in KeptPlaces(u.query) : Place(v.query, F[i]) = Place(u.query, i)
  BY MatchedPlace
<1>a. \A i \in KeptPlaces(u.query) : F[i] \in KeptPlaces(v.query)
  BY DEF Matched
<1>2. ASSUME NEW k \in 1..N
      PROVE  Recoded(u.query[Nth(u.query, k)]) = Recoded(v.query[Nth(v.query, k)])
  <2>1. Nth(u.query, k) \in KeptPlaces(u.query) /\ Place(u.query, Nth(u.query, k)) = k
    BY NthIs
  <2>2. F[Nth(u.query, k)] \in KeptPlaces(v.query) /\ Place(v.query, F[Nth(u.query, k)]) = k
    BY <1>1, <1>a, <2>1
  <2>3. Nth(v.query, k) = F[Nth(u.query, k)]
    BY <2>2, NthIs
  <2> QED BY <2>1, <2>3 DEF Matched
<1> QED BY <1>1, <1>2 DEF Query

\* What two addresses say under each key, put together.
LEMMA SameMatch ==
  ASSUME NEW u, NEW v, u.query \in Seq(Values), v.query \in Seq(Values), SamePage(u, v)
  PROVE  \E F : Matched(F, u, v)
<1> DEFINE s == u.query
           t == v.query
           I == KeptPlaces(s)
           J == KeptPlaces(t)
           Good(k, f) == /\ f \in [Places(u, k) -> Places(v, k)]
                         /\ \A i, j \in Places(u, k) : i < j => f[i] < f[j]
                         /\ \A j \in Places(v, k) : \E i \in Places(u, k) : f[i] = j
                         /\ \A i \in Places(u, k) : Meaning(s[i]) = Meaning(t[f[i]])
           by(k) == CHOOSE f : Good(k, f)
           F == [i \in I |-> by(s[i].key)[i]]
<1>1. /\ \A i \in I : i \in Nat /\ i \in DOMAIN s /\ s[i] \in Values /\ s[i].key \notin Trackers
      /\ \A j \in J : j \in Nat /\ j \in DOMAIN t /\ t[j] \in Values /\ t[j].key \notin Trackers
  BY KeptAre DEF Kept
<1>2. ASSUME NEW k, k \notin Trackers, (\E i \in I : s[i].key = k) \/ (\E j \in J : t[j].key = k)
      PROVE  Good(k, by(k))
  <2>1. k \in {s[i].key : i \in DOMAIN s} \cup {t[i].key : i \in DOMAIN t}
    BY <1>1, <1>2
  <2>2. SayTheSame(u, v, k)
    BY <1>2, <2>1 DEF SamePage
  <2>3. \E f : Good(k, f)
    BY <2>2 DEF SayTheSame
  <2> QED BY <2>3
<1>3. \A k : k \notin Trackers =>
        /\ Places(u, k) = {i \in I : s[i].key = k}
        /\ Places(v, k) = {j \in J : t[j].key = k}
  BY PlacesAreKept
<1> HIDE DEF by
<1>4. ASSUME NEW i \in I
      PROVE  F[i] \in J /\ t[F[i]].key = s[i].key /\ Meaning(s[i]) = Meaning(t[F[i]])
  <2>1. Good(s[i].key, by(s[i].key)) /\ i \in Places(u, s[i].key)
    BY <1>1, <1>2, <1>3
  <2>2. F[i] \in Places(v, s[i].key) /\ Meaning(s[i]) = Meaning(t[F[i]])
    BY <2>1
  <2> QED BY <1>1, <1>3, <2>2
<1>5. ASSUME NEW i \in I, NEW j \in I, s[i].key = s[j].key, i < j
      PROVE  F[i] < F[j]
  <2>1. /\ Good(s[i].key, by(s[i].key))
        /\ i \in Places(u, s[i].key) /\ j \in Places(u, s[i].key)
    BY <1>1, <1>2, <1>3, <1>5
  <2> QED BY <1>5, <2>1
<1>6. ASSUME NEW j \in J
      PROVE  \E i \in I : F[i] = j
  <2>1. Good(t[j].key, by(t[j].key)) /\ j \in Places(v, t[j].key)
    BY <1>1, <1>2, <1>3
  <2>2. PICK i \in Places(u, t[j].key) : by(t[j].key)[i] = j
    BY <2>1
  <2>3. i \in I /\ s[i].key = t[j].key
    BY <1>1, <1>3, <2>2
  <2> QED BY <2>2, <2>3
<1>7. ASSUME NEW i \in I, NEW j \in I
      PROVE  /\ Before(s, i, j) <=> Before(t, F[i], F[j])
             /\ F[i] = F[j] => i = j
  <2> DEFINE a == F[i]
             b == F[j]
  <2>1. /\ i \in Nat /\ j \in Nat /\ a \in Nat /\ b \in Nat
        /\ t[a].key = s[i].key /\ t[b].key = s[j].key
    BY <1>1, <1>4
  <2>2. s[i].key = s[j].key => (i < j => a < b) /\ (j < i => b < a)
    BY <1>5
  <2> HIDE DEF F
  <2>3. s[i].key = s[j].key => (i <= j <=> a <= b) /\ (a = b => i = j)
    BY <2>1, <2>2
  <2>4. a = b => s[i].key = s[j].key
    BY <2>1
  <2> QED BY <2>1, <2>3, <2>4 DEF Before
<1>8. \A i \in I : Recoded(s[i]) = Recoded(t[F[i]])
  BY <1>1, <1>4, MeaningIs
<1>9. F \in [I -> J]
  BY <1>4
<1> HIDE DEF F
<1> QED BY <1>6, <1>7, <1>8, <1>9 DEF Matched

\* Equal queries say the same under each key that counts.
LEMMA QueriesSame ==
  ASSUME NEW u, NEW v, u.query \in Seq(Values), v.query \in Seq(Values), Query(u) = Query(v),
         NEW k, k \notin Trackers
  PROVE  SayTheSame(u, v, k)
<1> DEFINE s == u.query
           t == v.query
           I == KeptPlaces(s)
           J == KeptPlaces(t)
           G(i) == Nth(t, Place(s, i))
           f == [i \in Places(u, k) |-> G(i)]
<1>1. Cardinality(I) = Cardinality(J)
  <2>1. Cardinality(I) \in Nat /\ Cardinality(J) \in Nat
    BY KeptAre
  <2>2. 1..Cardinality(I) = 1..Cardinality(J)
    BY QueryIs
  <2>3. \A n \in Nat : Cardinality(1..n) = n
    BY FS_Interval
  <2> QED BY <2>1, <2>2, <2>3
<1>2. /\ \A i \in I : i \in Nat /\ s[i] \in Values
      /\ \A j \in J : j \in Nat /\ t[j] \in Values
  BY KeptAre
<1>3. ASSUME NEW i \in I
      PROVE  /\ Place(s, i) \in 1..Cardinality(J)
             /\ G(i) \in J /\ Place(t, G(i)) = Place(s, i)
             /\ Meaning(s[i]) = Meaning(t[G(i)]) /\ s[i].key = t[G(i)].key
  <2>1. Place(s, i) \in 1..Cardinality(J)
    BY <1>1, PlaceRange
  <2>2. G(i) \in J /\ Place(t, G(i)) = Place(s, i)
    BY <2>1, NthIs
  <2>3. Query(u)[Place(s, i)] = Recoded(s[i])
    BY <1>1, <2>1, NthIs DEF Query
  <2>4. Query(v)[Place(s, i)] = Recoded(t[G(i)])
    BY <2>1 DEF Query
  <2> QED BY <1>2, <2>1, <2>2, <2>3, <2>4, MeaningIs
<1>4. /\ Places(u, k) = {i \in I : s[i].key = k}
      /\ Places(v, k) = {j \in J : t[j].key = k}
  BY PlacesAreKept
<1>5. f \in [Places(u, k) -> Places(v, k)]
  BY <1>3, <1>4
<1>6. ASSUME NEW i \in Places(u, k), NEW j \in Places(u, k), i < j
      PROVE  f[i] < f[j]
  <2>1. i \in I /\ j \in I /\ s[i].key = k /\ s[j].key = k
    BY <1>4
  <2>2. Before(s, i, j) /\ ~Before(s, j, i)
    BY <1>2, <1>6, <2>1 DEF Values, Before
  <2>3. Place(t, G(i)) <= Place(t, G(j)) /\ ~(Place(t, G(j)) <= Place(t, G(i)))
    BY <1>3, <2>1, <2>2, PlaceOrders
  <2>4. Before(t, G(i), G(j)) /\ ~Before(t, G(j), G(i))
    BY <1>3, <2>1, <2>3, PlaceOrders
  <2>5. /\ t[G(i)].key = k /\ t[G(j)].key = k /\ G(i) \in Nat /\ G(j) \in Nat
        /\ t[G(i)] \in Values
    BY <1>2, <1>3, <2>1
  <2>6. k \in Nat
    BY <2>5 DEF Values
  <2>7. G(i) < G(j)
    <3> HIDE DEF G
    <3> QED BY <2>4, <2>5, <2>6 DEF Before
  <2> QED BY <2>7
<1>7. ASSUME NEW j \in Places(v, k)
      PROVE  \E i \in Places(u, k) : f[i] = j
  <2>1. j \in J /\ t[j].key = k /\ Place(t, j) \in 1..Cardinality(I)
    BY <1>1, <1>4, PlaceRange
  <2> DEFINE i == Nth(s, Place(t, j))
  <2>2. i \in I /\ Place(s, i) = Place(t, j)
    BY <2>1, NthIs
  <2>3. G(i) = j
    BY <2>1, <2>2, NthIs
  <2>4. i \in Places(u, k)
    BY <1>3, <1>4, <2>1, <2>2, <2>3
  <2> QED BY <2>3, <2>4
<1>8. \A i \in Places(u, k) : Meaning(s[i]) = Meaning(t[f[i]])
  BY <1>3, <1>4
<1> HIDE DEF f
<1> QED BY <1>5, <1>6, <1>7, <1>8 DEF SayTheSame

\* normalize_url tells pages apart, and nothing else.
THEOREM NormalFormIsThePage ==
  ASSUME NEW u, NEW v, u.query \in Seq(Values), v.query \in Seq(Values)
  PROVE  SamePage(u, v) <=> Normalize(u) = Normalize(v)
<1>1. SamePage(u, v) => Query(u) = Query(v)
  BY SameMatch, MatchedQueries
<1>2. Query(u) = Query(v) => \A k : k \notin Trackers => SayTheSame(u, v, k)
  BY QueriesSame
<1>3. Normalize(u) = Normalize(v) <=>
        /\ (IF u.scheme = None THEN "https" ELSE u.scheme)
             = (IF v.scheme = None THEN "https" ELSE v.scheme)
        /\ u.host = v.host
        /\ (IF u.path = None THEN "/" ELSE u.path) = (IF v.path = None THEN "/" ELSE v.path)
        /\ Query(u) = Query(v)
  BY DEF Normalize
<1> QED BY <1>1, <1>2, <1>3 DEF SamePage

-----------------------------------------------------------------------------
\* Every step keeps the invariant.

LEMMA FreshRow ==
  /\ DOMAIN Fresh = Columns /\ Fresh["kind"] = "other"
  /\ \A f \in Fields : Fresh[f] = None
  /\ "kind" \notin Fields
BY DEF Fresh, Columns, Fields

LEMMA Kinds == \A h, t, u : InferKind(h, t, u) \in {"video", "article", "other"}
BY DEF InferKind

LEMMA Initially == Init => IInv
<1> SUFFICES ASSUME Init PROVE IInv
  OBVIOUS
<1>1. DOMAIN sources = {}
  BY DEF Init
<1>2. TypeOK
  BY <1>1 DEF Init, TypeOK
<1>3. JobsMerge
  BY FreshRow DEF Init, JobsMerge, NoJob
<1>4. Asked /\ RowsAsked
  BY <1>1 DEF Init, Asked, RowsAsked
<1> QED BY <1>2, <1>3, <1>4 DEF IInv

-----------------------------------------------------------------------------
LEMMA AskKeeps ==
  ASSUME IInv, NEW r \in Requests, NEW u \in Spellings, Ask(r, u)
  PROVE  IInv'
<1>1. TypeOK'
  BY DEF IInv, Ask, Goto, TypeOK
<1>2. JobsMerge'
  BY DEF IInv, Ask, JobsMerge
<1>a. Asked'
  BY DEF IInv, TypeOK, Asked, Ask, Goto
<1>b. RowsAsked'
  BY DEF IInv, RowsAsked, Ask
<1> QED BY <1>a, <1>b, <1>1, <1>2 DEF IInv

LEMMA FetchKeeps ==
  ASSUME IInv, NEW r \in Requests, Fetch(r)
  PROVE  IInv'
<1>1. TypeOK'
  BY DEF IInv, Fetch, Goto, TypeOK
<1>2. JobsMerge'
  BY DEF IInv, Fetch, JobsMerge
<1>a. Asked'
  BY DEF IInv, TypeOK, Asked, Fetch, Goto
<1>b. RowsAsked'
  BY DEF IInv, RowsAsked, Fetch
<1> QED BY <1>a, <1>b, <1>1, <1>2 DEF IInv

\* A new row is empty; the others stay as they are.
LEMMA EnsureKeeps ==
  ASSUME IInv, NEW r \in Requests, Ensure(r)
  PROVE  /\ IInv'
         /\ \A v \in DOMAIN sources : v \in DOMAIN sources' /\ sources'[v] = sources[v]
<1> DEFINE u == Finalize(asked[r], landed[r])
<1>1. /\ DOMAIN sources' = DOMAIN sources \cup {u}
      /\ \A v \in DOMAIN sources : sources'[v] = sources[v]
      /\ u \notin DOMAIN sources => sources'[u] = Fresh
  BY DEF Ensure
<1>2. \A v \in DOMAIN sources' :
        DOMAIN sources'[v] = Columns /\ sources'[v].kind \in {"video", "article", "other"}
  BY <1>1, FreshRow DEF IInv, TypeOK, Columns
<1>3. Finalize(asked[r], landed[r]) # None
  <2>1. asked[r] \in Spellings
    BY DEF IInv, TypeOK, Ensure, Asked
  <2> QED BY <2>1, AddressesAreNotNone DEF Finalize
<1>4. found' \in [Requests -> DOMAIN sources' \cup {None}] /\ found'[r] # None
  BY <1>1, <1>3 DEF IInv, TypeOK, Ensure
<1>6. \A q \in Requests : q # r => pc'[q] = pc[q] /\ found'[q] = found[q]
  BY DEF IInv, TypeOK, Ensure, Goto
<1>7. pc' \in [Requests -> {"idle", "fetch", "ensure", "job", "bump", "commit", "refused",
                            "failed", "done"}]
  BY DEF IInv, TypeOK, Ensure, Goto
<1>8. TypeOK'
  BY <1>1, <1>2, <1>4, <1>6, <1>7 DEF IInv, Ensure, TypeOK, Columns
<1>5. JobsMerge'
  BY DEF IInv, Ensure, JobsMerge
<1>a. Asked'
  BY DEF IInv, TypeOK, Asked, Ensure, Goto
<1>b. RowsAsked'
  <2>1. asked[r] \in Spellings /\ ~Refused(asked[r]) /\ landed[r] \in BOOLEAN
    BY DEF IInv, TypeOK, Ensure, Asked
  <2> QED BY <1>1, <2>1 DEF IInv, RowsAsked
<1> QED BY <1>a, <1>b, <1>1, <1>5, <1>8 DEF IInv

LEMMA AbortKeeps ==
  ASSUME IInv, NEW r \in Requests, Abort(r)
  PROVE  IInv'
<1>1. TypeOK'
  BY DEF IInv, Abort, Goto, TypeOK
<1>2. JobsMerge'
  BY DEF IInv, Abort, JobsMerge
<1>a. Asked'
  BY DEF IInv, TypeOK, Asked, Abort, Goto
<1>b. RowsAsked'
  BY DEF IInv, RowsAsked, Abort
<1> QED BY <1>a, <1>b, <1>1, <1>2 DEF IInv

LEMMA JobReadKeeps ==
  ASSUME IInv, NEW r \in Requests, JobRead(r)
  PROVE  IInv'
<1> DEFINE row == sources[found[r]]
<1>1. DOMAIN row = Columns /\ UNCHANGED <<sources, asked, landed, found>>
  BY DEF IInv, TypeOK, JobRead, Columns
<1>2. PICK html \in Pages, fetched \in BOOLEAN :
        job' = [job EXCEPT ![r] = [seen |-> row, new |->
          [f \in DOMAIN row |->
            IF f = "kind"
            THEN InferKind(found[r].host, html.type, Finalize(found[r], fetched))
            ELSE IF Snippet(html)[f] # None THEN Snippet(html)[f] ELSE row[f]]]]
  BY DEF JobRead
<1> DEFINE new == job'[r].new
<1>3. /\ DOMAIN job' = Requests
      /\ \A q \in Requests : q # r => job'[q] = job[q]
      /\ job'[r].seen = row
      /\ new = [f \in Columns |->
            IF f = "kind"
            THEN InferKind(found[r].host, html.type, Finalize(found[r], fetched))
            ELSE IF Snippet(html)[f] # None THEN Snippet(html)[f] ELSE row[f]]
  BY <1>1, <1>2 DEF IInv, JobsMerge
<1>4. \A f \in Fields : new[f] = None => row[f] = None
  BY <1>3, FreshRow DEF Columns
<1>5. DOMAIN new = Columns /\ new["kind"] \in {"video", "article", "other"}
  BY <1>3, Kinds DEF Columns
<1>6. JobsMerge'
  BY <1>1, <1>3, <1>4, <1>5 DEF IInv, JobsMerge
<1>7. TypeOK'
  BY <1>1 DEF IInv, JobRead, Goto, TypeOK
<1>a. Asked'
  BY DEF IInv, TypeOK, Asked, JobRead, Goto
<1>b. RowsAsked'
  BY DEF IInv, RowsAsked, JobRead
<1> QED BY <1>a, <1>b, <1>6, <1>7 DEF IInv

LEMMA JobEndKeeps ==
  ASSUME IInv, NEW r \in Requests, JobEnd(r)
  PROVE  IInv'
<1>1. TypeOK'
  BY DEF IInv, JobEnd, Goto, TypeOK
<1>2. JobsMerge'
  BY FreshRow DEF IInv, JobEnd, JobsMerge, NoJob
<1>a. Asked'
  BY DEF IInv, TypeOK, Asked, JobEnd, Goto
<1>b. RowsAsked'
  BY DEF IInv, RowsAsked, JobEnd
<1> QED BY <1>a, <1>b, <1>1, <1>2 DEF IInv

LEMMA JobBumpKeeps ==
  ASSUME IInv, NEW r \in Requests, JobBump(r)
  PROVE  IInv'
<1>1. TypeOK'
  BY DEF IInv, JobBump, Goto, TypeOK
<1>2. JobsMerge'
  BY DEF IInv, JobBump, JobsMerge
<1>a. Asked'
  BY DEF IInv, TypeOK, Asked, JobBump, Goto
<1>b. RowsAsked'
  BY DEF IInv, RowsAsked, JobBump
<1> QED BY <1>a, <1>b, <1>1, <1>2 DEF IInv

\* A column that the job writes is not empty; the others stay.
LEMMA JobCommitKeeps ==
  ASSUME IInv, NEW r \in Requests, JobCommit(r)
  PROVE  /\ IInv'
         /\ \A v \in DOMAIN sources, f \in Fields :
              sources[v][f] # None => sources'[v][f] # None
<1> DEFINE row == sources[found[r]]
           written == [f \in Columns |->
             IF job[r].new[f] # job[r].seen[f] THEN job[r].new[f] ELSE row[f]]
<1>1. found[r] \in DOMAIN sources /\ DOMAIN row = Columns
  BY DEF IInv, TypeOK, JobCommit, Columns
<1>2. /\ DOMAIN sources' = DOMAIN sources
      /\ \A v \in DOMAIN sources : v # found[r] => sources'[v] = sources[v]
      /\ sources'[found[r]] = written
  BY <1>1 DEF JobCommit
<1>3. DOMAIN written = Columns
  OBVIOUS
<1>4. written["kind"] \in {"video", "article", "other"}
  BY <1>1 DEF IInv, TypeOK, JobsMerge, Columns
<1>5. \A f \in Fields : row[f] # None => written[f] # None
  BY DEF IInv, JobsMerge, Columns
<1> HIDE DEF written
<1>6. TypeOK'
  BY <1>1, <1>2, <1>3, <1>4 DEF IInv, JobCommit, Goto, TypeOK, Columns
<1>7. JobsMerge'
  BY FreshRow DEF IInv, JobCommit, JobsMerge, NoJob
<1>a. Asked'
  BY DEF IInv, TypeOK, Asked, JobCommit, Goto
<1>b. RowsAsked'
  BY <1>2 DEF IInv, RowsAsked
<1> QED BY <1>a, <1>b, <1>2, <1>5, <1>6, <1>7 DEF IInv

LEMMA Step ==
  ASSUME IInv, [Next]_vars
  PROVE  IInv'
<1>1. CASE UNCHANGED vars
  BY <1>1 DEF vars, IInv, TypeOK, JobsMerge, Asked, RowsAsked
<1>2. CASE Next
  <2>1. PICK r \in Requests :
          \/ \E u \in Spellings : Ask(r, u)
          \/ Fetch(r) \/ Ensure(r) \/ Abort(r)
          \/ JobRead(r) \/ JobEnd(r) \/ JobBump(r) \/ JobCommit(r)
    BY <1>2 DEF Next
  <2> QED
    BY <2>1, AskKeeps, FetchKeeps, EnsureKeeps, AbortKeeps, JobReadKeeps, JobEndKeeps,
       JobBumpKeeps, JobCommitKeeps
<1> QED BY <1>1, <1>2

\* The inductive invariant: every row has all its columns, every request that was
\* given a row finds the one its address led to, every job's empty values are those it read.
THEOREM Invariant == Spec => []IInv
<1>1. Init => IInv
  BY Initially
<1>2. IInv /\ [Next]_vars => IInv'
  BY Step
<1> QED BY <1>1, <1>2, PTL DEF Spec

\* Type correctness, for any spellings and redirects.
THEOREM TypeCorrect == Spec => []TypeOK
<1>1. IInv => TypeOK
  BY DEF IInv
<1> QED BY <1>1, Invariant, PTL

\* Whatever requests and jobs overlap, a column that has a value keeps one.
THEOREM MetadataStays == Spec => MetadataNeverLost
<1> DEFINE Stays == \A u \in DOMAIN sources : \A f \in Fields :
                     sources[u][f] # None => sources'[u][f] # None
<1>1. ASSUME IInv, [Next]_vars
      PROVE  [Stays]_vars
  <2>1. CASE UNCHANGED vars
    BY <2>1
  <2>2. CASE Next
    <3>1. PICK r \in Requests :
            \/ \E u \in Spellings : Ask(r, u)
            \/ Fetch(r) \/ Ensure(r) \/ Abort(r)
            \/ JobRead(r) \/ JobEnd(r) \/ JobBump(r) \/ JobCommit(r)
      BY <2>2 DEF Next
    <3>2. CASE Ensure(r)
      BY <1>1, <3>2, EnsureKeeps
    <3>3. CASE JobCommit(r)
      BY <1>1, <3>3, JobCommitKeeps
    <3>4. CASE UNCHANGED sources
      BY <3>4
    <3> QED
      BY <3>1, <3>2, <3>3, <3>4 DEF Ask, Fetch, Abort, JobRead, JobEnd, JobBump
  <2> QED BY <1>1, <2>1, <2>2
<1> QED BY <1>1, Invariant, PTL DEF Spec, MetadataNeverLost

\* Where an address of the clients or a redirect leads has a typed query, a host, and
\* as its row its normal form.
LEMMA TargetIs ==
  ASSUME NEW a \in Spellings, ~Refused(a), NEW b \in BOOLEAN
  PROVE  LET w == IF b THEN Redirect[Normalize(a)] ELSE a IN
         w.query \in Seq(Values) /\ w.host # None /\ Finalize(a, b) = Normalize(w)
<1>1. a.query \in Seq(Values) /\ a.host # None
  BY SpellingsTyped DEF Refused
<1>2. LET end == Redirect[Normalize(a)] IN end.host # None /\ end.query \in Seq(Values)
  BY RedirectsLand
<1> QED BY <1>1, <1>2 DEF Finalize

\* Whatever is asked, however it is spelled and wherever it redirects, two requests
\* whose fetches had the same fate share a row exactly if they name one page.
THEOREM PagesNameRows == Spec => []SamePageSameRow
<1>1. ASSUME IInv
      PROVE  SamePageSameRow
  <2> SUFFICES ASSUME NEW r \in Requests, NEW q \in Requests,
                      found[r] # None, found[q] # None, landed[r] = landed[q]
               PROVE  LET Target(p) == IF landed[p] THEN Redirect[Normalize(asked[p])]
                                       ELSE asked[p] IN
                      SamePage(Target(r), Target(q)) <=> found[r] = found[q]
    BY DEF SamePageSameRow
  <2> DEFINE Target(p) == IF landed[p] THEN Redirect[Normalize(asked[p])] ELSE asked[p]
  <2>1. ASSUME NEW p \in Requests, found[p] # None
        PROVE  Target(p).query \in Seq(Values) /\ found[p] = Normalize(Target(p))
    <3>1. /\ asked[p] \in Spellings /\ ~Refused(asked[p]) /\ landed[p] \in BOOLEAN
          /\ found[p] = Finalize(asked[p], landed[p])
      BY <1>1, <2>1 DEF IInv, TypeOK, Asked
    <3> QED BY <3>1, TargetIs
  <2>2. /\ Target(r).query \in Seq(Values) /\ found[r] = Normalize(Target(r))
        /\ Target(q).query \in Seq(Values) /\ found[q] = Normalize(Target(q))
    BY <2>1
  <2> HIDE DEF Target
  <2>3. SamePage(Target(r), Target(q)) <=> found[r] = found[q]
    BY <2>2, NormalFormIsThePage
  <2> QED BY <2>3 DEF Target
<1> QED BY <1>1, Invariant, PTL

\* Every row's address, sent back to the service, is accepted and names that row.
THEOREM RowsFindThemselves == Spec => []RowsNameThemselves
<1>1. ASSUME IInv
      PROVE  RowsNameThemselves
  <2> SUFFICES ASSUME NEW u \in DOMAIN sources
               PROVE  ~Refused(u) /\ Normalize(u) = u
    BY DEF RowsNameThemselves
  <2>1. PICK a \in Spellings, b \in BOOLEAN : ~Refused(a) /\ u = Finalize(a, b)
    BY <1>1 DEF IInv, RowsAsked
  <2>2. PICK w : w.query \in Seq(Values) /\ w.host # None /\ u = Normalize(w)
    BY <2>1, TargetIs
  <2>3. Normalize(u) = u
    BY <2>2, NormalIsNormal
  <2>4. ~Refused(u)
    BY <2>2, NoneIsNoScheme DEF Normalize, Refused
  <2> QED BY <2>3, <2>4
<1> QED BY <1>1, Invariant, PTL
=============================================================================
