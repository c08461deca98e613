--------------------------- MODULE NotifyHubProofs ---------------------------
(***************************************************************************)
(* Proofs about NotifyHub for any users, streams, publishers, pages and    *)
(* capacity.                                                               *)
(*                                                                         *)
(* A stream is on the list of one user, once, and what a publisher has     *)
(* still to put to it is not among its packets yet: so nothing is put      *)
(* twice and nothing is forgotten.  A publisher that puts keeps the row of *)
(* its page, so that whoever was flushed before it for that page has ended *)
(* and has nothing left to put after it.                                   *)
(***************************************************************************)
EXTENDS NotifyHub, TLAPS, SequenceTheorems, FiniteSetTheorems

In(x, seq) == \E i \in DOMAIN seq : seq[i] = x
Distinct(seq) == \A i, j \in DOMAIN seq : seq[i] = seq[j] => i = j

\* A publisher is flushed once, before it publishes.
FlushedOnce ==
  /\ Distinct(flushed)
  /\ \A p \in Publishers : In(p, flushed) => pc[p] \notin {"idle", "bump"}
  /\ \A p \in Publishers : pc[p] \in {"publish", "committed"} => In(p, flushed)

SamePage(p, q) == page[p] = page[q] /\ page[p] # None
Before(p, q) == \E k, l \in DOMAIN flushed : k < l /\ flushed[k] = p /\ flushed[l] = q

\* One publisher of a page at a time, in the order of their flushes.
Locks ==
  /\ \A p \in Publishers : pc[p] = "publish" /\ page[p] # None => pageLock[page[p]] = p
  /\ \A k, l \in DOMAIN flushed :
       k < l /\ SamePage(flushed[k], flushed[l]) => pc[flushed[k]] \in Ended

\* An open stream is on the list of its reader, and on no other.
Listening(s) ==
  /\ sse[s] = "new" => queue[s] = <<>> /\ sent[s] = <<>>
  /\ held[s] # None => sse[s] = "sending"
  /\ sse[s] \in Open => reader[s] \in Users /\ In(s, channels[reader[s]])
  /\ \A u \in Users :
       In(s, channels[u]) => sse[s] # "new" /\ (sse[s] \in Open => reader[s] = u)
  /\ \A u, v \in Users : In(s, channels[u]) /\ In(s, channels[v]) => u = v

Lists == \A u \in Users : Distinct(channels[u])

Put(p, s) == In(p, Packets(s))

\* p has not started on the list that s is on, or has s still before it.
Pending(p, u, s) == IF left[p][u] = None THEN In(s, channels[u]) ELSE In(s, left[p][u])

Putting(p) ==
  /\ pc[p] # "publish" => \A u \in Users : left[p][u] = <<>>
  /\ \A u \in Users : left[p][u] # None => Distinct(left[p][u])
  /\ \A u \in Users, s \in Streams : Pending(p, u, s) => sse[s] # "new" /\ ~Put(p, s)
  /\ \A u, v \in Users, s \in Streams : Pending(p, u, s) /\ In(s, channels[v]) => u = v
  /\ \A u, v \in Users, s \in Streams : Pending(p, u, s) /\ Pending(p, v, s) => u = v

\* The packets of a stream are flushed, differ, and keep the order of their page.
Ordered(s) ==
  /\ \A p \in Publishers : Put(p, s) => In(p, flushed)
  /\ \A i, j \in DOMAIN Packets(s) : i < j =>
       /\ Packets(s)[i] # Packets(s)[j]
       /\ SamePage(Packets(s)[i], Packets(s)[j]) => Before(Packets(s)[i], Packets(s)[j])

Due(p, s) ==
  /\ pc[p] \in {"publish", "committed"} /\ sse[s] \in Open /\ reader[s] \in to[p]
  /\ \E k \in DOMAIN flushed : flushed[k] = p /\ k > since[s]

Reached(p, s) ==
  Due(p, s) => Put(p, s) \/ (pc[p] = "publish" /\ Pending(p, reader[s], s))

IInv ==
  /\ TypeOK /\ FlushedOnce /\ Locks /\ Lists
  /\ \A s \in Streams : Listening(s) /\ Ordered(s)
  /\ \A p \in Publishers : Putting(p) /\ \A s \in Streams : Reached(p, s)

-----------------------------------------------------------------------------
LEMMA Remainder ==
  \A n, m \in Int : 1 <= m /\ m <= n => (IF m + 1 <= n THEN n - (m + 1) + 1 ELSE 0) = n - m
OBVIOUS

\* What list.remove leaves.
LEMMA Removed ==
  ASSUME NEW seq \in Seq(Streams), Distinct(seq), NEW s \in Streams
  PROVE  /\ Without(seq, s) \in Seq(Streams)
         /\ Distinct(Without(seq, s))
         /\ \A t : In(t, Without(seq, s)) <=> In(t, seq) /\ t # s
<1>1. CASE ~In(s, seq)
  BY <1>1 DEF Without, In
<1>2. CASE In(s, seq)
  <2> DEFINE First(i) == seq[i] = s /\ \A j \in 1..(i - 1) : seq[j] # s
             i == CHOOSE k \in DOMAIN seq : First(k)
  <2>1. i \in DOMAIN seq /\ seq[i] = s
    <3>1. PICK k \in DOMAIN seq : seq[k] = s
      BY <1>2 DEF In
    <3>2. First(k)
      BY <3>1 DEF Distinct
    <3> QED BY <3>2
  <2> HIDE DEF i
  <2> DEFINE a == SubSeq(seq, 1, i - 1)
             b == SubSeq(seq, i + 1, Len(seq))
             w == a \o b
  <2>2. Without(seq, s) = w
    BY <1>2 DEF Without, In, i
  <2>3. i \in 1..Len(seq) /\ Len(seq) \in Nat /\ DOMAIN seq = 1..Len(seq)
    BY <2>1
  <2>4. /\ a \in Seq(Streams) /\ Len(a) = i - 1
        /\ \A j \in 1..(i - 1) : a[j] = seq[j]
    BY <2>3
  <2>5. /\ b \in Seq(Streams) /\ Len(b) = Len(seq) - i
        /\ \A j \in 1..(Len(seq) - i) : b[j] = seq[j + i]
    <3>1. \A j \in (i + 1)..Len(seq) : seq[j] \in Streams
      BY <2>3
    <3>2. /\ b \in Seq(Streams)
          /\ Len(b) = IF i + 1 <= Len(seq) THEN Len(seq) - (i + 1) + 1 ELSE 0
          /\ \A j \in 1..(Len(seq) - (i + 1) + 1) : b[j] = seq[i + 1 + j - 1]
      BY <2>3, <3>1, SubSeqProperties
    <3> HIDE DEF b
    <3>3. Len(b) = Len(seq) - i
      <4>1. i \in Int /\ Len(seq) \in Int /\ 1 <= i /\ i <= Len(seq)
        BY <2>3
      <4>2. (IF i + 1 <= Len(seq) THEN Len(seq) - (i + 1) + 1 ELSE 0) = Len(seq) - i
        BY <4>1, Remainder
      <4>3. Len(b) = IF i + 1 <= Len(seq) THEN Len(seq) - (i + 1) + 1 ELSE 0
        BY <3>2
      <4> QED BY <4>2, <4>3
    <3>4. ASSUME NEW j \in 1..(Len(seq) - i) PROVE b[j] = seq[j + i]
      <4>1. i + 1 + j - 1 = j + i /\ j \in 1..(Len(seq) - (i + 1) + 1)
        BY <2>3
      <4> QED BY <3>2, <4>1
    <3> QED BY <3>2, <3>3, <3>4
  <2> HIDE DEF a, b
  <2>6. /\ w \in Seq(Streams) /\ Len(w) = Len(seq) - 1
        /\ \A j \in 1..(Len(seq) - 1) : w[j] = IF j < i THEN seq[j] ELSE seq[j + 1]
    <3>1. /\ w \in Seq(Streams) /\ Len(w) = Len(a) + Len(b)
          /\ \A j \in 1..(Len(a) + Len(b)) :
               w[j] = IF j <= Len(a) THEN a[j] ELSE b[j - Len(a)]
      BY <2>4, <2>5, ConcatProperties
    <3>2. Len(w) = Len(seq) - 1
      BY <2>3, <2>4, <2>5, <3>1
    <3>3. ASSUME NEW j \in 1..(Len(seq) - 1), j < i PROVE w[j] = seq[j]
      BY <2>3, <2>4, <2>5, <3>1, <3>3
    <3>4. ASSUME NEW j \in 1..(Len(seq) - 1), ~(j < i) PROVE w[j] = seq[j + 1]
      <4>1. w[j] = b[j - (i - 1)] /\ j - (i - 1) \in 1..(Len(seq) - i)
        BY <2>3, <2>4, <2>5, <3>1, <3>4
      <4>2. j - (i - 1) + i = j + 1
        BY <2>3
      <4> QED BY <2>5, <4>1, <4>2
    <3> QED BY <3>1, <3>2, <3>3, <3>4
  <2>7. DOMAIN w = 1..(Len(seq) - 1)
    BY <2>6
  <2> HIDE DEF w
  <2>8. Distinct(w)
    BY <2>3, <2>6, <2>7 DEF Distinct
  <2>9. ASSUME NEW t PROVE In(t, w) <=> In(t, seq) /\ t # s
    <3>1. ASSUME In(t, w) PROVE In(t, seq) /\ t # s
      BY <2>1, <2>3, <2>6, <2>7, <3>1 DEF In, Distinct
    <3>2. ASSUME In(t, seq), t # s PROVE In(t, w)
      <4>1. PICK k \in 1..Len(seq) : seq[k] = t
        BY <2>3, <3>2 DEF In
      <4>2. CASE k < i
        BY <2>3, <2>6, <2>7, <4>1, <4>2 DEF In
      <4>3. CASE k > i
        <5>1. k - 1 \in DOMAIN w /\ w[k - 1] = seq[k]
          BY <2>3, <2>6, <2>7, <4>3
        <5> QED BY <4>1, <5>1 DEF In
      <4> QED BY <2>1, <2>3, <3>2, <4>1, <4>2, <4>3
    <3> QED BY <3>1, <3>2
  <2> QED BY <2>2, <2>6, <2>8, <2>9
<1> QED BY <1>1, <1>2

LEMMA EmptyList == <<>> # None /\ \A s : ~In(s, <<>>)
<1>1. <<>> \in Seq(Streams)
  OBVIOUS
<1>2. \A s : ~In(s, <<>>)
  BY DEF In
<1> QED BY <1>1, <1>2, NoneIsNone

LEMMA PacketsType ==
  ASSUME TypeOK, NEW s \in Streams
  PROVE  Packets(s) \in Seq(Publishers)
BY DEF TypeOK, Packets

LEMMA Initially == Init => IInv
<1> SUFFICES ASSUME Init PROVE IInv
  OBVIOUS
<1> USE DEF Init, StreamInit
<1>1. TypeOK
  BY CapacityPositive DEF TypeOK
<1>2. FlushedOnce /\ Locks /\ Lists
  BY DEF FlushedOnce, Locks, Lists, In, Distinct
<1>3. ASSUME NEW s \in Streams PROVE Listening(s) /\ Ordered(s)
  <2>1. Packets(s) = <<>>
    BY DEF Packets
  <2> QED BY <2>1 DEF Listening, Ordered, Put, In, Open
<1>4. ASSUME NEW p \in Publishers PROVE Putting(p) /\ \A s \in Streams : Reached(p, s)
  BY NoneIsNone DEF Putting, Pending, In, Distinct, Reached, Due
<1> QED BY <1>1, <1>2, <1>3, <1>4 DEF IInv

-----------------------------------------------------------------------------
LEMMA Uncons ==
  ASSUME NEW S, NEW q \in Seq(S), q # <<>>
  PROVE  /\ Head(q) \in S /\ Tail(q) \in Seq(S) /\ Len(Tail(q)) = Len(q) - 1
         /\ <<Head(q)>> \o Tail(q) = q
<1>1. Head(q) \in S /\ Tail(q) \in Seq(S) /\ Len(Tail(q)) = Len(q) - 1
  BY HeadTailProperties
<1>2. Len(q) \in Nat \ {0}
  BY EmptySeq
<1>3. SubSeq(q, 1, Len(q)) = <<q[1]>> \o SubSeq(q, 2, Len(q))
  <2>1. 1 \in 1..Len(q) /\ Len(q) \in 1..Len(q)
    BY <1>2
  <2>2. SubSeq(q, 1, Len(q)) = <<q[1]>> \o SubSeq(q, 1 + 1, Len(q))
    BY <2>1, SubSeqRecursiveFirst
  <2> QED BY <2>2
<1>4. Head(q) = q[1] /\ Tail(q) = SubSeq(q, 2, Len(q)) /\ SubSeq(q, 1, Len(q)) = q
  BY TailIsSubSeq, SubSeqFull
<1> QED BY <1>1, <1>3, <1>4

\* What is no more than a packet's way from the queue to the client.
LEMMA PacketsMove ==
  ASSUME IInv,
         TypeOK', \A s \in Streams : Listening(s)' /\ Packets(s)' = Packets(s),
         \A s \in Streams : /\ sse'[s] \in Open <=> sse[s] \in Open
                            /\ sse'[s] = "new" <=> sse[s] = "new",
         UNCHANGED <<channels, reader, since, request>>
  PROVE  IInv'
<1>1. UNCHANGED <<pc, to, page, left, pageLock, flushed>>
  BY DEF request
<1>2. FlushedOnce' /\ Locks' /\ Lists'
  BY <1>1 DEF IInv, FlushedOnce, Locks, Lists, SamePage
<1>3. ASSUME NEW s \in Streams PROVE Ordered(s)'
  BY <1>1 DEF IInv, Ordered, Put, SamePage, Before
<1>4. ASSUME NEW p \in Publishers PROVE Putting(p)' /\ \A s \in Streams : Reached(p, s)'
  <2>1. Putting(p) /\ \A s \in Streams : Reached(p, s)
    BY DEF IInv
  <2>2. \A s \in Streams : \A u : Put(p, s)' = Put(p, s) /\ Pending(p, u, s)' = Pending(p, u, s)
    BY <1>1 DEF Put, Pending
  <2>3. Putting(p)'
    BY <1>1, <2>1, <2>2 DEF Putting
  <2>4. \A s \in Streams : Reached(p, s)'
    BY <1>1, <2>1, <2>2 DEF Reached, Due
  <2> QED BY <2>3, <2>4
<1> QED BY <1>2, <1>3, <1>4 DEF IInv

LEMMA StutterKeeps == IInv /\ UNCHANGED vars => IInv'
<1> SUFFICES ASSUME IInv, UNCHANGED vars PROVE IInv'
  OBVIOUS
<1>1. UNCHANGED <<channels, queue, held, sse, reader, since, sent,
                  pc, to, page, left, pageLock, flushed>>
  BY DEF vars, stream, request
<1>2. TypeOK'
  BY <1>1 DEF IInv, TypeOK
<1>3. ASSUME NEW s \in Streams PROVE Listening(s)' /\ Packets(s)' = Packets(s)
  BY <1>1 DEF IInv, Listening, Packets
<1> QED BY <1>1, <1>2, <1>3, PacketsMove DEF request

LEMMA TakeKeeps ==
  ASSUME IInv, NEW s \in Streams, Take(s)
  PROVE  IInv' /\ \A t \in Streams : Packets(t)' = Packets(t)
<1>0. TypeOK /\ \A t \in Streams : Listening(t)
  BY DEF IInv
<1>1. /\ sse[s] = "waiting" /\ queue[s] # <<>> /\ queue[s] \in Seq(Publishers)
      /\ held' = [held EXCEPT ![s] = Head(queue[s])]
      /\ queue' = [queue EXCEPT ![s] = Tail(queue[s])]
      /\ sse' = [sse EXCEPT ![s] = "sending"]
      /\ UNCHANGED <<channels, reader, since, sent, request>>
  BY <1>0 DEF Take, TypeOK
<1>2. UNCHANGED <<pc, to, page, left, pageLock, flushed>>
  BY <1>1 DEF request
<1>3. /\ Head(queue[s]) \in Publishers /\ Tail(queue[s]) \in Seq(Publishers)
      /\ Len(Tail(queue[s])) = Len(queue[s]) - 1
      /\ <<Head(queue[s])>> \o Tail(queue[s]) = queue[s]
  BY <1>1, Uncons
<1>4. TypeOK'
  <2>1. \A t \in Streams : Len(queue'[t]) <= Capacity
    BY <1>0, <1>1, <1>3, CapacityPositive DEF TypeOK
  <2> QED BY <1>0, <1>1, <1>2, <1>3, <2>1 DEF TypeOK, Open
<1>5. ASSUME NEW t \in Streams PROVE Listening(t)'
  BY <1>0, <1>1 DEF Listening, TypeOK, Open
<1>6. ASSUME NEW t \in Streams PROVE Packets(t)' = Packets(t)
  <2>1. CASE t = s
    <3>1. held[s] = None
      BY <1>0, <1>1 DEF Listening
    <3>2. /\ held'[s] = Head(queue[s]) /\ held'[s] # None
          /\ queue'[s] = Tail(queue[s]) /\ sent'[s] = sent[s]
      BY <1>0, <1>1, <1>3, NoneIsNone DEF TypeOK
    <3> DEFINE h == <<Head(queue[s])>>
               q == Tail(queue[s])
    <3>3. sent[s] \in Seq(Publishers) /\ h \in Seq(Publishers) /\ q \in Seq(Publishers)
      BY <1>0, <1>3 DEF TypeOK
    <3>4. Packets(s)' = (sent[s] \o h) \o q
      BY <3>2 DEF Packets
    <3>5. Packets(s) = (sent[s] \o <<>>) \o (h \o q)
      BY <1>3, <3>1 DEF Packets
    <3> HIDE DEF h, q
    <3>6. (sent[s] \o h) \o q = sent[s] \o (h \o q)
      <4> HIDE DEF h, q
      <4>1. \A S : \A a, b, c \in Seq(S) : (a \o b) \o c = a \o (b \o c)
        BY ConcatAssociative
      <4>2. \A a, b, c \in Seq(Publishers) : (a \o b) \o c = a \o (b \o c)
        BY <4>1
      <4> QED BY <3>3, <4>2, Zenon
    <3>7. sent[s] \o <<>> = sent[s]
      BY <3>3, ConcatEmptySeq
    <3> QED BY <2>1, <3>4, <3>5, <3>6, <3>7
  <2>2. CASE t # s
    BY <1>0, <1>1, <2>2 DEF Packets, TypeOK
  <2> QED BY <2>1, <2>2
<1>7. \A t \in Streams : /\ sse'[t] \in Open <=> sse[t] \in Open
                         /\ sse'[t] = "new" <=> sse[t] = "new"
  BY <1>0, <1>1 DEF TypeOK, Open
<1> QED BY <1>1, <1>4, <1>5, <1>6, <1>7, PacketsMove

LEMMA PingKeeps == ASSUME IInv, NEW s \in Streams, Ping(s) PROVE IInv'
<1>0. TypeOK /\ \A t \in Streams : Listening(t)
  BY DEF IInv
<1>1. /\ sse[s] = "waiting" /\ sse' = [sse EXCEPT ![s] = "sending"]
      /\ UNCHANGED <<channels, queue, held, reader, since, sent, request>>
  BY DEF Ping
<1>2. UNCHANGED <<pc, to, page, left, pageLock, flushed>>
  BY <1>1 DEF request
<1>3. TypeOK'
  BY <1>0, <1>1, <1>2 DEF TypeOK, Open
<1>4. ASSUME NEW t \in Streams PROVE Listening(t)' /\ Packets(t)' = Packets(t)
  BY <1>0, <1>1 DEF Listening, TypeOK, Open, Packets
<1>5. \A t \in Streams : /\ sse'[t] \in Open <=> sse[t] \in Open
                         /\ sse'[t] = "new" <=> sse[t] = "new"
  BY <1>0, <1>1 DEF TypeOK, Open
<1> QED BY <1>1, <1>3, <1>4, <1>5, PacketsMove

LEMMA DeliverKeeps ==
  ASSUME IInv, NEW s \in Streams, Deliver(s)
  PROVE  IInv' /\ \A t \in Streams : Packets(t)' = Packets(t)
<1>0. TypeOK /\ \A t \in Streams : Listening(t)
  BY DEF IInv
<1>1. /\ sse[s] = "sending" /\ sse' = [sse EXCEPT ![s] = "waiting"]
      /\ sent' = [sent EXCEPT ![s] = IF held[s] = None THEN sent[s] ELSE Append(sent[s], held[s])]
      /\ held' = [held EXCEPT ![s] = None]
      /\ UNCHANGED <<channels, queue, reader, since, request>>
  BY <1>0 DEF Deliver, TypeOK
<1>2. UNCHANGED <<pc, to, page, left, pageLock, flushed>>
  BY <1>1 DEF request
<1>3. held[s] \in Publishers \cup {None} /\ sent[s] \in Seq(Publishers)
      /\ queue[s] \in Seq(Publishers)
  BY <1>0 DEF TypeOK
<1>4. TypeOK'
  <2>1. (IF held[s] = None THEN sent[s] ELSE Append(sent[s], held[s])) \in Seq(Publishers)
    BY <1>3, AppendProperties
  <2> QED BY <1>0, <1>1, <1>2, <2>1 DEF TypeOK, Open
<1>5. ASSUME NEW t \in Streams PROVE Listening(t)'
  BY <1>0, <1>1 DEF Listening, TypeOK, Open
<1>6. ASSUME NEW t \in Streams PROVE Packets(t)' = Packets(t)
  <2>1. CASE t = s /\ held[s] = None
    BY <1>0, <1>1, <2>1 DEF Packets, TypeOK
  <2>2. CASE t = s /\ held[s] # None
    <3> DEFINE h == held[s]
    <3>1. h \in Publishers /\ <<h>> \in Seq(Publishers)
      BY <1>3, <2>2
    <3>2. sent'[s] = sent[s] \o <<h>> /\ held'[s] = None /\ queue'[s] = queue[s]
      BY <1>0, <1>1, <1>3, <2>2, <3>1, AppendIsConcat DEF TypeOK
    <3>3. sent[s] \o <<h>> \in Seq(Publishers)
      BY <1>3, <3>1, ConcatProperties
    <3>4. (sent[s] \o <<h>>) \o <<>> = sent[s] \o <<h>>
      BY <3>3, ConcatEmptySeq
    <3> QED BY <2>2, <3>2, <3>4 DEF Packets
  <2>3. CASE t # s
    BY <1>0, <1>1, <2>3 DEF Packets, TypeOK
  <2> QED BY <2>1, <2>2, <2>3
<1>7. \A t \in Streams : /\ sse'[t] \in Open <=> sse[t] \in Open
                         /\ sse'[t] = "new" <=> sse[t] = "new"
  BY <1>0, <1>1 DEF TypeOK, Open
<1> QED BY <1>1, <1>4, <1>5, <1>6, <1>7, PacketsMove

-----------------------------------------------------------------------------
LEMMA Appended ==
  ASSUME NEW S, NEW seq \in Seq(S), NEW x \in S
  PROVE  /\ Append(seq, x) \in Seq(S)
         /\ \A t : In(t, Append(seq, x)) <=> In(t, seq) \/ t = x
         /\ Distinct(seq) /\ ~In(x, seq) => Distinct(Append(seq, x))
<1> DEFINE w == Append(seq, x)
<1>1. /\ w \in Seq(S) /\ Len(w) = Len(seq) + 1 /\ Len(seq) \in Nat
      /\ \A i \in 1..Len(seq) : w[i] = seq[i]
      /\ w[Len(seq) + 1] = x
  BY AppendProperties
<1>2. DOMAIN w = 1..(Len(seq) + 1) /\ DOMAIN seq = 1..Len(seq)
  BY <1>1
<1> HIDE DEF w
<1>3. ASSUME NEW t PROVE In(t, w) <=> In(t, seq) \/ t = x
  <2>1. ASSUME In(t, w) PROVE In(t, seq) \/ t = x
    <3>1. PICK i \in 1..(Len(seq) + 1) : w[i] = t
      BY <1>2, <2>1 DEF In
    <3> QED BY <1>1, <1>2, <3>1 DEF In
  <2>2. ASSUME In(t, seq) PROVE In(t, w)
    <3>1. PICK i \in 1..Len(seq) : seq[i] = t
      BY <1>2, <2>2 DEF In
    <3>2. i \in DOMAIN w /\ w[i] = t
      BY <1>1, <1>2, <3>1
    <3> QED BY <3>2 DEF In
  <2>3. ASSUME t = x PROVE In(t, w)
    BY <1>1, <1>2, <2>3 DEF In
  <2> QED BY <2>1, <2>2, <2>3
<1>4. Distinct(seq) /\ ~In(x, seq) => Distinct(w)
  BY <1>1, <1>2 DEF Distinct, In
<1> QED BY <1>1, <1>3, <1>4 DEF w

LEMMA SubscribeKeeps ==
  ASSUME IInv, NEW s \in Streams, NEW u \in Users, Subscribe(s, u)
  PROVE  IInv'
<1>0. /\ TypeOK /\ Lists /\ \A t \in Streams : Listening(t) /\ Ordered(t)
      /\ \A p \in Publishers : Putting(p) /\ \A t \in Streams : Reached(p, t)
  BY DEF IInv
<1>1. /\ sse[s] = "new" /\ sse' = [sse EXCEPT ![s] = "waiting"]
      /\ channels' = [channels EXCEPT ![u] = Append(channels[u], s)]
      /\ reader' = [reader EXCEPT ![s] = u]
      /\ since' = [since EXCEPT ![s] = Len(flushed)]
      /\ UNCHANGED <<queue, held, sent, request>>
  BY <1>0 DEF Subscribe, TypeOK
<1>2. UNCHANGED <<pc, to, page, left, pageLock, flushed>>
  BY <1>1 DEF request
<1>3. /\ channels'[u] \in Seq(Streams)
      /\ \A t : In(t, channels'[u]) <=> In(t, channels[u]) \/ t = s
      /\ Distinct(channels'[u])
  <2>1. channels[u] \in Seq(Streams) /\ channels'[u] = Append(channels[u], s)
    BY <1>0, <1>1 DEF TypeOK
  <2>2. Distinct(channels[u]) /\ ~In(s, channels[u])
    BY <1>0, <1>1 DEF Lists, Listening
  <2> QED BY <2>1, <2>2, Appended
<1>4. \A v \in Users : v # u => channels'[v] = channels[v]
  BY <1>0, <1>1 DEF TypeOK
<1>5. TypeOK'
  <2>1. Len(flushed) \in 0..Len(flushed)
    BY <1>0 DEF TypeOK
  <2> QED BY <1>0, <1>1, <1>2, <1>3, <2>1 DEF TypeOK, Open
<1>6. FlushedOnce' /\ Locks'
  BY <1>2 DEF IInv, FlushedOnce, Locks, SamePage
<1>7. Lists'
  BY <1>0, <1>3, <1>4 DEF Lists
<1>8. \A v \in Users, t \in Streams :
        In(t, channels'[v]) <=> In(t, channels[v]) \/ (v = u /\ t = s)
  BY <1>3, <1>4
<1>9. \A v \in Users : ~In(s, channels[v])
  BY <1>0, <1>1 DEF Listening
<1>10. ASSUME NEW t \in Streams PROVE Listening(t)'
  BY <1>0, <1>1, <1>8, <1>9 DEF Listening, TypeOK, Open
<1>11. \A t \in Streams : Packets(t)' = Packets(t)
  BY <1>1 DEF Packets
<1>12. ASSUME NEW t \in Streams PROVE Ordered(t)'
  BY <1>0, <1>2, <1>11 DEF Ordered, Put, SamePage, Before
<1>13. Packets(s) = <<>>
  <2>1. held[s] = None /\ queue[s] = <<>> /\ sent[s] = <<>>
    BY <1>0, <1>1 DEF Listening
  <2> QED BY <2>1 DEF Packets
<1>14. ASSUME NEW p \in Publishers PROVE Putting(p)' /\ \A t \in Streams : Reached(p, t)'
  <2>1. \A v \in Users, t \in Streams :
          Pending(p, v, t)' <=> Pending(p, v, t) \/ (left[p][v] = None /\ v = u /\ t = s)
    BY <1>2, <1>8 DEF Pending
  <2>2. \A t \in Streams : Put(p, t)' = Put(p, t)
    BY <1>11 DEF Put
  <2>3. ~Put(p, s)
    BY <1>13 DEF Put, In
  <2>4. \A v \in Users : ~Pending(p, v, s)
    BY <1>0, <1>1 DEF Putting
  <2>5. \A t \in Streams : sse'[t] = "new" => sse[t] = "new" /\ t # s
    BY <1>0, <1>1 DEF TypeOK
  <2>6. Putting(p)'
    <3>1. (pc[p] # "publish" => \A v \in Users : left[p][v] = <<>>)'
      BY <1>0, <1>2 DEF Putting
    <3>2. (\A v \in Users : left[p][v] # None => Distinct(left[p][v]))'
      BY <1>0, <1>2 DEF Putting
    <3>3. \A v \in Users, t \in Streams : Pending(p, v, t)' => sse'[t] # "new" /\ ~Put(p, t)'
      BY <1>0, <2>1, <2>2, <2>3, <2>5 DEF Putting
    <3>4. \A v, w \in Users, t \in Streams : Pending(p, v, t)' /\ In(t, channels'[w]) => v = w
      BY <1>0, <1>8, <1>9, <2>1, <2>4 DEF Putting
    <3>5. \A v, w \in Users, t \in Streams : Pending(p, v, t)' /\ Pending(p, w, t)' => v = w
      BY <1>0, <2>1, <2>4 DEF Putting
    <3> QED BY <3>1, <3>2, <3>3, <3>4, <3>5 DEF Putting
  <2>7. ASSUME NEW t \in Streams PROVE Reached(p, t)'
    <3>1. CASE t = s
      <4>1. since'[s] = Len(flushed) /\ flushed \in Seq(Publishers)
        BY <1>0, <1>1 DEF TypeOK
      <4>2. ~Due(p, s)'
        BY <1>2, <4>1 DEF Due
      <4> QED BY <3>1, <4>2 DEF Reached
    <3>2. CASE t # s
      <4>1. sse'[t] = sse[t] /\ reader'[t] = reader[t] /\ since'[t] = since[t]
        BY <1>0, <1>1, <3>2 DEF TypeOK
      <4>2. Due(p, t)' => Due(p, t) /\ reader[t] \in Users
        BY <1>0, <1>2, <4>1 DEF Due, Listening
      <4> QED BY <1>0, <1>2, <2>1, <2>2, <4>1, <4>2 DEF Reached
    <3> QED BY <3>1, <3>2
  <2> QED BY <2>6, <2>7
<1> QED BY <1>5, <1>6, <1>7, <1>10, <1>12, <1>14 DEF IInv

-----------------------------------------------------------------------------
\* A stream that ends: what stays of its packets are the last of them.
LEMMA Departs ==
  ASSUME IInv, NEW s \in Streams, TypeOK', Lists', UNCHANGED request,
         sse'[s] \notin Open \cup {"new"}, held'[s] = None,
         \A t \in Streams : t # s =>
           /\ sse'[t] = sse[t] /\ reader'[t] = reader[t] /\ since'[t] = since[t]
           /\ queue'[t] = queue[t] /\ held'[t] = held[t] /\ sent'[t] = sent[t],
         \A t \in Streams, u \in Users :
           /\ In(t, channels'[u]) => In(t, channels[u])
           /\ t # s => (In(t, channels[u]) => In(t, channels'[u])),
         Ordered(s)', \A p \in Publishers : Put(p, s)' => Put(p, s),
         sse[s] # "new"
  PROVE  IInv'
<1>0. /\ TypeOK /\ \A t \in Streams : Listening(t) /\ Ordered(t)
      /\ \A p \in Publishers : Putting(p) /\ \A t \in Streams : Reached(p, t)
  BY DEF IInv
<1>1. UNCHANGED <<pc, to, page, left, pageLock, flushed>>
  BY DEF request
<1>2. FlushedOnce' /\ Locks'
  BY <1>1 DEF IInv, FlushedOnce, Locks, SamePage
<1>3. ASSUME NEW t \in Streams PROVE Listening(t)'
  BY <1>0 DEF Listening
<1>4. \A t \in Streams : t # s => Packets(t)' = Packets(t)
  BY DEF Packets
<1>5. ASSUME NEW t \in Streams PROVE Ordered(t)'
  BY <1>0, <1>1, <1>4 DEF Ordered, Put, SamePage, Before
<1>6. ASSUME NEW p \in Publishers PROVE Putting(p)' /\ \A t \in Streams : Reached(p, t)'
  <2>1. \A v \in Users, t \in Streams :
          /\ Pending(p, v, t)' => Pending(p, v, t)
          /\ t # s => (Pending(p, v, t) => Pending(p, v, t)')
    BY <1>1 DEF Pending
  <2>2. \A t \in Streams : (Put(p, t)' => Put(p, t)) /\ (t # s => Put(p, t)' = Put(p, t))
    BY <1>4 DEF Put
  <2>3. Putting(p)'
    <3>1. (pc[p] # "publish" => \A v \in Users : left[p][v] = <<>>)'
      BY <1>0, <1>1 DEF Putting
    <3>2. (\A v \in Users : left[p][v] # None => Distinct(left[p][v]))'
      BY <1>0, <1>1 DEF Putting
    <3>3. \A v \in Users, t \in Streams : Pending(p, v, t)' => sse'[t] # "new" /\ ~Put(p, t)'
      BY <1>0, <2>1, <2>2 DEF Putting
    <3>4. \A v, w \in Users, t \in Streams : Pending(p, v, t)' /\ In(t, channels'[w]) => v = w
      BY <1>0, <2>1 DEF Putting
    <3>5. \A v, w \in Users, t \in Streams : Pending(p, v, t)' /\ Pending(p, w, t)' => v = w
      BY <1>0, <2>1 DEF Putting
    <3> QED BY <3>1, <3>2, <3>3, <3>4, <3>5 DEF Putting
  <2>4. ASSUME NEW t \in Streams PROVE Reached(p, t)'
    <3>1. CASE t = s
      BY <3>1 DEF Reached, Due
    <3>2. CASE t # s
      <4>1. Due(p, t)' => Due(p, t) /\ reader[t] \in Users
        BY <1>0, <1>1, <3>2 DEF Due, Listening
      <4> QED BY <1>0, <1>1, <2>1, <2>2, <3>2, <4>1 DEF Reached
    <3> QED BY <3>1, <3>2
  <2> QED BY <2>3, <2>4
<1> QED BY <1>2, <1>3, <1>5, <1>6 DEF IInv

LEMMA Suffix ==
  ASSUME NEW S, NEW a \in Seq(S), NEW b \in Seq(S)
  PROVE  /\ Len(a) \in Nat /\ DOMAIN b \subseteq Nat
         /\ \A i \in DOMAIN b : Len(a) + i \in DOMAIN (a \o b) /\ (a \o b)[Len(a) + i] = b[i]
<1>1. /\ a \o b \in Seq(S) /\ Len(a \o b) = Len(a) + Len(b)
      /\ \A i \in 1..(Len(a) + Len(b)) :
           (a \o b)[i] = IF i <= Len(a) THEN a[i] ELSE b[i - Len(a)]
  BY ConcatProperties
<1>2. Len(a) \in Nat /\ DOMAIN b = 1..Len(b) /\ Len(b) \in Nat
  OBVIOUS
<1>3. DOMAIN (a \o b) = 1..(Len(a) + Len(b))
  BY <1>1
<1>4. ASSUME NEW i \in DOMAIN b PROVE (a \o b)[Len(a) + i] = b[i]
  <2>1. Len(a) + i \in 1..(Len(a) + Len(b)) /\ ~(Len(a) + i <= Len(a)) /\ (Len(a) + i) - Len(a) = i
    BY <1>2
  <2> QED BY <1>1, <2>1
<1> QED BY <1>2, <1>3, <1>4

LEMMA LeaveKeeps == ASSUME IInv, NEW s \in Streams, Leave(s) PROVE IInv'
<1>0. /\ TypeOK /\ Lists /\ \A t \in Streams : Listening(t) /\ Ordered(t)
  BY DEF IInv
<1>1. /\ sse[s] \in Open /\ sse' = [sse EXCEPT ![s] = sse'[s]] /\ sse'[s] \in {"closed", "gone"}
      /\ UNCHANGED channels \/ channels' = [u \in Users |-> Without(channels[u], s)]
      /\ UNCHANGED <<queue, request>>
  BY <1>0 DEF Leave, Unsubscribe, Open, TypeOK
<1>2. /\ held' = [held EXCEPT ![s] = None] /\ reader' = [reader EXCEPT ![s] = None]
      /\ since' = [since EXCEPT ![s] = 0] /\ sent' = [sent EXCEPT ![s] = <<>>]
  BY DEF Leave, Forget
<1>3. UNCHANGED <<pc, to, page, left, pageLock, flushed>>
  BY <1>1 DEF request
<1>4. ASSUME NEW u \in Users
      PROVE  /\ channels'[u] \in Seq(Streams) /\ Distinct(channels'[u])
             /\ \A t : In(t, channels'[u]) => In(t, channels[u])
             /\ \A t : t # s => (In(t, channels[u]) => In(t, channels'[u]))
  <2>1. channels[u] \in Seq(Streams) /\ Distinct(channels[u])
    BY <1>0 DEF TypeOK, Lists
  <2> QED BY <1>1, <2>1, Removed
<1>5. TypeOK'
  <2>1. channels' \in [Users -> Seq(Streams)]
    BY <1>0, <1>1, <1>4 DEF TypeOK
  <2>2. sse' \in [Streams -> Open \cup {"new", "gone", "closed"}]
    BY <1>0, <1>1 DEF TypeOK
  <2>3. 0 \in 0..Len(flushed)
    BY <1>0 DEF TypeOK
  <2> QED BY <1>0, <1>1, <1>2, <1>3, <2>1, <2>2, <2>3 DEF TypeOK
<1>6. Lists'
  BY <1>4 DEF Lists
<1>7. held'[s] = None /\ sent'[s] = <<>> /\ queue'[s] = queue[s]
  BY <1>0, <1>1, <1>2 DEF TypeOK
<1> DEFINE a == sent[s] \o (IF held[s] = None THEN <<>> ELSE <<held[s]>>)
           b == queue[s]
<1>8. a \in Seq(Publishers) /\ b \in Seq(Publishers) /\ Packets(s) = a \o b
  <2>1. sent[s] \in Seq(Publishers) /\ b \in Seq(Publishers)
        /\ held[s] \in Publishers \cup {None}
    BY <1>0 DEF TypeOK
  <2>2. (IF held[s] = None THEN <<>> ELSE <<held[s]>>) \in Seq(Publishers)
    BY <2>1
  <2> QED BY <2>1, <2>2, ConcatProperties DEF Packets
<1> HIDE DEF a
<1>9. Packets(s)' = b
  <2>1. (<<>> \o <<>>) \o b = b
    BY <1>8, ConcatEmptySeq
  <2> QED BY <1>7, <2>1 DEF Packets
<1>10. /\ Len(a) \in Nat /\ DOMAIN b \subseteq Nat
       /\ \A i \in DOMAIN b : Len(a) + i \in DOMAIN Packets(s) /\ Packets(s)[Len(a) + i] = b[i]
  BY <1>8, Suffix
<1> HIDE DEF b
<1>11. ASSUME NEW p \in Publishers, Put(p, s)' PROVE Put(p, s)
  <2>1. PICK i \in DOMAIN b : b[i] = p
    BY <1>9, <1>11 DEF Put, In
  <2> QED BY <1>10, <2>1 DEF Put, In
<1>12. Ordered(s)'
  <2>1. \A p \in Publishers : Put(p, s)' => In(p, flushed)
    BY <1>0, <1>11 DEF Ordered
  <2>2. ASSUME NEW i \in DOMAIN b, NEW j \in DOMAIN b, i < j
        PROVE  b[i] # b[j] /\ (SamePage(b[i], b[j]) => Before(b[i], b[j]))
    <3>1. Len(a) + i < Len(a) + j
      BY <1>10, <2>2
    <3> QED BY <1>0, <1>10, <3>1 DEF Ordered
  <2> QED BY <1>3, <1>9, <2>1, <2>2 DEF Ordered, SamePage, Before
<1>13. \A t \in Streams : t # s =>
         /\ sse'[t] = sse[t] /\ reader'[t] = reader[t] /\ since'[t] = since[t]
         /\ queue'[t] = queue[t] /\ held'[t] = held[t] /\ sent'[t] = sent[t]
  BY <1>0, <1>1, <1>2 DEF TypeOK
<1>14. sse'[s] \notin Open \cup {"new"} /\ sse[s] # "new"
  BY <1>1 DEF Open
<1> QED BY <1>1, <1>4, <1>5, <1>6, <1>7, <1>11, <1>12, <1>13, <1>14, Departs

LEMMA TeardownKeeps == ASSUME IInv, NEW s \in Streams, Teardown(s) PROVE IInv'
<1>0. /\ TypeOK /\ Lists /\ \A t \in Streams : Listening(t) /\ Ordered(t)
  BY DEF IInv
<1>1. /\ sse[s] = "gone" /\ sse' = [sse EXCEPT ![s] = "closed"]
      /\ channels' = [u \in Users |-> Without(channels[u], s)]
      /\ UNCHANGED <<queue, held, reader, since, sent, request>>
  BY DEF Teardown, Unsubscribe
<1>2. UNCHANGED <<pc, to, page, left, pageLock, flushed>>
  BY <1>1 DEF request
<1>3. ASSUME NEW u \in Users
      PROVE  /\ channels'[u] \in Seq(Streams) /\ Distinct(channels'[u])
             /\ \A t : In(t, channels'[u]) => In(t, channels[u])
             /\ \A t : t # s => (In(t, channels[u]) => In(t, channels'[u]))
  <2>1. channels[u] \in Seq(Streams) /\ Distinct(channels[u])
    BY <1>0 DEF TypeOK, Lists
  <2> QED BY <1>1, <2>1, Removed
<1>4. TypeOK'
  <2>1. channels' \in [Users -> Seq(Streams)]
    BY <1>0, <1>1, <1>3 DEF TypeOK
  <2> QED BY <1>0, <1>1, <1>2, <2>1 DEF TypeOK
<1>5. Lists'
  BY <1>3 DEF Lists
<1>6. \A t \in Streams : Packets(t)' = Packets(t)
  BY <1>1 DEF Packets
<1>7. Ordered(s)' /\ \A p \in Publishers : Put(p, s)' => Put(p, s)
  BY <1>0, <1>2, <1>6 DEF Ordered, Put, SamePage, Before
<1>8. held'[s] = None /\ sse'[s] \notin Open \cup {"new"} /\ sse[s] # "new"
  BY <1>0, <1>1 DEF Listening, TypeOK, Open
<1>9. \A t \in Streams : t # s =>
         /\ sse'[t] = sse[t] /\ reader'[t] = reader[t] /\ since'[t] = since[t]
         /\ queue'[t] = queue[t] /\ held'[t] = held[t] /\ sent'[t] = sent[t]
  BY <1>0, <1>1 DEF TypeOK
<1> QED BY <1>1, <1>3, <1>4, <1>5, <1>7, <1>8, <1>9, Departs

-----------------------------------------------------------------------------
LEMMA RestartKeeps == ASSUME IInv, Restart PROVE IInv'
<1>0. TypeOK /\ FlushedOnce /\ Locks
  BY DEF IInv
<1>1. TypeOK'
  <2>1. 0 \in 0..Len(flushed)
    BY <1>0 DEF TypeOK
  <2> QED BY <1>0, <2>1, CapacityPositive DEF Restart, TypeOK, Open, Ended
<1>2. FlushedOnce' /\ Locks' /\ Lists'
  <2>1. \A p \in Publishers :
          pc'[p] = IF pc[p] \in {"bump", "publish"} THEN "failed" ELSE pc[p]
    BY DEF Restart
  <2>2. UNCHANGED <<to, page, flushed>>
    BY DEF Restart
  <2>3. \A k \in DOMAIN flushed : flushed[k] \in Publishers
    BY <1>0 DEF TypeOK
  <2>4. FlushedOnce' /\ Locks'
    BY <1>0, <2>1, <2>2, <2>3 DEF FlushedOnce, Locks, SamePage, Ended
  <2> QED BY <2>4 DEF Restart, Lists, Distinct
<1>3. ASSUME NEW s \in Streams PROVE Listening(s)' /\ Packets(s)' = <<>>
  <2>1. Packets(s)' = <<>>
    BY DEF Restart, Packets
  <2> QED BY <2>1 DEF Restart, Listening, In, Open
<1>4. ASSUME NEW s \in Streams PROVE Ordered(s)'
  BY <1>3 DEF Ordered, Put, In
<1>5. ASSUME NEW p \in Publishers PROVE Putting(p)' /\ \A s \in Streams : Reached(p, s)'
  <2>1. \A u \in Users : left'[p][u] = <<>>
    BY DEF Restart
  <2>2. \A u \in Users : \A s : ~Pending(p, u, s)'
    BY <2>1, EmptyList DEF Pending
  <2>3. Putting(p)'
    BY <2>1, <2>2 DEF Putting, Distinct
  <2>4. \A s \in Streams : sse'[s] \notin Open
    BY DEF Restart, Open
  <2> QED BY <2>3, <2>4 DEF Reached, Due
<1> QED BY <1>1, <1>2, <1>3, <1>4, <1>5 DEF IInv

-----------------------------------------------------------------------------
LEMMA BeginKeeps == ASSUME IInv, NEW p \in Publishers, Begin(p) PROVE IInv'
<1>0. /\ TypeOK /\ FlushedOnce /\ Locks /\ Lists
      /\ \A s \in Streams : Listening(s) /\ Ordered(s)
      /\ \A q \in Publishers : Putting(q) /\ \A s \in Streams : Reached(q, s)
  BY DEF IInv
<1>1. /\ pc[p] = "idle" /\ pc' = [pc EXCEPT ![p] = "bump"]
      /\ UNCHANGED <<channels, queue, held, sse, reader, since, sent, left, pageLock, flushed>>
  BY DEF Begin, stream
<1>2. PICK R \in SUBSET Users : to' = [to EXCEPT ![p] = R]
  BY DEF Begin
<1>3. PICK g \in Pages \cup {None} : page' = [page EXCEPT ![p] = g]
  BY DEF Begin
<1>4. TypeOK'
  BY <1>0, <1>1, <1>2, <1>3 DEF TypeOK
<1>5. ~In(p, flushed) /\ \A k \in DOMAIN flushed : flushed[k] \in Publishers
  BY <1>0, <1>1 DEF FlushedOnce, TypeOK
<1>6. \A q \in Publishers : q # p => page'[q] = page[q] /\ pc'[q] = pc[q] /\ to'[q] = to[q]
  BY <1>0, <1>1, <1>2, <1>3 DEF TypeOK
<1>7. pc'[p] = "bump"
  BY <1>0, <1>1 DEF TypeOK
<1>8. FlushedOnce'
  BY <1>0, <1>1, <1>5, <1>6, <1>7 DEF FlushedOnce
<1>9. Locks'
  <2>1. \A q \in Publishers : pc'[q] = "publish" /\ page'[q] # None => pageLock'[page'[q]] = q
    BY <1>0, <1>1, <1>6, <1>7 DEF Locks
  <2>2. \A k \in DOMAIN flushed : flushed[k] # p
    BY <1>5 DEF In
  <2> QED BY <1>0, <1>1, <1>5, <1>6, <2>1, <2>2 DEF Locks, SamePage
<1>10. \A s \in Streams : Packets(s)' = Packets(s) /\ Listening(s)'
  BY <1>0, <1>1 DEF Packets, Listening
<1>11. ASSUME NEW s \in Streams PROVE Ordered(s)'
  <2>1. \A i \in DOMAIN Packets(s) : Packets(s)[i] \in Publishers /\ Packets(s)[i] # p
    <3>1. Packets(s) \in Seq(Publishers)
      BY <1>0, PacketsType
    <3>2. ~Put(p, s)
      BY <1>0, <1>5 DEF Ordered
    <3> QED BY <3>1, <3>2 DEF Put, In
  <2> QED BY <1>0, <1>1, <1>6, <1>10, <2>1 DEF Ordered, Put, SamePage, Before
<1>12. ASSUME NEW q \in Publishers PROVE Putting(q)' /\ \A s \in Streams : Reached(q, s)'
  <2>1. \A s \in Streams : \A u : Put(q, s)' = Put(q, s) /\ Pending(q, u, s)' = Pending(q, u, s)
    BY <1>1, <1>10 DEF Put, Pending
  <2>2. pc'[q] = "publish" <=> pc[q] = "publish"
    BY <1>0, <1>1 DEF TypeOK
  <2>3. Putting(q)'
    BY <1>0, <1>1, <2>1, <2>2 DEF Putting
  <2>4. \A s \in Streams : Reached(q, s)'
    BY <1>0, <1>1, <1>6, <1>7, <2>1, <2>2 DEF Reached, Due
  <2> QED BY <2>3, <2>4
<1> QED BY <1>1, <1>4, <1>8, <1>9, <1>10, <1>11, <1>12 DEF IInv, Lists

LEMMA FinishKeeps ==
  ASSUME IInv, NEW p \in Publishers, NEW answer \in Ended, Finish(p, answer),
         pc[p] \in {"bump", "publish"}, answer = "committed" => pc[p] = "publish",
         \A u \in Users : left[p][u] = <<>>
  PROVE  IInv'
<1>0. /\ TypeOK /\ FlushedOnce /\ Locks /\ Lists
      /\ \A s \in Streams : Listening(s) /\ Ordered(s)
      /\ \A q \in Publishers : Putting(q) /\ \A s \in Streams : Reached(q, s)
  BY DEF IInv
<1>1. /\ pc' = [pc EXCEPT ![p] = answer]
      /\ pageLock' = [g \in Pages |-> IF pageLock[g] = p THEN None ELSE pageLock[g]]
      /\ UNCHANGED <<channels, queue, held, sse, reader, since, sent, to, page, left, flushed>>
  BY DEF Finish, stream
<1>2. TypeOK'
  BY <1>0, <1>1 DEF TypeOK
<1>3. /\ pc'[p] = answer /\ answer \notin {"idle", "bump", "publish"}
      /\ \A q \in Publishers : q # p => pc'[q] = pc[q]
  BY <1>0, <1>1 DEF TypeOK, Ended
<1>4. FlushedOnce'
  BY <1>0, <1>1, <1>3 DEF FlushedOnce, Ended
<1>5. Locks'
  <2>1. ASSUME NEW q \in Publishers, pc'[q] = "publish", page[q] # None
        PROVE  pageLock'[page[q]] = q
    <3>1. q # p /\ pageLock[page[q]] = q /\ page[q] \in Pages
      BY <1>0, <1>3, <2>1 DEF Locks, TypeOK
    <3> QED BY <1>1, <3>1
  <2>2. \A k \in DOMAIN flushed : flushed[k] \in Publishers
    BY <1>0 DEF TypeOK
  <2> QED BY <1>0, <1>1, <1>3, <2>1, <2>2 DEF Locks, SamePage
<1>6. \A s \in Streams : Packets(s)' = Packets(s) /\ Listening(s)' /\ Ordered(s)'
  <2>1. \A s \in Streams : Packets(s)' = Packets(s)
    BY <1>1 DEF Packets
  <2> QED BY <1>0, <1>1, <2>1 DEF Listening, Ordered, Put, SamePage, Before
<1>7. ASSUME NEW q \in Publishers PROVE Putting(q)' /\ \A s \in Streams : Reached(q, s)'
  <2>1. \A s \in Streams : \A u : Put(q, s)' = Put(q, s) /\ Pending(q, u, s)' = Pending(q, u, s)
    BY <1>1, <1>6 DEF Put, Pending
  <2>2. Putting(q)'
    BY <1>0, <1>1, <1>3, <2>1 DEF Putting
  <2>3. ASSUME NEW s \in Streams PROVE Reached(q, s)'
    <3>1. CASE q = p
      <4>1. Due(p, s)' => Due(p, s) /\ reader[s] \in Users
        BY <1>0, <1>1, <1>3 DEF Due, Listening, Ended
      <4>2. \A u \in Users : ~Pending(p, u, s)
        BY EmptyList DEF Pending
      <4> QED BY <1>0, <2>1, <3>1, <4>1, <4>2 DEF Reached
    <3>2. CASE q # p
      BY <1>0, <1>1, <1>3, <2>1, <3>2 DEF Reached, Due
    <3> QED BY <3>1, <3>2
  <2> QED BY <2>2, <2>3
<1> QED BY <1>1, <1>2, <1>4, <1>5, <1>6, <1>7 DEF IInv, Lists

LEMMA EndsKeep == ASSUME IInv, NEW p \in Publishers, Commit(p) \/ Fail(p) PROVE IInv'
<1>1. \A u \in Users : left[p][u] = <<>>
  BY DEF IInv, Putting, Commit, Fail
<1> QED BY <1>1, FinishKeeps DEF Commit, Fail, Ended

LEMMA FlushKeeps == ASSUME IInv, NEW p \in Publishers, Flush(p) PROVE IInv'
<1>0. /\ TypeOK /\ FlushedOnce /\ Locks /\ Lists
      /\ \A s \in Streams : Listening(s) /\ Ordered(s)
      /\ \A q \in Publishers : Putting(q) /\ \A s \in Streams : Reached(q, s)
  BY DEF IInv
<1> DEFINE todo == [u \in Users |-> IF u \in to[p] THEN None ELSE <<>>]
<1>1. /\ pc[p] = "bump" /\ (page[p] # None => pageLock[page[p]] = None)
      /\ pageLock' = [g \in Pages |-> IF g = page[p] THEN p ELSE pageLock[g]]
      /\ pc' = [pc EXCEPT ![p] = "publish"]
      /\ left' = [left EXCEPT ![p] = todo]
      /\ flushed' = Append(flushed, p)
      /\ UNCHANGED <<channels, queue, held, sse, reader, since, sent, to, page>>
  BY DEF Flush, stream
<1>2. /\ flushed \in Seq(Publishers) /\ Len(flushed) \in Nat /\ DOMAIN flushed = 1..Len(flushed)
      /\ flushed' \in Seq(Publishers) /\ Len(flushed') = Len(flushed) + 1
      /\ DOMAIN flushed' = 1..(Len(flushed) + 1)
      /\ \A k \in DOMAIN flushed : flushed'[k] = flushed[k] /\ flushed[k] \in Publishers
      /\ flushed'[Len(flushed) + 1] = p
  BY <1>0, <1>1, AppendProperties DEF TypeOK
<1>3. /\ \A q : In(q, flushed') <=> In(q, flushed) \/ q = p
      /\ ~In(p, flushed) /\ Distinct(flushed')
  BY <1>0, <1>1, <1>2, Appended DEF FlushedOnce
<1>4. /\ left'[p] = todo /\ pc'[p] = "publish"
      /\ \A q \in Publishers : q # p => left'[q] = left[q] /\ pc'[q] = pc[q]
  BY <1>0, <1>1 DEF TypeOK
<1>5. TypeOK'
  <2>1. todo \in [Users -> Seq(Streams) \cup {None}]
    OBVIOUS
  <2>2. since' \in [Streams -> 0..Len(flushed')]
    <3>1. \A n \in 0..Len(flushed) : n \in 0..(Len(flushed) + 1)
      BY <1>2
    <3> QED BY <1>0, <1>1, <1>2, <3>1 DEF TypeOK
  <2> HIDE DEF todo
  <2> QED BY <1>0, <1>1, <1>2, <2>1, <2>2 DEF TypeOK
<1>6. FlushedOnce'
  BY <1>0, <1>3, <1>4 DEF FlushedOnce
<1>7. Locks'
  <2>1. ASSUME NEW q \in Publishers, pc'[q] = "publish", page[q] # None
        PROVE  pageLock'[page[q]] = q
    <3>1. page[q] \in Pages
      BY <1>0, <2>1 DEF TypeOK
    <3>2. CASE q = p
      BY <1>1, <3>1, <3>2
    <3>3. CASE q # p
      <4>1. pageLock[page[q]] = q
        BY <1>0, <1>4, <2>1, <3>3 DEF Locks
      <4>2. page[p] # page[q]
        BY <1>1, <2>1, <4>1, NoneIsNone
      <4> QED BY <1>1, <3>1, <4>1, <4>2
    <3> QED BY <3>2, <3>3
  <2>2. ASSUME NEW k \in DOMAIN flushed', NEW l \in DOMAIN flushed', k < l,
               SamePage(flushed'[k], flushed'[l])
        PROVE  pc'[flushed'[k]] \in Ended
    <3>1. k \in DOMAIN flushed
      BY <1>2, <2>2
    <3> DEFINE q == flushed[k]
    <3>2. q \in Publishers /\ flushed'[k] = q /\ q # p /\ pc'[q] = pc[q]
      BY <1>2, <1>3, <1>4, <3>1 DEF In
    <3>3. CASE l \in DOMAIN flushed
      BY <1>0, <1>2, <2>2, <3>1, <3>2, <3>3 DEF Locks
    <3>4. CASE l = Len(flushed) + 1
      <4>1. page[q] = page[p] /\ page[p] # None
        BY <1>2, <2>2, <3>2, <3>4 DEF SamePage
      <4>2. pc[q] # "publish"
        BY <1>0, <1>1, <3>2, <4>1, NoneIsNone DEF Locks
      <4>3. pc[q] \notin {"idle", "bump"}
        BY <1>0, <3>1, <3>2 DEF FlushedOnce, In
      <4> QED BY <1>0, <3>2, <4>2, <4>3 DEF TypeOK
    <3> QED BY <1>2, <3>3, <3>4
  <2> QED BY <1>1, <2>1, <2>2 DEF Locks, SamePage
<1>8. \A s \in Streams : Packets(s)' = Packets(s) /\ Listening(s)'
  BY <1>0, <1>1 DEF Packets, Listening
<1>9. ASSUME NEW s \in Streams PROVE Ordered(s)'
  <2>1. \A q, r : Before(q, r) => Before(q, r)'
    BY <1>2 DEF Before
  <2> QED BY <1>0, <1>1, <1>3, <1>8, <2>1 DEF Ordered, Put, SamePage
<1>10. Putting(p)' /\ \A s \in Streams : Reached(p, s)'
  <2>1. \A u \in Users, s \in Streams :
          Pending(p, u, s)' <=> u \in to[p] /\ In(s, channels[u])
    BY <1>1, <1>4, EmptyList DEF Pending
  <2>2. \A s \in Streams : ~Put(p, s) /\ ~Put(p, s)'
    BY <1>0, <1>3, <1>8 DEF Ordered, Put
  <2>3. Putting(p)'
    <3>1. \A u \in Users : left'[p][u] # None => Distinct(left'[p][u])
      BY <1>4 DEF Distinct
    <3>2. \A u \in Users, s \in Streams : Pending(p, u, s)' => sse'[s] # "new"
      BY <1>0, <1>1, <2>1 DEF Listening
    <3>3. \A u, v \in Users, s \in Streams : In(s, channels[u]) /\ In(s, channels[v]) => u = v
      BY <1>0 DEF Listening
    <3> QED BY <1>1, <1>4, <2>1, <2>2, <3>1, <3>2, <3>3 DEF Putting
  <2>4. ASSUME NEW s \in Streams PROVE Reached(p, s)'
    BY <1>0, <1>1, <1>4, <2>1 DEF Reached, Due, Listening
  <2> QED BY <2>3, <2>4
<1>11. ASSUME NEW q \in Publishers, q # p
       PROVE  Putting(q)' /\ \A s \in Streams : Reached(q, s)'
  <2>1. \A s \in Streams : \A u : Put(q, s)' = Put(q, s) /\ Pending(q, u, s)' = Pending(q, u, s)
    BY <1>1, <1>4, <1>8, <1>11 DEF Put, Pending
  <2>2. Putting(q)'
    BY <1>0, <1>1, <1>4, <1>11, <2>1 DEF Putting
  <2>3. ASSUME NEW s \in Streams PROVE Reached(q, s)'
    <3>1. \A k \in DOMAIN flushed' : flushed'[k] = q => k \in DOMAIN flushed /\ flushed[k] = q
      BY <1>2, <1>11
    <3>2. Due(q, s)' => Due(q, s)
      BY <1>1, <1>4, <1>11, <3>1 DEF Due
    <3> QED BY <1>0, <1>1, <1>4, <1>11, <2>1, <3>2 DEF Reached
  <2> QED BY <2>2, <2>3
<1> QED BY <1>1, <1>5, <1>6, <1>7, <1>8, <1>9, <1>10, <1>11 DEF IInv, Lists

-----------------------------------------------------------------------------
\* What is left of a list once the first n of it are done.
LEMMA Rest ==
  ASSUME NEW seq \in Seq(Streams), Distinct(seq), NEW n \in 0..Len(seq)
  PROVE  LET rest == SubSeq(seq, n + 1, Len(seq)) IN
         /\ rest \in Seq(Streams) /\ Distinct(rest)
         /\ \A t : In(t, rest) <=> In(t, seq) /\ ~\E i \in 1..n : seq[i] = t
<1> DEFINE rest == SubSeq(seq, n + 1, Len(seq))
<1>1. Len(seq) \in Nat /\ DOMAIN seq = 1..Len(seq) /\ n \in Nat /\ n <= Len(seq)
  OBVIOUS
<1>2. /\ rest \in Seq(Streams) /\ Len(rest) = Len(seq) - n
      /\ \A j \in 1..(Len(seq) - n) : rest[j] = seq[j + n]
  <2>1. \A j \in (n + 1)..Len(seq) : seq[j] \in Streams
    BY <1>1
  <2>2. /\ rest \in Seq(Streams)
        /\ Len(rest) = IF n + 1 <= Len(seq) THEN Len(seq) - (n + 1) + 1 ELSE 0
        /\ \A j \in 1..(Len(seq) - (n + 1) + 1) : rest[j] = seq[n + 1 + j - 1]
    BY <1>1, <2>1, SubSeqProperties
  <2> HIDE DEF rest
  <2>3. Len(rest) = Len(seq) - n
    <3>1. \A m, k \in Int : 0 <= m /\ m <= k =>
            (IF m + 1 <= k THEN k - (m + 1) + 1 ELSE 0) = k - m
      OBVIOUS
    <3>2. (IF n + 1 <= Len(seq) THEN Len(seq) - (n + 1) + 1 ELSE 0) = Len(seq) - n
      <4>1. n \in Int /\ Len(seq) \in Int /\ 0 <= n /\ n <= Len(seq)
        BY <1>1
      <4> QED BY <3>1, <4>1
    <3> QED BY <2>2, <3>2
  <2>4. ASSUME NEW j \in 1..(Len(seq) - n) PROVE rest[j] = seq[j + n]
    <3>1. n + 1 + j - 1 = j + n /\ j \in 1..(Len(seq) - (n + 1) + 1)
      BY <1>1
    <3> QED BY <2>2, <3>1
  <2> QED BY <2>2, <2>3, <2>4
<1> HIDE DEF rest
<1>3. DOMAIN rest = 1..(Len(seq) - n)
  BY <1>2
<1>4. Distinct(rest)
  BY <1>1, <1>2, <1>3 DEF Distinct
<1>5. ASSUME NEW t PROVE In(t, rest) <=> In(t, seq) /\ ~\E i \in 1..n : seq[i] = t
  <2>1. ASSUME In(t, rest) PROVE In(t, seq) /\ ~\E i \in 1..n : seq[i] = t
    <3>1. PICK j \in 1..(Len(seq) - n) : rest[j] = t
      BY <1>3, <2>1 DEF In
    <3>2. j + n \in DOMAIN seq /\ seq[j + n] = t
      BY <1>1, <1>2, <3>1
    <3>3. \A i \in 1..n : i \in DOMAIN seq /\ i # j + n
      BY <1>1
    <3> QED BY <3>2, <3>3 DEF In, Distinct
  <2>2. ASSUME In(t, seq), ~\E i \in 1..n : seq[i] = t PROVE In(t, rest)
    <3>1. PICK k \in 1..Len(seq) : seq[k] = t
      BY <1>1, <2>2 DEF In
    <3>2. k > n /\ k - n \in 1..(Len(seq) - n) /\ (k - n) + n = k
      BY <1>1, <2>2, <3>1
    <3>3. k - n \in DOMAIN rest /\ rest[k - n] = t
      BY <1>2, <1>3, <3>1, <3>2
    <3> QED BY <3>3 DEF In
  <2> QED BY <2>1, <2>2
<1> QED BY <1>2, <1>4, <1>5 DEF rest

LEMMA PublishKeeps ==
  ASSUME IInv, NEW p \in Publishers, NEW u \in Users, Publish(p, u)
  PROVE  /\ IInv'
         /\ \E H \in SUBSET Streams :
              /\ \A s \in H : Pending(p, u, s)
              /\ \A s \in Streams :
                   Packets(s)' = IF s \in H THEN Append(Packets(s), p) ELSE Packets(s)
<1>0. /\ TypeOK /\ FlushedOnce /\ Locks /\ Lists
      /\ \A s \in Streams : Listening(s) /\ Ordered(s)
      /\ \A q \in Publishers : Putting(q) /\ \A s \in Streams : Reached(q, s)
  BY DEF IInv
<1> DEFINE todo == IF left[p][u] = None THEN channels[u] ELSE left[p][u]
<1>1. PICK n \in 0..Len(todo) :
        /\ Roomy(todo, n)
        /\ queue' = [s \in Streams |-> IF \E i \in 1..n : todo[i] = s
                                       THEN Append(queue[s], p) ELSE queue[s]]
        /\ left' = [left EXCEPT ![p][u] = SubSeq(todo, n + 1, Len(todo))]
  BY DEF Publish
<1>2. /\ pc[p] = "publish"
      /\ UNCHANGED <<channels, held, sse, reader, since, sent, pc, to, page, pageLock, flushed>>
  BY DEF Publish
<1> DEFINE Hit(s) == \E i \in 1..n : todo[i] = s
           rest == SubSeq(todo, n + 1, Len(todo))
<1>3. todo \in Seq(Streams) /\ Distinct(todo)
  BY <1>0 DEF TypeOK, Lists, Putting
<1>4. \A s \in Streams : Pending(p, u, s) <=> In(s, todo)
  BY DEF Pending
<1> HIDE DEF todo
<1>5. /\ rest \in Seq(Streams) /\ Distinct(rest)
      /\ \A s : In(s, rest) <=> In(s, todo) /\ ~Hit(s)
  BY <1>3, Rest
<1>6. \A s \in Streams : Hit(s) => Pending(p, u, s)
  <2>1. \A i \in 1..n : i \in DOMAIN todo
    BY <1>3
  <2> QED BY <1>4, <2>1 DEF In
<1> HIDE DEF rest
<1>7. /\ left'[p][u] = rest
      /\ \A v \in Users : v # u => left'[p][v] = left[p][v]
      /\ \A q \in Publishers : q # p => left'[q] = left[q]
      /\ left' \in [Publishers -> [Users -> Seq(Streams) \cup {None}]]
  BY <1>0, <1>1, <1>5 DEF TypeOK, rest
<1>8. rest # None
  BY <1>5, NoneIsNone
<1>9. /\ \A v \in Users, s \in Streams :
           Pending(p, v, s)' <=> Pending(p, v, s) /\ ~(v = u /\ Hit(s))
      /\ \A q \in Publishers, v \in Users, s \in Streams :
           q # p => Pending(q, v, s)' = Pending(q, v, s)
  BY <1>2, <1>4, <1>5, <1>7, <1>8 DEF Pending
<1>10. \A s \in Streams : queue'[s] = IF Hit(s) THEN Append(queue[s], p) ELSE queue[s]
  BY <1>1
<1>11. TypeOK'
  <2>1. ASSUME NEW s \in Streams
        PROVE  queue'[s] \in Seq(Publishers) /\ Len(queue'[s]) <= Capacity
    <3>1. queue[s] \in Seq(Publishers) /\ Len(queue[s]) <= Capacity /\ Len(queue[s]) \in Nat
      BY <1>0 DEF TypeOK
    <3>2. CASE ~Hit(s)
      BY <1>10, <3>1, <3>2
    <3>3. CASE Hit(s)
      <4>1. Len(queue[s]) < Capacity
        BY <1>1, <3>3 DEF Roomy
      <4>2. queue'[s] \in Seq(Publishers) /\ Len(queue'[s]) = Len(queue[s]) + 1
        <5>1. queue'[s] = Append(queue[s], p)
          BY <1>10, <3>3
        <5> QED BY <3>1, <5>1, AppendProperties
      <4> QED BY <3>1, <4>1, <4>2, CapacityPositive
    <3> QED BY <3>2, <3>3
  <2>2. queue' \in [Streams -> Seq(Publishers)]
    <3>1. queue' = [s \in Streams |-> queue'[s]]
      BY <1>1
    <3> QED BY <2>1, <3>1
  <2> QED BY <1>0, <1>2, <1>7, <2>1, <2>2 DEF TypeOK
<1>12. FlushedOnce' /\ Locks' /\ Lists'
  BY <1>0, <1>2 DEF FlushedOnce, Locks, Lists, SamePage
<1>13. ASSUME NEW s \in Streams
       PROVE  /\ Packets(s) \in Seq(Publishers)
              /\ Packets(s)' = IF Hit(s) THEN Append(Packets(s), p) ELSE Packets(s)
  <2> DEFINE a == sent[s] \o (IF held[s] = None THEN <<>> ELSE <<held[s]>>)
  <2>1. a \in Seq(Publishers) /\ queue[s] \in Seq(Publishers)
    <3>1. sent[s] \in Seq(Publishers) /\ queue[s] \in Seq(Publishers)
          /\ held[s] \in Publishers \cup {None}
      BY <1>0 DEF TypeOK
    <3>2. (IF held[s] = None THEN <<>> ELSE <<held[s]>>) \in Seq(Publishers)
      BY <3>1
    <3> QED BY <3>1, <3>2, ConcatProperties
  <2>2. Packets(s) = a \o queue[s] /\ Packets(s)' = a \o queue'[s]
    BY <1>2 DEF Packets
  <2> HIDE DEF a
  <2>3. CASE Hit(s)
    <3>1. <<p>> \in Seq(Publishers)
      OBVIOUS
    <3>2. queue'[s] = queue[s] \o <<p>>
      <4>1. queue'[s] = Append(queue[s], p)
        BY <1>10, <2>3
      <4>2. \A q \in Seq(Publishers) : Append(q, p) = q \o <<p>>
        BY AppendIsConcat
      <4> QED BY <2>1, <4>1, <4>2
    <3>3. \A S : \A b, c, d \in Seq(S) : (b \o c) \o d = b \o (c \o d)
      BY ConcatAssociative
    <3>4. (a \o queue[s]) \o <<p>> = a \o (queue[s] \o <<p>>)
      <4>1. \A b, c, d \in Seq(Publishers) : (b \o c) \o d = b \o (c \o d)
        BY <3>3
      <4> QED BY <2>1, <3>1, <4>1, Zenon
    <3>5. a \o queue[s] \in Seq(Publishers)
      BY <2>1, ConcatProperties
    <3>6. Append(a \o queue[s], p) = (a \o queue[s]) \o <<p>>
      BY <3>5, AppendIsConcat
    <3> QED BY <2>2, <2>3, <3>2, <3>4, <3>5, <3>6
  <2>4. CASE ~Hit(s)
    BY <1>10, <2>1, <2>2, <2>4, ConcatProperties
  <2> QED BY <2>3, <2>4
<1>14. ASSUME NEW s \in Streams PROVE Listening(s)'
  <2>1. Hit(s) => sse[s] # "new"
    BY <1>0, <1>6 DEF Putting
  <2> QED BY <1>0, <1>2, <1>10, <2>1 DEF Listening
<1>15. /\ \A s \in Streams : Put(p, s)' <=> Put(p, s) \/ Hit(s)
       /\ \A q \in Publishers, s \in Streams : q # p => (Put(q, s)' <=> Put(q, s))
  <2>1. ASSUME NEW s \in Streams, NEW q \in Publishers
        PROVE  Put(q, s)' <=> Put(q, s) \/ (Hit(s) /\ q = p)
    <3>1. CASE Hit(s)
      <4>1. \A t : In(t, Append(Packets(s), p)) <=> In(t, Packets(s)) \/ t = p
        BY <1>13, Appended
      <4>2. Packets(s)' = Append(Packets(s), p)
        BY <1>13, <3>1
      <4> QED BY <3>1, <4>1, <4>2 DEF Put
    <3>2. CASE ~Hit(s)
      BY <1>13, <3>2 DEF Put
    <3> QED BY <3>1, <3>2
  <2> HIDE DEF Hit
  <2> QED BY <2>1
<1>16. ASSUME NEW s \in Streams PROVE Ordered(s)'
  <2>1. CASE ~Hit(s)
    <3>1. Packets(s)' = Packets(s)
      BY <1>13, <2>1
    <3> QED BY <1>0, <1>2, <3>1 DEF Ordered, Put, SamePage, Before
  <2>2. CASE Hit(s)
    <3> DEFINE w == Packets(s)
               w1 == Packets(s)'
    <3>1. /\ w \in Seq(Publishers) /\ Len(w) \in Nat /\ DOMAIN w = 1..Len(w)
          /\ w1 = Append(w, p) /\ DOMAIN w1 = 1..(Len(w) + 1)
          /\ \A i \in DOMAIN w : w1[i] = w[i] /\ w[i] \in Publishers
          /\ w1[Len(w) + 1] = p
      BY <1>13, <2>2, AppendProperties
    <3>2. ~Put(p, s)
      BY <1>0, <1>6, <2>2 DEF Putting
    <3>3. In(p, flushed) /\ \A q \in Publishers : Put(q, s) => In(q, flushed)
      BY <1>0, <1>2 DEF FlushedOnce, Ordered
    <3>4. \A q \in Publishers : Put(q, s)' => In(q, flushed)'
      BY <1>2, <1>15, <3>3
    <3>5. ASSUME NEW i \in DOMAIN w
          PROVE  w[i] # p /\ (SamePage(w[i], p) => Before(w[i], p))
      <4>1. w[i] # p /\ In(w[i], flushed)
        BY <3>1, <3>2, <3>3 DEF Put, In
      <4>2. PICK k \in DOMAIN flushed, l \in DOMAIN flushed : flushed[k] = w[i] /\ flushed[l] = p
        BY <3>3, <4>1 DEF In
      <4>3. k \in Nat /\ l \in Nat /\ k # l
        BY <1>0, <4>1, <4>2 DEF TypeOK
      <4>4. ASSUME SamePage(w[i], p) PROVE ~(l < k)
        <5>1. SamePage(p, w[i])
          BY <4>4 DEF SamePage
        <5>2. l < k => pc[p] \in Ended
          BY <1>0, <4>2, <5>1 DEF Locks
        <5> QED BY <1>2, <5>2 DEF Ended
      <4> QED BY <4>1, <4>2, <4>3, <4>4 DEF Before
    <3> HIDE DEF w, w1
    <3>6. ASSUME NEW i \in DOMAIN w1, NEW j \in DOMAIN w1, i < j
          PROVE  w1[i] # w1[j] /\ (SamePage(w1[i], w1[j]) => Before(w1[i], w1[j]))
      <4>1. i \in DOMAIN w /\ (j \in DOMAIN w \/ j = Len(w) + 1)
        BY <3>1, <3>6
      <4>2. CASE j \in DOMAIN w
        <5>1. w[i] # w[j] /\ (SamePage(w[i], w[j]) => Before(w[i], w[j]))
          BY <1>0, <3>6, <4>1, <4>2 DEF Ordered, w
        <5> QED BY <3>1, <4>1, <4>2, <5>1
      <4>3. CASE j = Len(w) + 1
        BY <3>1, <3>5, <4>1, <4>3
      <4> QED BY <4>1, <4>2, <4>3
    <3>7. \A q, r : SamePage(q, r)' = SamePage(q, r) /\ Before(q, r)' = Before(q, r)
      BY <1>2 DEF SamePage, Before
    <3> QED BY <3>4, <3>6, <3>7 DEF Ordered, w1
  <2> QED BY <2>1, <2>2
<1> HIDE DEF Hit
<1>17. Putting(p)' /\ \A s \in Streams : Reached(p, s)'
  <2>1. (pc[p] # "publish" => \A v \in Users : left[p][v] = <<>>)'
    BY <1>2
  <2>2. \A v \in Users : left'[p][v] # None => Distinct(left'[p][v])
    BY <1>0, <1>5, <1>7 DEF Putting
  <2>3. \A v \in Users, s \in Streams : Pending(p, v, s)' => sse'[s] # "new" /\ ~Put(p, s)'
    BY <1>0, <1>2, <1>6, <1>9, <1>15 DEF Putting
  <2>4. \A v, w \in Users, s \in Streams : Pending(p, v, s)' /\ In(s, channels'[w]) => v = w
    BY <1>0, <1>2, <1>9 DEF Putting
  <2>5. \A v, w \in Users, s \in Streams : Pending(p, v, s)' /\ Pending(p, w, s)' => v = w
    BY <1>0, <1>9 DEF Putting
  <2>6. ASSUME NEW s \in Streams PROVE Reached(p, s)'
    <3>1. Due(p, s)' => Due(p, s) /\ reader[s] \in Users
      BY <1>0, <1>2 DEF Due, Listening
    <3> QED BY <1>0, <1>2, <1>9, <1>15, <3>1 DEF Reached
  <2> QED BY <2>1, <2>2, <2>3, <2>4, <2>5, <2>6 DEF Putting
<1>18. ASSUME NEW q \in Publishers, q # p
       PROVE  Putting(q)' /\ \A s \in Streams : Reached(q, s)'
  <2>1. Putting(q)'
    BY <1>0, <1>2, <1>7, <1>9, <1>15, <1>18 DEF Putting
  <2>2. ASSUME NEW s \in Streams PROVE Reached(q, s)'
    <3>1. Due(q, s)' => Due(q, s) /\ reader[s] \in Users
      BY <1>0, <1>2 DEF Due, Listening
    <3> QED BY <1>0, <1>2, <1>9, <1>15, <1>18, <3>1 DEF Reached
  <2> QED BY <2>1, <2>2
<1>19. IInv'
  BY <1>11, <1>12, <1>14, <1>16, <1>17, <1>18 DEF IInv
<1> DEFINE H == {s \in Streams : Hit(s)}
<1>20. /\ H \in SUBSET Streams /\ \A s \in H : Pending(p, u, s)
       /\ \A s \in Streams : Packets(s)' = IF s \in H THEN Append(Packets(s), p) ELSE Packets(s)
  BY <1>6, <1>13
<1> HIDE DEF H
<1> QED BY <1>19, <1>20

-----------------------------------------------------------------------------
LEMMA Step == IInv /\ [Next]_vars => IInv'
<1> SUFFICES ASSUME IInv, [Next]_vars PROVE IInv'
  OBVIOUS
<1>1. ASSUME NEW s \in Streams, Generator(s) PROVE IInv'
  BY <1>1, TakeKeeps, PingKeeps, DeliverKeeps, LeaveKeeps, TeardownKeeps DEF Generator
<1>2. ASSUME NEW s \in Streams, NEW u \in Users, Subscribe(s, u) PROVE IInv'
  BY <1>2, SubscribeKeeps
<1>3. ASSUME NEW p \in Publishers, Begin(p) \/ Notifier(p) \/ Fail(p) PROVE IInv'
  BY <1>3, BeginKeeps, FlushKeeps, PublishKeeps, EndsKeep DEF Notifier
<1>4. CASE Restart
  BY <1>4, RestartKeeps
<1>5. CASE UNCHANGED vars
  BY <1>5, StutterKeeps
<1> QED BY <1>1, <1>2, <1>3, <1>4, <1>5 DEF Next

\* The inductive invariant above holds, whatever connects, leaves, publishes, fails
\* and restarts.
THEOREM Invariant == Spec => []IInv
BY Initially, Step, PTL DEF Spec

\* No queue exceeds its capacity, for any capacity and any number of streams.
THEOREM TypeCorrect == Spec => []TypeOK
<1>1. IInv => TypeOK
  BY DEF IInv
<1> QED BY <1>1, Invariant, PTL

LEMMA EventsOrdered == IInv => PageEventsInOrder
BY DEF IInv, Ordered, SamePage, Before, PageEventsInOrder

LEMMA EventsOnce == IInv => CommittedReachesOpenStreams
<1> SUFFICES ASSUME IInv, NEW p \in Publishers, NEW s \in Streams,
                    pc[p] = "committed", Due(p, s)
             PROVE  Cardinality({i \in DOMAIN Packets(s) : Packets(s)[i] = p}) = 1
  BY DEF CommittedReachesOpenStreams, Due
<1>1. PICK i \in DOMAIN Packets(s) : Packets(s)[i] = p
  BY DEF IInv, Reached, Put, In
<1>2. \A j \in DOMAIN Packets(s) : Packets(s)[j] = p => j = i
  <2>1. DOMAIN Packets(s) \subseteq Nat
    BY PacketsType DEF IInv
  <2> QED BY <1>1, <2>1 DEF IInv, Ordered
<1>3. {j \in DOMAIN Packets(s) : Packets(s)[j] = p} = {i}
  BY <1>1, <1>2
<1> QED BY <1>3, FS_Singleton

\* publish_many under bump_source_revision's lock: each client sees the events of a
\* page in the order of their notifications' ids, each once.
THEOREM OrderKept == Spec => []PageEventsInOrder
BY EventsOrdered, Invariant, PTL

\* NotifyHub.publish: what has committed was put exactly once to every stream that
\* was open before it and still is.
THEOREM DeliveredOnce == Spec => []CommittedReachesOpenStreams
BY EventsOnce, Invariant, PTL

-----------------------------------------------------------------------------
\* NotifyHub implements EventLog.

\* Only open streams have readers, and what is left to put is left for recipients.
Addressed ==
  /\ \A s \in Streams : reader[s] # None <=> sse[s] \in Open
  /\ \A p \in Publishers, u \in Users : left[p][u] # <<>> => u \in to[p]

AbsLog == [s \in Streams |-> IF sse[s] \in Open THEN Packets(s) ELSE <<>>]
AbsStage == [p \in Publishers |-> Stage(pc[p])]
AbsAudience == [p \in Publishers |-> IF HasId(p) THEN to[p] ELSE {}]
AbsTopic == [p \in Publishers |-> IF HasId(p) THEN page[p] ELSE None]
AbsDue == [p \in Publishers |-> IF pc[p] = "publish" THEN {s \in Streams : Owed(p, s)} ELSE {}]

Moved == Log!Next \/ UNCHANGED <<reader, AbsLog, AbsStage, AbsAudience, AbsTopic, AbsDue>>

LEMMA Stages ==
  /\ Stage("idle") = "new" /\ Stage("bump") = "new" /\ Stage("publish") = "announced"
  /\ Stage("committed") = "kept" /\ Stage("failed") = "dropped"
BY DEF Stage

LEMMA AddressedFirst == Init => Addressed
BY DEF Init, StreamInit, Addressed, Open

LEMMA AddressedStays == IInv /\ Addressed /\ [Next]_vars => Addressed'
<1> SUFFICES ASSUME IInv, Addressed, [Next]_vars PROVE Addressed'
  OBVIOUS
<1>0. TypeOK /\ None \notin Users /\ \A p \in Publishers : Putting(p)
  BY NoneIsNone DEF IInv
<1>1. CASE UNCHANGED vars
  BY <1>1 DEF vars, stream, request, Addressed
<1>2. ASSUME NEW s \in Streams, Generator(s) PROVE Addressed'
  BY <1>0, <1>2 DEF Generator, Take, Ping, Deliver, Leave, Teardown, Unsubscribe, Forget,
     request, TypeOK, Addressed, Open
<1>3. ASSUME NEW s \in Streams, NEW u \in Users, Subscribe(s, u) PROVE Addressed'
  BY <1>0, <1>3 DEF Subscribe, request, TypeOK, Addressed, Open
<1>4. ASSUME NEW p \in Publishers, Begin(p) PROVE Addressed'
  <2>1. pc[p] = "idle" /\ UNCHANGED <<sse, reader, left>>
    BY <1>4 DEF Begin, stream
  <2>2. \A u \in Users : left[p][u] = <<>>
    BY <1>0, <2>1 DEF Putting
  <2>3. \A q \in Publishers : q # p => to'[q] = to[q]
    BY <1>0, <1>4 DEF Begin, TypeOK
  <2> QED BY <2>1, <2>2, <2>3 DEF Addressed
<1>5. ASSUME NEW p \in Publishers, Flush(p) PROVE Addressed'
  BY <1>0, <1>5 DEF Flush, stream, TypeOK, Addressed
<1>6. ASSUME NEW p \in Publishers, NEW u \in Users, Publish(p, u) PROVE Addressed'
  <2> DEFINE todo == IF left[p][u] = None THEN channels[u] ELSE left[p][u]
  <2>1. UNCHANGED <<sse, reader, to>>
    BY <1>6 DEF Publish
  <2>2. PICK n \in 0..Len(todo) :
          /\ left[p][u] = None \/ n > 0
          /\ left' = [left EXCEPT ![p][u] = SubSeq(todo, n + 1, Len(todo))]
    BY <1>6 DEF Publish
  <2>3. left[p][u] # <<>>
    <3>1. left[p][u] = <<>> => Len(todo) = 0
      BY EmptyList
    <3> QED BY <2>2, <3>1, EmptyList
  <2>4. u \in to[p]
    BY <2>3 DEF Addressed
  <2> HIDE DEF todo
  <2>5. \A q \in Publishers, v \in Users : q # p \/ v # u => left'[q][v] = left[q][v]
    BY <1>0, <2>2 DEF TypeOK
  <2> QED BY <2>1, <2>4, <2>5 DEF Addressed
<1>7. ASSUME NEW p \in Publishers, Commit(p) \/ Fail(p) PROVE Addressed'
  BY <1>7 DEF Commit, Fail, Finish, stream, Addressed
<1>8. CASE Restart
  BY <1>0, <1>8 DEF Restart, TypeOK, Addressed, Open
<1> QED BY <1>1, <1>2, <1>3, <1>4, <1>5, <1>6, <1>7, <1>8 DEF Next, Notifier

\* A step that gives no stream a packet, opens or closes none, and moves no publisher
\* that has its ids.
LEMMA Unmoved ==
  ASSUME IInv, Addressed, UNCHANGED <<reader, since, flushed>>,
         \A s \in Streams : /\ sse'[s] \in Open <=> sse[s] \in Open
                            /\ sse[s] \in Open => Packets(s)' = Packets(s),
         \A p \in Publishers :
           /\ HasId(p) => pc'[p] = pc[p] /\ to'[p] = to[p] /\ page'[p] = page[p]
           /\ ~HasId(p) => (pc'[p] = pc[p] \/ {pc[p], pc'[p]} \subseteq {"idle", "bump"})
  PROVE  UNCHANGED <<AbsLog, AbsStage, AbsAudience, AbsTopic, AbsDue>>
<1>1. \A p \in Publishers : HasId(p)' = HasId(p)
  BY DEF HasId
<1>2. \A p \in Publishers : pc[p] = "publish" => HasId(p)
  BY DEF IInv, FlushedOnce, HasId, In
<1>3. AbsLog' = AbsLog
  BY DEF AbsLog
<1>4. AbsAudience' = AbsAudience /\ AbsTopic' = AbsTopic
  BY <1>1 DEF AbsAudience, AbsTopic
<1>5. AbsStage' = AbsStage
  <2>1. \A p \in Publishers : Stage(pc'[p]) = Stage(pc[p])
    BY Stages
  <2> QED BY <2>1 DEF AbsStage
<1>6. ASSUME NEW p \in Publishers
      PROVE  /\ pc'[p] = "publish" <=> pc[p] = "publish"
             /\ pc[p] = "publish" => \A s \in Streams : Owed(p, s)' <=> Owed(p, s)
  BY <1>2 DEF Owed
<1>7. AbsDue' = AbsDue
  BY <1>6 DEF AbsDue
<1> QED BY <1>3, <1>4, <1>5, <1>7

LEMMA TakeMoves ==
  ASSUME IInv, Addressed, NEW s \in Streams, Take(s) \/ Ping(s) \/ Deliver(s) \/ Teardown(s)
  PROVE  Moved
<1>1. UNCHANGED <<reader, since, flushed, pc, to, page>>
  BY DEF Take, Ping, Deliver, Teardown, request
<1>2. ASSUME NEW t \in Streams
      PROVE  /\ sse'[t] \in Open <=> sse[t] \in Open
             /\ Packets(t)' = Packets(t)
  <2>1. sse'[t] \in Open <=> sse[t] \in Open
    BY DEF Take, Ping, Deliver, Teardown, Unsubscribe, IInv, TypeOK, Open
  <2>2. CASE Take(s)
    BY <2>1, <2>2, TakeKeeps
  <2>3. CASE Deliver(s)
    BY <2>1, <2>3, DeliverKeeps
  <2>4. CASE Ping(s) \/ Teardown(s)
    <3>1. UNCHANGED <<sent, held, queue>>
      BY <2>4 DEF Ping, Teardown
    <3>2. Packets(t)' = Packets(t)
      BY <3>1 DEF Packets
    <3> QED BY <2>1, <3>2
  <2> QED BY <2>2, <2>3, <2>4
<1> QED BY <1>1, <1>2, Unmoved DEF Moved

LEMMA BeginMoves ==
  ASSUME IInv, Addressed, NEW p \in Publishers, Begin(p)
  PROVE  Moved
<1>1. /\ pc[p] = "idle" /\ pc'[p] = "bump"
      /\ UNCHANGED <<channels, queue, held, sse, reader, since, sent, flushed>>
      /\ \A q \in Publishers : q # p => pc'[q] = pc[q] /\ to'[q] = to[q] /\ page'[q] = page[q]
  BY DEF Begin, stream, IInv, TypeOK
<1>2. ~HasId(p)
  BY <1>1 DEF IInv, FlushedOnce, HasId, In
<1>3. \A s \in Streams : Packets(s)' = Packets(s)
  BY <1>1 DEF Packets
<1> QED BY <1>1, <1>2, <1>3, Unmoved DEF Moved

\* A stream that opens has no packets yet, and is owed none of the events that have ids.
LEMMA SubscribeMoves ==
  ASSUME IInv, Addressed, NEW s \in Streams, NEW u \in Users, Subscribe(s, u)
  PROVE  Moved
<1>0. TypeOK /\ Listening(s)
  BY DEF IInv
<1>1. /\ sse[s] = "new" /\ sse'[s] = "waiting" /\ reader[s] = None
      /\ reader' = [reader EXCEPT ![s] = u]
      /\ since'[s] = Len(flushed) /\ reader'[s] = u
      /\ \A t \in Streams : t # s =>
           sse'[t] = sse[t] /\ reader'[t] = reader[t] /\ since'[t] = since[t]
      /\ UNCHANGED <<queue, held, sent, pc, to, page, flushed>>
  BY <1>0 DEF Subscribe, TypeOK, request, Addressed, Open
<1>2. Packets(s) = <<>> /\ \A t \in Streams : Packets(t)' = Packets(t)
  <2>1. sent[s] = <<>> /\ queue[s] = <<>> /\ held[s] = None
    BY <1>0, <1>1 DEF Listening
  <2> QED BY <1>1, <2>1 DEF Packets
<1>3. AbsLog' = AbsLog
  BY <1>1, <1>2 DEF AbsLog, Open
<1>4. AbsStage' = AbsStage /\ AbsAudience' = AbsAudience /\ AbsTopic' = AbsTopic
  BY <1>1 DEF AbsStage, AbsAudience, AbsTopic, HasId
<1>5. AbsDue' = AbsDue
  <2>1. \A p : ~Owed(p, s)' /\ ~Owed(p, s)
    BY <1>0, <1>1 DEF Owed, TypeOK, Open
  <2>2. \A t \in Streams : t # s => \A p : Owed(p, t)' <=> Owed(p, t)
    BY <1>1 DEF Owed
  <2>3. \A p \in Publishers, t \in Streams : Owed(p, t)' <=> Owed(p, t)
    BY <2>1, <2>2
  <2> QED BY <1>1, <2>3 DEF AbsDue
<1>6. Log!Join(s, u)
  BY <1>1, <1>3, <1>4, <1>5 DEF Log!Join, AbsLog, AbsStage, AbsAudience, AbsTopic, AbsDue
<1> QED BY <1>6 DEF Moved, Log!Next

\* A stream that closes takes its log with it and is owed nothing more.
LEMMA LeaveMoves ==
  ASSUME IInv, Addressed, NEW s \in Streams, Leave(s)
  PROVE  Moved
<1>0. TypeOK
  BY DEF IInv
<1>1. /\ sse[s] \in Open /\ sse'[s] \notin Open
      /\ \A t \in Streams : t # s =>
           /\ sse'[t] = sse[t] /\ reader'[t] = reader[t] /\ since'[t] = since[t]
           /\ held'[t] = held[t] /\ sent'[t] = sent[t]
      /\ reader' = [reader EXCEPT ![s] = None]
      /\ UNCHANGED <<queue, pc, to, page, flushed>>
  BY <1>0 DEF Leave, Unsubscribe, Forget, TypeOK, request, Open
<1>2. \A t \in Streams : t # s => Packets(t)' = Packets(t)
  BY <1>1 DEF Packets
<1>3. AbsLog' = [AbsLog EXCEPT ![s] = <<>>]
  BY <1>1, <1>2 DEF AbsLog
<1>4. AbsStage' = AbsStage /\ AbsAudience' = AbsAudience /\ AbsTopic' = AbsTopic
  BY <1>1 DEF AbsStage, AbsAudience, AbsTopic, HasId
<1>5. AbsDue' = [p \in Publishers |-> AbsDue[p] \ {s}]
  <2>1. \A p \in Publishers : ~Owed(p, s)'
    BY <1>1 DEF Owed
  <2>2. \A p \in Publishers, t \in Streams : t # s => (Owed(p, t)' <=> Owed(p, t))
    BY <1>1 DEF Owed
  <2>3. \A p \in Publishers : AbsDue'[p] = AbsDue[p] \ {s}
    BY <1>1, <2>1, <2>2 DEF AbsDue
  <2> QED BY <2>3 DEF AbsDue
<1>6. reader[s] # None
  BY <1>1 DEF Addressed
<1>7. Log!Quit(s)
  BY <1>1, <1>3, <1>4, <1>5, <1>6 DEF Log!Quit, AbsLog, AbsStage, AbsAudience, AbsTopic, AbsDue
<1> QED BY <1>7 DEF Moved, Log!Next

\* The flush announces: no other publisher of the page is under way.
LEMMA FlushMoves ==
  ASSUME IInv, Addressed, NEW p \in Publishers, Flush(p)
  PROVE  Moved
<1>0. TypeOK /\ Locks /\ FlushedOnce /\ None \notin Users /\ None \notin Publishers
  BY NoneIsNone DEF IInv
<1>1. /\ pc[p] = "bump" /\ pc' = [pc EXCEPT ![p] = "publish"]
      /\ page[p] # None => pageLock[page[p]] = None
      /\ flushed' = Append(flushed, p)
      /\ UNCHANGED <<channels, queue, held, sse, reader, since, sent, to, page>>
  BY DEF Flush, stream
<1>2. /\ Len(flushed) \in Nat /\ DOMAIN flushed = 1..Len(flushed)
      /\ DOMAIN flushed' = 1..(Len(flushed) + 1) /\ flushed'[Len(flushed) + 1] = p
      /\ \A k \in DOMAIN flushed : flushed'[k] = flushed[k]
  <2>1. flushed \in Seq(Publishers)
    BY <1>0 DEF TypeOK
  <2> QED BY <1>1, <2>1, AppendProperties
<1>3. ~HasId(p) /\ \A q \in Publishers : HasId(q)' <=> HasId(q) \/ q = p
  <2>1. ~HasId(p)
    BY <1>0, <1>1 DEF FlushedOnce, HasId, In
  <2>2. ASSUME NEW q \in Publishers PROVE HasId(q)' <=> HasId(q) \/ q = p
    BY <1>2 DEF HasId
  <2> QED BY <2>1, <2>2
<1>a. PICK A \in SUBSET Users : A = to[p]
  BY <1>0 DEF TypeOK
<1>g. PICK g \in Pages \cup {None} : g = page[p]
  BY <1>0 DEF TypeOK
<1>5. AbsLog' = AbsLog
  BY <1>1 DEF AbsLog, Packets
<1>6. AbsStage' = [AbsStage EXCEPT ![p] = "announced"] /\ AbsStage[p] = "new"
  BY <1>0, <1>1, Stages DEF AbsStage, TypeOK
<1>7. /\ AbsAudience' = [AbsAudience EXCEPT ![p] = A]
      /\ AbsTopic' = [AbsTopic EXCEPT ![p] = g]
  BY <1>1, <1>3, <1>a, <1>g DEF AbsAudience, AbsTopic
<1>8. AbsDue' = [AbsDue EXCEPT ![p] = {s \in Streams : reader[s] \in A}]
  <2>1. ASSUME NEW s \in Streams PROVE Owed(p, s)' <=> reader[s] \in A
    <3>1. since[s] \in Nat /\ since[s] <= Len(flushed)
      BY <1>0 DEF TypeOK
    <3>2. \E k \in DOMAIN flushed' : flushed'[k] = p /\ k > since[s]
      BY <1>2, <3>1
    <3>3. reader[s] \in A => sse[s] \in Open
      BY <1>0, <1>a DEF Addressed
    <3> QED BY <1>1, <1>a, <3>2, <3>3 DEF Owed
  <2>2. ASSUME NEW q \in Publishers, q # p, NEW s \in Streams PROVE Owed(q, s)' <=> Owed(q, s)
    <3>1. \A k \in DOMAIN flushed' : flushed'[k] = q => k \in DOMAIN flushed
      BY <1>2, <2>2
    <3>2. \A k \in DOMAIN flushed : k \in DOMAIN flushed'
      BY <1>2
    <3> QED BY <1>1, <1>2, <3>1, <3>2 DEF Owed
  <2>3. pc'[p] = "publish" /\ \A q \in Publishers : q # p => pc'[q] = pc[q]
    BY <1>0, <1>1 DEF TypeOK
  <2> QED BY <2>1, <2>2, <2>3 DEF AbsDue
<1>9. ASSUME NEW q \in Publishers, AbsStage[q] = "announced"
      PROVE  AbsTopic[q] # g \/ g = None
  <2>1. pc[q] = "publish"
    BY <1>0, <1>9, Stages DEF AbsStage, TypeOK, Ended
  <2>2. AbsTopic[q] = page[q]
    BY <1>0, <2>1 DEF AbsTopic, FlushedOnce, HasId, In
  <2>3. page[q] # None => pageLock[page[q]] = q
    BY <1>0, <2>1 DEF Locks
  <2> QED BY <1>0, <1>1, <1>g, <2>2, <2>3
<1>10. Log!Announce(p, A, g)
  <2>1. /\ AbsStage[p] = "new"
        /\ \A q \in Publishers : AbsStage[q] = "announced" => AbsTopic[q] # g \/ g = None
        /\ UNCHANGED <<reader, AbsLog>>
    BY <1>1, <1>5, <1>6, <1>9
  <2> QED BY <1>6, <1>7, <1>8, <2>1
        DEF Log!Announce, AbsLog, AbsStage, AbsAudience, AbsTopic, AbsDue
<1> QED BY <1>10 DEF Moved, Log!Next

\* A put reaches streams of recipients that do not have the event yet.
LEMMA PublishMoves ==
  ASSUME IInv, Addressed, NEW p \in Publishers, NEW u \in Users, Publish(p, u)
  PROVE  Moved
<1>0. TypeOK /\ FlushedOnce /\ Putting(p) /\ \A s \in Streams : Listening(s)
  BY DEF IInv
<1>1. /\ pc[p] = "publish"
      /\ UNCHANGED <<sse, reader, since, pc, to, page, flushed>>
  BY DEF Publish
<1>2. PICK H \in SUBSET Streams :
        /\ \A s \in H : Pending(p, u, s)
        /\ \A s \in Streams : Packets(s)' = IF s \in H THEN Append(Packets(s), p) ELSE Packets(s)
  BY PublishKeeps
<1>s. PICK S \in SUBSET Streams : S = {s \in H : sse[s] \in Open}
  BY <1>2
<1>3. AbsLog' = [s \in Streams |-> IF s \in S THEN Append(AbsLog[s], p) ELSE AbsLog[s]]
  BY <1>1, <1>2, <1>s DEF AbsLog
<1>4. AbsStage' = AbsStage /\ AbsAudience' = AbsAudience /\ AbsTopic' = AbsTopic
  BY <1>1 DEF AbsStage, AbsAudience, AbsTopic, HasId
<1>5. AbsDue' = AbsDue
  BY <1>1 DEF AbsDue, Owed
<1>6. AbsStage[p] = "announced" /\ AbsAudience[p] = to[p]
  BY <1>0, <1>1, Stages DEF AbsStage, AbsAudience, FlushedOnce, HasId, In
<1>7. ASSUME NEW s \in S PROVE reader[s] \in to[p] /\ ~Log!Has(s, p)
  <2>1. s \in Streams /\ Pending(p, u, s) /\ sse[s] \in Open
    BY <1>2, <1>s
  <2>2. reader[s] \in Users /\ In(s, channels[reader[s]])
    BY <1>0, <2>1 DEF Listening
  <2>3. reader[s] = u
    BY <1>0, <2>1, <2>2 DEF Putting
  <2>4. left[p][u] # <<>>
    BY <2>1, EmptyList DEF Pending
  <2>5. ~Put(p, s)
    BY <1>0, <2>1 DEF Putting
  <2>6. ~Log!Has(s, p)
    BY <2>1, <2>5 DEF Log!Has, Put, In
  <2> QED BY <2>3, <2>4, <2>6 DEF Addressed
<1>8. Log!Put(p, S)
  BY <1>1, <1>3, <1>4, <1>5, <1>6, <1>7
     DEF Log!Put, AbsLog, AbsStage, AbsAudience, AbsTopic, AbsDue
<1> QED BY <1>8 DEF Moved, Log!Next

\* What ends a transaction.
LEMMA FinishMoves ==
  ASSUME IInv, Addressed, NEW p \in Publishers, NEW answer \in Ended, Finish(p, answer),
         pc[p] \in {"bump", "publish"}
  PROVE  /\ UNCHANGED <<reader, AbsLog, AbsAudience, AbsTopic>>
         /\ AbsStage' = [AbsStage EXCEPT ![p] = Stage(answer)]
         /\ AbsDue' = [AbsDue EXCEPT ![p] = {}]
<1>0. TypeOK
  BY DEF IInv
<1>1. /\ pc' = [pc EXCEPT ![p] = answer]
      /\ UNCHANGED <<channels, queue, held, sse, reader, since, sent, to, page, flushed>>
  BY DEF Finish, stream
<1>2. pc'[p] = answer /\ \A q \in Publishers : q # p => pc'[q] = pc[q]
  BY <1>0, <1>1 DEF TypeOK
<1>3. AbsLog' = AbsLog /\ AbsAudience' = AbsAudience /\ AbsTopic' = AbsTopic
  BY <1>1 DEF AbsLog, AbsAudience, AbsTopic, HasId, Packets
<1>4. AbsStage' = [AbsStage EXCEPT ![p] = Stage(answer)]
  BY <1>2 DEF AbsStage
<1>5. AbsDue' = [AbsDue EXCEPT ![p] = {}]
  BY <1>1, <1>2 DEF AbsDue, Owed, Ended
<1> QED BY <1>1, <1>3, <1>4, <1>5

LEMMA EndMoves ==
  ASSUME IInv, Addressed, NEW p \in Publishers, Commit(p) \/ Fail(p)
  PROVE  Moved
<1>1. CASE Commit(p)
  <2>1. pc[p] = "publish" /\ Finish(p, "committed") /\ \A u \in Users : left[p][u] = <<>>
    BY <1>1 DEF Commit
  <2>2. /\ UNCHANGED <<reader, AbsLog, AbsAudience, AbsTopic>>
        /\ AbsStage' = [AbsStage EXCEPT ![p] = "kept"]
        /\ AbsDue' = [AbsDue EXCEPT ![p] = {}]
    BY <2>1, FinishMoves, Stages DEF Ended
  <2>3. AbsStage[p] = "announced"
    BY <2>1, Stages DEF AbsStage
  <2>4. ASSUME NEW s \in AbsDue[p] PROVE Log!Has(s, p)
    <3>1. s \in Streams /\ Owed(p, s)
      BY <2>1 DEF AbsDue
    <3>2. Due(p, s) /\ reader[s] \in Users
      BY <2>1, <3>1 DEF Due, Owed, IInv, Listening
    <3>3. ~Pending(p, reader[s], s)
      BY <2>1, <3>2, EmptyList DEF Pending
    <3>4. Put(p, s)
      BY <3>1, <3>2, <3>3 DEF IInv, Reached
    <3> QED BY <3>1, <3>4 DEF Put, In, Owed, Log!Has
  <2>5. Log!Keep(p)
    BY <2>2, <2>3, <2>4 DEF Log!Keep, AbsLog, AbsStage, AbsAudience, AbsTopic, AbsDue
  <2> QED BY <2>5 DEF Moved, Log!Next
<1>2. CASE Fail(p)
  <2>1. pc[p] \in {"bump", "publish"} /\ Finish(p, "failed")
    BY <1>2 DEF Fail
  <2>2. /\ UNCHANGED <<reader, AbsLog, AbsAudience, AbsTopic>>
        /\ AbsStage' = [AbsStage EXCEPT ![p] = "dropped"]
        /\ AbsDue' = [AbsDue EXCEPT ![p] = {}]
    BY <2>1, FinishMoves, Stages DEF Ended
  <2>3. AbsStage[p] \in {"new", "announced"}
    BY <2>1, Stages DEF AbsStage
  <2>4. Log!Drop(p)
    BY <2>2, <2>3 DEF Log!Drop, AbsLog, AbsStage, AbsAudience, AbsTopic, AbsDue
  <2> QED BY <2>4 DEF Moved, Log!Next
<1> QED BY <1>1, <1>2

LEMMA RestartMoves ==
  ASSUME IInv, Addressed, Restart
  PROVE  Moved
<1>e. PICK E \in SUBSET Publishers : E = {p \in Publishers : pc[p] \in {"bump", "publish"}}
  OBVIOUS
<1>0. TypeOK
  BY DEF IInv
<1>1. /\ \A s \in Streams : sse'[s] \notin Open
      /\ pc' = [p \in Publishers |-> IF p \in E THEN "failed" ELSE pc[p]]
      /\ UNCHANGED <<to, page, flushed>>
      /\ reader' = [s \in Streams |-> None]
  BY <1>e DEF Restart, Open
<1>2. AbsLog' = [s \in Streams |-> <<>>]
  BY <1>1 DEF AbsLog
<1>3. AbsAudience' = AbsAudience /\ AbsTopic' = AbsTopic
  BY <1>1 DEF AbsAudience, AbsTopic, HasId
<1>4. AbsStage' = [p \in Publishers |-> IF p \in E THEN "dropped" ELSE AbsStage[p]]
  BY <1>1, Stages DEF AbsStage
<1>b. \A p \in Publishers : pc'[p] # "publish"
  BY <1>1, <1>e
<1>5. AbsDue' = [p \in Publishers |-> {}]
  BY <1>b DEF AbsDue
<1>6. \A p \in E : AbsStage[p] \in {"new", "announced"}
  BY <1>e, Stages DEF AbsStage
<1>7. \A p \in Publishers : AbsStage[p] = "announced" => p \in E
  BY <1>0, <1>e, Stages DEF AbsStage, TypeOK, Ended
<1>9. Log!Crash(E)
  BY <1>1, <1>2, <1>3, <1>4, <1>5, <1>6, <1>7
     DEF Log!Crash, AbsLog, AbsStage, AbsAudience, AbsTopic, AbsDue
<1> QED BY <1>9 DEF Moved, Log!Next

\* Every behaviour of hub, streams and publishers is a behaviour of the logs: a
\* flush announces, a put extends the logs of streams that do not have the event, a
\* commit keeps it, a disconnect closes its log, and nothing else moves them.
THEOREM LogsKept == Spec => LogKept
<1>1. Init => Log!Init
  <2> SUFFICES ASSUME Init PROVE Log!Init
    OBVIOUS
  <2>1. \A p \in Publishers : ~HasId(p)
    BY DEF Init, HasId
  <2> QED BY <2>1, Stages DEF Init, StreamInit, Log!Init, Open
<1>2. IInv /\ Addressed /\ [Next]_vars => [Log!Next]_(Log!state)
  <2> SUFFICES ASSUME IInv, Addressed, [Next]_vars PROVE Moved
    BY DEF Moved, Log!state, AbsLog, AbsStage, AbsAudience, AbsTopic, AbsDue
  <2>1. CASE UNCHANGED vars
    BY <2>1 DEF vars, stream, request, Moved, AbsLog, AbsStage, AbsAudience, AbsTopic, AbsDue,
       Packets, HasId, Owed
  <2>2. ASSUME NEW s \in Streams, Generator(s) PROVE Moved
    BY <2>2, TakeMoves, LeaveMoves DEF Generator
  <2>3. ASSUME NEW p \in Publishers, Begin(p) \/ Notifier(p) \/ Fail(p) PROVE Moved
    BY <2>3, BeginMoves, FlushMoves, PublishMoves, EndMoves DEF Notifier
  <2> QED BY <2>1, <2>2, <2>3, SubscribeMoves, RestartMoves DEF Next
<1> QED
  BY <1>1, <1>2, AddressedFirst, AddressedStays, Invariant, PTL DEF Spec, LogKept, Log!Spec
=============================================================================
