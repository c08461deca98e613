---------------------------- MODULE MCSourceUrls ----------------------------
(***************************************************************************)
(* Instances of SourceUrls for TLC: key 2 is a tracker's, a link needs     *)
(* encoding, g is a video host, and the film lies behind a redirect.       *)
(***************************************************************************)
EXTENDS SourceUrls, TLC

CONSTANTS r1, r2, h, g, x, t

P(k, up, text, depth) == [key |-> k, upper |-> up, text |-> text, depth |-> depth]

Low == P(1, FALSE, x, 0)
Capital == P(1, TRUE, x, 0)
Later == P(3, FALSE, x, 0)

Queries ==
  {<<>>, <<Low>>, <<Capital>>, <<P(1, FALSE, None, 0)>>, <<P(2, TRUE, x, 0)>>,
   <<Low, Capital>>, <<Capital, Low>>, <<Low, Later>>, <<Later, Low>>,
   <<Low, P(2, FALSE, x, 0), P(3, FALSE, None, 0)>>,
   <<Later, Capital, Low>>, <<Capital, Later, Low>>, <<Low, Later, Capital>>}
  \cup {<<P(3, FALSE, Link, d)>> : d \in 0..2}

Base == [scheme |-> "https", host |-> h, path |-> "/", query |-> <<>>,
         upper |-> FALSE, blank |-> FALSE, fragment |-> FALSE]

Addresses ==
  {[Base EXCEPT !.query = q] : q \in Queries}
  \cup {[Base EXCEPT !.scheme = s, !.query = <<P(3, FALSE, Link, d)>>] :
         s \in {None, "http"}, d \in 0..1}
  \cup {[Base EXCEPT !.scheme = s, !.path = p, !.upper = up, !.fragment = up] :
         s \in {None, "http"}, p \in {None, "/film"}, up \in BOOLEAN}
  \cup {[Base EXCEPT !.host = g, !.query = q] : q \in {<<>>, <<Low>>}}
  \cup {[Base EXCEPT !.host = None], [Base EXCEPT !.blank = TRUE]}

\* http is sent on to https; an address with the first key to the film.
Land(u) ==
  IF u.scheme = "http" THEN [u EXCEPT !.scheme = "https"]
  ELSE IF u.query # <<>> /\ u.query[1].key = 1
  THEN [Base EXCEPT !.path = "/film", !.query = <<P(2, FALSE, x, 0)>>]
  ELSE u

Canonical == {Normalize(u) : u \in Addresses}
Sends == [u \in Canonical \cup {Normalize(Land(v)) : v \in Canonical} |-> Land(u)]

Empty == [f \in Fields |-> None]
Answers ==
  {[og |-> Empty, other |-> Empty, type |-> None],
   [og |-> [Empty EXCEPT !.title = t, !.published_at = Garbled],
    other |-> [Empty EXCEPT !.title = x, !.published_at = t], type |-> "article"],
   [og |-> Empty, other |-> [Empty EXCEPT !.title = x, !.published_at = t], type |-> "video"]}

Interchangeable == Permutations(Requests)
=============================================================================
