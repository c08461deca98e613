----------------------------- MODULE SourceUrls -----------------------------
(***************************************************************************)
(* Which row of sources an address names, and what the metadata job writes *)
(* in it: normalize_url, finalize_after_redirects, ensure_source,          *)
(* extract_open_graph, infer_kind and hydrate_source_payload.              *)
(*                                                                         *)
(* An address is a record of its parts.  Letter case is a flag; a value of *)
(* the query is a text and how many times it is percent-encoded, which     *)
(* matters to texts that need encoding only.                               *)
(* Keys are numbered in the order of their lower-cased names.              *)
(***************************************************************************)
EXTENDS Naturals, Sequences, FiniteSets

CONSTANTS
  Requests,    \* pins by url and resolves
  Spellings,   \* addresses that clients and servers use
  Redirect,    \* Redirect[u]: where a GET of the canonical address u ends
  Trackers,    \* keys with a tracker's prefix or name
  Texts,       \* what a value may say
  Special,     \* texts that urlencode changes
  Link,        \* one of them, with "://" in it
  VideoHosts, VideoPaths,
  Pages,       \* what a server may answer: extract_open_graph's input
  Garbled,     \* a date that does not parse
  None

ASSUME RequestsKnown == None \notin Requests
ASSUME LinkIsSpecial == Link \in Special
ASSUME NoneIsNoScheme == None # "https"

\* What a query holds: a key, whether it is spelled in capitals, and a value.
Values == [key : Nat, upper : BOOLEAN, text : Texts \cup {None}, depth : Nat]

ASSUME SpellingsTyped == \A u \in Spellings : u.query \in Seq(Values)

VARIABLES
  sources, \* the table: canonical address |-> what Fresh has
  pc,      \* of a request and of the job it starts
  asked,   \* the client's spelling
  landed,  \* whether the fetch of the request came back
  found,   \* the address of the row it was given
  job      \* local variables of its job

vars == <<sources, pc, asked, landed, found, job>>

-----------------------------------------------------------------------------
\* normalize_url

\* Whether the text has "://" beyond its scheme; links in a path or a fragment are left
\* out, only those that a query quotes are among the addresses here.
Plain(u) == \E i \in DOMAIN u.query : u.query[i].text = Link /\ u.query[i].depth = 0

\* "://" anywhere makes the scheme count as given, so that an address without one
\* has no host either if its query quotes a link.
Refused(u) == u.blank \/ u.host = None \/ (u.scheme = None /\ Plain(u))

\* parse_qsl decodes a value and drops empty ones, urlencode encodes it again.
Decoded(d) == IF d = 0 THEN 0 ELSE d - 1
Recoded(q) == [q EXCEPT !.depth = IF q.text \in Special THEN Decoded(@) + 1 ELSE 0]

Kept(q) == q.text # None /\ q.key \notin Trackers

KeptPlaces(s) == {i \in DOMAIN s : Kept(s[i])}

\* Mutant of Before: the keys are compared as they are spelled.
BeforeBySpelling(s, i, j) ==
  LET Weight(q) == 2 * q.key + IF q.upper THEN 0 ELSE 1 IN
  Weight(s[i]) < Weight(s[j]) \/ (Weight(s[i]) = Weight(s[j]) /\ i <= j)

\* list.sort by the lower-cased key, which is stable.
Before(s, i, j) == s[i].key < s[j].key \/ (s[i].key = s[j].key /\ i <= j)

Place(s, i) == Cardinality({j \in KeptPlaces(s) : Before(s, j, i)})
Nth(s, k) == CHOOSE i \in KeptPlaces(s) : Place(s, i) = k

Query(u) ==
  [k \in 1..Cardinality(KeptPlaces(u.query)) |-> Recoded(u.query[Nth(u.query, k)])]

\* Mutant of Normalize: the values are encoded without having been decoded.
NormalizeUndecoded(u) ==
  [scheme |-> IF u.scheme = None THEN "https" ELSE u.scheme, host |-> u.host,
   path |-> IF u.path = None THEN "/" ELSE u.path,
   query |-> [i \in DOMAIN Query(u) |->
     IF Query(u)[i].text \in Special
     THEN [Query(u)[i] EXCEPT !.depth = @ + 1] ELSE Query(u)[i]],
   upper |-> FALSE, blank |-> FALSE, fragment |-> FALSE]

Normalize(u) ==
  [scheme |-> IF u.scheme = None THEN "https" ELSE u.scheme, host |-> u.host,
   path |-> IF u.path = None THEN "/" ELSE u.path,
   query |-> Query(u),
   upper |-> FALSE, blank |-> FALSE, fragment |-> FALSE]

ASSUME RedirectsLand ==
  \A u \in Spellings : ~Refused(u) =>
    LET end == Redirect[Normalize(u)] IN
    end.host # None /\ end.scheme # None /\ end.query \in Seq(Values)

\* finalize_after_redirects: a fetch that fails leaves the address as it was.  One
\* that comes back has a scheme and a host.
Finalize(u, fetched) ==
  IF fetched THEN Normalize(Redirect[Normalize(u)]) ELSE Normalize(u)

ASSUME AddressesAreNotNone ==
  \A u \in Spellings : Normalize(u) # None /\ Normalize(Redirect[Normalize(u)]) # None

-----------------------------------------------------------------------------
\* extract_open_graph: the Open Graph tag of a field, or what stands in for it
\* (<title>, twitter:description, twitter:image, pubdate).  Nothing stands in for a
\* date that does not parse.
Fields == {"title", "description", "image_url", "published_at"}
Snippet(html) ==
  [f \in Fields |->
    LET raw == IF html.og[f] # None THEN html.og[f] ELSE html.other[f] IN
    IF f = "published_at" /\ raw = Garbled THEN None ELSE raw]

\* The code looks at the end of the whole address: one that ends in a query counts as
\* no video file here, which leaves out queries whose last value is a file's name.
InferKind(host, type, u) ==
  IF host \in VideoHosts \/ type = "video" THEN "video"
  ELSE IF type = "article" THEN "article"
  ELSE IF u.path \in VideoPaths /\ u.query = <<>> THEN "video"
  ELSE "other"

Fresh == [f \in Fields \cup {"kind"} |-> IF f = "kind" THEN "other" ELSE None]
NoJob == [seen |-> Fresh, new |-> Fresh]

Goto(r, label) == pc' = [pc EXCEPT ![r] = label]

TypeOK ==
  /\ \A u \in DOMAIN sources :
       /\ DOMAIN sources[u] = Fields \cup {"kind"}
       /\ sources[u].kind \in {"video", "article", "other"}
  /\ pc \in [Requests -> {"idle", "fetch", "ensure", "job", "bump", "commit", "refused",
                          "failed", "done"}]
  /\ asked \in [Requests -> Spellings \cup {None}]
  /\ landed \in [Requests -> BOOLEAN]
  /\ found \in [Requests -> DOMAIN sources \cup {None}]
  /\ \A r \in Requests : pc[r] \in {"job", "bump", "commit", "done"} => found[r] # None

Init ==
  /\ sources = <<>>
  /\ pc = [r \in Requests |-> "idle"]
  /\ asked = [r \in Requests |-> None]
  /\ landed = [r \in Requests |-> FALSE]
  /\ found = [r \in Requests |-> None]
  /\ job = [r \in Requests |-> NoJob]

-----------------------------------------------------------------------------
\* canonicalize_browser_url: an address that cannot be normalized is refused.
Ask(r, u) ==
  /\ pc[r] = "idle"
  /\ asked' = [asked EXCEPT ![r] = u]
  /\ Goto(r, IF Refused(u) THEN "refused" ELSE "fetch")
  /\ UNCHANGED <<sources, landed, found, job>>

Fetch(r) ==
  /\ pc[r] = "fetch"
  /\ \E fetched \in BOOLEAN : landed' = [landed EXCEPT ![r] = fetched]
  /\ Goto(r, "ensure")
  /\ UNCHANGED <<sources, asked, found, job>>

\* Mutant of Ensure: a new row is not written.
EnsureUnwritten(r) ==
  /\ pc[r] = "ensure"
  /\ found' = [found EXCEPT ![r] = Finalize(asked[r], landed[r])]
  /\ Goto(r, "job")
  /\ UNCHANGED <<sources, asked, landed, job>>

\* ensure_source, with the commit of a row it inserts.  Who loses the race for a
\* new address fails (see Surface).
Ensure(r) ==
  LET u == Finalize(asked[r], landed[r]) IN
  /\ pc[r] = "ensure"
  /\ sources' = [v \in DOMAIN sources \cup {u} |->
       IF v \in DOMAIN sources THEN sources[v] ELSE Fresh]
  /\ found' = [found EXCEPT ![r] = u]
  /\ Goto(r, "job")
  /\ UNCHANGED <<asked, landed, job>>

Abort(r) ==
  /\ pc[r] \in {"fetch", "ensure"}
  /\ Goto(r, "failed")
  /\ UNCHANGED <<sources, asked, landed, found, job>>

\* hydrate_source_payload fetches the page, then reads the row.  The page's address
\* is made final once more; it says whether the page is a video.
JobRead(r) ==
  /\ pc[r] = "job"
  /\ \E html \in Pages, fetched \in BOOLEAN :
       LET row == sources[found[r]] IN
       job' = [job EXCEPT ![r] = [seen |-> row, new |->
         [f \in DOMAIN row |->
           IF f = "kind" THEN InferKind(found[r].host, html.type, Finalize(found[r], fetched))
           ELSE IF Snippet(html)[f] # None THEN Snippet(html)[f] ELSE row[f]]]]
  /\ Goto(r, "bump")
  /\ UNCHANGED <<sources, asked, landed, found>>

\* The fetch fails, or a statement does.
JobEnd(r) ==
  /\ pc[r] \in {"job", "bump", "commit"}
  /\ Goto(r, "done")
  /\ job' = [job EXCEPT ![r] = NoJob]
  /\ UNCHANGED <<sources, asked, landed, found>>

\* bump_source_revision waits for the row.
JobBump(r) ==
  /\ pc[r] = "bump"
  /\ \A q \in Requests : pc[q] = "commit" => found[q] # found[r]
  /\ Goto(r, "commit")
  /\ UNCHANGED <<sources, asked, landed, found, job>>

\* Mutant of JobCommit: all columns are written.
JobCommitWholeRow(r) ==
  /\ pc[r] = "commit"
  /\ sources' = [sources EXCEPT ![found[r]] = job[r].new]
  /\ Goto(r, "done")
  /\ job' = [job EXCEPT ![r] = NoJob]
  /\ UNCHANGED <<asked, landed, found>>

\* The flush writes the columns that differ from what was read.
JobCommit(r) ==
  /\ pc[r] = "commit"
  /\ sources' = [sources EXCEPT ![found[r]] =
       [f \in DOMAIN @ |-> IF job[r].new[f] # job[r].seen[f] THEN job[r].new[f] ELSE @[f]]]
  /\ Goto(r, "done")
  /\ job' = [job EXCEPT ![r] = NoJob]
  /\ UNCHANGED <<asked, landed, found>>

Next ==
  \E r \in Requests :
    \/ \E u \in Spellings : Ask(r, u)
    \/ Fetch(r) \/ Ensure(r) \/ Abort(r)
    \/ JobRead(r) \/ JobEnd(r) \/ JobBump(r) \/ JobCommit(r)

Spec == Init /\ [][Next]_vars

-----------------------------------------------------------------------------
\* Two addresses say the same under a key: their values that are not empty, in their
\* order, with the key's letters.
Places(u, k) == {i \in DOMAIN u.query : u.query[i].key = k /\ u.query[i].text # None}
Meaning(q) == <<q.upper, q.text, IF q.text \in Special THEN Decoded(q.depth) ELSE 0>>

SayTheSame(u, v, k) ==
  \E f \in [Places(u, k) -> Places(v, k)] :
    /\ \A i, j \in Places(u, k) : i < j => f[i] < f[j]
    /\ \A j \in Places(v, k) : \E i \in Places(u, k) : f[i] = j
    /\ \A i \in Places(u, k) : Meaning(u.query[i]) = Meaning(v.query[f[i]])

\* Two addresses of one page: they differ in letter case and padding, in a missing
\* scheme or path, in the fragment, in trackers, in empty values, in how values are
\* encoded and in the order of different keys.  http and https are two pages.
SamePage(u, v) ==
  LET Given(x, default) == IF x = None THEN default ELSE x IN
  /\ Given(u.scheme, "https") = Given(v.scheme, "https")
  /\ u.host = v.host
  /\ Given(u.path, "/") = Given(v.path, "/")
  /\ \A k \in {u.query[i].key : i \in DOMAIN u.query} \cup {v.query[i].key : i \in DOMAIN v.query} :
       k \notin Trackers => SayTheSame(u, v, k)

\* Requests that name one page get one row, those that name two get two, as long as
\* their fetches had the same fate: by what they asked if both failed, by where they
\* were sent if both came back.
SamePageSameRow ==
  \A r, q \in Requests :
    found[r] # None /\ found[q] # None /\ landed[r] = landed[q] =>
      LET Target(p) == IF landed[p] THEN Redirect[Normalize(asked[p])] ELSE asked[p] IN
      SamePage(Target(r), Target(q)) <=> found[r] = found[q]

\* The address of a row, which clients and the job send back, names that row.
RowsNameThemselves ==
  \A u \in DOMAIN sources : ~Refused(u) /\ Normalize(u) = u

\* A title, description, image or date once found is never lost again, whatever jobs for
\* the page overlap, though each merges with a row it read before it had its lock.
MetadataNeverLost ==
  [][\A u \in DOMAIN sources : \A f \in Fields :
       sources[u][f] # None => sources'[u][f] # None]_vars
=============================================================================
