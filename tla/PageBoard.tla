----------------------------- MODULE PageBoard -----------------------------
(***************************************************************************)
(* What a page promises to those who leave something on it, with no        *)
(* transactions, locks or statements: each act changes the page, tells     *)
(* whom it has to tell and counts as one revision, all at once, and it is  *)
(* right about the page that it changes.                                   *)
(***************************************************************************)
EXTENDS Naturals

CONSTANTS
  Users,
  Names,     \* of what is left on a page, and of acts that people are told of
  Notes,
  Followers, \* Followers[u]: who follows u
  Editors,   \* those who may find the page a title
  None

VARIABLES
  known,     \* whether the page exists
  rev,       \* the number of acts
  title,     \* who wrote the title
  pins, comments, removed, \* names of pins, of comments and of those that are deleted
  owner, under, notes,     \* whose they are; a comment's pin; a pin's note
  reactions, \* <<user, name>>
  unread     \* <<recipient, name>>

page == <<known, rev, title, pins, comments, removed, owner, under, notes, reactions, unread>>

Coherent ==
  /\ \A x, y \in pins : owner[x] = owner[y] => x = y
  /\ \A c \in comments : under[c] \in pins
  /\ removed \subseteq comments

Init ==
  /\ rev = 0 /\ title = None /\ reactions = {}
  /\ Coherent
  /\ ~known => pins = {} /\ comments = {} /\ unread = {}

New(x) == /\ x \notin pins \cup comments
          /\ owner[x] = None
          /\ \A n \in unread : n[2] # x

Gone(x) == x \notin pins \cup (comments \ removed)

Counted == rev' = rev + 1
Tell(people, x) == unread' = unread \cup {<<v, x>> : v \in people}

Find ==
  /\ ~known
  /\ known' = TRUE
  /\ UNCHANGED <<rev, title, pins, comments, removed, owner, under, notes, reactions, unread>>

\* One pin for each user; it may be what makes the page known.
Pin(u, x, n) ==
  /\ New(x)
  /\ \A y \in pins : owner[y] # u
  /\ Counted
  /\ known' = TRUE
  /\ pins' = pins \cup {x}
  /\ owner' = [owner EXCEPT ![x] = u]
  /\ notes' = [notes EXCEPT ![x] = n]
  /\ Tell(Followers[u] \ {u}, x)
  /\ UNCHANGED <<title, comments, removed, under, reactions>>

Annotate(x, n) ==
  /\ x \in pins
  /\ Counted
  /\ notes' = [notes EXCEPT ![x] = n]
  /\ UNCHANGED <<known, title, pins, comments, removed, owner, under, reactions, unread>>

\* A pin that was ever commented on stays.
Unpin(x) ==
  /\ x \in pins
  /\ \A c \in comments : under[c] # x
  /\ Counted
  /\ pins' = pins \ {x}
  /\ UNCHANGED <<known, title, comments, removed, owner, under, notes, reactions, unread>>

\* A comment x on the pin y, which may be a reply to the comment c on it.
Comment(u, x, y, c) ==
  /\ New(x)
  /\ y \in pins
  /\ c = None \/ (c \in comments /\ under[c] = y)
  /\ Counted
  /\ comments' = comments \cup {x}
  /\ owner' = [owner EXCEPT ![x] = u]
  /\ under' = [under EXCEPT ![x] = y]
  /\ Tell(({owner[y]} \cup {owner[d] : d \in {c} \ {None}} \cup Followers[u]) \ {u}, x)
  /\ UNCHANGED <<known, title, pins, removed, notes, reactions>>

Delete(c) ==
  /\ c \in comments
  /\ Counted
  /\ removed' = removed \cup {c}
  /\ UNCHANGED <<known, title, pins, comments, owner, under, notes, reactions, unread>>

\* Whoever left y is told, if y is still there, and only a reaction to what is
\* no longer shown may go uncounted.
React(u, y, x) ==
  /\ known /\ owner[y] # None /\ <<u, y>> \notin reactions
  /\ reactions' = reactions \cup {<<u, y>>}
  /\ \/ New(x) /\ Counted /\ Tell({owner[y]} \ {u}, x)
     \/ y \notin pins \cup comments /\ Counted /\ UNCHANGED unread
     \/ Gone(y) /\ UNCHANGED <<rev, unread>>
  /\ UNCHANGED <<known, title, pins, comments, removed, owner, under, notes>>

Unreact(u, y) ==
  /\ <<u, y>> \in reactions
  /\ reactions' = reactions \ {<<u, y>>}
  /\ Counted \/ (Gone(y) /\ UNCHANGED rev)
  /\ UNCHANGED <<known, title, pins, comments, removed, owner, under, notes, unread>>

\* One's own notifications, of which new ones may have come.
Acknowledge(u) ==
  /\ known
  /\ unread' \subseteq unread
  /\ \A n \in unread \ unread' : n[1] = u
  /\ UNCHANGED <<known, rev, title, pins, comments, removed, owner, under, notes, reactions>>

Retitle(j) ==
  /\ known
  /\ Counted
  /\ title' = j
  /\ UNCHANGED <<known, pins, comments, removed, owner, under, notes, reactions, unread>>

\* An edit of a comment's text, or an act that found nothing left to change.
Touch ==
  /\ known
  /\ Counted
  /\ UNCHANGED <<known, title, pins, comments, removed, owner, under, notes, reactions, unread>>

Next ==
  \/ Find \/ Touch
  \/ \E j \in Editors : Retitle(j)
  \/ \E x \in Names : Unpin(x) \/ Delete(x) \/ \E n \in Notes : Annotate(x, n)
  \/ \E u \in Users :
       \/ Acknowledge(u)
       \/ \E x \in Names :
            \/ Unreact(u, x)
            \/ \E n \in Notes \cup {None} : Pin(u, x, n)
            \/ \E y \in Names :
                 \/ React(u, y, x)
                 \/ \E c \in Names \cup {None} : Comment(u, x, y, c)

Spec == Init /\ [][Next]_page
=============================================================================
