------------------------------ MODULE EventLog ------------------------------
(***************************************************************************)
(* What the event streams promise, with no queues, lists, coroutines or    *)
(* locks: each open stream has a log that is only extended, by events that *)
(* were announced to its reader, each once, and an event is not kept       *)
(* before it is in the log of every stream that was open when it was       *)
(* announced and still is.  One event of a topic is announced at a time.   *)
(***************************************************************************)
EXTENDS Sequences

CONSTANTS Readers, Logs, Events, Topics, None

VARIABLES
  reader,   \* whose stream has the log; None when it is not open
  log,      \* the events it was given
  stage,    \* of an event: "new", "announced", "kept" or "dropped"
  audience, \* the readers it is announced to
  topic,
  due       \* the streams that were open then and still are

state == <<reader, log, stage, audience, topic, due>>

Init ==
  /\ reader = [s \in Logs |-> None]
  /\ log = [s \in Logs |-> <<>>]
  /\ stage = [e \in Events |-> "new"]
  /\ audience = [e \in Events |-> {}]
  /\ topic = [e \in Events |-> None]
  /\ due = [e \in Events |-> {}]

Has(s, e) == \E i \in DOMAIN log[s] : log[s][i] = e

Join(s, u) ==
  /\ reader[s] = None
  /\ reader' = [reader EXCEPT ![s] = u]
  /\ UNCHANGED <<log, stage, audience, topic, due>>

Quit(s) ==
  /\ reader[s] # None
  /\ reader' = [reader EXCEPT ![s] = None]
  /\ log' = [log EXCEPT ![s] = <<>>]
  /\ due' = [e \in Events |-> due[e] \ {s}]
  /\ UNCHANGED <<stage, audience, topic>>

Announce(e, A, g) ==
  /\ stage[e] = "new"
  /\ \A d \in Events : stage[d] = "announced" => topic[d] # g \/ g = None
  /\ stage' = [stage EXCEPT ![e] = "announced"]
  /\ audience' = [audience EXCEPT ![e] = A]
  /\ topic' = [topic EXCEPT ![e] = g]
  /\ due' = [due EXCEPT ![e] = {s \in Logs : reader[s] \in A}]
  /\ UNCHANGED <<reader, log>>

Put(e, S) ==
  /\ stage[e] = "announced"
  /\ \A s \in S : reader[s] \in audience[e] /\ ~Has(s, e)
  /\ log' = [s \in Logs |-> IF s \in S THEN Append(log[s], e) ELSE log[s]]
  /\ UNCHANGED <<reader, stage, audience, topic, due>>

Keep(e) ==
  /\ stage[e] = "announced"
  /\ \A s \in due[e] : Has(s, e)
  /\ stage' = [stage EXCEPT ![e] = "kept"]
  /\ due' = [due EXCEPT ![e] = {}]
  /\ UNCHANGED <<reader, log, audience, topic>>

Drop(e) ==
  /\ stage[e] \in {"new", "announced"}
  /\ stage' = [stage EXCEPT ![e] = "dropped"]
  /\ due' = [due EXCEPT ![e] = {}]
  /\ UNCHANGED <<reader, log, audience, topic>>

\* Every stream is lost, and every event under way (E: those that were to come).
Crash(E) ==
  /\ \A e \in Events : stage[e] = "announced" => e \in E
  /\ \A e \in E : stage[e] \in {"new", "announced"}
  /\ reader' = [s \in Logs |-> None]
  /\ log' = [s \in Logs |-> <<>>]
  /\ stage' = [e \in Events |-> IF e \in E THEN "dropped" ELSE stage[e]]
  /\ due' = [e \in Events |-> {}]
  /\ UNCHANGED <<audience, topic>>

Next ==
  \/ \E s \in Logs : Quit(s) \/ \E u \in Readers : Join(s, u)
  \/ \E e \in Events :
       \/ \E A \in SUBSET Readers, g \in Topics \cup {None} : Announce(e, A, g)
       \/ \E S \in SUBSET Logs : Put(e, S)
       \/ Keep(e) \/ Drop(e)
  \/ \E E \in SUBSET Events : Crash(E)

Spec == Init /\ [][Next]_state
=============================================================================
