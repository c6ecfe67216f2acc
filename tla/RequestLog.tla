----------------------------- MODULE RequestLog -----------------------------
(***************************************************************************)
(* What an append-only table promises the requests that race to extend it, *)
(* the versions of a curriculum document or the attempts of a student at a *)
(* quiz: every request takes effect at most once, by one append to the end *)
(* of a log, and what a request is told about itself is true when it is    *)
(* told and stays true.                                                    *)
(***************************************************************************)
EXTENDS Sequences, Naturals

CONSTANT Requests, \* the requests that may ask for a new entry
         Entries   \* what an entry says

VARIABLES log,     \* the entries, oldest first
          answer   \* what each request was told

logVars == <<log, answer>>

Answers == {"none", "saved", "refused", "unknown"}

Authors == {log[i].by : i \in DOMAIN log}

LogInit ==
  /\ log = <<>>
  /\ answer = [r \in Requests |-> "none"]

\* A request that was told nothing yet, and has no entry, gets its entry.
AppendEntry(r) ==
  /\ answer[r] = "none"
  /\ r \notin Authors
  /\ \E e \in Entries : log' = Append(log, [by |-> r, entry |-> e])
  /\ UNCHANGED answer

\* "saved" is for the author of an entry, "refused" for one that never will be;
\* "unknown" (an error, a lost connection) says nothing.
Answer(r) ==
  /\ answer[r] = "none"
  /\ \E a \in Answers \ {"none"} :
       /\ a = "saved"   => r \in Authors
       /\ a = "refused" => r \notin Authors
       /\ answer' = [answer EXCEPT ![r] = a]
  /\ UNCHANGED log

LogNext == \E r \in Requests : AppendEntry(r) \/ Answer(r)

LogSpec == LogInit /\ [][LogNext]_logVars
=============================================================================
