------------------------------ MODULE ImportLedger ------------------------------
(***************************************************************************)
(* What the import of a batch promises a school, by whomever and however   *)
(* often it is executed: it takes effect all at once or not at all, makes  *)
(* nothing that an import has made already, and lists what it made; only   *)
(* what an import made is ever taken back.                                 *)
(***************************************************************************)
CONSTANTS Rows,      \* the rows of the batch
          Titles,
          Title,     \* the title of each row
          Importers  \* who may execute the batch

VARIABLES made,    \* the entities that imports made and nobody took back
          own,     \* the titles of the school's own entities
          listed,  \* what the last import is known to have made
          row,     \* the status of each row
          raced    \* two operations on the batch were under way at once

ledgerVars == <<made, own, listed, row, raced>>

TitlesOf(entities) == {e.title : e \in entities}

LedgerInit ==
  /\ made = {} /\ listed = {} /\ own \in SUBSET Titles
  /\ row \in [Rows -> {"staged", "ready"}]
  /\ raced = FALSE

\* The rows D become entities, and no row does twice unless it was prepared again.
\* Unless there were races these are all that were ready, and each has its entity.
Import(a, D) ==
  /\ \A i \in D : row[i] # "executed"
  /\ raced \/ D = {i \in Rows : row[i] = "ready"}
  /\ row' = [i \in Rows |-> IF i \in D THEN "executed" ELSE row[i]]
  /\ \E new \in SUBSET [title : {Title[i] : i \in D}, by : {a}] :
       /\ TitlesOf(new) \cap TitlesOf(made) = {}
       /\ raced \/ \A i \in D : Title[i] \in own \cup TitlesOf(made \cup new)
       /\ made' = made \cup new /\ listed' = new
  /\ UNCHANGED <<own, raced>>

Prepare(i) ==
  /\ \E s \in {"mapped", "blocked", "ready"} : row' = [row EXCEPT ![i] = s]
  /\ UNCHANGED <<made, own, listed, raced>>

TakeBack(e) ==
  /\ made' = made \ {e}
  /\ UNCHANGED <<own, listed, row, raced>>

Write(t) ==
  /\ own' = own \cup {t}
  /\ UNCHANGED <<made, listed, row, raced>>

Race ==
  /\ raced' = TRUE
  /\ UNCHANGED <<made, own, listed, row>>

LedgerNext ==
  \/ \E a \in Importers, D \in SUBSET Rows : Import(a, D)
  \/ \E i \in Rows : Prepare(i)
  \/ \E e \in made : TakeBack(e)
  \/ \E t \in Titles : Write(t)
  \/ Race

LedgerSpec == LedgerInit /\ [][LedgerNext]_ledgerVars
=================================================================================
