--------------------------- MODULE ImportBatchProofs ---------------------------
(***************************************************************************)
(* Theorems about ImportBatch, for any number of requests, jobs and rows.  *)
(***************************************************************************)
EXTENDS ImportBatch, TLAPS

USE DEF Busy, Operations, Ended

Labels == {"idle", "queued"} \cup Busy \cup Ended
Work   == UNION {[D -> Entities \cup {NoEntity}] : D \in SUBSET Rows}

TypeInv ==
  /\ batch \in Batches /\ batch.cursor <= RowCount
  /\ rows \in [Rows -> RowStates]
  /\ entities \subseteq Entities
  /\ pc \in [Actors -> Labels]
  /\ loaded \in [Actors -> Batches]
  /\ cursor \in [Actors -> 0..RowCount]
  /\ seen \in [Actors -> [Rows -> RowStates]]
  /\ todo \in [Actors -> SUBSET Rows]
  /\ work \in [Actors -> Work]
  /\ tries \in [Jobs -> 0..Attempts]
  /\ runs \in Nat /\ overlapped \in BOOLEAN

\* A job waits in the queue only while it has an attempt left.
TriesInv == \A j \in Jobs : pc[j] = "queued" => tries[j] < Attempts

\* One transaction is open at a time, and only it holds what was created.
ImporterInv ==
  /\ \A a, b \in Actors : pc[a] = "importing" /\ pc[b] = "importing" => a = b
  /\ \A a \in Actors : DOMAIN work[a] # {} => pc[a] = "importing"

\* What a transaction created has the title of its row, which neither another
\* of its rows nor an earlier import has.
IsNew(a, i) ==
  /\ work[a][i] = [title |-> Title[i], by |-> a]
  /\ \A e \in Imported : e.title # Title[i]
  /\ \A k \in DOMAIN work[a] \ {i} : work[a][k] # NoEntity => Title[k] # Title[i]
WorkInv == \A a \in Actors : \A i \in DOMAIN work[a] : work[a][i] # NoEntity => IsNew(a, i)

\* A summary lists nothing of the school, and after the first execution it
\* lists everything.
RefsInv ==
  /\ \A e \in batch.refs : e.by # School
  /\ \A a \in Actors : \A e \in loaded[a].refs : e.by # School
  /\ runs = 0 => Imported = {}
  /\ runs <= 1 => Imported \subseteq batch.refs

\* As long as the operations do not overlap, one actor is at work at a time, and
\* a roll back has, or has skipped, whatever is left of the import.
OrderInv ==
  ~ overlapped =>
    /\ \A a, b \in Actors : pc[a] \in Busy /\ pc[b] \in Busy => a = b
    /\ runs <= 1 =>
         \A a \in Actors :
           /\ pc[a] = "rollback" => Imported \subseteq loaded[a].refs
           /\ pc[a] = "destroying" => Imported \subseteq loaded[a].refs \cup loaded[a].skipped

IInv == /\ TypeInv /\ TriesInv /\ ImporterInv /\ WorkInv /\ NothingIsImportedTwice
        /\ RefsInv /\ OrderInv /\ OrderlyRollbackUndoes

-----------------------------------------------------------------------------
LEMMA EmptyWork == <<>> \in Work /\ DOMAIN <<>> = {}
<1>1. <<>> \in [{} -> Entities \cup {NoEntity}]
  OBVIOUS
<1> QED
  BY <1>1 DEF Work

LEMMA WorkFacts ==
  ASSUME NEW w \in Work
  PROVE  DOMAIN w \subseteq Rows /\ \A i \in DOMAIN w : w[i] \in Entities \cup {NoEntity}
BY DEF Work

LEMMA Who == School \notin Actors /\ \A a \in Actors : a # School
BY ConstantsAssumption DEF Actors

LEMMA MoveFacts ==
  ASSUME pc \in [Actors -> Labels], NEW a \in Actors, NEW l \in Labels, GoTo(a, l)
  PROVE  /\ pc' \in [Actors -> Labels] /\ pc'[a] = l
         /\ \A b \in Actors \ {a} : pc'[b] = pc[b]
BY DEF GoTo

\* What becomes of the open transactions when one of them may be rolled back.
LEMMA WorkStep ==
  ASSUME TypeInv, ImporterInv, WorkInv, NEW a \in Actors,
         \A b \in Actors \ {a} : pc'[b] = pc[b] \/ (pc'[b] = "queued" /\ pc[b] \notin Busy),
         pc'[a] = "importing" => pc[a] = "importing" \/ BatchIsFree,
         \/ work' = [work EXCEPT ![a] = <<>>]
         \/ work' = work /\ (pc[a] = "importing" => pc'[a] = "importing"),
         Imported' \subseteq Imported
  PROVE  work' \in [Actors -> Work] /\ ImporterInv' /\ WorkInv'
<1>1. work' \in [Actors -> Work]
  BY EmptyWork DEF TypeInv
<1>2. \A b \in Actors : work'[b] = work[b] \/ (b = a /\ work'[b] = <<>>)
  BY DEF TypeInv
<1>3. \A b \in Actors \ {a} : pc'[b] = "importing" <=> pc[b] = "importing"
  OBVIOUS
<1>4. ImporterInv'
  <2>1. ASSUME NEW b \in Actors, NEW c \in Actors, pc'[b] = "importing", pc'[c] = "importing"
        PROVE  b = c
    BY <1>3, <2>1 DEF ImporterInv, BatchIsFree
  <2>2. ASSUME NEW b \in Actors, DOMAIN work'[b] # {}
        PROVE  pc'[b] = "importing"
    <3>1. work'[b] = work[b]
      BY <1>2, <2>2, EmptyWork
    <3>2. pc[b] = "importing"
      BY <2>2, <3>1 DEF ImporterInv
    <3>3. CASE b # a
      BY <1>3, <3>2, <3>3
    <3>4. CASE b = a /\ (pc[a] = "importing" => pc'[a] = "importing")
      BY <3>2, <3>4
    <3>5. CASE b = a /\ work' = [work EXCEPT ![a] = <<>>]
      BY <2>2, <3>5, EmptyWork DEF TypeInv
    <3> QED
      BY <3>3, <3>4, <3>5
  <2> QED
    BY <2>1, <2>2 DEF ImporterInv
<1>5. WorkInv'
  <2> SUFFICES ASSUME NEW b \in Actors, NEW i \in DOMAIN work'[b], work'[b][i] # NoEntity
               PROVE  IsNew(b, i)'
    BY DEF WorkInv
  <2>1. work'[b] = work[b]
    BY <1>2, EmptyWork
  <2>2. IsNew(b, i)
    BY <2>1 DEF WorkInv
  <2> QED
    BY <2>1, <2>2 DEF IsNew
<1> QED
  BY <1>1, <1>4, <1>5

\* A step of one actor that commits nothing of an import: the columns it writes
\* into the batch, and what it holds of the batch, fit what is left of the import.
LEMMA QuietStep ==
  ASSUME IInv, NEW a \in Actors,
         batch' \in Batches, batch'.cursor <= RowCount, rows' \in [Rows -> RowStates],
         entities' \subseteq Entities, pc' \in [Actors -> Labels],
         loaded' \in [Actors -> Batches], cursor' \in [Actors -> 0..RowCount],
         seen' \in [Actors -> [Rows -> RowStates]], todo' \in [Actors -> SUBSET Rows],
         tries' \in [Jobs -> 0..Attempts], runs' = runs, overlapped' \in BOOLEAN,
         \A b \in Actors \ {a} : pc'[b] = pc[b] \/ (pc'[b] = "queued" /\ pc[b] \notin Busy),
         \A j \in Jobs : pc'[j] = "queued" =>
           tries'[j] < Attempts \/ (pc[j] = "queued" /\ tries'[j] = tries[j]),
         pc'[a] = "importing" => pc[a] = "importing" \/ BatchIsFree,
         \/ work' = [work EXCEPT ![a] = <<>>]
         \/ work' = work /\ (pc[a] = "importing" => pc'[a] = "importing"),
         Imported' \subseteq Imported, batch'.refs = batch.refs,
         loaded'[a].refs \subseteq loaded[a].refs \cup batch.refs,
         \A b \in Actors \ {a} : loaded'[b] = loaded[b],
         ~ overlapped' => ~ overlapped,
         ~ overlapped' /\ pc'[a] \in Busy =>
           pc[a] \in Busy \/ \A b \in Actors \ {a} : pc[b] \notin Busy,
         ~ overlapped' /\ runs <= 1 =>
           /\ pc'[a] = "rollback" => Imported' \subseteq loaded'[a].refs
           /\ pc'[a] = "destroying" => Imported' \subseteq loaded'[a].refs \cup loaded'[a].skipped
           /\ batch'.status = "rolled_back" => Imported' \subseteq batch'.skipped
  PROVE  IInv'
<1> USE DEF IInv
<1>1. work' \in [Actors -> Work] /\ ImporterInv' /\ WorkInv'
  BY WorkStep
<1>2. TypeInv'
  BY <1>1 DEF TypeInv
<1>3. TriesInv'
  BY DEF TriesInv
<1>4. NothingIsImportedTwice'
  BY DEF NothingIsImportedTwice
<1>5. RefsInv'
  <2>1. \A b \in Actors : \A e \in loaded'[b].refs : e.by # School
    BY DEF RefsInv
  <2>2. runs = 0 => Imported' = {}
    BY DEF RefsInv
  <2>3. runs <= 1 => Imported' \subseteq batch'.refs
    BY DEF RefsInv
  <2> QED
    BY <2>1, <2>2, <2>3 DEF RefsInv
<1>6. OrderInv'
  <2> SUFFICES ASSUME ~ overlapped' PROVE OrderInv'
    BY DEF OrderInv
  <2>1. ~ overlapped
    OBVIOUS
  <2>2. \A b \in Actors \ {a} : pc'[b] \in Busy => pc[b] = pc'[b]
    OBVIOUS
  <2>3. \A b, c \in Actors : pc'[b] \in Busy /\ pc'[c] \in Busy => b = c
    <3>1. ASSUME NEW b \in Actors \ {a}, pc'[b] \in Busy, pc'[a] \in Busy PROVE FALSE
      <4>1. pc[b] \in Busy
        BY <2>2, <3>1
      <4>2. pc[a] \in Busy
        BY <3>1, <4>1
      <4> QED
        BY <2>1, <4>1, <4>2 DEF OrderInv
    <3>2. ASSUME NEW b \in Actors \ {a}, NEW c \in Actors \ {a}, pc'[b] \in Busy, pc'[c] \in Busy
          PROVE  b = c
      <4>1. pc[b] \in Busy /\ pc[c] \in Busy
        BY <2>2, <3>2
      <4> QED
        BY <2>1, <4>1 DEF OrderInv
    <3> QED
      BY <3>1, <3>2
  <2>4. ASSUME runs <= 1, NEW b \in Actors
        PROVE  /\ pc'[b] = "rollback" => Imported' \subseteq loaded'[b].refs
               /\ pc'[b] = "destroying" => Imported' \subseteq loaded'[b].refs \cup loaded'[b].skipped
    <3>1. CASE b = a
      BY <2>4, <3>1
    <3>2. CASE b # a
      BY <2>1, <2>2, <2>4, <3>2 DEF OrderInv
    <3> QED
      BY <3>1, <3>2
  <2> QED
    BY <2>3, <2>4 DEF OrderInv
<1>7. OrderlyRollbackUndoes'
  BY DEF OrderlyRollbackUndoes
<1> QED
  BY <1>1, <1>2, <1>3, <1>4, <1>5, <1>6, <1>7

-----------------------------------------------------------------------------
Statuses == {"staged", "mapped", "blocked", "ready_for_execute", "executing",
             "completed", "rolled_back", "failed"}

LEMMA StatusFacts ==
  ASSUME TypeInv, NEW a \in Actors, NEW s \in Statuses
  PROVE  /\ WithStatus(a, s) \in Batches /\ WithStatus(a, s).cursor = batch.cursor
         /\ WithStatus(a, s).refs = batch.refs /\ WithStatus(a, s).skipped = batch.skipped
         /\ WithStatus(a, s).status \in {batch.status, s}
BY DEF TypeInv, WithStatus, Batches, Statuses

LEMMA RowStatusFacts ==
  ASSUME TypeInv, NEW a \in Actors, NEW i \in Rows, NEW s \in {"mapped", "blocked", "ready"}
  PROVE  RowWithStatus(a, i, s) \in RowStates
<1>1. rows[i] \in RowStates
  BY DEF TypeInv
<1>2. [rows[i] EXCEPT !.status = s] \in RowStates
  BY <1>1 DEF RowStates
<1> QED
  BY <1>1, <1>2 DEF RowWithStatus

\* An operation that changes only the batch, the rows and its own progress.
LEMMA OwnStep ==
  ASSUME IInv, NEW a \in Actors, NEW l \in Labels, pc[a] \in Busy,
         GoTo(a, l), l \notin {"rollback", "destroying"},
         l = "importing" => pc[a] = "importing" \/ BatchIsFree,
         l = "queued" /\ a \in Jobs => tries[a] < Attempts,
         batch' \in Batches, batch'.cursor <= RowCount,
         batch'.refs = batch.refs, batch'.skipped = batch.skipped,
         batch'.status # batch.status => batch'.status # "rolled_back",
         rows' \in [Rows -> RowStates],
         seen' \in [Actors -> [Rows -> RowStates]], todo' \in [Actors -> SUBSET Rows],
         cursor' \in [Actors -> 0..RowCount],
         \/ work' = [work EXCEPT ![a] = <<>>]
         \/ work' = work /\ (pc[a] = "importing" => l = "importing"),
         UNCHANGED <<entities, loaded, tries, runs, overlapped>>
  PROVE  IInv'
<1>1. /\ pc' \in [Actors -> Labels] /\ pc'[a] = l
      /\ \A b \in Actors \ {a} : pc'[b] = pc[b]
  BY MoveFacts DEF IInv, TypeInv
<1>2. /\ entities' \subseteq Entities /\ loaded' \in [Actors -> Batches]
      /\ tries' \in [Jobs -> 0..Attempts]
      /\ runs' = runs /\ overlapped' \in BOOLEAN /\ overlapped' = overlapped
      /\ loaded' = loaded /\ entities' = entities /\ tries' = tries
  BY DEF IInv, TypeInv
<1>3. Imported' = Imported
  BY <1>2 DEF Imported
<1>4. \A j \in Jobs : pc'[j] = "queued" => tries'[j] < Attempts
  BY <1>1, <1>2 DEF Actors, IInv, TriesInv
<1>5. ~ overlapped' /\ runs <= 1 /\ batch'.status = "rolled_back" => Imported' \subseteq batch'.skipped
  BY <1>2, <1>3 DEF IInv, OrderlyRollbackUndoes
<1>6. \A j \in Jobs : pc'[j] = "queued" =>
        tries'[j] < Attempts \/ (pc[j] = "queued" /\ tries'[j] = tries[j])
  BY <1>4
<1>7. /\ pc'[a] = "importing" => pc[a] = "importing" \/ BatchIsFree
      /\ \/ work' = [work EXCEPT ![a] = <<>>]
         \/ work' = work /\ (pc[a] = "importing" => pc'[a] = "importing")
  BY <1>1, <1>2
<1>8. /\ Imported' \subseteq Imported
      /\ loaded'[a].refs \subseteq loaded[a].refs \cup batch.refs
      /\ \A b \in Actors \ {a} : loaded'[b] = loaded[b]
      /\ ~ overlapped' => ~ overlapped
  BY <1>2, <1>3
<1>9. /\ \A b \in Actors \ {a} : pc'[b] = pc[b] \/ (pc'[b] = "queued" /\ pc[b] \notin Busy)
      /\ ~ overlapped' /\ pc'[a] \in Busy =>
           pc[a] \in Busy \/ \A b \in Actors \ {a} : pc[b] \notin Busy
  BY <1>1
<1>10. ~ overlapped' /\ runs <= 1 =>
         /\ pc'[a] = "rollback" => Imported' \subseteq loaded'[a].refs
         /\ pc'[a] = "destroying" => Imported' \subseteq loaded'[a].refs \cup loaded'[a].skipped
         /\ batch'.status = "rolled_back" => Imported' \subseteq batch'.skipped
  BY <1>1, <1>5
<1> QED
  BY <1>1, <1>2, <1>6, <1>7, <1>8, <1>9, <1>10, QuietStep

LEMMA MapStep ==
  ASSUME IInv, NEW r \in Actors, Map(r)
  PROVE  IInv'
<1>1. /\ TypeInv /\ GoTo(r, "mapping") /\ pc[r] = "map" /\ batch' = WithStatus(r, "mapped")
      /\ UNCHANGED <<rows, entities, loaded, cursor, work, tries, runs, overlapped>>
      /\ seen' = [seen EXCEPT ![r] = rows] /\ todo' = [todo EXCEPT ![r] = Rows]
  BY DEF Map, LoadRows, IInv
<1>2. /\ rows' \in [Rows -> RowStates] /\ seen' \in [Actors -> [Rows -> RowStates]]
      /\ todo' \in [Actors -> SUBSET Rows] /\ batch.cursor <= RowCount
      /\ cursor' \in [Actors -> 0..RowCount]
  BY <1>1 DEF TypeInv
<1> QED
  BY <1>1, <1>2, StatusFacts, OwnStep DEF Statuses, Labels

LEMMA MapRowStep ==
  ASSUME IInv, NEW r \in Actors, NEW i \in Rows, MapRow(r, i)
  PROVE  IInv'
<1>1. /\ TypeInv /\ pc[r] = "mapping" /\ PassRow(r, i)
      /\ UNCHANGED <<batch, entities, loaded, cursor, seen, work, tries, runs, overlapped>>
  BY DEF MapRow, IInv
<1>2. PICK l \in {"mapping", "answered"} : GoTo(r, l)
  BY DEF MapRow
<1>3. PICK valid \in BOOLEAN :
        rows' = [rows EXCEPT ![i] = [RowWithStatus(r, i, "mapped") EXCEPT !.valid = valid]]
  BY DEF MapRow
<1>4. rows' \in [Rows -> RowStates]
  <2>1. [RowWithStatus(r, i, "mapped") EXCEPT !.valid = valid] \in RowStates
    BY <1>1, RowStatusFacts DEF RowStates
  <2> QED
    BY <1>1, <1>3, <2>1 DEF TypeInv
<1>5. /\ seen' \in [Actors -> [Rows -> RowStates]] /\ todo' \in [Actors -> SUBSET Rows]
      /\ batch' \in Batches /\ batch'.cursor <= RowCount /\ cursor' \in [Actors -> 0..RowCount]
  BY <1>1 DEF TypeInv, PassRow
<1> QED
  BY <1>1, <1>2, <1>4, <1>5, OwnStep DEF Labels

LEMMA DryRunStep ==
  ASSUME IInv, NEW r \in Actors, DryRun(r)
  PROVE  IInv'
<1>1. /\ TypeInv /\ GoTo(r, "checking") /\ pc[r] = "dry_run"
      /\ UNCHANGED <<batch, rows, entities, loaded, cursor, work, tries, runs, overlapped>>
      /\ seen' = [seen EXCEPT ![r] = rows] /\ todo' = [todo EXCEPT ![r] = Rows]
  BY DEF DryRun, LoadRows, IInv
<1>2. /\ rows' \in [Rows -> RowStates] /\ seen' \in [Actors -> [Rows -> RowStates]]
      /\ todo' \in [Actors -> SUBSET Rows] /\ batch' \in Batches /\ batch'.cursor <= RowCount
      /\ cursor' \in [Actors -> 0..RowCount]
  BY <1>1 DEF TypeInv
<1> QED
  BY <1>1, <1>2, OwnStep DEF Labels

LEMMA CheckRowStep ==
  ASSUME IInv, NEW r \in Actors, NEW i \in Rows, CheckRow(r, i)
  PROVE  IInv'
<1>1. /\ TypeInv /\ pc[r] = "checking" /\ PassRow(r, i)
      /\ UNCHANGED <<batch, entities, loaded, cursor, seen, work, tries, runs, overlapped>>
  BY DEF CheckRow, IInv
<1>2. PICK l \in {"checking", "summing"} : GoTo(r, l)
  BY DEF CheckRow
<1>3. PICK s \in {"ready", "blocked"} : rows' = [rows EXCEPT ![i] = RowWithStatus(r, i, s)]
  BY DEF CheckRow
<1>4. rows' \in [Rows -> RowStates]
  BY <1>1, <1>3, RowStatusFacts DEF TypeInv
<1>5. /\ seen' \in [Actors -> [Rows -> RowStates]] /\ todo' \in [Actors -> SUBSET Rows]
      /\ batch' \in Batches /\ batch'.cursor <= RowCount /\ cursor' \in [Actors -> 0..RowCount]
  BY <1>1 DEF TypeInv, PassRow
<1> QED
  BY <1>1, <1>2, <1>4, <1>5, OwnStep DEF Labels

LEMMA SummariseStep ==
  ASSUME IInv, NEW r \in Actors, Summarise(r)
  PROVE  IInv'
<1>1. /\ TypeInv /\ GoTo(r, "answered") /\ pc[r] = "summing"
      /\ UNCHANGED <<rows, entities, loaded, cursor, seen, todo, work, tries, runs, overlapped>>
  BY DEF Summarise, IInv
<1>2. PICK s \in {"ready_for_execute", "blocked"} : batch' = WithStatus(r, s)
  BY DEF Summarise
<1>3. /\ batch' \in Batches /\ batch'.cursor = batch.cursor /\ batch'.refs = batch.refs
      /\ batch'.skipped = batch.skipped
      /\ (batch'.status # batch.status => batch'.status # "rolled_back")
  BY <1>1, <1>2, StatusFacts DEF Statuses
<1>4. /\ rows' \in [Rows -> RowStates] /\ seen' \in [Actors -> [Rows -> RowStates]]
      /\ todo' \in [Actors -> SUBSET Rows] /\ batch.cursor <= RowCount
      /\ cursor' \in [Actors -> 0..RowCount]
  BY <1>1 DEF TypeInv
<1> QED
  BY <1>1, <1>4, <1>3, OwnStep DEF Labels

LEMMA EnqueueStep ==
  ASSUME IInv, NEW r \in Actors, Enqueue(r)
  PROVE  IInv'
<1>1. /\ TypeInv /\ GoTo(r, "enqueued") /\ pc[r] = "enqueue"
      /\ batch' = WithStatus(r, "executing")
      /\ UNCHANGED <<rows, entities, loaded, cursor, seen, todo, work, tries, runs, overlapped>>
  BY DEF Enqueue, IInv
<1>2. /\ rows' \in [Rows -> RowStates] /\ seen' \in [Actors -> [Rows -> RowStates]]
      /\ todo' \in [Actors -> SUBSET Rows] /\ batch.cursor <= RowCount
      /\ cursor' \in [Actors -> 0..RowCount]
  BY <1>1 DEF TypeInv
<1> QED
  BY <1>1, <1>2, StatusFacts, OwnStep DEF Statuses, Labels

LEMMA RefuseStep ==
  ASSUME IInv, NEW a \in Actors, RefuseBlocked(a) \/ Report(a) \/ PerformLaterRaises(a)
  PROVE  IInv'
<1>1. /\ TypeInv /\ pc[a] \in {"execute", "imported", "enqueued"}
      /\ UNCHANGED <<batch, rows, entities, loaded, cursor, seen, todo, work, tries, runs,
                     overlapped>>
  BY DEF RefuseBlocked, Report, PerformLaterRaises, IInv
<1>2. PICK l \in {"rescue", "begin", "answered", "unqueued"} : GoTo(a, l)
  BY DEF RefuseBlocked, Report, PerformLaterRaises
<1>3. /\ rows' \in [Rows -> RowStates] /\ seen' \in [Actors -> [Rows -> RowStates]]
      /\ todo' \in [Actors -> SUBSET Rows] /\ batch' \in Batches /\ batch'.cursor <= RowCount
      /\ cursor' \in [Actors -> 0..RowCount]
  BY <1>1 DEF TypeInv
<1> QED
  BY <1>1, <1>2, <1>3, OwnStep DEF Labels

LEMMA BeginStep ==
  ASSUME IInv, NEW a \in Actors, Begin(a)
  PROVE  IInv'
<1>1. /\ TypeInv /\ GoTo(a, "importing") /\ pc[a] = "begin" /\ BatchIsFree
      /\ UNCHANGED <<batch, rows, entities, loaded, work, tries, runs, overlapped>>
      /\ cursor' = [cursor EXCEPT ![a] = 0] /\ seen' = [seen EXCEPT ![a] = rows]
      /\ todo' = [todo EXCEPT ![a] = {i \in Rows : rows[i].status = "ready"}]
  BY DEF Begin, LoadRows, IInv
<1>2. /\ rows' \in [Rows -> RowStates] /\ seen' \in [Actors -> [Rows -> RowStates]]
      /\ todo' \in [Actors -> SUBSET Rows] /\ batch' \in Batches /\ batch'.cursor <= RowCount
  BY <1>1 DEF TypeInv
<1>3. cursor' \in [Actors -> 0..RowCount]
  BY <1>1, ConstantsAssumption DEF TypeInv
<1> QED
  BY <1>1, <1>2, <1>3, OwnStep DEF Labels

LEMMA RaiseStep ==
  ASSUME IInv, NEW a \in Actors, RaiseInRun(a)
  PROVE  IInv'
<1>1. /\ TypeInv /\ GoTo(a, "rescue") /\ pc[a] = "importing"
      /\ work' = [work EXCEPT ![a] = <<>>]
      /\ UNCHANGED <<batch, rows, entities, loaded, cursor, seen, todo, tries, runs, overlapped>>
  BY DEF RaiseInRun, IInv
<1>2. /\ rows' \in [Rows -> RowStates] /\ seen' \in [Actors -> [Rows -> RowStates]]
      /\ todo' \in [Actors -> SUBSET Rows] /\ batch' \in Batches /\ batch'.cursor <= RowCount
      /\ cursor' \in [Actors -> 0..RowCount]
  BY <1>1 DEF TypeInv
<1> QED
  BY <1>1, <1>2, OwnStep DEF Labels

LEMMA RescueStep ==
  ASSUME IInv, NEW a \in Actors, Rescue(a)
  PROVE  IInv'
<1>1. /\ TypeInv /\ pc[a] = "rescue" /\ batch' = Rescued(a)
      /\ GoTo(a, IF a \in Jobs /\ tries[a] < Attempts THEN "queued" ELSE "answered")
      /\ UNCHANGED <<rows, entities, loaded, cursor, seen, todo, work, tries, runs, overlapped>>
  BY DEF Rescue, IInv
<1>2. PICK l \in {"queued", "answered"} :
        GoTo(a, l) /\ (l = "queued" /\ a \in Jobs => tries[a] < Attempts)
  BY <1>1
<1> DEFINE w == WithStatus(a, "failed")
           c == IF cursor[a] = loaded[a].cursor THEN batch.cursor ELSE cursor[a]
<1>3. /\ w \in Batches /\ w.cursor = batch.cursor /\ w.refs = batch.refs
      /\ w.skipped = batch.skipped /\ w.status \in {batch.status, "failed"}
  BY <1>1, StatusFacts DEF Statuses
<1>4. c \in Nat /\ c <= RowCount
  <2>1. batch.cursor \in Nat /\ batch.cursor <= RowCount /\ cursor[a] \in 0..RowCount
    BY <1>1 DEF TypeInv, Batches
  <2> QED
    BY <2>1, ConstantsAssumption
<1>5. batch' = [w EXCEPT !.cursor = c]
  BY <1>1, <1>3 DEF Rescued
<1> HIDE DEF w, c
<1>6. /\ batch' \in Batches /\ batch'.cursor = c /\ batch'.refs = w.refs
      /\ batch'.skipped = w.skipped /\ batch'.status = w.status
  BY <1>3, <1>4, <1>5 DEF Batches
<1>7. /\ rows' \in [Rows -> RowStates] /\ seen' \in [Actors -> [Rows -> RowStates]]
      /\ todo' \in [Actors -> SUBSET Rows] /\ cursor' \in [Actors -> 0..RowCount]
  BY <1>1 DEF TypeInv
<1>8. batch'.cursor <= RowCount /\ batch'.refs = batch.refs /\ batch'.skipped = batch.skipped
      /\ (batch'.status # batch.status => batch'.status # "rolled_back")
  BY <1>3, <1>4, <1>6
<1> QED
  BY <1>1, <1>2, <1>6, <1>7, <1>8, OwnStep DEF Labels

LEMMA CrashStep ==
  ASSUME IInv, NEW a \in Actors, Crash(a)
  PROVE  IInv'
<1>1. /\ TypeInv /\ pc[a] \in Busy /\ work' = [work EXCEPT ![a] = <<>>]
      /\ UNCHANGED <<batch, rows, entities, loaded, cursor, seen, todo, tries, runs, overlapped>>
  BY DEF Crash, IInv
<1>2. PICK l \in {"dead", "queued"} :
        GoTo(a, l) /\ (l = "queued" /\ a \in Jobs => tries[a] < Attempts)
  BY DEF Crash
<1>3. /\ rows' \in [Rows -> RowStates] /\ seen' \in [Actors -> [Rows -> RowStates]]
      /\ todo' \in [Actors -> SUBSET Rows] /\ batch' \in Batches /\ batch'.cursor <= RowCount
      /\ cursor' \in [Actors -> 0..RowCount]
  BY <1>1 DEF TypeInv
<1> QED
  BY <1>1, <1>2, <1>3, OwnStep DEF Labels

-----------------------------------------------------------------------------
\* An actor that loads the batch.
LEMMA LoadStep ==
  ASSUME IInv, NEW a \in Actors, NEW l \in Operations, pc[a] \notin Busy, Load(a), GoTo(a, l),
         tries' \in [Jobs -> 0..Attempts], \A j \in Jobs \ {a} : tries'[j] = tries[j],
         UNCHANGED <<batch, rows, entities, seen, todo, work, runs>>
  PROVE  IInv'
<1>1. /\ pc' \in [Actors -> Labels] /\ pc'[a] = l
      /\ \A b \in Actors \ {a} : pc'[b] = pc[b]
  BY MoveFacts DEF IInv, TypeInv, Labels
<1>2. /\ batch' \in Batches /\ batch'.cursor <= RowCount /\ rows' \in [Rows -> RowStates]
      /\ entities' \subseteq Entities /\ seen' \in [Actors -> [Rows -> RowStates]]
      /\ todo' \in [Actors -> SUBSET Rows] /\ runs' = runs /\ work' = work
      /\ batch.cursor \in Nat /\ Imported' = Imported
  BY DEF IInv, TypeInv, Batches, Imported
<1>3. /\ loaded' \in [Actors -> Batches] /\ loaded'[a] = batch
      /\ \A b \in Actors \ {a} : loaded'[b] = loaded[b]
  BY DEF IInv, TypeInv, Load
<1>4. cursor' \in [Actors -> 0..RowCount]
  <2>1. batch.cursor \in 0..RowCount
    BY <1>2, ConstantsAssumption
  <2> QED
    BY <2>1 DEF IInv, TypeInv, Load
<1>5. /\ overlapped' \in BOOLEAN /\ (~ overlapped' => ~ overlapped)
      /\ ~ overlapped' => \A b \in Actors \ {a} : pc[b] \notin Busy
  BY DEF IInv, TypeInv, Load
<1>6. \A j \in Jobs : pc'[j] = "queued" =>
        tries'[j] < Attempts \/ (pc[j] = "queued" /\ tries'[j] = tries[j])
  BY <1>1 DEF Actors
<1>7. /\ pc'[a] = "importing" => pc[a] = "importing" \/ BatchIsFree
      /\ \/ work' = [work EXCEPT ![a] = <<>>]
         \/ work' = work /\ (pc[a] = "importing" => pc'[a] = "importing")
  BY <1>1, <1>2
<1>8. /\ Imported' \subseteq Imported /\ batch'.refs = batch.refs
      /\ loaded'[a].refs \subseteq loaded[a].refs \cup batch.refs
  BY <1>2, <1>3
<1>9. /\ \A b \in Actors \ {a} : pc'[b] = pc[b] \/ (pc'[b] = "queued" /\ pc[b] \notin Busy)
      /\ ~ overlapped' /\ pc'[a] \in Busy =>
           pc[a] \in Busy \/ \A b \in Actors \ {a} : pc[b] \notin Busy
  BY <1>1, <1>5
<1>10. ~ overlapped' /\ runs <= 1 =>
         /\ pc'[a] = "rollback" => Imported' \subseteq loaded'[a].refs
         /\ pc'[a] = "destroying" => Imported' \subseteq loaded'[a].refs \cup loaded'[a].skipped
         /\ batch'.status = "rolled_back" => Imported' \subseteq batch'.skipped
  BY <1>1, <1>2, <1>3, <1>5 DEF IInv, RefsInv, OrderlyRollbackUndoes
<1> QED
  BY <1>1, <1>2, <1>3, <1>4, <1>5, <1>6, <1>7, <1>8, <1>9, <1>10, QuietStep

LEMMA ArriveStep ==
  ASSUME IInv, NEW r \in Requests, Arrive(r)
  PROVE  IInv'
<1>1. /\ pc[r] = "idle" /\ Load(r) /\ r \in Actors
      /\ UNCHANGED <<batch, rows, entities, seen, todo, work, tries, runs>>
  BY DEF Arrive, Actors
<1>2. PICK op \in Operations : GoTo(r, op)
  BY DEF Arrive
<1>3. tries' \in [Jobs -> 0..Attempts] /\ \A j \in Jobs : tries'[j] = tries[j]
  BY <1>1 DEF IInv, TypeInv
<1> QED
  BY <1>1, <1>2, <1>3, LoadStep

LEMMA StartJobStep ==
  ASSUME IInv, NEW j \in Jobs, StartJob(j)
  PROVE  IInv'
<1>1. /\ pc[j] = "queued" /\ Load(j) /\ GoTo(j, "execute") /\ j \in Actors
      /\ tries' = [tries EXCEPT ![j] = @ + 1]
      /\ UNCHANGED <<batch, rows, entities, seen, todo, work, runs>>
  BY DEF StartJob, Actors
<1>2. tries \in [Jobs -> 0..Attempts] /\ tries[j] < Attempts
  BY <1>1 DEF IInv, TypeInv, TriesInv
<1>3. tries[j] + 1 \in 0..Attempts
  BY <1>2, ConstantsAssumption
<1>4. tries' \in [Jobs -> 0..Attempts] /\ \A k \in Jobs \ {j} : tries'[k] = tries[k]
  BY <1>1, <1>2, <1>3
<1> QED
  BY <1>1, <1>4, LoadStep

-----------------------------------------------------------------------------
\* An actor that rolls back: what it holds of the batch, what it destroys and
\* what it writes in the end.
LEMMA UndoStep ==
  ASSUME IInv, NEW r \in Actors, NEW l \in {"destroying", "answered"},
         pc[r] \in {"rollback", "destroying"}, pc'[r] = l, pc' \in [Actors -> Labels],
         \A b \in Actors \ {r} : pc'[b] = pc[b] /\ loaded'[b] = loaded[b],
         batch' \in Batches, batch'.cursor <= RowCount, batch'.refs = batch.refs,
         loaded' \in [Actors -> Batches], loaded'[r].refs \subseteq loaded[r].refs,
         entities' \subseteq Entities, Imported' \subseteq Imported,
         ~ overlapped /\ runs <= 1 =>
           /\ l = "destroying" => Imported' \subseteq loaded'[r].refs \cup loaded'[r].skipped
           /\ batch'.status = "rolled_back" => Imported' \subseteq batch'.skipped,
         UNCHANGED <<rows, cursor, seen, todo, work, tries, runs, overlapped>>
  PROVE  IInv'
<1>1. /\ rows' \in [Rows -> RowStates] /\ cursor' \in [Actors -> 0..RowCount]
      /\ seen' \in [Actors -> [Rows -> RowStates]] /\ todo' \in [Actors -> SUBSET Rows]
      /\ tries' \in [Jobs -> 0..Attempts] /\ runs' = runs /\ overlapped' \in BOOLEAN
      /\ tries' = tries /\ overlapped' = overlapped /\ work' = work
  BY DEF IInv, TypeInv
<1>2. \A j \in Jobs : pc'[j] = "queued" =>
        tries'[j] < Attempts \/ (pc[j] = "queued" /\ tries'[j] = tries[j])
  BY <1>1 DEF Actors
<1>3. /\ pc'[r] = "importing" => pc[r] = "importing" \/ BatchIsFree
      /\ \/ work' = [work EXCEPT ![r] = <<>>]
         \/ work' = work /\ (pc[r] = "importing" => pc'[r] = "importing")
  BY <1>1
<1>4. /\ loaded'[r].refs \subseteq loaded[r].refs \cup batch.refs
      /\ \A b \in Actors \ {r} : loaded'[b] = loaded[b]
      /\ ~ overlapped' => ~ overlapped
  BY <1>1
<1>5. /\ \A b \in Actors \ {r} : pc'[b] = pc[b] \/ (pc'[b] = "queued" /\ pc[b] \notin Busy)
      /\ ~ overlapped' /\ pc'[r] \in Busy =>
           pc[r] \in Busy \/ \A b \in Actors \ {r} : pc[b] \notin Busy
  OBVIOUS
<1>6. ~ overlapped' /\ runs <= 1 =>
         /\ pc'[r] = "rollback" => Imported' \subseteq loaded'[r].refs
         /\ pc'[r] = "destroying" => Imported' \subseteq loaded'[r].refs \cup loaded'[r].skipped
         /\ batch'.status = "rolled_back" => Imported' \subseteq batch'.skipped
  BY <1>1
<1> QED
  BY <1>1, <1>2, <1>3, <1>4, <1>5, <1>6, QuietStep

LEMMA RollbackStep ==
  ASSUME IInv, NEW r \in Actors, Rollback(r)
  PROVE  IInv'
<1>1. /\ TypeInv /\ pc[r] = "rollback" /\ GoTo(r, "destroying")
      /\ loaded' = [loaded EXCEPT ![r].skipped = {}]
      /\ UNCHANGED <<batch, rows, entities, cursor, seen, todo, work, tries, runs, overlapped>>
  BY DEF Rollback, IInv
<1>2. /\ pc' \in [Actors -> Labels] /\ pc'[r] = "destroying"
      /\ \A b \in Actors \ {r} : pc'[b] = pc[b]
  BY <1>1, MoveFacts DEF TypeInv, Labels
<1>3. loaded[r] \in Batches
  BY <1>1 DEF TypeInv
<1>4. /\ [loaded[r] EXCEPT !.skipped = {}] \in Batches
      /\ [loaded[r] EXCEPT !.skipped = {}].refs = loaded[r].refs
  BY <1>3 DEF Batches
<1>5. /\ loaded' \in [Actors -> Batches] /\ loaded'[r].refs = loaded[r].refs
      /\ \A b \in Actors \ {r} : loaded'[b] = loaded[b]
  BY <1>1, <1>4 DEF TypeInv
<1>6. /\ batch' \in Batches /\ batch'.cursor <= RowCount /\ entities' \subseteq Entities
      /\ batch' = batch /\ Imported' = Imported
  BY <1>1 DEF TypeInv, Imported
<1>7. ~ overlapped /\ runs <= 1 =>
        /\ Imported' \subseteq loaded'[r].refs
        /\ batch'.status = "rolled_back" => Imported' \subseteq batch'.skipped
  BY <1>1, <1>5, <1>6 DEF IInv, OrderInv, OrderlyRollbackUndoes
<1> QED
  BY <1>1, <1>2, <1>5, <1>6, <1>7, UndoStep

LEMMA DestroyStep ==
  ASSUME IInv, NEW r \in Actors, DestroyRef(r)
  PROVE  IInv' /\ \A e \in entities : e.by = School => e \in entities'
<1>1. /\ TypeInv /\ pc[r] = "destroying"
      /\ UNCHANGED <<batch, rows, pc, cursor, seen, todo, work, tries, runs, overlapped>>
  BY DEF DestroyRef, IInv
<1>2. PICK e \in loaded[r].refs :
        \/ /\ entities' = entities \ {e}
           /\ loaded' = [loaded EXCEPT ![r].refs = @ \ {e}]
        \/ /\ loaded' = [loaded EXCEPT ![r].refs = @ \ {e}, ![r].skipped = @ \cup {e}]
           /\ UNCHANGED entities
  BY DEF DestroyRef
<1> DEFINE d == loaded[r]
           n == loaded'[r]
<1>3. d \in Batches
  BY <1>1 DEF TypeInv
<1>4. /\ n \in Batches /\ n.refs = d.refs \ {e}
      /\ \/ entities' = entities \ {e} /\ n.skipped = d.skipped
         \/ entities' = entities /\ n.skipped = d.skipped \cup {e}
      /\ loaded' \in [Actors -> Batches] /\ \A b \in Actors \ {r} : loaded'[b] = loaded[b]
  <2>1. e \in Entities
    BY <1>3 DEF Batches
  <2>2. CASE /\ entities' = entities \ {e}
             /\ loaded' = [loaded EXCEPT ![r].refs = @ \ {e}]
    <3> DEFINE x == [d EXCEPT !.refs = @ \ {e}]
    <3>1. x \in Batches /\ x.refs = d.refs \ {e} /\ x.skipped = d.skipped
      BY <1>3 DEF Batches
    <3>2. loaded' = [loaded EXCEPT ![r] = x]
      BY <1>1, <2>2 DEF TypeInv
    <3> HIDE DEF x, d
    <3> QED
      BY <1>1, <2>2, <3>1, <3>2 DEF TypeInv
  <2>3. CASE /\ loaded' = [loaded EXCEPT ![r].refs = @ \ {e}, ![r].skipped = @ \cup {e}]
             /\ UNCHANGED entities
    <3> DEFINE y == [d EXCEPT !.refs = @ \ {e}]
               x == [y EXCEPT !.skipped = @ \cup {e}]
    <3>1. y \in Batches /\ y.refs = d.refs \ {e} /\ y.skipped = d.skipped
      BY <1>3 DEF Batches
    <3>2. loaded' = [[loaded EXCEPT ![r] = y] EXCEPT ![r].skipped = @ \cup {e}]
      BY <1>1, <2>3 DEF TypeInv
    <3> HIDE DEF y
    <3>3. loaded' = [loaded EXCEPT ![r] = x]
      BY <1>1, <3>1, <3>2 DEF TypeInv
    <3>4. x \in Batches /\ x.refs = y.refs /\ x.skipped = y.skipped \cup {e}
      BY <2>1, <3>1 DEF Batches
    <3> HIDE DEF x, d
    <3>5. loaded' \in [Actors -> Batches] /\ n = x
          /\ \A b \in Actors \ {r} : loaded'[b] = loaded[b]
      BY <1>1, <3>3, <3>4 DEF TypeInv
    <3> QED
      BY <2>3, <3>1, <3>4, <3>5
  <2> QED
    BY <1>2, <2>2, <2>3
<1> HIDE DEF d, n
<1>5. e.by # School
  BY <1>1 DEF IInv, RefsInv
<1>6. /\ pc' \in [Actors -> Labels] /\ pc'[r] = "destroying"
      /\ \A b \in Actors \ {r} : pc'[b] = pc[b] /\ loaded'[b] = loaded[b]
      /\ batch' \in Batches /\ batch'.cursor <= RowCount /\ batch' = batch
  BY <1>1, <1>4 DEF TypeInv
<1>7. entities' \subseteq Entities /\ Imported' \subseteq Imported
      /\ loaded'[r].refs \subseteq loaded[r].refs
  BY <1>1, <1>4 DEF TypeInv, Imported, n, d
<1>8. ~ overlapped /\ runs <= 1 =>
        /\ Imported' \subseteq loaded'[r].refs \cup loaded'[r].skipped
        /\ batch'.status = "rolled_back" => Imported' \subseteq batch'.skipped
  <2> SUFFICES ASSUME ~ overlapped, runs <= 1
               PROVE  /\ Imported' \subseteq loaded'[r].refs \cup loaded'[r].skipped
                      /\ batch'.status = "rolled_back" => Imported' \subseteq batch'.skipped
    OBVIOUS
  <2>1. Imported \subseteq d.refs \cup d.skipped
    BY <1>1 DEF IInv, OrderInv, d
  <2>2. Imported' \subseteq n.refs \cup n.skipped
    BY <1>4, <2>1 DEF Imported
  <2>3. batch'.status = "rolled_back" => Imported' \subseteq batch'.skipped
    BY <1>6, <1>7 DEF IInv, OrderlyRollbackUndoes
  <2> QED
    BY <2>2, <2>3 DEF n
<1>9. IInv'
  BY <1>1, <1>4, <1>6, <1>7, <1>8, UndoStep
<1> QED
  BY <1>4, <1>5, <1>9

LEMMA MarkStep ==
  ASSUME IInv, NEW r \in Actors, MarkRolledBack(r)
  PROVE  IInv'
<1>1. /\ TypeInv /\ pc[r] = "destroying" /\ loaded[r].refs = {} /\ GoTo(r, "answered")
      /\ UNCHANGED <<rows, entities, loaded, cursor, seen, todo, work, tries, runs, overlapped>>
  BY DEF MarkRolledBack, IInv
<1> DEFINE w == WithStatus(r, "rolled_back")
<1>2. batch' = [w EXCEPT !.skipped = loaded[r].skipped]
  BY DEF MarkRolledBack
<1>3. /\ w \in Batches /\ w.cursor = batch.cursor /\ w.refs = batch.refs
      /\ loaded[r].skipped \in SUBSET Entities
  BY <1>1, StatusFacts DEF Statuses, TypeInv, Batches
<1> HIDE DEF w
<1>4. /\ batch' \in Batches /\ batch'.cursor = w.cursor /\ batch'.refs = w.refs
      /\ batch'.skipped = loaded[r].skipped
  BY <1>2, <1>3 DEF Batches
<1>5. /\ pc' \in [Actors -> Labels] /\ pc'[r] = "answered"
      /\ \A b \in Actors \ {r} : pc'[b] = pc[b]
  BY <1>1, MoveFacts DEF TypeInv, Labels
<1>6. /\ batch'.cursor <= RowCount /\ batch'.refs = batch.refs
      /\ loaded' \in [Actors -> Batches] /\ loaded' = loaded
      /\ entities' \subseteq Entities /\ Imported' = Imported
  BY <1>1, <1>3, <1>4 DEF TypeInv, Imported
<1>7. ~ overlapped /\ runs <= 1 => Imported' \subseteq batch'.skipped
  BY <1>1, <1>4, <1>6 DEF IInv, OrderInv
<1>8. \A b \in Actors \ {r} : pc'[b] = pc[b] /\ loaded'[b] = loaded[b]
  BY <1>5, <1>6
<1> QED
  BY <1>1, <1>4, <1>5, <1>6, <1>7, <1>8, UndoStep

-----------------------------------------------------------------------------
LEMMA LaterStep ==
  ASSUME IInv, NEW r \in Actors, PerformLater(r)
  PROVE  IInv'
<1>1. PICK j \in Jobs : /\ pc[j] \in {"idle"} \cup Ended
                        /\ pc' = [pc EXCEPT ![r] = "answered", ![j] = "queued"]
                        /\ tries' = [tries EXCEPT ![j] = 0]
  BY DEF PerformLater
<1>2. /\ TypeInv /\ pc[r] = "enqueued" /\ j \in Actors /\ r # j
      /\ UNCHANGED <<batch, rows, entities, loaded, cursor, seen, todo, work, runs, overlapped>>
  BY <1>1 DEF PerformLater, IInv, Actors
<1>3. /\ pc' \in [Actors -> Labels] /\ pc'[r] = "answered" /\ pc'[j] = "queued" /\ pc[j] \notin Busy
      /\ \A b \in Actors \ {r, j} : pc'[b] = pc[b]
  BY <1>1, <1>2 DEF TypeInv, Labels
<1>4. /\ tries' \in [Jobs -> 0..Attempts] /\ tries'[j] < Attempts
      /\ \A k \in Jobs \ {j} : tries'[k] = tries[k]
  BY <1>1, <1>2, ConstantsAssumption DEF TypeInv
<1>5. /\ batch' \in Batches /\ batch'.cursor <= RowCount /\ batch'.refs = batch.refs
      /\ rows' \in [Rows -> RowStates] /\ entities' \subseteq Entities
      /\ loaded' \in [Actors -> Batches] /\ cursor' \in [Actors -> 0..RowCount]
      /\ seen' \in [Actors -> [Rows -> RowStates]] /\ todo' \in [Actors -> SUBSET Rows]
      /\ runs' = runs /\ overlapped' \in BOOLEAN /\ loaded' = loaded /\ work' = work
      /\ batch' = batch /\ Imported' = Imported /\ overlapped' = overlapped
  BY <1>2 DEF TypeInv, Imported
<1>6. \A k \in Jobs : pc'[k] = "queued" =>
        tries'[k] < Attempts \/ (pc[k] = "queued" /\ tries'[k] = tries[k])
  BY <1>2, <1>3, <1>4 DEF Actors
<1>7. /\ pc'[r] = "importing" => pc[r] = "importing" \/ BatchIsFree
      /\ \/ work' = [work EXCEPT ![r] = <<>>]
         \/ work' = work /\ (pc[r] = "importing" => pc'[r] = "importing")
  BY <1>2, <1>3, <1>5
<1>8. /\ Imported' \subseteq Imported
      /\ loaded'[r].refs \subseteq loaded[r].refs \cup batch.refs
      /\ \A b \in Actors \ {r} : loaded'[b] = loaded[b]
      /\ ~ overlapped' => ~ overlapped
  BY <1>5
<1>9. /\ \A b \in Actors \ {r} : pc'[b] = pc[b] \/ (pc'[b] = "queued" /\ pc[b] \notin Busy)
      /\ ~ overlapped' /\ pc'[r] \in Busy =>
           pc[r] \in Busy \/ \A b \in Actors \ {r} : pc[b] \notin Busy
  BY <1>3
<1>10. ~ overlapped' /\ runs <= 1 =>
         /\ pc'[r] = "rollback" => Imported' \subseteq loaded'[r].refs
         /\ pc'[r] = "destroying" => Imported' \subseteq loaded'[r].refs \cup loaded'[r].skipped
         /\ batch'.status = "rolled_back" => Imported' \subseteq batch'.skipped
  BY <1>3, <1>5 DEF IInv, OrderlyRollbackUndoes
<1> QED
  BY <1>3, <1>4, <1>5, <1>6, <1>7, <1>8, <1>9, <1>10, QuietStep

LEMMA SchoolStep ==
  ASSUME IInv, SchoolCreates
  PROVE  IInv'
<1>1. PICK t \in Titles : entities' = entities \cup {[title |-> t, by |-> School]}
  BY DEF SchoolCreates
<1>2. UNCHANGED <<batch, rows, pc, loaded, cursor, seen, todo, work, tries, runs, overlapped>>
  BY DEF SchoolCreates
<1>3. Imported' = Imported /\ entities' \subseteq Entities
  BY <1>1 DEF Imported, IInv, TypeInv, Entities
<1>4. TypeInv'
  BY <1>2, <1>3 DEF IInv, TypeInv
<1>5. TriesInv' /\ ImporterInv' /\ RefsInv' /\ OrderInv' /\ OrderlyRollbackUndoes'
  BY <1>2, <1>3 DEF IInv, TriesInv, ImporterInv, RefsInv, OrderInv, OrderlyRollbackUndoes
<1>6. WorkInv'
  BY <1>2, <1>3 DEF IInv, WorkInv, IsNew
<1>7. NothingIsImportedTwice'
  BY <1>3 DEF IInv, NothingIsImportedTwice
<1> QED
  BY <1>4, <1>5, <1>6, <1>7 DEF IInv

LEMMA ImportRowStep ==
  ASSUME IInv, NEW a \in Actors, NEW i \in Rows, ImportRow(a, i)
  PROVE  IInv'
<1>1. /\ pc[a] = "importing" /\ cursor' = [cursor EXCEPT ![a] = i] /\ PassRow(a, i)
      /\ UNCHANGED <<batch, rows, entities, pc, loaded, seen, tries, runs, overlapped>>
  BY DEF ImportRow
<1> DEFINE made == Made(a, i)
           D == DOMAIN work[a] \cup {i}
           w == [k \in D |-> IF k = i THEN made ELSE work[a][k]]
<1>2. work' = [work EXCEPT ![a] = w]
  BY DEF ImportRow
<1>3. TypeInv /\ work[a] \in Work
  BY DEF IInv, TypeInv
<1>4. made \in Entities \cup {NoEntity}
  <2>1. Title[i] \in Titles
    BY ConstantsAssumption DEF Rows
  <2> QED
    BY <2>1 DEF Made, Entities
<1>5. DOMAIN work[a] \subseteq Rows /\ \A k \in DOMAIN work[a] : work[a][k] \in Entities \cup {NoEntity}
  BY <1>3, WorkFacts
<1>6. made # NoEntity =>
        /\ made = [title |-> Title[i], by |-> a]
        /\ \A e \in entities : e # NoEntity => e.title # Title[i]
        /\ \A k \in DOMAIN work[a] : work[a][k] # NoEntity => work[a][k].title # Title[i]
  BY DEF Made
<1> HIDE DEF made
<1>7. w \in Work
  <2>1. w \in [D -> Entities \cup {NoEntity}] /\ D \in SUBSET Rows
    BY <1>4, <1>5
  <2> QED
    BY <2>1 DEF Work
<1>8. /\ DOMAIN w = D /\ w[i] = made
      /\ \A k \in D \ {i} : w[k] = work[a][k] /\ k \in DOMAIN work[a]
  OBVIOUS
<1> HIDE DEF w
<1>9. /\ work' \in [Actors -> Work] /\ work'[a] = w
      /\ \A b \in Actors \ {a} : work'[b] = work[b]
  BY <1>2, <1>3, <1>7 DEF TypeInv
<1>10. TypeInv' /\ Imported' = Imported
  <2>1. i \in 0..RowCount
    BY ConstantsAssumption DEF Rows
  <2>2. cursor' \in [Actors -> 0..RowCount] /\ todo' \in [Actors -> SUBSET Rows]
    BY <1>1, <1>3, <2>1 DEF TypeInv, PassRow
  <2> QED
    BY <1>1, <1>3, <1>9, <2>2 DEF TypeInv, Imported
<1>11. ImporterInv'
  BY <1>1, <1>9 DEF IInv, ImporterInv
<1>12. WorkInv'
  <2>1. \A e \in entities : e # NoEntity
    BY <1>3, ConstantsAssumption DEF TypeInv, Entities, Actors
  <2>2. \A k \in DOMAIN work[a] : work[a][k] # NoEntity => work[a][k] = [title |-> Title[k], by |-> a]
    BY DEF IInv, WorkInv, IsNew
  <2>3. made # NoEntity => \A k \in DOMAIN work[a] : work[a][k] # NoEntity => Title[k] # Title[i]
    BY <1>6, <2>2
  <2>4. ASSUME NEW k \in D, w[k] # NoEntity
        PROVE  /\ w[k] = [title |-> Title[k], by |-> a]
               /\ \A e \in Imported : e.title # Title[k]
               /\ \A m \in D \ {k} : w[m] # NoEntity => Title[m] # Title[k]
    <3>1. CASE k = i
      BY <1>6, <1>8, <2>1, <2>3, <2>4, <3>1 DEF Imported
    <3>2. CASE k # i
      BY <1>8, <2>3, <2>4, <3>2 DEF IInv, WorkInv, IsNew
    <3> QED
      BY <3>1, <3>2
  <2>5. \A k \in DOMAIN work'[a] : work'[a][k] # NoEntity => IsNew(a, k)'
    BY <1>8, <1>9, <1>10, <2>4 DEF IsNew
  <2>6. \A b \in Actors \ {a} : \A k \in DOMAIN work'[b] : work'[b][k] # NoEntity => IsNew(b, k)'
    <3> SUFFICES ASSUME NEW b \in Actors \ {a}, NEW k \in DOMAIN work'[b], work'[b][k] # NoEntity
                 PROVE  IsNew(b, k)'
      OBVIOUS
    <3>1. work'[b] = work[b]
      BY <1>9
    <3>2. IsNew(b, k)
      BY <3>1 DEF IInv, WorkInv
    <3> QED
      BY <1>10, <3>1, <3>2 DEF IsNew
  <2> QED
    BY <2>5, <2>6 DEF WorkInv
<1>13. TriesInv' /\ RefsInv' /\ OrderInv' /\ OrderlyRollbackUndoes' /\ NothingIsImportedTwice'
  BY <1>1, <1>10 DEF IInv, TriesInv, RefsInv, OrderInv, OrderlyRollbackUndoes, NothingIsImportedTwice
<1> QED
  BY <1>10, <1>11, <1>12, <1>13 DEF IInv

\* What COMMIT makes visible is new, and the summary lists exactly that.
LEMMA CompleteStep ==
  ASSUME IInv, NEW a \in Actors, Complete(a)
  PROVE  IInv' /\ batch'.refs = Imported' \ Imported
<1>1. /\ TypeInv /\ pc[a] = "importing" /\ GoTo(a, "imported") /\ runs' = runs + 1
      /\ loaded' = [loaded EXCEPT ![a].status = "completed", ![a].cursor = cursor[a]]
      /\ work' = [work EXCEPT ![a] = <<>>] /\ Apply(a)
      /\ UNCHANGED <<cursor, seen, todo, tries, overlapped>>
  BY DEF Complete, IInv
<1> DEFINE new == CreatedRefs(a)
<1>2. /\ entities' = entities \cup new /\ rows' \in [Rows -> RowStates]
  BY <1>1 DEF Apply, TypeInv, RowStates
<1>3. \A e \in new : /\ e \in Entities /\ e.by = a /\ \A f \in Imported : f.title # e.title
                     /\ \A f \in new : f.title = e.title => e = f
  <2>1. work[a] \in Work
    BY <1>1 DEF TypeInv
  <2>2. \A i \in DOMAIN work[a] : work[a][i] \in Entities \cup {NoEntity}
    BY <2>1, WorkFacts
  <2> SUFFICES ASSUME NEW i \in DOMAIN work[a], work[a][i] # NoEntity
               PROVE  /\ work[a][i] \in Entities /\ work[a][i].by = a
                      /\ \A f \in Imported : f.title # work[a][i].title
                      /\ \A f \in new : f.title = work[a][i].title => work[a][i] = f
    BY DEF CreatedRefs
  <2>3. IsNew(a, i)
    BY DEF IInv, WorkInv
  <2>4. ASSUME NEW k \in DOMAIN work[a], work[a][k] # NoEntity, work[a][k].title = work[a][i].title
        PROVE  work[a][i] = work[a][k]
    <3>1. IsNew(a, k)
      BY <2>4 DEF IInv, WorkInv
    <3> QED
      BY <2>3, <2>4, <3>1 DEF IsNew
  <2> QED
    BY <2>2, <2>3, <2>4 DEF IsNew, CreatedRefs
<1> HIDE DEF new
<1>4. /\ Imported' = Imported \cup new /\ new \cap Imported = {} /\ entities' \subseteq Entities
  BY <1>1, <1>2, <1>3, Who DEF Imported, TypeInv
<1>5. NothingIsImportedTwice'
  BY <1>3, <1>4 DEF IInv, NothingIsImportedTwice
<1> DEFINE c == IF cursor[a] = loaded[a].cursor THEN batch.cursor ELSE cursor[a]
<1>6. batch' = [batch EXCEPT !.status = "completed", !.refs = new, !.cursor = c]
  BY DEF Complete, Summary, new
<1>7. c \in Nat /\ c <= RowCount
  BY <1>1, ConstantsAssumption DEF TypeInv, Batches
<1> HIDE DEF c
<1>8. /\ batch' \in Batches /\ batch'.cursor = c /\ batch'.refs = new /\ batch'.status = "completed"
  <2>1. batch \in Batches /\ new \in SUBSET Entities
    BY <1>1, <1>3 DEF TypeInv
  <2> QED
    BY <1>6, <1>7, <2>1 DEF Batches
<1>9. /\ loaded' \in [Actors -> Batches] /\ loaded'[a].refs = loaded[a].refs
      /\ \A b \in Actors \ {a} : loaded'[b] = loaded[b]
  <2>1. loaded[a] \in Batches /\ cursor[a] \in Nat
    BY <1>1, ConstantsAssumption DEF TypeInv
  <2> DEFINE x == [loaded[a] EXCEPT !.status = "completed", !.cursor = cursor[a]]
  <2>2. x \in Batches /\ x.refs = loaded[a].refs
    BY <2>1 DEF Batches
  <2>3. loaded' = [loaded EXCEPT ![a] = x]
    BY <1>1 DEF TypeInv
  <2> HIDE DEF x
  <2>4. loaded \in [Actors -> Batches]
    BY <1>1 DEF TypeInv
  <2> QED
    BY <2>2, <2>3, <2>4
<1>10. /\ pc' \in [Actors -> Labels] /\ pc'[a] = "imported"
       /\ \A b \in Actors \ {a} : pc'[b] = pc[b] /\ pc[b] # "importing"
  BY <1>1, MoveFacts DEF TypeInv, Labels, IInv, ImporterInv
<1>11. /\ work' \in [Actors -> Work] /\ work'[a] = <<>>
       /\ \A b \in Actors \ {a} : work'[b] = work[b] /\ DOMAIN work'[b] = {}
  BY <1>1, <1>10, EmptyWork DEF TypeInv, IInv, ImporterInv
<1>12. /\ cursor' \in [Actors -> 0..RowCount] /\ seen' \in [Actors -> [Rows -> RowStates]]
       /\ todo' \in [Actors -> SUBSET Rows] /\ tries' \in [Jobs -> 0..Attempts] /\ tries' = tries
       /\ runs \in Nat /\ runs' \in Nat /\ overlapped' \in BOOLEAN /\ overlapped' = overlapped
  BY <1>1 DEF TypeInv
<1>13. TypeInv'
  BY <1>2, <1>4, <1>7, <1>8, <1>9, <1>10, <1>11, <1>12 DEF TypeInv
<1>14. TriesInv'
  BY <1>10, <1>12 DEF IInv, TriesInv, Actors
<1>15. ImporterInv' /\ WorkInv'
  <2>1. \A b \in Actors : DOMAIN work'[b] = {}
    BY <1>11, EmptyWork
  <2> QED
    BY <1>10, <2>1 DEF ImporterInv, WorkInv
<1>16. RefsInv'
  <2>1. \A e \in batch'.refs : e.by # School
    BY <1>3, <1>8, Who
  <2>2. \A b \in Actors : \A e \in loaded'[b].refs : e.by # School
    BY <1>9 DEF IInv, RefsInv
  <2>3. runs' # 0
    BY <1>1, <1>12
  <2>4. runs' <= 1 => Imported' \subseteq batch'.refs
    BY <1>1, <1>4, <1>8, <1>12 DEF IInv, RefsInv
  <2> QED
    BY <2>1, <2>2, <2>3, <2>4 DEF RefsInv
<1>17. OrderInv'
  <2> SUFFICES ASSUME ~ overlapped' PROVE OrderInv'
    BY DEF OrderInv
  <2>1. \A b, d \in Actors : pc[b] \in Busy /\ pc[d] \in Busy => b = d
    BY <1>12 DEF IInv, OrderInv
  <2>2. \A b \in Actors \ {a} : pc'[b] \notin Busy
    BY <1>1, <1>10, <2>1
  <2>3. \A b, d \in Actors : pc'[b] \in Busy /\ pc'[d] \in Busy => b = d
    BY <2>2
  <2>4. \A b \in Actors : pc'[b] # "rollback" /\ pc'[b] # "destroying"
    BY <1>10, <2>2
  <2> QED
    BY <2>3, <2>4 DEF OrderInv
<1>18. OrderlyRollbackUndoes'
  BY <1>8 DEF OrderlyRollbackUndoes
<1>19. batch'.refs = Imported' \ Imported
  BY <1>4, <1>8
<1> QED
  BY <1>5, <1>13, <1>14, <1>15, <1>16, <1>17, <1>18, <1>19 DEF IInv

-----------------------------------------------------------------------------
LEMMA InitInv == Init => IInv
<1> SUFFICES ASSUME Init PROVE IInv
  OBVIOUS
<1>1. /\ batch \in Batches /\ batch.cursor = 0 /\ batch.refs = {}
      /\ batch.status \in {"staged", "ready_for_execute"} /\ rows \in [Rows -> RowStates]
  <2>1. /\ \E s \in {"staged", "ready_for_execute"} :
              batch = [status |-> s, cursor |-> 0, refs |-> {}, skipped |-> {}]
        /\ \/ \E valid \in [Rows -> BOOLEAN] :
                rows = [i \in Rows |-> [status |-> "staged", valid |-> valid[i]]]
           \/ rows = [i \in Rows |-> [status |-> "ready", valid |-> TRUE]]
    BY DEF Init
  <2>2. rows \in [Rows -> RowStates]
    <3>1. ASSUME NEW valid \in [Rows -> BOOLEAN],
                 rows = [i \in Rows |-> [status |-> "staged", valid |-> valid[i]]]
          PROVE  rows \in [Rows -> RowStates]
      <4>1. \A i \in Rows : [status |-> "staged", valid |-> valid[i]] \in RowStates
        BY DEF RowStates
      <4> QED
        BY <3>1, <4>1
    <3>2. ASSUME rows = [i \in Rows |-> [status |-> "ready", valid |-> TRUE]]
          PROVE  rows \in [Rows -> RowStates]
      <4>1. [status |-> "ready", valid |-> TRUE] \in RowStates
        BY DEF RowStates
      <4> QED
        BY <3>2, <4>1
    <3> QED
      BY <2>1, <3>1, <3>2
  <2> QED
    BY <2>1, <2>2 DEF Batches
<1>2. PICK old \in SUBSET Titles : entities = [title : old, by : {School}]
  BY DEF Init
<1>3. entities \subseteq Entities /\ Imported = {}
  BY <1>2 DEF Entities, Imported
<1>4. /\ pc = [a \in Actors |-> "idle"] /\ loaded = [a \in Actors |-> batch]
      /\ cursor = [a \in Actors |-> 0] /\ seen = [a \in Actors |-> rows]
      /\ todo = [a \in Actors |-> {}] /\ work = [a \in Actors |-> <<>>]
      /\ tries = [j \in Jobs |-> 0] /\ runs = 0 /\ overlapped = FALSE
  BY DEF Init
<1>5. 0 \in 0..RowCount /\ 0 \in 0..Attempts /\ 0 <= RowCount
  BY ConstantsAssumption
<1>6. TypeInv
  BY <1>1, <1>3, <1>4, <1>5, EmptyWork DEF TypeInv, Labels
<1>7. TriesInv
  BY <1>4 DEF TriesInv, Actors
<1>8. ImporterInv /\ WorkInv
  BY <1>4, EmptyWork DEF ImporterInv, WorkInv
<1>9. RefsInv /\ OrderInv /\ NothingIsImportedTwice /\ OrderlyRollbackUndoes
  BY <1>1, <1>3, <1>4 DEF RefsInv, OrderInv, NothingIsImportedTwice, OrderlyRollbackUndoes
<1> QED
  BY <1>6, <1>7, <1>8, <1>9 DEF IInv

\* What a step may do to the entities: both action properties, and the
\* invariant.
ImportsAccounted  == Imported' \subseteq Imported \/ batch'.refs = Imported' \ Imported
SchoolEntityStays == \A e \in entities : e.by = School => e \in entities'

LEMMA NextInv ==
  ASSUME IInv, [Next]_vars
  PROVE  IInv' /\ ImportsAccounted /\ SchoolEntityStays
<1> USE DEF ImportsAccounted, SchoolEntityStays
<1>1. CASE UNCHANGED vars
  <2>1. /\ UNCHANGED <<batch, rows, entities, pc, loaded, cursor, seen, todo, work, tries,
                       runs, overlapped>>
    BY <1>1 DEF vars
  <2>2. Imported' = Imported
    BY <2>1 DEF Imported
  <2>3. TypeInv' /\ TriesInv' /\ ImporterInv' /\ RefsInv' /\ OrderInv'
    BY <2>1, <2>2 DEF IInv, TypeInv, TriesInv, ImporterInv, RefsInv, OrderInv
  <2>4. WorkInv' /\ NothingIsImportedTwice' /\ OrderlyRollbackUndoes'
    BY <2>1, <2>2 DEF IInv, WorkInv, IsNew, NothingIsImportedTwice, OrderlyRollbackUndoes
  <2> QED
    BY <2>1, <2>2, <2>3, <2>4 DEF IInv
<1>2. ASSUME NEW r \in Requests, Arrive(r)
      PROVE  IInv' /\ UNCHANGED entities
  BY <1>2, ArriveStep DEF Arrive
<1>3. ASSUME NEW j \in Jobs, StartJob(j)
      PROVE  IInv' /\ UNCHANGED entities
  BY <1>3, StartJobStep DEF StartJob
<1>4. CASE SchoolCreates
  <2>1. PICK t \in Titles : entities' = entities \cup {[title |-> t, by |-> School]}
    BY <1>4 DEF SchoolCreates
  <2>2. Imported' = Imported
    BY <2>1 DEF Imported
  <2> QED
    BY <1>4, <2>1, <2>2, SchoolStep
<1>5. ASSUME NEW a \in Actors, Crash(a)
      PROVE  IInv' /\ UNCHANGED entities
  BY <1>5, CrashStep DEF Crash
<1>6. ASSUME NEW a \in Actors, Map(a) \/ DryRun(a) \/ Summarise(a) \/ Enqueue(a) \/ PerformLater(a)
      PROVE  IInv' /\ UNCHANGED entities
  <2>1. IInv'
    BY <1>6, MapStep, DryRunStep, SummariseStep, EnqueueStep, LaterStep
  <2>2. UNCHANGED entities
    BY <1>6 DEF Map, DryRun, Summarise, Enqueue, PerformLater
  <2> QED
    BY <2>1, <2>2
<1>7. ASSUME NEW a \in Actors, NEW i \in Rows, MapRow(a, i) \/ CheckRow(a, i) \/ ImportRow(a, i)
      PROVE  IInv' /\ UNCHANGED entities
  <2>1. IInv'
    BY <1>7, MapRowStep, CheckRowStep, ImportRowStep
  <2>2. UNCHANGED entities
    BY <1>7 DEF MapRow, CheckRow, ImportRow
  <2> QED
    BY <2>1, <2>2
<1>8. ASSUME NEW a \in Actors,
             \/ RefuseBlocked(a) \/ Begin(a) \/ RaiseInRun(a) \/ Report(a) \/ Rescue(a)
             \/ PerformLaterRaises(a)
      PROVE  IInv' /\ UNCHANGED entities
  <2>1. IInv'
    BY <1>8, RefuseStep, BeginStep, RaiseStep, RescueStep
  <2>2. UNCHANGED entities
    BY <1>8 DEF RefuseBlocked, Begin, RaiseInRun, Report, Rescue, PerformLaterRaises
  <2> QED
    BY <2>1, <2>2
<1>9. ASSUME NEW a \in Actors, Rollback(a) \/ MarkRolledBack(a)
      PROVE  IInv' /\ UNCHANGED entities
  BY <1>9, RollbackStep, MarkStep DEF Rollback, MarkRolledBack
<1>10. ASSUME NEW a \in Actors, Complete(a)
       PROVE  IInv' /\ ImportsAccounted /\ entities \subseteq entities'
  BY <1>10, CompleteStep DEF Complete, Apply
<1>11. ASSUME NEW a \in Actors, DestroyRef(a)
       PROVE  IInv' /\ entities' \subseteq entities /\ SchoolEntityStays
  BY <1>11, DestroyStep DEF DestroyRef
<1>12. UNCHANGED entities => ImportsAccounted /\ SchoolEntityStays
  BY DEF Imported
<1>13. entities \subseteq entities' => SchoolEntityStays
  OBVIOUS
<1>14. entities' \subseteq entities => ImportsAccounted
  BY DEF Imported
<1> QED
  BY <1>1, <1>2, <1>3, <1>4, <1>5, <1>6, <1>7, <1>8, <1>9, <1>10, <1>11, <1>12, <1>13, <1>14
     DEF Next, Step

LEMMA Invariance == Spec => []IInv
<1>1. IInv /\ [Next]_vars => IInv'
  BY NextInv
<1> QED
  BY InitInv, <1>1, PTL DEF Spec

\* Every variable keeps its type: no stored position is beyond the last row, no
\* job is executed more often than retry_on allows, and nothing is held outside
\* the transaction of an execution.
THEOREM ImportBatchType == Spec => []TypeOK
<1>1. IInv => TypeOK
  <2> SUFFICES ASSUME IInv PROVE TypeOK
    OBVIOUS
  <2>1. \A a \in Actors : work[a] \in Work
    BY DEF IInv, TypeInv
  <2>2. \A a \in Actors : /\ DOMAIN work[a] \subseteq Rows
                          /\ \A i \in DOMAIN work[a] : work[a][i] \in Entities \cup {NoEntity}
                          /\ DOMAIN work[a] # {} => pc[a] = "importing"
    BY <2>1, WorkFacts DEF IInv, ImporterInv
  <2> QED
    BY <2>2 DEF IInv, TypeInv, TypeOK, Labels
<1> QED
  BY Invariance, <1>1, PTL

\* Executions of one batch, by any number of requests and of jobs that are
\* executed again, never import a title twice.
THEOREM TitlesAreImportedOnce == Spec => []NothingIsImportedTwice
<1>1. IInv => NothingIsImportedTwice
  BY DEF IInv
<1> QED
  BY Invariance, <1>1, PTL

\* A batch that was executed once and is rolled back, without operations that
\* overlap, has nothing left of the import but what the roll back skipped.
THEOREM RollbackUndoes == Spec => []OrderlyRollbackUndoes
<1>1. IInv => OrderlyRollbackUndoes
  BY DEF IInv
<1> QED
  BY Invariance, <1>1, PTL

\* Whatever raises or dies on the way, what an import creates becomes visible
\* only together with the summary that lists exactly that.
THEOREM SummaryIsExact == Spec => ImportsAreAccounted
<1>1. IInv /\ [Next]_vars => [Imported' \subseteq Imported \/ batch'.refs = Imported' \ Imported]_vars
  BY NextInv DEF ImportsAccounted
<1> QED
  BY Invariance, <1>1, PTL DEF Spec, ImportsAreAccounted

\* No roll back, however old the summary it loaded, destroys what the school
\* created.
THEOREM SchoolEntitiesStay == Spec => SchoolKeepsItsOwn
<1>1. IInv /\ [Next]_vars => [\A e \in entities : e.by = School => e \in entities']_vars
  BY NextInv DEF SchoolEntityStays
<1> QED
  BY Invariance, <1>1, PTL DEF Spec, SchoolKeepsItsOwn
-----------------------------------------------------------------------------
(***************************************************************************)
(* The refinement of ImportLedger                                          *)
(***************************************************************************)

\* What an execution goes through was not executed before.  Without races it is
\* all that is ready, and each row it has gone through has its entity.
LedgerInv ==
  \A a \in Actors : pc[a] = "importing" =>
    /\ todo[a] \cap DOMAIN work[a] = {}
    /\ \A i \in todo[a] \cup DOMAIN work[a] : rows[i].status # "executed"
    /\ ~ overlapped =>
         /\ todo[a] \cup DOMAIN work[a] = {i \in Rows : rows[i].status = "ready"}
         /\ \A i \in DOMAIN work[a] :
              \E e \in entities \cup CreatedRefs(a) : e.title = Title[i]

\* No step but Complete executes rows, and without races none changes rows or
\* takes entities away under an execution.
LEMMA LedgerKept ==
  ASSUME TypeInv, LedgerInv,
         \A b \in Actors : pc'[b] = "importing" =>
           pc[b] = "importing" /\ todo'[b] = todo[b] /\ work'[b] = work[b],
         \A i \in Rows : rows'[i].status = "executed" => rows[i].status = "executed",
         ~ overlapped' => ~ overlapped,
         ~ overlapped' /\ (\E b \in Actors : pc'[b] = "importing") =>
           rows' = rows /\ entities \subseteq entities'
  PROVE  LedgerInv'
<1> SUFFICES ASSUME NEW a \in Actors, pc'[a] = "importing"
             PROVE  /\ todo'[a] \cap DOMAIN work'[a] = {}
                    /\ \A i \in todo'[a] \cup DOMAIN work'[a] : rows'[i].status # "executed"
                    /\ ~ overlapped' =>
                         /\ todo'[a] \cup DOMAIN work'[a] =
                              {i \in Rows : rows'[i].status = "ready"}
                         /\ \A i \in DOMAIN work'[a] :
                              \E e \in entities' \cup CreatedRefs(a)' : e.title = Title[i]
  BY DEF LedgerInv
<1>1. pc[a] = "importing" /\ todo'[a] = todo[a] /\ work'[a] = work[a]
  OBVIOUS
<1>2. todo[a] \subseteq Rows /\ DOMAIN work[a] \subseteq Rows
  BY WorkFacts DEF TypeInv
<1>3. CreatedRefs(a)' = CreatedRefs(a)
  BY <1>1 DEF CreatedRefs
<1>4. /\ todo'[a] \cap DOMAIN work'[a] = {}
      /\ \A i \in todo'[a] \cup DOMAIN work'[a] : rows'[i].status # "executed"
  BY <1>1, <1>2 DEF LedgerInv
<1>5. ASSUME ~ overlapped'
      PROVE  /\ todo'[a] \cup DOMAIN work'[a] = {i \in Rows : rows'[i].status = "ready"}
             /\ \A i \in DOMAIN work'[a] :
                  \E e \in entities' \cup CreatedRefs(a)' : e.title = Title[i]
  <2>1. ~ overlapped /\ rows' = rows /\ entities \subseteq entities'
    BY <1>5
  <2>2. /\ todo[a] \cup DOMAIN work[a] = {i \in Rows : rows[i].status = "ready"}
        /\ \A i \in DOMAIN work[a] : \E e \in entities \cup CreatedRefs(a) : e.title = Title[i]
    BY <1>1, <2>1 DEF LedgerInv
  <2> QED
    BY <1>1, <1>3, <2>1, <2>2
<1> QED
  BY <1>4, <1>5

Stays == UNCHANGED Ledger!ledgerVars

LEMMA StaysFacts ==
  ASSUME UNCHANGED <<rows, entities, overlapped>>, batch'.refs = batch.refs
  PROVE  Stays
BY DEF Stays, Ledger!ledgerVars, Imported

\* The steps of an actor that leave rows, entities and summary alone.
LEMMA LedgerQuiet ==
  ASSUME IInv, LedgerInv, NEW a \in Actors, NEW l, GoTo(a, l), l # "importing",
         \A b \in Actors \ {a} : todo'[b] = todo[b] /\ work'[b] = work[b],
         UNCHANGED <<rows, entities, overlapped>>, batch'.refs = batch.refs
  PROVE  LedgerInv' /\ Stays
<1>1. \A b \in Actors : pc'[b] = IF b = a THEN l ELSE pc[b]
  BY DEF GoTo, IInv, TypeInv
<1>2. LedgerInv'
  BY <1>1, LedgerKept DEF IInv
<1> QED
  BY <1>2, StaysFacts

LEMMA LedgerLoads ==
  ASSUME IInv, LedgerInv, NEW a \in Actors, NEW l, GoTo(a, l), l # "importing", Load(a),
         UNCHANGED <<batch, rows, entities, todo, work>>
  PROVE  LedgerInv' /\ (Stays \/ Ledger!Race)
<1>1. \A b \in Actors : pc'[b] = IF b = a THEN l ELSE pc[b]
  BY DEF GoTo, IInv, TypeInv
<1>2. (~ overlapped' => ~ overlapped) /\ (overlapped' = overlapped \/ overlapped' = TRUE)
  BY DEF Load, IInv, TypeInv
<1>3. LedgerInv'
  BY <1>1, <1>2, LedgerKept DEF IInv
<1>4. CASE overlapped' = overlapped
  BY <1>3, <1>4, StaysFacts
<1>5. CASE overlapped' = TRUE
  BY <1>3, <1>5 DEF Ledger!Race, Imported
<1> QED
  BY <1>2, <1>4, <1>5

LEMMA LedgerWrite ==
  ASSUME IInv, LedgerInv, SchoolCreates
  PROVE  LedgerInv' /\ \E t \in Titles : Ledger!Write(t)
<1>1. PICK t \in Titles : entities' = entities \cup {[title |-> t, by |-> School]}
  BY DEF SchoolCreates
<1>2. UNCHANGED <<batch, rows, pc, todo, work, overlapped>>
  BY DEF SchoolCreates
<1>3. LedgerInv'
  BY <1>1, <1>2, LedgerKept DEF IInv
<1>4. /\ Imported' = Imported
      /\ entities' \ Imported' = (entities \ Imported) \cup {[title |-> t, by |-> School]}
  BY <1>1 DEF Imported
<1>5. {e.title : e \in entities' \ Imported'} = {e.title : e \in entities \ Imported} \cup {t}
  <2>1. [title |-> t, by |-> School].title = t
    OBVIOUS
  <2> DEFINE before == entities \ Imported
             after  == entities' \ Imported'
  <2>2. after = before \cup {[title |-> t, by |-> School]}
    BY <1>4
  <2> HIDE DEF before, after
  <2>3. {e.title : e \in after} = {e.title : e \in before} \cup {t}
    BY <2>1, <2>2
  <2> QED
    BY <2>3 DEF before, after
<1> QED
  BY <1>2, <1>3, <1>4, <1>5 DEF Ledger!Write

\* Rows that are mapped or checked.
LEMMA LedgerPrepare ==
  ASSUME IInv, LedgerInv, NEW r \in Actors, NEW i \in Rows, MapRow(r, i) \/ CheckRow(r, i)
  PROVE  LedgerInv' /\ (Stays \/ Ledger!Prepare(i))
<1>1. /\ pc[r] \in {"mapping", "checking"} /\ todo' = [todo EXCEPT ![r] = @ \ {i}]
      /\ UNCHANGED <<batch, entities, work, overlapped>>
      /\ \E l \in {"mapping", "checking", "summing", "answered"} : GoTo(r, l)
  BY DEF MapRow, CheckRow, PassRow
<1>2. rows \in [Rows -> RowStates] /\ rows[i] \in RowStates
  BY DEF IInv, TypeInv
<1>3. PICK s \in {"mapped", "blocked", "ready"}, v \in BOOLEAN :
        rows' = [rows EXCEPT ![i] = [RowWithStatus(r, i, s) EXCEPT !.valid = v]]
  <2>1. CASE MapRow(r, i)
    BY <2>1 DEF MapRow
  <2>2. CASE CheckRow(r, i)
    <3>1. PICK s \in {"mapped", "blocked", "ready"} :
            rows' = [rows EXCEPT ![i] = RowWithStatus(r, i, s)]
      BY <2>2 DEF CheckRow
    <3>2. RowWithStatus(r, i, s) \in RowStates
      BY RowStatusFacts DEF IInv
    <3>3. /\ RowWithStatus(r, i, s).valid \in BOOLEAN
          /\ RowWithStatus(r, i, s)
               = [RowWithStatus(r, i, s) EXCEPT !.valid = RowWithStatus(r, i, s).valid]
      BY <3>2 DEF RowStates
    <3> QED
      BY <3>1, <3>3
  <2> QED
    BY <2>1, <2>2
<1>4. /\ rows'[i].status \in {rows[i].status, s}
      /\ \A k \in Rows \ {i} : rows'[k] = rows[k]
      /\ DOMAIN rows' = Rows
  <2>1. RowWithStatus(r, i, s) \in RowStates
    BY RowStatusFacts DEF IInv
  <2>2. [RowWithStatus(r, i, s) EXCEPT !.valid = v].status = RowWithStatus(r, i, s).status
    BY <2>1 DEF RowStates
  <2>3. RowWithStatus(r, i, s).status \in {rows[i].status, s}
    BY <1>2 DEF RowWithStatus, RowStates
  <2> QED
    BY <1>2, <1>3, <2>2, <2>3
<1>5. \A b \in Actors : pc'[b] = "importing" => pc[b] = "importing" /\ b # r
  BY <1>1 DEF GoTo, IInv, TypeInv
<1>6. ~ overlapped => \A b \in Actors : pc'[b] # "importing"
  BY <1>1, <1>5 DEF IInv, OrderInv
<1>7. LedgerInv'
  <2>1. \A b \in Actors : pc'[b] = "importing" =>
          pc[b] = "importing" /\ todo'[b] = todo[b] /\ work'[b] = work[b]
    BY <1>1, <1>5 DEF IInv, TypeInv
  <2>2. \A k \in Rows : rows'[k].status = "executed" => rows[k].status = "executed"
    BY <1>4
  <2> QED
    BY <1>1, <1>6, <2>1, <2>2, LedgerKept DEF IInv
<1>8. Imported' = Imported
  BY <1>1 DEF Imported
<1>9. CASE rows'[i].status = s
  <2>1. [k \in Rows |-> rows'[k].status] = [[k \in Rows |-> rows[k].status] EXCEPT ![i] = s]
    BY <1>4, <1>9
  <2>2. Ledger!Prepare(i)
    BY <1>1, <1>8, <2>1 DEF Ledger!Prepare
  <2> QED
    BY <1>7, <2>2
<1>10. CASE rows'[i].status = rows[i].status
  <2>1. [k \in Rows |-> rows'[k].status] = [k \in Rows |-> rows[k].status]
    BY <1>4, <1>10
  <2> QED
    BY <1>1, <1>7, <1>8, <2>1 DEF Stays, Ledger!ledgerVars
<1> QED
  BY <1>4, <1>9, <1>10

LEMMA LedgerTakesBack ==
  ASSUME IInv, LedgerInv, NEW r \in Actors, DestroyRef(r)
  PROVE  LedgerInv' /\ (Stays \/ \E e \in Imported : Ledger!TakeBack(e))
<1>1. /\ pc[r] = "destroying"
      /\ UNCHANGED <<batch, rows, pc, todo, work, overlapped>>
  BY DEF DestroyRef
<1>2. PICK e \in loaded[r].refs : entities' = entities \ {e} \/ entities' = entities
  BY DEF DestroyRef
<1>3. e.by # School
  BY DEF IInv, RefsInv
<1>4. ~ overlapped => \A b \in Actors : pc'[b] # "importing"
  BY <1>1 DEF IInv, OrderInv
<1>5. LedgerInv'
  BY <1>1, <1>4, LedgerKept DEF IInv
<1>6. CASE entities' = entities \/ e \notin entities
  BY <1>1, <1>2, <1>5, <1>6, StaysFacts
<1>7. CASE entities' = entities \ {e} /\ e \in entities
  <2>1. e \in Imported /\ Imported' = Imported \ {e}
    BY <1>3, <1>7 DEF Imported
  <2>2. entities' \ Imported' = entities \ Imported
    BY <1>3, <1>7 DEF Imported
  <2> QED
    BY <1>1, <1>5, <2>1, <2>2 DEF Ledger!TakeBack
<1> QED
  BY <1>2, <1>6, <1>7

-----------------------------------------------------------------------------
LEMMA LedgerBegin ==
  ASSUME IInv, LedgerInv, NEW a \in Actors, Begin(a)
  PROVE  LedgerInv' /\ Stays
<1>1. /\ pc[a] = "begin" /\ BatchIsFree /\ GoTo(a, "importing")
      /\ todo' = [todo EXCEPT ![a] = {i \in Rows : rows[i].status = "ready"}]
      /\ UNCHANGED <<batch, rows, entities, work, overlapped>>
  BY DEF Begin, LoadRows
<1>2. \A b \in Actors : pc'[b] = "importing" => b = a
  BY <1>1 DEF BatchIsFree, GoTo, IInv, TypeInv
<1>3. DOMAIN work[a] = {} /\ todo'[a] = {i \in Rows : rows[i].status = "ready"}
  BY <1>1 DEF IInv, ImporterInv, TypeInv
<1>4. \A i \in todo'[a] \cup DOMAIN work'[a] : rows'[i].status # "executed"
  BY <1>1, <1>3
<1>5. LedgerInv'
  BY <1>1, <1>2, <1>3, <1>4 DEF LedgerInv
<1> QED
  BY <1>1, <1>5, StaysFacts

LEMMA LedgerImportRow ==
  ASSUME IInv, LedgerInv, NEW a \in Actors, NEW i \in Rows, ImportRow(a, i)
  PROVE  LedgerInv' /\ Stays
<1>1. /\ pc[a] = "importing" /\ i \in todo[a] /\ todo' = [todo EXCEPT ![a] = @ \ {i}]
      /\ UNCHANGED <<batch, rows, entities, pc, overlapped>>
  BY DEF ImportRow, IsNextRow, PassRow
<1> DEFINE made == Made(a, i)
           D == DOMAIN work[a] \cup {i}
           w == [k \in D |-> IF k = i THEN made ELSE work[a][k]]
<1>2. work' = [work EXCEPT ![a] = w]
  BY DEF ImportRow
<1>3. /\ work'[a] = w /\ todo'[a] = todo[a] \ {i}
      /\ \A b \in Actors : pc'[b] = "importing" => b = a
  BY <1>1, <1>2 DEF IInv, TypeInv, ImporterInv
<1>4. /\ DOMAIN w = D /\ w[i] = made
      /\ \A k \in DOMAIN work[a] : k # i => w[k] = work[a][k]
  OBVIOUS
<1>5. /\ made = NoEntity => \E e \in entities \cup CreatedRefs(a) : e.title = Title[i]
      /\ made # NoEntity => made.title = Title[i]
  <2>1. made = NoEntity =>
          \E e \in entities \cup {work[a][k] : k \in DOMAIN work[a]} :
            e # NoEntity /\ e.title = Title[i]
    <3>1. [title |-> Title[i], by |-> a] # NoEntity
      BY ConstantsAssumption DEF Rows, Actors
    <3> QED
      BY <3>1 DEF Made
  <2>2. made # NoEntity => made = [title |-> Title[i], by |-> a]
    BY DEF Made
  <2> QED
    BY <2>1, <2>2 DEF CreatedRefs
<1> HIDE DEF made, w
<1>6. /\ todo[a] \cap DOMAIN work[a] = {}
      /\ \A k \in todo[a] \cup DOMAIN work[a] : rows[k].status # "executed"
  BY <1>1 DEF LedgerInv
<1>7. /\ todo'[a] \cup DOMAIN work'[a] = todo[a] \cup DOMAIN work[a]
      /\ todo'[a] \cap DOMAIN work'[a] = {}
  BY <1>1, <1>3, <1>4, <1>6
<1>8. CreatedRefs(a)' = CreatedRefs(a) \cup ({made} \ {NoEntity})
  <2>1. CreatedRefs(a)' = {w[k] : k \in D} \ {NoEntity}
    BY <1>3, <1>4 DEF CreatedRefs
  <2>2. {w[k] : k \in D} = {work[a][k] : k \in DOMAIN work[a]} \cup {made}
    BY <1>1, <1>4, <1>6
  <2> QED
    BY <2>1, <2>2 DEF CreatedRefs
<1>9. ASSUME ~ overlapped
      PROVE  /\ todo'[a] \cup DOMAIN work'[a] = {k \in Rows : rows'[k].status = "ready"}
             /\ \A k \in DOMAIN work'[a] :
                  \E e \in entities' \cup CreatedRefs(a)' : e.title = Title[k]
  <2>1. /\ todo[a] \cup DOMAIN work[a] = {k \in Rows : rows[k].status = "ready"}
        /\ \A k \in DOMAIN work[a] :
             \E e \in entities \cup CreatedRefs(a) : e.title = Title[k]
    BY <1>1, <1>9 DEF LedgerInv
  <2>2. \E e \in entities' \cup CreatedRefs(a)' : e.title = Title[i]
    BY <1>1, <1>5, <1>8
  <2>3. \A k \in DOMAIN work[a] :
          \E e \in entities' \cup CreatedRefs(a)' : e.title = Title[k]
    BY <1>1, <1>8, <2>1
  <2> QED
    BY <1>1, <1>3, <1>4, <1>7, <2>1, <2>2, <2>3
<1>10. LedgerInv'
  BY <1>1, <1>3, <1>6, <1>7, <1>9 DEF LedgerInv
<1> QED
  BY <1>1, <1>10, StaysFacts

\* COMMIT is the import.
LEMMA LedgerComplete ==
  ASSUME IInv, LedgerInv, NEW a \in Actors, Complete(a)
  PROVE  LedgerInv' /\ \E D \in SUBSET Rows : Ledger!Import(a, D)
<1> DEFINE new == CreatedRefs(a)
<1>0. PICK D \in SUBSET Rows : D = DOMAIN work[a]
  BY WorkFacts DEF IInv, TypeInv
<1>1. /\ pc[a] = "importing" /\ todo[a] = {} /\ GoTo(a, "imported") /\ Apply(a)
      /\ batch'.refs = new /\ UNCHANGED overlapped
  BY DEF Complete, Summary, IInv, TypeInv, Batches
<1>2. \A b \in Actors : pc'[b] # "importing"
  BY <1>1 DEF GoTo, IInv, TypeInv, ImporterInv
<1>3. LedgerInv'
  BY <1>2 DEF LedgerInv
<1>4. \A i \in D : work[a][i] # NoEntity => IsNew(a, i)
  BY <1>0 DEF IInv, WorkInv
<1>5. /\ \A i \in D : rows[i].status # "executed"
      /\ overlapped \/ D = {i \in Rows : rows[i].status = "ready"}
      /\ overlapped \/ \A i \in D : \E e \in entities \cup new : e.title = Title[i]
  BY <1>0, <1>1 DEF LedgerInv, IInv, TypeInv
<1>6. [i \in Rows |-> rows'[i].status] =
        [i \in Rows |-> IF i \in D THEN "executed" ELSE rows[i].status]
  <2>1. \A i \in Rows : [rows[i] EXCEPT !.status = "executed"].status = "executed"
    BY DEF IInv, TypeInv, RowStates
  <2>2. \A i \in Rows : rows'[i].status = IF i \in D THEN "executed" ELSE rows[i].status
    BY <1>0, <1>1, <2>1 DEF Apply
  <2> QED
    BY <2>2
<1>7. new \subseteq [title : {Title[i] : i \in D}, by : {a}]
  <2> SUFFICES ASSUME NEW e \in new PROVE e \in [title : {Title[i] : i \in D}, by : {a}]
    OBVIOUS
  <2>1. PICK i \in D : e = work[a][i] /\ work[a][i] # NoEntity
    BY <1>0 DEF CreatedRefs
  <2>2. e = [title |-> Title[i], by |-> a]
    BY <1>4, <2>1 DEF IsNew
  <2> QED
    BY <2>2
<1>8. \A e \in new : e.by = a /\ \A f \in Imported : f.title # e.title
  <2> SUFFICES ASSUME NEW e \in new
               PROVE  e.by = a /\ \A f \in Imported : f.title # e.title
    OBVIOUS
  <2>1. PICK i \in D : e = work[a][i] /\ work[a][i] # NoEntity
    BY <1>0 DEF CreatedRefs
  <2>2. e = [title |-> Title[i], by |-> a] /\ \A f \in Imported : f.title # Title[i]
    BY <1>4, <2>1 DEF IsNew
  <2> QED
    BY <2>2
<1>9. /\ Imported' = Imported \cup new
      /\ entities' \ Imported' = entities \ Imported
  <2>1. entities' = entities \cup new
    BY <1>1 DEF Apply
  <2> QED
    BY <1>8, <2>1, Who DEF Imported
<1> HIDE DEF new
<1>10. Ledger!TitlesOf(new) \cap Ledger!TitlesOf(Imported) = {}
  BY <1>8 DEF Ledger!TitlesOf
<1>11. overlapped \/ \A i \in D : Title[i] \in {e.title : e \in entities \ Imported}
                                        \cup Ledger!TitlesOf(Imported \cup new)
  BY <1>5 DEF Ledger!TitlesOf
<1>12. \A i \in D : [k \in Rows |-> rows[k].status][i] # "executed"
  BY <1>5
<1>13. overlapped \/ D = {i \in Rows : [k \in Rows |-> rows[k].status][i] = "ready"}
  BY <1>5
<1>14. [i \in Rows |-> rows'[i].status] =
         [i \in Rows |-> IF i \in D THEN "executed" ELSE [k \in Rows |-> rows[k].status][i]]
  BY <1>6
<1>15. Ledger!Import(a, D)
  BY <1>1, <1>7, <1>9, <1>10, <1>11, <1>12, <1>13, <1>14 DEF Ledger!Import
<1> QED
  BY <1>3, <1>15

LEMMA LedgerStep ==
  ASSUME IInv, LedgerInv, [Next]_vars
  PROVE  LedgerInv' /\ (Stays \/ Ledger!LedgerNext)
<1>1. CASE UNCHANGED vars
  <2>1. UNCHANGED <<batch, rows, entities, pc, todo, work, overlapped>>
    BY <1>1 DEF vars
  <2>2. LedgerInv'
    BY <2>1, LedgerKept DEF IInv
  <2> QED
    BY <2>1, <2>2, StaysFacts
<1>2. ASSUME NEW r \in Requests, Arrive(r)
      PROVE  LedgerInv' /\ (Stays \/ Ledger!Race)
  <2>1. PICK op \in Operations : GoTo(r, op)
    BY <1>2 DEF Arrive
  <2> QED
    BY <1>2, <2>1, LedgerLoads DEF Arrive, Actors
<1>3. ASSUME NEW j \in Jobs, StartJob(j)
      PROVE  LedgerInv' /\ (Stays \/ Ledger!Race)
  BY <1>3, LedgerLoads DEF StartJob, Actors
<1>4. ASSUME NEW a \in Actors,
             \/ Map(a) \/ DryRun(a) \/ Summarise(a) \/ Enqueue(a) \/ RefuseBlocked(a)
             \/ RaiseInRun(a) \/ Report(a) \/ Rescue(a) \/ Rollback(a) \/ MarkRolledBack(a)
             \/ PerformLaterRaises(a) \/ Crash(a)
      PROVE  LedgerInv' /\ Stays
  <2>1. \E l \in Labels \ {"importing"} : GoTo(a, l)
    BY <1>4 DEF Map, DryRun, Summarise, Enqueue, RefuseBlocked, RaiseInRun, Report, Rescue,
       Rollback, MarkRolledBack, PerformLaterRaises, Crash, Labels
  <2>2. /\ UNCHANGED <<rows, entities, overlapped>>
        /\ \/ todo' = todo
           \/ todo' = [todo EXCEPT ![a] = Rows]
        /\ \/ work' = work
           \/ work' = [work EXCEPT ![a] = <<>>]
    BY <1>4 DEF Map, DryRun, Summarise, Enqueue, RefuseBlocked, RaiseInRun, Report, Rescue,
       Rollback, MarkRolledBack, PerformLaterRaises, Crash, LoadRows
  <2>3. batch'.refs = batch.refs
    <3>1. CASE Map(a) \/ Summarise(a) \/ Enqueue(a)
      <4>1. PICK s \in Statuses : batch' = WithStatus(a, s)
        BY <3>1 DEF Map, Summarise, Enqueue, Statuses
      <4> QED
        BY <4>1, StatusFacts DEF IInv
    <3>2. CASE Rescue(a)
      <4>1. WithStatus(a, "failed") \in Batches /\ WithStatus(a, "failed").refs = batch.refs
        BY StatusFacts DEF IInv, Statuses
      <4>2. batch' = Rescued(a)
        BY <3>2 DEF Rescue
      <4> QED
        BY <4>1, <4>2 DEF Rescued, Batches
    <3>3. CASE MarkRolledBack(a)
      <4>1. WithStatus(a, "rolled_back") \in Batches
            /\ WithStatus(a, "rolled_back").refs = batch.refs
        BY StatusFacts DEF IInv, Statuses
      <4> QED
        BY <3>3, <4>1 DEF MarkRolledBack, Batches
    <3> QED
      BY <1>4, <3>1, <3>2, <3>3 DEF DryRun, RefuseBlocked, RaiseInRun, Report, Rollback,
         PerformLaterRaises, Crash
  <2>4. \A b \in Actors \ {a} : todo'[b] = todo[b] /\ work'[b] = work[b]
    BY <2>2 DEF IInv, TypeInv
  <2> QED
    BY <2>1, <2>2, <2>3, <2>4, LedgerQuiet
<1>5. ASSUME NEW a \in Actors, PerformLater(a)
      PROVE  LedgerInv' /\ Stays
  <2>1. /\ \A b \in Actors : pc'[b] = "importing" => pc[b] = "importing"
        /\ UNCHANGED <<batch, rows, entities, todo, work, overlapped>>
    BY <1>5 DEF PerformLater, IInv, TypeInv
  <2>2. LedgerInv'
    BY <2>1, LedgerKept DEF IInv
  <2> QED
    BY <2>1, <2>2, StaysFacts
<1>6. ASSUME NEW a \in Actors, NEW i \in Rows, MapRow(a, i) \/ CheckRow(a, i) \/ ImportRow(a, i)
      PROVE  LedgerInv' /\ (Stays \/ Ledger!Prepare(i))
  BY <1>6, LedgerPrepare, LedgerImportRow
<1> QED
  BY <1>1, <1>2, <1>3, <1>4, <1>5, <1>6, LedgerWrite, LedgerTakesBack, LedgerBegin,
     LedgerComplete DEF Next, Step, Ledger!LedgerNext

LEMMA LedgerInitially == Init => LedgerInv /\ Ledger!LedgerInit
<1> SUFFICES ASSUME Init PROVE LedgerInv /\ Ledger!LedgerInit
  OBVIOUS
<1>1. IInv /\ \A a \in Actors : pc[a] = "idle"
  BY InitInv DEF Init
<1>2. PICK old \in SUBSET Titles : entities = [title : old, by : {School}]
  BY DEF Init
<1>3. runs = 0 /\ overlapped = FALSE
  BY DEF Init
<1>4. Imported = {} /\ batch.refs = {}
  BY <1>1, <1>3 DEF IInv, RefsInv, Init
<1>5. {e.title : e \in entities \ Imported} \in SUBSET Titles
  BY <1>2
<1>6. \A i \in Rows : rows[i].status \in {"staged", "ready"}
  BY DEF Init
<1>7. Ledger!LedgerInit
  BY <1>3, <1>4, <1>5, <1>6 DEF Ledger!LedgerInit
<1> QED
  BY <1>1, <1>7 DEF LedgerInv

\* Rows, entities and summary implement the abstract ledger: whatever raises, dies
\* or races, each execution imports its rows at once, none twice and nothing that an
\* import has made, and lists what it made; without races it imports all that is
\* ready, and every row has its entity.  Only what imports made is taken back.
THEOREM ImportsKeepTheLedger == Spec => ImplementsLedger
<1>1. IInv /\ LedgerInv /\ [Next]_vars => LedgerInv'
  BY LedgerStep
<1>2. IInv /\ LedgerInv /\ [Next]_vars => [Ledger!LedgerNext]_(Ledger!ledgerVars)
  BY LedgerStep DEF Stays
<1> QED
  BY <1>1, <1>2, LedgerInitially, Invariance, PTL DEF Spec, ImplementsLedger, Ledger!LedgerSpec
=============================================================================
