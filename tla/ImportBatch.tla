------------------------------ MODULE ImportBatch ------------------------------
(***************************************************************************)
(* One import batch of the IB migration: mapping, dry run, execution and   *)
(* roll back, by requests and by the background job.                       *)
(*                                                                         *)
(* No operation looks at the status of the batch first.  Every actor works *)
(* on the batch as it loaded it and writes only the columns it changed; an *)
(* execution is one transaction that holds the row lock of the batch, the  *)
(* other operations commit statement by statement.  A row of the batch is  *)
(* imported in one step; creating the batch from a file happened before.   *)
(***************************************************************************)
EXTENDS Naturals, FiniteSets

(* A definition whose name carries a suffix (BatchIsFree_NoLock) is a       *)
(* plausible bug of the definition that follows it; no other definition     *)
(* uses it.                                                                 *)

CONSTANTS
  Requests,     \* HTTP requests, each arrives once
  Jobs,         \* ImportExecutionJobs at a time; a job that ended makes room for another
  RowCount,     \* the rows of the batch, in the order of row_index
  Titles,       \* titles of documents, entries or records
  Title,        \* the title in the payload of each row
  School,       \* what users of the school created themselves
  NoEntity,     \* the row did not create anything
  Attempts      \* retry_on ... attempts

ASSUME ConstantsAssumption ==
  /\ RowCount \in Nat \ {0} /\ Attempts \in Nat \ {0}
  /\ Requests \cap Jobs = {} /\ School \notin Requests \cup Jobs
  /\ Title \in [1..RowCount -> Titles]
  /\ NoEntity \notin [title : Titles, by : Requests \cup Jobs \cup {School}]

VARIABLES
  batch,       \* the committed batch
  rows,        \* its committed rows
  entities,    \* the committed documents, entries or records
  pc,          \* where each actor is, or how it ended
  loaded,      \* the batch as each actor loaded it
  cursor,      \* the resume_cursor of the batch in the memory of each actor
  seen,        \* the rows as each actor loaded them
  todo,        \* the rows each actor has still to go through
  work,        \* per actor, what each row of its open transaction created
  tries,       \* how often each job was executed
  runs,        \* history: executions that were committed
  overlapped   \* history: two operations were under way at the same time

vars == <<batch, rows, entities, pc, loaded, cursor, seen, todo, work, tries,
          runs, overlapped>>

Actors   == Requests \cup Jobs
Rows     == 1..RowCount
Entities == [title : Titles, by : Actors \cup {School}]
Imported == {e \in entities : e.by # School}
Batches  == [status : {"staged", "mapped", "blocked", "ready_for_execute", "executing",
                       "completed", "rolled_back", "failed"},
             cursor : Nat,                     \* resume_cursor
             refs : SUBSET Entities,           \* execution_summary.created_refs
             skipped : SUBSET Entities]        \* rollback_summary.skipped_refs
RowStates == [status : {"staged", "mapped", "blocked", "ready", "executed"},
              valid : BOOLEAN]                 \* no required field is missing
Operations == {"map", "dry_run", "execute", "enqueue", "rollback"}
Busy  == Operations \cup {"mapping", "checking", "summing", "begin", "importing",
                          "imported", "rescue", "enqueued", "destroying"}
Ended == {"answered", "unqueued", "dead"}      \* "answered": an error or not

\* A batch that was just staged, or one that passed its dry run.
Init ==
  /\ \/ /\ batch = [status |-> "staged", cursor |-> 0, refs |-> {}, skipped |-> {}]
        /\ \E valid \in [Rows -> BOOLEAN] :
             rows = [i \in Rows |-> [status |-> "staged", valid |-> valid[i]]]
     \/ /\ batch = [status |-> "ready_for_execute", cursor |-> 0, refs |-> {}, skipped |-> {}]
        /\ rows = [i \in Rows |-> [status |-> "ready", valid |-> TRUE]]
  /\ \E old \in SUBSET Titles : entities = [title : old, by : {School}]
  /\ pc = [a \in Actors |-> "idle"]
  /\ loaded = [a \in Actors |-> batch]
  /\ cursor = [a \in Actors |-> 0]
  /\ seen = [a \in Actors |-> rows]
  /\ todo = [a \in Actors |-> {}]
  /\ work = [a \in Actors |-> <<>>]
  /\ tries = [j \in Jobs |-> 0]
  /\ runs = 0 /\ overlapped = FALSE

GoTo(a, l) == pc' = [pc EXCEPT ![a] = l]

\* The transaction of an execution holds the batch and the rows it imported.
BatchIsFree_NoLock == TRUE
BatchIsFree == \A a \in Actors : pc[a] # "importing"
RowIsFree(i) == \A a \in Actors : i \notin DOMAIN work[a]

\* update! writes the status only when it differs from the loaded one.
WithStatus(a, s) == IF s = loaded[a].status THEN batch ELSE [batch EXCEPT !.status = s]
RowWithStatus(a, i, s) ==
  IF s = seen[a][i].status THEN rows[i] ELSE [rows[i] EXCEPT !.status = s]

Load(a) ==
  /\ loaded' = [loaded EXCEPT ![a] = batch]
  /\ cursor' = [cursor EXCEPT ![a] = batch.cursor]
  /\ overlapped' = (overlapped \/ \E b \in Actors \ {a} : pc[b] \in Busy)

\* find_each: the rows in question, read at once and visited in order.
LoadRows(a, which) ==
  /\ seen' = [seen EXCEPT ![a] = rows]
  /\ todo' = [todo EXCEPT ![a] = which]

IsNextRow(a, i) == i \in todo[a] /\ \A k \in todo[a] : i <= k
PassRow(a, i) == todo' = [todo EXCEPT ![a] = @ \ {i}]

-----------------------------------------------------------------------------
\* set_batch.  A replay is one of these too: of "enqueue" when the batch is
\* ready_for_execute and of "dry_run" when it is not.
Arrive(r) ==
  /\ pc[r] = "idle" /\ Load(r)
  /\ \E op \in Operations : GoTo(r, op)
  /\ UNCHANGED <<batch, rows, entities, seen, todo, work, tries, runs>>

\* A user of the school creates an entity by hand.
SchoolCreates ==
  /\ \E t \in Titles : entities' = entities \cup {[title |-> t, by |-> School]}
  /\ UNCHANGED <<batch, rows, pc, loaded, cursor, seen, todo, work, tries, runs, overlapped>>

(* update_mapping!                                                         *)

Map(r) ==
  /\ pc[r] = "map" /\ BatchIsFree
  /\ batch' = WithStatus(r, "mapped")
  /\ LoadRows(r, Rows) /\ GoTo(r, "mapping")
  /\ UNCHANGED <<rows, entities, loaded, cursor, work, tries, runs, overlapped>>

MapRow(r, i) ==
  /\ pc[r] = "mapping" /\ IsNextRow(r, i) /\ RowIsFree(i)
  /\ \E valid \in BOOLEAN :
       rows' = [rows EXCEPT ![i] = [RowWithStatus(r, i, "mapped") EXCEPT !.valid = valid]]
  /\ PassRow(r, i) /\ GoTo(r, IF todo[r] = {i} THEN "answered" ELSE "mapping")
  /\ UNCHANGED <<batch, entities, loaded, cursor, seen, work, tries, runs, overlapped>>

(* DryRunService#run!                                                      *)

DryRun(r) ==
  /\ pc[r] = "dry_run"
  /\ LoadRows(r, Rows) /\ GoTo(r, "checking")
  /\ UNCHANGED <<batch, rows, entities, loaded, cursor, work, tries, runs, overlapped>>

CheckRow(r, i) ==
  /\ pc[r] = "checking" /\ IsNextRow(r, i) /\ RowIsFree(i)
  /\ rows' = [rows EXCEPT ![i] =
                RowWithStatus(r, i, IF seen[r][i].valid THEN "ready" ELSE "blocked")]
  /\ PassRow(r, i) /\ GoTo(r, IF todo[r] = {i} THEN "summing" ELSE "checking")
  /\ UNCHANGED <<batch, entities, loaded, cursor, seen, work, tries, runs, overlapped>>

Summarise(r) ==
  /\ pc[r] = "summing" /\ BatchIsFree
  /\ batch' = WithStatus(r, IF \A i \in Rows : seen[r][i].valid
                              THEN "ready_for_execute" ELSE "blocked")
  /\ GoTo(r, "answered")
  /\ UNCHANGED <<rows, entities, loaded, cursor, seen, todo, work, tries, runs, overlapped>>

-----------------------------------------------------------------------------
(* execute!, in the background                                             *)

Enqueue(r) ==
  /\ pc[r] = "enqueue" /\ BatchIsFree
  /\ batch' = WithStatus(r, "executing") /\ GoTo(r, "enqueued")
  /\ UNCHANGED <<rows, entities, loaded, cursor, seen, todo, work, tries, runs, overlapped>>

\* The registration that follows may raise: the request then answers an error,
\* and the job is queued all the same.
PerformLater(r) ==
  /\ pc[r] = "enqueued"
  /\ \E j \in Jobs : /\ pc[j] \in {"idle"} \cup Ended
                     /\ pc' = [pc EXCEPT ![r] = "answered", ![j] = "queued"]
                     /\ tries' = [tries EXCEPT ![j] = 0]
  /\ UNCHANGED <<batch, rows, entities, loaded, cursor, seen, todo, work, runs, overlapped>>

\* perform_later raises: the request answers an error, no job is queued, and
\* nothing takes back the status that was committed before.
PerformLaterRaises(r) ==
  /\ pc[r] = "enqueued" /\ GoTo(r, "unqueued")
  /\ UNCHANGED <<batch, rows, entities, loaded, cursor, seen, todo, work, tries, runs,
                 overlapped>>

StartJob(j) ==
  /\ pc[j] = "queued" /\ Load(j) /\ GoTo(j, "execute")
  /\ tries' = [tries EXCEPT ![j] = @ + 1]
  /\ UNCHANGED <<batch, rows, entities, seen, todo, work, runs>>

(* ExecutionService#run!                                                   *)

RefuseBlocked(a) ==
  /\ pc[a] = "execute"
  /\ GoTo(a, IF \E i \in Rows : rows[i].status = "blocked" THEN "rescue" ELSE "begin")
  /\ UNCHANGED <<batch, rows, entities, loaded, cursor, seen, todo, work, tries, runs,
                 overlapped>>

\* BEGIN, the first update of the batch, which locks it, and the ready rows.
Begin_Resumes(a) ==
  /\ pc[a] = "begin" /\ BatchIsFree
  /\ LoadRows(a, {i \in Rows : rows[i].status = "ready" /\ i > cursor[a]})
  /\ GoTo(a, "importing")
  /\ UNCHANGED <<batch, rows, entities, loaded, cursor, work, tries, runs, overlapped>>
Begin(a) ==
  /\ pc[a] = "begin" /\ BatchIsFree
  /\ cursor' = [cursor EXCEPT ![a] = 0]
  /\ LoadRows(a, {i \in Rows : rows[i].status = "ready"})
  /\ GoTo(a, "importing")
  /\ UNCHANGED <<batch, rows, entities, loaded, work, tries, runs, overlapped>>

\* execute_row!: what has the title already is updated, not created.
Made(a, i) ==
  IF \E e \in entities \cup {work[a][k] : k \in DOMAIN work[a]} :
       e # NoEntity /\ e.title = Title[i]
    THEN NoEntity
    ELSE [title |-> Title[i], by |-> a]

ImportRow(a, i) ==
  /\ pc[a] = "importing" /\ IsNextRow(a, i)
  /\ work' = [work EXCEPT ![a] = [k \in DOMAIN @ \cup {i} |-> IF k = i THEN Made(a, i)
                                                                      ELSE @[k]]]
  /\ cursor' = [cursor EXCEPT ![a] = i] /\ PassRow(a, i)
  /\ UNCHANGED <<batch, rows, entities, pc, loaded, seen, tries, runs, overlapped>>

CreatedRefs(a) == {work[a][i] : i \in DOMAIN work[a]} \ {NoEntity}

\* What COMMIT makes visible of the rows and of what they created.
Apply(a) ==
  /\ rows' = [i \in Rows |-> IF i \in DOMAIN work[a]
                               THEN [rows[i] EXCEPT !.status = "executed"]
                               ELSE rows[i]]
  /\ entities' = entities \cup CreatedRefs(a)

Summary_WithSkips(a) == {work[a][i] : i \in DOMAIN work[a]}
Summary_LastRow(a) == CreatedRefs(a) \cap {work[a][i] : i \in DOMAIN work[a] \cap {RowCount}}
Summary(a) == CreatedRefs(a)

\* The summary of this execution replaces that of an earlier one.
Complete(a) ==
  /\ pc[a] = "importing" /\ todo[a] = {}
  /\ Apply(a)
  /\ batch' = [batch EXCEPT !.status = "completed", !.refs = Summary(a),
                            !.cursor = IF cursor[a] = loaded[a].cursor THEN @ ELSE cursor[a]]
  /\ loaded' = [loaded EXCEPT ![a].status = "completed", ![a].cursor = cursor[a]]
  /\ work' = [work EXCEPT ![a] = <<>>]
  /\ runs' = runs + 1
  /\ GoTo(a, "imported")
  /\ UNCHANGED <<cursor, seen, todo, tries, overlapped>>

\* A statement of the transaction raises: ROLLBACK.  The batch in memory keeps
\* the cursor, and what it holds still counts as unsaved.
RaiseInRun_NoTransaction(a) ==
  /\ pc[a] = "importing" /\ GoTo(a, "rescue") /\ Apply(a)
  /\ work' = [work EXCEPT ![a] = <<>>]
  /\ UNCHANGED <<batch, loaded, cursor, seen, todo, tries, runs, overlapped>>
RaiseInRun(a) ==
  /\ pc[a] = "importing" /\ GoTo(a, "rescue")
  /\ work' = [work EXCEPT ![a] = <<>>]
  /\ UNCHANGED <<batch, rows, entities, loaded, cursor, seen, todo, tries, runs, overlapped>>

\* The telemetry writes a row of its own, and may raise after the COMMIT.
Report(a) ==
  /\ pc[a] = "imported"
  /\ GoTo(a, "answered") \/ GoTo(a, "rescue")
  /\ UNCHANGED <<batch, rows, entities, loaded, cursor, seen, todo, work, tries, runs,
                 overlapped>>

Rescued_Unsaved(a) == batch
Rescued(a) ==
  [WithStatus(a, "failed") EXCEPT !.cursor = IF cursor[a] = loaded[a].cursor THEN @
                                                                             ELSE cursor[a]]

\* rescue marks the batch and raises again, which makes the job try once more.
Rescue(a) ==
  /\ pc[a] = "rescue" /\ BatchIsFree
  /\ batch' = Rescued(a)
  /\ GoTo(a, IF a \in Jobs /\ tries[a] < Attempts THEN "queued" ELSE "answered")
  /\ UNCHANGED <<rows, entities, loaded, cursor, seen, todo, work, tries, runs, overlapped>>

-----------------------------------------------------------------------------
(* ExecutionService#rollback!: it goes by the summary that it loaded.       *)

Rollback(r) ==
  /\ pc[r] = "rollback" /\ GoTo(r, "destroying")
  /\ loaded' = [loaded EXCEPT ![r].skipped = {}]
  /\ UNCHANGED <<batch, rows, entities, cursor, seen, todo, work, tries, runs, overlapped>>

\* destroy_ref: an entity that cannot be destroyed is skipped.  It waits for a
\* transaction that has updated the entity, but one that found nothing to change
\* in it holds no lock: here it never waits.
DestroyRef(r) ==
  /\ pc[r] = "destroying"
  /\ \E e \in loaded[r].refs :
       \/ /\ entities' = entities \ {e}
          /\ loaded' = [loaded EXCEPT ![r].refs = @ \ {e}]
       \/ /\ loaded' = [loaded EXCEPT ![r].refs = @ \ {e}, ![r].skipped = @ \cup {e}]
          /\ UNCHANGED entities
  /\ UNCHANGED <<batch, rows, pc, cursor, seen, todo, work, tries, runs, overlapped>>

MarkRolledBack(r) ==
  /\ pc[r] = "destroying" /\ loaded[r].refs = {} /\ BatchIsFree
  /\ batch' = [WithStatus(r, "rolled_back") EXCEPT !.skipped = loaded[r].skipped]
  /\ GoTo(r, "answered")
  /\ UNCHANGED <<rows, entities, loaded, cursor, seen, todo, work, tries, runs, overlapped>>

\* The process dies: an open transaction is rolled back, and the queue may
\* lose the job or put it back (here as often as retry_on would).
Crash(a) ==
  /\ pc[a] \in Busy
  /\ GoTo(a, "dead") \/ (a \in Jobs /\ tries[a] < Attempts /\ GoTo(a, "queued"))
  /\ work' = [work EXCEPT ![a] = <<>>]
  /\ UNCHANGED <<batch, rows, entities, loaded, cursor, seen, todo, tries, runs, overlapped>>

-----------------------------------------------------------------------------
Step(a) ==
  \/ Map(a) \/ DryRun(a) \/ Summarise(a) \/ Enqueue(a)
  \/ PerformLater(a) \/ PerformLaterRaises(a)
  \/ \E i \in Rows : MapRow(a, i) \/ CheckRow(a, i) \/ ImportRow(a, i)
  \/ RefuseBlocked(a) \/ Begin(a) \/ Complete(a) \/ RaiseInRun(a) \/ Report(a) \/ Rescue(a)
  \/ Rollback(a) \/ DestroyRef(a) \/ MarkRolledBack(a)

Next == \/ \E r \in Requests : Arrive(r)
        \/ \E j \in Jobs : StartJob(j)
        \/ \E a \in Actors : Step(a) \/ Crash(a)
        \/ SchoolCreates

Spec == Init /\ [][Next]_vars

\* Threads run, jobs are taken from the queue, and the database serves the
\* waiters of a row lock in turn.
FairSpec == /\ Spec
            /\ \A a \in Actors : SF_vars(Step(a))
            /\ \A j \in Jobs : WF_vars(StartJob(j))
-----------------------------------------------------------------------------
TypeOK ==
  /\ batch \in Batches
  /\ rows \in [Rows -> RowStates]
  /\ entities \subseteq Entities
  /\ pc \in [Actors -> {"idle", "queued"} \cup Busy \cup Ended]
  /\ loaded \in [Actors -> Batches]
  /\ cursor \in [Actors -> 0..RowCount]
  /\ seen \in [Actors -> [Rows -> RowStates]]
  /\ todo \in [Actors -> SUBSET Rows]
  /\ \A a \in Actors : /\ DOMAIN work[a] \subseteq Rows
                       /\ \A i \in DOMAIN work[a] : work[a][i] \in Entities \cup {NoEntity}
                       /\ DOMAIN work[a] # {} => pc[a] = "importing"
  /\ tries \in [Jobs -> 0..Attempts]
  /\ runs \in Nat /\ overlapped \in BOOLEAN

\* Executions of the same batch, by requests and by jobs that are executed
\* again, never import a title twice: the first update of the transaction
\* makes the second execution wait and then find what the first created
\* (execution_service.rb:15-25, :136-146).
NothingIsImportedTwice ==
  \A e, f \in Imported : e.title = f.title => e = f

\* What an import creates becomes visible only together with the summary that
\* a roll back goes by, and the summary lists exactly that, whatever raises or
\* dies on the way (execution_service.rb:15-60, :95).
ImportsAreAccounted ==
  [][Imported' \subseteq Imported \/ batch'.refs = Imported' \ Imported]_vars

\* The rows, the entities and the summary together implement ImportLedger:
\* every execution imports all that is ready or nothing, creates no title that
\* an import has created and lists what it created; whatever else happens to
\* the batch takes back single entities of imports or prepares single rows
\* (execution_service.rb:9-60, :89-107, :128-226).
Ledger == INSTANCE ImportLedger WITH
  Importers <- Actors,
  made      <- Imported,
  own       <- {e.title : e \in entities \ Imported},
  listed    <- batch.refs,
  row       <- [i \in Rows |-> rows[i].status],
  raced     <- overlapped

ImplementsLedger == Ledger!LedgerSpec

\* A roll back, however old the summary it loaded, never destroys what the
\* school created, although the import may have updated it
\* (execution_service.rb:90-101).
SchoolKeepsItsOwn ==
  [][\A e \in entities : e.by = School => e \in entities']_vars

\* As long as operations on the batch did not overlap and only one execution
\* was committed, a batch that is rolled back has nothing left of the import
\* but what the roll back reports as skipped.  Of two executions it knows only
\* the second, whose summary replaced the first one's
\* (execution_service.rb:41-54, :89-117).
OrderlyRollbackUndoes ==
  batch.status = "rolled_back" /\ ~ overlapped /\ runs <= 1
    => Imported \subseteq batch.skipped

\* A batch does not stay "executing" once the queue runs its jobs, even
\* though the execution may be refused or raise (execution_service.rb:74-86), or
\* the request that queued the job answer an error.  Two things leave it there:
\* an operation that died and was not taken up again, and a perform_later that
\* raised after the status was committed (import_batch_service.rb:143-146).
ExecutingSettles ==
  batch.status = "executing" ~>
    batch.status # "executing" \/ \E a \in Actors : pc[a] \in {"unqueued", "dead"}
=============================================================================
