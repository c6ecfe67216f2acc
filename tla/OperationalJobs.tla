--------------------------- MODULE OperationalJobs ---------------------------
(***************************************************************************)
(* Tracked background jobs for one source record: the request that puts a  *)
(* job in the queue and registers it, the worker that executes it, and the *)
(* IbOperationalJob record that operators see, cancel and replay.          *)
(*                                                                         *)
(* The queue is Sidekiq behind ActiveJob (external): retry_on puts a job   *)
(* back with its execution count until the attempts are used up, then the  *)
(* exception reaches Sidekiq, whose own retries repeat the last execution. *)
(* A worker that is killed loses its job; one that shuts down puts it back *)
(* as it was.  What a job does is left open: it works or it raises.  The   *)
(* look-up of the record and the UPDATE that follows it are one step.      *)
(***************************************************************************)
EXTENDS Naturals

(* A definition whose name carries a suffix (Exhausted_OneMore) is a        *)
(* plausible bug of the definition that follows it; no other definition     *)
(* uses it.                                                                 *)

CONSTANTS
  Jobs,          \* ActiveJob instances for the source record
  MaxAttempts,   \* attempts of retry_on, and max_attempts of the record
  MaxRetries,    \* a bound on Sidekiq's own retries (25 by default)
  MaxShutdowns,  \* a bound on worker shutdowns
  NoRecord       \* the job has no IbOperationalJob

Statuses == {"queued", "running", "succeeded", "failed", "dead_letter",
             "cancelled", "recovered"}
AttentionNeeded == {"failed", "dead_letter"}

ASSUME ConstantsAssumption ==
  /\ MaxAttempts \in Nat \ {0}
  /\ MaxRetries \in Nat /\ MaxShutdowns \in Nat
  /\ NoRecord \notin Statuses

VARIABLES
  caller,     \* the request that enqueues each job
  queue,      \* where each job is in Sidekiq and in its worker
  serialized, \* the execution count in the job's payload
  retries,    \* Sidekiq's own retry count of each job
  shutdowns,  \* how many shutdowns have put a job back
  record,     \* the status of each job's IbOperationalJob
  newer,      \* the jobs whose records have a later updated_at than each one's
  tracked     \* history: the record was told of the job's last failure

queueVars  == <<queue, serialized, retries, shutdowns>>
recordVars == <<record, newer>>
vars == <<caller, queueVars, recordVars, tracked>>

Waiting  == {"ready", "waiting", "retry"}
InWorker == {"taken", "running", "worked", "raised"}
Over     == {"finished", "dead", "lost"}

Init ==
  /\ caller = [j \in Jobs |-> "idle"]
  /\ queue = [j \in Jobs |-> "none"]
  /\ serialized = [j \in Jobs |-> 0]
  /\ retries = [j \in Jobs |-> 0]
  /\ shutdowns = 0
  /\ record = [j \in Jobs |-> NoRecord]
  /\ newer = [j \in Jobs |-> {}]
  /\ tracked = [j \in Jobs |-> FALSE]

Move(j, q) == queue' = [queue EXCEPT ![j] = q]
Call(j, c) == caller' = [caller EXCEPT ![j] = c]

Known == {j \in Jobs : record[j] # NoRecord}

\* The record of j gets the status, and the latest updated_at of all.
Write(j, status) ==
  /\ record' = [record EXCEPT ![j] = status]
  /\ newer' = [i \in Jobs |-> IF i \in Known \ {j} THEN newer[i] \cup {j} ELSE {}]
SetStatus(j, status) ==
  IF j \in Known THEN Write(j, status) ELSE UNCHANGED recordVars

-----------------------------------------------------------------------------
(* The request: perform_later, register_enqueue!, and for a replay           *)
(* mark_recovered!.                                                          *)

Enqueue(j) ==
  /\ caller[j] = "idle"
  /\ Call(j, "enqueued") \/ Call(j, "replaying")
  /\ Move(j, "ready")
  /\ UNCHANGED <<serialized, retries, shutdowns, recordVars, tracked>>

\* The status is "queued", whatever became of the job in the meantime.
Register(j) ==
  /\ caller[j] \in {"enqueued", "replaying"}
  /\ Write(j, "queued")
  /\ Call(j, IF caller[j] = "replaying" THEN "replayed" ELSE "done")
  /\ UNCHANGED <<queueVars, tracked>>

\* The newest record of the source that needs attention is the recovered one.
NeedsAttention == {j \in Jobs : record[j] \in AttentionNeeded}
Newest(S) == {j \in S : newer[j] \cap S = {}}

MarkRecovered(j) ==
  /\ caller[j] = "replayed" /\ Call(j, "done")
  /\ IF NeedsAttention = {}
       THEN UNCHANGED recordVars
       ELSE \E i \in Newest(NeedsAttention) : SetStatus(i, "recovered")
  /\ UNCHANGED <<queueVars, tracked>>

\* The request dies between two of its steps.
CallerDies(j) ==
  /\ caller[j] \in {"enqueued", "replaying", "replayed"} /\ Call(j, "done")
  /\ UNCHANGED <<queueVars, recordVars, tracked>>

\* JobOperationsService#cancel! only marks the record, in any status.
Cancel(j) ==
  /\ j \in Known /\ SetStatus(j, "cancelled")
  /\ UNCHANGED <<caller, queueVars, tracked>>

-----------------------------------------------------------------------------
(* The worker: Instrumented#around_perform around the job.                 *)

Take(j) ==
  /\ queue[j] \in Waiting /\ Move(j, "taken")
  /\ UNCHANGED <<caller, serialized, retries, shutdowns, recordVars, tracked>>

\* mark_started! updates the record and then appends an event; either may
\* raise, which fails the execution before its work.
MarkStarted(j) ==
  /\ queue[j] = "taken"
  /\ \/ Move(j, "running") /\ SetStatus(j, "running")
     \/ Move(j, "raised") /\ (SetStatus(j, "running") \/ UNCHANGED recordVars)
  /\ UNCHANGED <<caller, serialized, retries, shutdowns, tracked>>

Perform(j) ==
  /\ queue[j] = "running"
  /\ Move(j, "worked") \/ Move(j, "raised")
  /\ UNCHANGED <<caller, serialized, retries, shutdowns, recordVars, tracked>>

\* So does mark_succeeded!: when it raises, work that is done counts as failed.
MarkSucceeded(j) ==
  /\ queue[j] = "worked"
  /\ \/ Move(j, "finished") /\ SetStatus(j, "succeeded")
     \/ Move(j, "raised") /\ (SetStatus(j, "succeeded") \/ UNCHANGED recordVars)
  /\ UNCHANGED <<caller, serialized, retries, shutdowns, tracked>>

Exhausted_OneMore(j) == serialized[j] + 1 > MaxAttempts
Exhausted(j) == serialized[j] + 1 >= MaxAttempts

\* retry_on counts for itself: before the attempts are used up the job goes
\* back with one execution more; then Sidekiq puts back the payload it had.
Requeue_OffByOne(j) ==
  IF serialized[j] < MaxAttempts
    THEN /\ Move(j, "waiting") /\ UNCHANGED retries
         /\ serialized' = [serialized EXCEPT ![j] = @ + 1]
    ELSE Move(j, "dead") /\ UNCHANGED <<serialized, retries>>
Requeue(j) ==
  IF serialized[j] + 1 < MaxAttempts
    THEN /\ Move(j, "waiting") /\ UNCHANGED retries
         /\ serialized' = [serialized EXCEPT ![j] = @ + 1]
    ELSE /\ UNCHANGED serialized
         /\ IF retries[j] < MaxRetries
              THEN Move(j, "retry") /\ retries' = [retries EXCEPT ![j] = @ + 1]
              ELSE Move(j, "dead") /\ UNCHANGED retries

\* An error of mark_failed! itself leaves the record as it was.
MarkFailed_Dropped(j) == queue[j] = "raised" /\ UNCHANGED vars
MarkFailed(j) ==
  /\ queue[j] = "raised"
  /\ \/ /\ SetStatus(j, IF Exhausted(j) THEN "dead_letter" ELSE "failed")
        /\ tracked' = [tracked EXCEPT ![j] = j \in Known]
     \/ UNCHANGED recordVars /\ tracked' = [tracked EXCEPT ![j] = FALSE]
  /\ Requeue(j)
  /\ UNCHANGED <<caller, shutdowns>>

WorkerDies(j) ==
  /\ queue[j] \in InWorker /\ Move(j, "lost")
  /\ UNCHANGED <<caller, serialized, retries, shutdowns, recordVars, tracked>>

Shutdown(j) ==
  /\ queue[j] \in InWorker /\ shutdowns < MaxShutdowns
  /\ Move(j, "ready") /\ shutdowns' = shutdowns + 1
  /\ UNCHANGED <<caller, serialized, retries, recordVars, tracked>>

-----------------------------------------------------------------------------
Request(j) == Register(j) \/ MarkRecovered(j)
Worker(j)  == \/ Take(j) \/ MarkStarted(j) \/ Perform(j)
              \/ MarkSucceeded(j) \/ MarkFailed(j)
Operator(j) == Enqueue(j) \/ Cancel(j)
Fault(j)   == CallerDies(j) \/ WorkerDies(j) \/ Shutdown(j)

Next == \E j \in Jobs : Operator(j) \/ Request(j) \/ Worker(j) \/ Fault(j)

Spec == Init /\ [][Next]_vars

\* Web threads and workers run as long as they live.
FairSpec == Spec /\ \A j \in Jobs : WF_vars(Request(j)) /\ WF_vars(Worker(j))
-----------------------------------------------------------------------------
TypeOK ==
  /\ caller \in [Jobs -> {"idle", "enqueued", "replaying", "replayed", "done"}]
  /\ queue \in [Jobs -> {"none"} \cup Waiting \cup InWorker \cup Over]
  /\ serialized \in [Jobs -> 0 .. MaxAttempts - 1]
  /\ retries \in [Jobs -> 0 .. MaxRetries] /\ shutdowns \in 0 .. MaxShutdowns
  /\ record \in [Jobs -> Statuses \cup {NoRecord}]
  /\ newer \in [Jobs -> SUBSET Known]
  /\ \A i, j \in Known : i # j => (i \in newer[j] <=> j \notin newer[i])
  /\ tracked \in [Jobs -> BOOLEAN]

\* A job whose attempts are used up is a dead letter, unless an operator has
\* cancelled or replayed it since, and nothing else is: the record's count and
\* the queue's agree although each keeps its own (operational_job_tracker.rb:78-84,
\* dispatch_job.rb:5).
DeadLettersAreExhausted ==
  \A j \in Jobs :
    /\ queue[j] \in {"retry", "dead"} /\ tracked[j] =>
         record[j] \in {"dead_letter", "cancelled", "recovered"}
    /\ record[j] = "dead_letter" /\ queue[j] \in Waiting =>
         queue[j] = "retry" \/ serialized[j] + 1 = MaxAttempts

\* Every job that enters the queue leaves it: its retries end.
EveryJobEnds == \A j \in Jobs : queue[j] = "ready" ~> queue[j] \in Over
=============================================================================
