-------------------------- MODULE PublishingRecovery --------------------------
(***************************************************************************)
(* The two parts together: operators replay the publishing of an item, the *)
(* tracked dispatch jobs of those replays run publish_now! under the retry *)
(* rules of the queue, and HTTP requests keep changing the same item.      *)
(*                                                                         *)
(* The work that OperationalJobs leaves open is here the execution of      *)
(* publish_now! by the job: it begins when the record says "running", it   *)
(* raises when the job raises, and it dies with the worker.                *)
(***************************************************************************)
EXTENDS OperationalJobs

CONSTANTS Requests, Times, NoTime, NoToken, NoOne, MaxClock

VARIABLES item, story, clock, lock, pc, loaded, key, deliveries, reopened

Item == INSTANCE PublishingDispatch

ASSUME ItemAssumption == Item!ConstantsAssumption

itemVars == <<item, story, clock, lock, pc, loaded, key, deliveries, reopened>>
allVars  == <<itemVars, vars>>

InitAll == Item!Init /\ Init

\* What requests, story editors and the clock do does not touch the jobs.
Surroundings ==
  /\ \/ \E r \in Requests : Item!Arrive(r) \/ Item!Work(r) \/ Item!Crash(r)
     \/ Item!EditStory \/ Item!Tick
  /\ UNCHANGED vars

\* What happens around an execution does not touch the item.  Cancelling, which
\* changes a status and nothing else, is left to OperationalJobs.
Around(j) ==
  /\ \/ Enqueue(j) \/ Request(j) \/ CallerDies(j)
     \/ Take(j) \/ MarkSucceeded(j) \/ MarkFailed(j)
  /\ UNCHANGED itemVars

Start(j) ==
  /\ MarkStarted(j)
  /\ IF queue'[j] = "running" THEN Item!BeginDispatch(j) ELSE UNCHANGED itemVars

Execute(j) ==
  /\ queue[j] = "running"
  /\ Item!LockItem(j) \/ Item!Decide(j) \/ Item!Publish(j)
  /\ UNCHANGED vars

Finish_Swallowed(j) ==
  /\ Item!Report(j) \/ Item!Raise(j)
  /\ Perform(j) /\ queue'[j] = "worked"
Finish(j) == Item!Report(j) /\ Perform(j) /\ queue'[j] = "worked"

Throw(j) == Item!Raise(j) /\ Perform(j) /\ queue'[j] = "raised"

Stop(j) ==
  /\ WorkerDies(j) \/ Shutdown(j)
  /\ IF pc[j] \in Item!Busy THEN Item!Crash(j) ELSE UNCHANGED itemVars

JobSteps(j) == \/ Worker(j) /\ Around(j)
               \/ Start(j) \/ Execute(j) \/ Finish(j) \/ Throw(j)

NextAll == \/ Surroundings
           \/ \E j \in Jobs : Around(j) \/ JobSteps(j) \/ Stop(j)

SpecAll == InitAll /\ [][NextAll]_allVars

FairSpecAll ==
  /\ SpecAll
  /\ \A r \in Requests : SF_allVars(Item!Work(r) /\ UNCHANGED vars)
  /\ \A j \in Jobs : SF_allVars(JobSteps(j)) /\ WF_allVars(Request(j) /\ Around(j))
-----------------------------------------------------------------------------
\* Replays and retries publish the item no more often than requests open it: what
\* PublishingDispatch promises of any jobs holds of these
\* (dispatch_service.rb:33-51, dispatch_job.rb:5).
OneDeliveryPerOpening == Item!OneDeliveryPerOpening

\* A record says "succeeded" only when the item has been published: a job that
\* swallowed its failure, or was marked before its work, would break this
\* (dispatch_job.rb:7-11, instrumented.rb:14-22, dispatch_service.rb:33-62).
SucceededMeansDelivered ==
  \A j \in Jobs : record[j] = "succeeded" => deliveries > 0

\* An item that was taken back to the state and time it was published from has
\* its old token again if the story last changed in the second of the publication;
\* until one of the three is edited no dispatch publishes it
\* (dispatch_service.rb:37-38, 91-99).
Collides == Item!TokenRepeats /\ item.state # "published"

\* Once a job is enqueued there comes a time when the item is published and
\* delivered, also if it was taken back after an earlier publication, unless the
\* job dies with its worker, fails every attempt it has, or the token repeats
\* (dispatch_service.rb:33-51, dispatch_job.rb:5).
ReplayIsDelivered ==
  \A j \in Jobs :
    queue[j] = "ready" ~> \/ item.state = "published" /\ item.delivered
                         \/ queue[j] \in {"dead", "lost"}
                         \/ Collides
=============================================================================
