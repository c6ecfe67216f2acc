-------------------------- MODULE PublishingDispatch --------------------------
(***************************************************************************)
(* One item of the publishing queue, the learning story it publishes, and  *)
(* the requests and dispatch jobs that race to schedule, hold, change and  *)
(* publish it.                                                             *)
(*                                                                         *)
(* schedule!, hold! and publish_now! run under the row lock of the item;   *)
(* a PATCH of the item and an edit of the story take no lock before they   *)
(* write.  Publishing is made idempotent by a token built from the state   *)
(* of the item and from times cut to the second, so the model has a clock  *)
(* of seconds.  A step is what an actor does up to and including its next  *)
(* statement of the database.                                              *)
(***************************************************************************)
EXTENDS Naturals

(* A definition whose name carries a suffix (LockIsFree_NoLock) is a        *)
(* plausible bug of the definition that follows it; no other definition     *)
(* uses it.                                                                 *)

CONSTANTS
  Requests,  \* HTTP requests, each arrives once
  Jobs,      \* dispatch jobs; the queue may execute a job again and again
  Times,     \* values of scheduled_for
  NoTime,    \* scheduled_for is NULL
  NoToken,   \* the item was never published
  NoOne,     \* the row lock of the item is free
  MaxClock   \* a bound on the clock, in seconds

States == {"draft", "ready_for_digest", "scheduled", "published", "held"}
Tokens == [state : States, time : Times \cup {NoTime}, stamp : Nat]
Items  == [state : States, time : Times \cup {NoTime}, delivered : BOOLEAN,
           token : Tokens \cup {NoToken}]
Views  == [state : States, time : Times \cup {NoTime}]

\* Assumed by PublishingRecovery, which instantiates this module.
ConstantsAssumption ==
  /\ Requests \cap Jobs = {} /\ NoOne \notin Requests \cup Jobs
  /\ NoTime \notin Times /\ NoToken \notin Tokens
  /\ MaxClock \in Nat

VARIABLES
  item,        \* the committed queue item
  story,       \* the committed story: updated_at in seconds, and if published
  clock,       \* Time.current in seconds
  lock,        \* the holder of the row lock of the item
  pc,          \* where each actor is, or how it ended
  loaded,      \* the state and time of the item as each request loaded them
  key,         \* the digest_key that each actor computed
  deliveries,  \* history: how often publish_now! published the item
  reopened     \* history: how often the item stopped being published

vars == <<item, story, clock, lock, pc, loaded, key, deliveries, reopened>>

Actors == Requests \cup Jobs
Busy   == {"schedule", "hold", "patch", "publish", "locked", "publishing", "unlocked"}
Ended  == {"changed", "published", "failed"}

\* What a request may later write over.
Shown == [state |-> item.state, time |-> item.time]

Init ==
  /\ item = [state |-> "ready_for_digest", time |-> NoTime, delivered |-> FALSE,
             token |-> NoToken]
  /\ story = [stamp |-> 0, published |-> FALSE]
  /\ clock = 0
  /\ lock = NoOne
  /\ pc = [a \in Actors |-> "idle"]
  /\ loaded = [r \in Requests |-> Shown]
  /\ key = [a \in Actors |-> NoToken]
  /\ deliveries = 0 /\ reopened = 0

GoTo(a, l) == pc' = [pc EXCEPT ![a] = l]

LockIsFree_NoLock == TRUE
LockIsFree == lock = NoOne

Unlock(a) == lock' = IF lock = a THEN NoOne ELSE lock

\* Every write of the item notes whether it took a published item back.
WriteItem(row) ==
  /\ item' = row
  /\ reopened' = IF item.state = "published" /\ row.state # "published"
                 THEN reopened + 1 ELSE reopened

-----------------------------------------------------------------------------
\* set_queue_item: the request loads the item, which ages from then on.
Arrive(r) ==
  /\ pc[r] = "idle"
  /\ \E op \in {"schedule", "hold", "patch", "publish"} : GoTo(r, op)
  /\ loaded' = [loaded EXCEPT ![r] = Shown]
  /\ UNCHANGED <<item, story, clock, lock, key, deliveries, reopened>>

\* DispatchJob#perform finds the item anew in every execution.
BeginDispatch(j) ==
  /\ pc[j] \in {"idle"} \cup Ended /\ GoTo(j, "publish")
  /\ UNCHANGED <<item, story, clock, lock, loaded, key, deliveries, reopened>>

\* Without a time the item loses its own, unless it is scheduled: then the
\* comparison with no time raises, which is the death of the request.
Schedule(r) ==
  /\ pc[r] = "schedule" /\ LockIsFree
  /\ \E t \in Times \cup {NoTime} :
       /\ item.state = "scheduled" => t # NoTime
       /\ WriteItem([item EXCEPT !.state = "scheduled", !.time = t])
  /\ GoTo(r, "changed")
  /\ UNCHANGED <<story, clock, lock, loaded, key, deliveries>>

Hold(r) ==
  /\ pc[r] = "hold" /\ LockIsFree
  /\ WriteItem([item EXCEPT !.state = "held"])
  /\ GoTo(r, "changed")
  /\ UNCHANGED <<story, clock, lock, loaded, key, deliveries>>

\* update! writes the columns that differ from the loaded ones; a metadata
\* parameter replaces the whole column and the token in it.  held_reason may
\* change too, which nothing here reads.
Patched(r, state, time, metadata) ==
  [item EXCEPT !.state = IF state = loaded[r].state THEN @ ELSE state,
               !.time  = IF time = loaded[r].time THEN @ ELSE time,
               !.token = IF metadata THEN NoToken ELSE @]

Patch(r) ==
  /\ pc[r] = "patch" /\ LockIsFree
  /\ \E state \in States, time \in Times \cup {NoTime}, metadata \in BOOLEAN :
       WriteItem(Patched(r, state, time, metadata))
  /\ GoTo(r, "changed")
  /\ UNCHANGED <<story, clock, lock, loaded, key, deliveries>>

\* LearningStoriesController#update: any change moves updated_at to now.
EditStory ==
  /\ \E p \in BOOLEAN : story' = [stamp |-> clock, published |-> p]
  /\ UNCHANGED <<item, clock, lock, pc, loaded, key, deliveries, reopened>>

Tick ==
  /\ clock < MaxClock /\ clock' = clock + 1
  /\ UNCHANGED <<item, story, lock, pc, loaded, key, deliveries, reopened>>

-----------------------------------------------------------------------------
(* DispatchService#publish_now!                                            *)

LockItem(a) ==
  /\ pc[a] = "publish" /\ LockIsFree
  /\ lock' = a /\ GoTo(a, "locked")
  /\ UNCHANGED <<item, story, clock, loaded, key, deliveries, reopened>>

DigestKey == [state |-> item.state, time |-> item.time, stamp |-> story.stamp]

TokenRepeats == item.token = DigestKey

NothingToDo_EverDelivered == item.delivered \/ TokenRepeats
NothingToDo == (item.state = "published" /\ item.delivered) \/ TokenRepeats

\* The item is locked, the story is only read.
Decide(a) ==
  /\ pc[a] = "locked"
  /\ IF NothingToDo
       THEN GoTo(a, "unlocked") /\ Unlock(a) /\ UNCHANGED key
       ELSE /\ GoTo(a, "publishing")
            /\ key' = [key EXCEPT ![a] = DigestKey]
            /\ UNCHANGED lock
  /\ UNCHANGED <<item, story, clock, loaded, deliveries, reopened>>

\* Both updates, of the item and of its story, and COMMIT.
Publish(a) ==
  /\ pc[a] = "publishing"
  /\ item' = [item EXCEPT !.state = "published", !.delivered = TRUE, !.token = key[a]]
  /\ story' = [stamp |-> clock, published |-> TRUE]
  /\ deliveries' = deliveries + 1
  /\ GoTo(a, "unlocked") /\ Unlock(a)
  /\ key' = [key EXCEPT ![a] = NoToken]
  /\ UNCHANGED <<clock, loaded, reopened>>

\* A statement of the block raises: ROLLBACK, an audit, and the caller is told.
Raise(a) ==
  /\ pc[a] \in {"locked", "publishing"}
  /\ GoTo(a, "failed") /\ Unlock(a)
  /\ key' = [key EXCEPT ![a] = NoToken]
  /\ UNCHANGED <<item, story, clock, loaded, deliveries, reopened>>

\* Telemetry and the audit record follow the transaction; when the audit
\* raises, a publication that took place is answered as a failed one.
Report(a) ==
  /\ pc[a] = "unlocked"
  /\ GoTo(a, "published") \/ (a \in Requests /\ GoTo(a, "failed"))
  /\ UNCHANGED <<item, story, clock, lock, loaded, key, deliveries, reopened>>

\* The thread or the worker dies.
Crash(a) ==
  /\ pc[a] \in Busy
  /\ GoTo(a, "failed") /\ Unlock(a)
  /\ key' = [key EXCEPT ![a] = NoToken]
  /\ UNCHANGED <<item, story, clock, loaded, deliveries, reopened>>

-----------------------------------------------------------------------------
Work(a) == \/ Schedule(a) \/ Hold(a) \/ Patch(a) \/ LockItem(a)
           \/ Decide(a) \/ Publish(a) \/ Raise(a) \/ Report(a)

Next == \/ \E r \in Requests : Arrive(r)
        \/ \E j \in Jobs : BeginDispatch(j)
        \/ \E a \in Actors : Work(a) \/ Crash(a)
        \/ EditStory \/ Tick

Spec == Init /\ [][Next]_vars
-----------------------------------------------------------------------------
TypeOK ==
  /\ item \in Items
  /\ story \in [stamp : Nat, published : BOOLEAN]
  /\ clock \in Nat
  /\ lock \in Actors \cup {NoOne}
  /\ pc \in [Actors -> {"idle"} \cup Busy \cup Ended]
  /\ loaded \in [Requests -> Views]
  /\ key \in [Actors -> Tokens \cup {NoToken}]
  /\ deliveries \in Nat /\ reopened \in Nat

\* However publish requests, dispatch jobs, their retries and crashes
\* interleave, the item is published at most once each time it is opened: a
\* second delivery needs a request that took the first back
\* (dispatch_service.rb:33-51).
OneDeliveryPerOpening == deliveries <= reopened + 1

\* What a publication is decided on cannot change before it is written: the
\* row lock keeps schedule, hold and PATCH out (dispatch_service.rb:34-48).
DecisionIsCurrent ==
  \A a \in Actors : pc[a] = "publishing" =>
    /\ key[a].state = item.state /\ key[a].time = item.time
    /\ ~ (item.state = "published" /\ item.delivered)
=============================================================================
