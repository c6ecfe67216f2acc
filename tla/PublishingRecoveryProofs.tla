----------------------- MODULE PublishingRecoveryProofs -----------------------
(***************************************************************************)
(* Theorems about the publishing of one item, the tracked jobs, and the    *)
(* replays that put the two together, for any number of requests and jobs, *)
(* any clock, any times to schedule an item for and any limits of attempts *)
(* and retries.  Each part is proved of its own specification; the whole   *)
(* is shown to implement both, and inherits what they promise.             *)
(***************************************************************************)
EXTENDS PublishingRecovery, TLAPS

USE DEF Item!Actors, Item!States, Item!Tokens, Item!Items, Item!Busy, Item!Ended, Item!GoTo

\* The row lock is held exactly from the SELECT ... FOR UPDATE to the COMMIT.
LockInv == \A a \in Item!Actors : lock = a <=> pc[a] \in {"locked", "publishing"}

\* An item that is published again was taken back in between: "delivered", once
\* set, is never cleared.
CountInv ==
  /\ item.delivered \/ deliveries = 0
  /\ item.state # "published" => deliveries <= reopened
  /\ deliveries <= reopened + 1

ItemInv == Item!TypeOK /\ LockInv /\ Item!DecisionIsCurrent /\ CountInv

\* The constants of the item, as its assumption has them.
LEMMA ItemConstants ==
  /\ Requests \cap Jobs = {} /\ NoOne \notin Requests \cup Jobs
  /\ NoTime \notin Times /\ NoToken \notin Item!Tokens
  /\ MaxClock \in Nat
BY ItemAssumption DEF Item!ConstantsAssumption

LEMMA ItemInit == Item!Init => ItemInv
 BY ItemConstants DEF Item!Init, Item!Shown, Item!Views, ItemInv, Item!TypeOK, LockInv,
                      Item!DecisionIsCurrent, CountInv

LEMMA MoreRoom ==
  ASSUME NEW d \in Nat, NEW m \in Nat, NEW n \in Nat, d <= m + 1, m <= n
  PROVE  d <= n + 1
  OBVIOUS

\* What happens to the item while nobody holds its lock.
LEMMA WriteKeepsItemInv ==
  ASSUME ItemInv, NEW row \in Item!Items, NEW r \in Item!Actors,
         Item!WriteItem(row), Item!LockIsFree, pc[r] \in Item!Busy, Item!GoTo(r, "changed"),
         item.delivered => row.delivered,
         UNCHANGED <<story, clock, lock, loaded, key, deliveries>>
  PROVE  ItemInv'
<1>1. /\ item' = row /\ lock' = NoOne /\ lock = NoOne /\ deliveries' = deliveries
      /\ story' = story /\ clock' = clock /\ loaded' = loaded /\ key' = key
      /\ pc' = [pc EXCEPT ![r] = "changed"]
  BY DEF Item!WriteItem, Item!LockIsFree
<1>2. Item!TypeOK
  BY DEF ItemInv
<1>3. reopened' \in Nat /\ reopened <= reopened'
      /\ (item.state = "published" /\ row.state # "published" => reopened' = reopened + 1)
  BY <1>2 DEF Item!WriteItem, Item!TypeOK
<1>4. \A a \in Item!Actors : pc[a] \notin {"locked", "publishing"}
  BY <1>1, ItemConstants DEF ItemInv, LockInv
<1>5. \A a \in Item!Actors : pc'[a] \notin {"locked", "publishing"}
  BY <1>1, <1>2, <1>4 DEF Item!TypeOK
<1>6. Item!TypeOK'
  BY <1>1, <1>2, <1>3 DEF Item!TypeOK
<1>7. LockInv'
  BY <1>1, <1>5, ItemConstants DEF LockInv
<1>8. Item!DecisionIsCurrent'
  BY <1>5 DEF Item!DecisionIsCurrent
<1>9. CountInv'
  <2>1. deliveries \in Nat /\ reopened \in Nat /\ CountInv
    BY <1>2 DEF ItemInv, Item!TypeOK
  <2>2. item'.delivered \/ deliveries' = 0
    BY <1>1, <2>1 DEF CountInv
  <2>3. item'.state # "published" => deliveries' <= reopened'
    <3>1. CASE item.state = "published"
      BY <3>1, <1>1, <1>3, <2>1 DEF CountInv
    <3>2. CASE item.state # "published"
      BY <3>2, <1>1, <1>3, <2>1 DEF CountInv
    <3> QED
      BY <3>1, <3>2
  <2>4. deliveries' <= reopened' + 1
    <3>1. deliveries <= reopened + 1
      BY <2>1 DEF CountInv
    <3>2. deliveries' = deliveries /\ reopened' \in Nat /\ reopened <= reopened'
      BY <1>1, <1>3
    <3>3. deliveries \in Nat /\ reopened \in Nat
      BY <2>1
    <3> QED
      BY <3>1, <3>2, <3>3, MoreRoom
  <2> QED
    BY <2>2, <2>3, <2>4 DEF CountInv
<1> QED
  BY <1>6, <1>7, <1>8, <1>9 DEF ItemInv

\* Giving up, done or not: the lock is free for the next.
LEMMA EndKeepsItemInv ==
  ASSUME ItemInv, NEW a \in Item!Actors, NEW l \in {"unlocked", "failed", "published"},
         Item!GoTo(a, l), Item!Unlock(a), key' = key \/ key' = [key EXCEPT ![a] = NoToken],
         UNCHANGED <<item, story, clock, loaded, deliveries, reopened>>
  PROVE  ItemInv'
<1>1. /\ item' = item /\ lock' = (IF lock = a THEN NoOne ELSE lock) /\ story' = story
      /\ clock' = clock /\ loaded' = loaded /\ deliveries' = deliveries
      /\ reopened' = reopened /\ pc' = [pc EXCEPT ![a] = l]
  BY DEF Item!Unlock
<1>2. Item!TypeOK /\ LockInv
  BY DEF ItemInv
<1>3. pc'[a] = l /\ \A b \in Item!Actors : b # a => pc'[b] = pc[b]
  BY <1>1, <1>2 DEF Item!TypeOK
<1>4. Item!TypeOK'
  BY <1>1, <1>2 DEF Item!TypeOK
<1>5. LockInv'
  BY <1>1, <1>2, <1>3, ItemConstants DEF LockInv
<1>6. \A b \in Item!Actors : b # a => key'[b] = key[b]
  BY <1>2 DEF Item!TypeOK
<1>7. Item!DecisionIsCurrent'
  BY <1>1, <1>3, <1>6 DEF ItemInv, Item!DecisionIsCurrent
<1>8. CountInv'
  BY <1>1 DEF ItemInv, CountInv
<1> QED
  BY <1>4, <1>5, <1>7, <1>8 DEF ItemInv

\* A move of one actor that changes neither the item nor the lock.
LEMMA MoveKeepsItemInv ==
  ASSUME ItemInv, NEW a \in Item!Actors,
         NEW l \in {"schedule", "hold", "patch", "publish", "published", "failed"},
         pc[a] \notin {"locked", "publishing"}, Item!GoTo(a, l),
         loaded' \in [Requests -> Item!Views],
         UNCHANGED <<item, story, clock, lock, key, deliveries, reopened>>
  PROVE  ItemInv'
<1>1. Item!TypeOK /\ LockInv
  BY DEF ItemInv
<1>2. pc'[a] = l /\ \A b \in Item!Actors : b # a => pc'[b] = pc[b]
  BY <1>1 DEF Item!TypeOK
<1>3. Item!TypeOK'
  BY <1>1 DEF Item!TypeOK
<1>4. LockInv'
  BY <1>1, <1>2 DEF LockInv
<1>5. Item!DecisionIsCurrent'
  BY <1>2 DEF ItemInv, Item!DecisionIsCurrent
<1>6. CountInv'
  BY DEF ItemInv, CountInv
<1> QED
  BY <1>3, <1>4, <1>5, <1>6 DEF ItemInv

\* The two steps inside the transaction: the token is computed from the locked
\* item, and then the item is published.
LEMMA LockStep ==
  ASSUME ItemInv, NEW a \in Item!Actors, Item!LockItem(a)
  PROVE  ItemInv'
<1>1. /\ item' = item /\ lock = NoOne /\ lock' = a /\ story' = story /\ key' = key
      /\ clock' = clock /\ loaded' = loaded /\ deliveries' = deliveries
      /\ reopened' = reopened /\ pc' = [pc EXCEPT ![a] = "locked"]
  BY DEF Item!LockItem, Item!LockIsFree
<1>2. Item!TypeOK /\ LockInv
  BY DEF ItemInv
<1>3. pc'[a] = "locked" /\ \A b \in Item!Actors : b # a => pc'[b] = pc[b]
  BY <1>1, <1>2 DEF Item!TypeOK
<1>4. \A b \in Item!Actors : pc[b] \notin {"locked", "publishing"}
  BY <1>1, <1>2, ItemConstants DEF LockInv
<1>5. Item!TypeOK'
  BY <1>1, <1>2 DEF Item!TypeOK
<1>6. LockInv'
  BY <1>1, <1>3, <1>4 DEF LockInv
<1>7. Item!DecisionIsCurrent'
  BY <1>3, <1>4 DEF Item!DecisionIsCurrent
<1>8. CountInv'
  BY <1>1 DEF ItemInv, CountInv
<1> QED
  BY <1>5, <1>6, <1>7, <1>8 DEF ItemInv

LEMMA DecideStep ==
  ASSUME ItemInv, NEW a \in Item!Actors, Item!Decide(a), ~ Item!NothingToDo
  PROVE  ItemInv'
<1>1. /\ item' = item /\ lock' = lock /\ story' = story
      /\ key' = [key EXCEPT ![a] = Item!DigestKey]
      /\ clock' = clock /\ loaded' = loaded /\ deliveries' = deliveries
      /\ reopened' = reopened /\ pc[a] = "locked" /\ pc' = [pc EXCEPT ![a] = "publishing"]
  BY DEF Item!Decide
<1>2. Item!TypeOK /\ LockInv
  BY DEF ItemInv
<1>3. pc'[a] = "publishing" /\ \A b \in Item!Actors : b # a => pc'[b] = pc[b]
  BY <1>1, <1>2 DEF Item!TypeOK
<1>4. /\ Item!DigestKey \in Item!Tokens
      /\ Item!DigestKey.state = item.state /\ Item!DigestKey.time = item.time
  BY <1>2 DEF Item!DigestKey, Item!TypeOK
<1>5. key'[a] = Item!DigestKey /\ \A b \in Item!Actors : b # a => key'[b] = key[b]
  BY <1>1, <1>2 DEF Item!TypeOK
<1>6. Item!TypeOK'
  BY <1>1, <1>2, <1>4 DEF Item!TypeOK
<1>7. LockInv'
  BY <1>1, <1>2, <1>3 DEF LockInv
<1>8. Item!DecisionIsCurrent'
  BY <1>1, <1>3, <1>4, <1>5 DEF ItemInv, Item!DecisionIsCurrent, Item!NothingToDo
<1>9. CountInv'
  BY <1>1 DEF ItemInv, CountInv
<1> QED
  BY <1>6, <1>7, <1>8, <1>9 DEF ItemInv

LEMMA PublishStep ==
  ASSUME ItemInv, NEW a \in Item!Actors, Item!Publish(a)
  PROVE  ItemInv'
<1>1. /\ item' = [item EXCEPT !.state = "published", !.delivered = TRUE, !.token = key[a]]
      /\ story' = [stamp |-> clock, published |-> TRUE]
      /\ lock' = (IF lock = a THEN NoOne ELSE lock)
      /\ key' = [key EXCEPT ![a] = NoToken]
      /\ clock' = clock /\ loaded' = loaded /\ deliveries' = deliveries + 1
      /\ reopened' = reopened /\ pc[a] = "publishing" /\ pc' = [pc EXCEPT ![a] = "unlocked"]
  BY DEF Item!Publish, Item!Unlock
<1>2. Item!TypeOK /\ LockInv
  BY DEF ItemInv
<1>3. pc'[a] = "unlocked" /\ \A b \in Item!Actors : b # a => pc'[b] = pc[b]
  BY <1>1, <1>2 DEF Item!TypeOK
<1>4. /\ lock = a /\ lock' = NoOne
      /\ \A b \in Item!Actors : b # a => pc[b] \notin {"locked", "publishing"}
  BY <1>1, <1>2 DEF LockInv
<1>5. item'.state = "published" /\ item'.delivered
  BY <1>1, <1>2 DEF Item!TypeOK
<1>6. Item!TypeOK'
  <2>1. item' \in Item!Items
    BY <1>1, <1>2 DEF Item!TypeOK
  <2>2. story' \in [stamp : Nat, published : BOOLEAN] /\ deliveries' \in Nat
    BY <1>1, <1>2 DEF Item!TypeOK
  <2>3. /\ pc' \in [Item!Actors -> {"idle"} \cup Item!Busy \cup Item!Ended]
        /\ key' \in [Item!Actors -> Item!Tokens \cup {NoToken}]
        /\ lock' \in Item!Actors \cup {NoOne}
    BY <1>1, <1>2, <1>4 DEF Item!TypeOK
  <2> QED
    BY <1>1, <1>2, <2>1, <2>2, <2>3 DEF Item!TypeOK
<1>7. LockInv'
  BY <1>3, <1>4, ItemConstants DEF LockInv
<1>8. Item!DecisionIsCurrent'
  BY <1>3, <1>4 DEF Item!DecisionIsCurrent
<1>9. deliveries <= reopened
  BY <1>1, <1>2 DEF ItemInv, Item!DecisionIsCurrent, CountInv, Item!TypeOK
<1>10. CountInv'
  BY <1>1, <1>2, <1>5, <1>9 DEF CountInv, Item!TypeOK
<1> QED
  BY <1>6, <1>7, <1>8, <1>10 DEF ItemInv

LEMMA WorkStep ==
  ASSUME ItemInv, NEW a \in Item!Actors, Item!Work(a) \/ Item!Crash(a)
  PROVE  ItemInv'
<1> Item!TypeOK
  BY DEF ItemInv
<1>1. CASE Item!Schedule(a)
  <2>1. PICK t \in Times \cup {NoTime} :
          Item!WriteItem([item EXCEPT !.state = "scheduled", !.time = t])
    BY <1>1 DEF Item!Schedule
  <2>2. [item EXCEPT !.state = "scheduled", !.time = t] \in Item!Items
    BY DEF Item!TypeOK
  <2> QED
    BY <1>1, <2>1, <2>2, WriteKeepsItemInv DEF Item!Schedule, Item!TypeOK
<1>2. CASE Item!Hold(a)
  <2>1. [item EXCEPT !.state = "held"] \in Item!Items
    BY DEF Item!TypeOK
  <2> QED
    BY <1>2, <2>1, WriteKeepsItemInv DEF Item!Hold, Item!TypeOK
<1>3. CASE Item!Patch(a)
  <2>1. PICK state \in Item!States, time \in Times \cup {NoTime}, metadata \in BOOLEAN :
          Item!WriteItem(Item!Patched(a, state, time, metadata))
    BY <1>3 DEF Item!Patch
  <2>2. Item!Patched(a, state, time, metadata) \in Item!Items
        /\ Item!Patched(a, state, time, metadata).delivered = item.delivered
    BY DEF Item!Patched, Item!TypeOK
  <2> QED
    BY <1>3, <2>1, <2>2, WriteKeepsItemInv DEF Item!Patch
<1>4. CASE Item!LockItem(a)
  BY <1>4, LockStep
<1>5. CASE Item!Decide(a)
  <2>1. CASE Item!NothingToDo
    BY <1>5, <2>1, EndKeepsItemInv DEF Item!Decide
  <2>2. CASE ~ Item!NothingToDo
    BY <1>5, <2>2, DecideStep
  <2> QED
    BY <2>1, <2>2
<1>6. CASE Item!Publish(a)
  BY <1>6, PublishStep
<1>7. CASE Item!Raise(a)
  BY <1>7, EndKeepsItemInv DEF Item!Raise
<1>8. CASE Item!Report(a)
  <2>1. /\ pc[a] = "unlocked"
        /\ Item!GoTo(a, "published") \/ Item!GoTo(a, "failed")
        /\ UNCHANGED <<item, story, clock, lock, loaded, key, deliveries, reopened>>
    BY <1>8 DEF Item!Report
  <2>2. loaded' \in [Requests -> Item!Views]
    BY <2>1 DEF Item!TypeOK
  <2>3. PICK l \in {"published", "failed"} : Item!GoTo(a, l)
    BY <2>1
  <2> QED
    BY <2>1, <2>2, <2>3, MoveKeepsItemInv
<1>9. CASE Item!Crash(a)
  BY <1>9, EndKeepsItemInv DEF Item!Crash
<1> QED
  BY <1>1, <1>2, <1>3, <1>4, <1>5, <1>6, <1>7, <1>8, <1>9 DEF Item!Work

LEMMA ItemStep == ItemInv /\ [Item!Next]_(Item!vars) => ItemInv'
<1> SUFFICES ASSUME ItemInv, [Item!Next]_(Item!vars) PROVE ItemInv'
  OBVIOUS
<1> Item!TypeOK
  BY DEF ItemInv
<1>1. CASE \E r \in Requests : Item!Arrive(r)
  <2>1. PICK r \in Requests, op \in {"schedule", "hold", "patch", "publish"} :
          /\ pc[r] = "idle" /\ Item!GoTo(r, op)
          /\ loaded' = [loaded EXCEPT ![r] = Item!Shown]
          /\ UNCHANGED <<item, story, clock, lock, key, deliveries, reopened>>
    BY <1>1 DEF Item!Arrive
  <2>2. Item!Shown \in Item!Views
    BY DEF Item!TypeOK, Item!Shown, Item!Views, Item!Items
  <2>3. loaded' \in [Requests -> Item!Views]
    BY <2>1, <2>2 DEF Item!TypeOK
  <2> QED
    BY <2>1, <2>3, MoveKeepsItemInv
<1>2. CASE \E j \in Jobs : Item!BeginDispatch(j)
  <2>1. PICK j \in Jobs : Item!BeginDispatch(j)
    BY <1>2
  <2>2. loaded' \in [Requests -> Item!Views] /\ pc[j] \notin {"locked", "publishing"}
    BY <2>1 DEF Item!BeginDispatch, Item!TypeOK
  <2> QED
    BY <2>1, <2>2, MoveKeepsItemInv DEF Item!BeginDispatch
<1>3. CASE \E a \in Item!Actors : Item!Work(a) \/ Item!Crash(a)
  BY <1>3, WorkStep
<1>4. CASE Item!EditStory \/ Item!Tick \/ UNCHANGED Item!vars
  <2>1. /\ item' = item /\ lock' = lock /\ pc' = pc /\ loaded' = loaded /\ key' = key
        /\ deliveries' = deliveries /\ reopened' = reopened
    BY <1>4 DEF Item!EditStory, Item!Tick, Item!vars
  <2>2. story' \in [stamp : Nat, published : BOOLEAN] /\ clock' \in Nat
    BY <1>4 DEF Item!EditStory, Item!Tick, Item!vars, Item!TypeOK
  <2>3. Item!TypeOK'
    BY <2>1, <2>2 DEF Item!TypeOK
  <2>4. LockInv' /\ Item!DecisionIsCurrent' /\ CountInv'
    BY <2>1 DEF ItemInv, LockInv, Item!DecisionIsCurrent, CountInv
  <2> QED
    BY <2>3, <2>4 DEF ItemInv
<1> QED
  BY <1>1, <1>2, <1>3, <1>4 DEF Item!Next

\* The inductive invariant.
THEOREM ItemInvariance == Item!Spec => []ItemInv
BY ItemInit, ItemStep, PTL DEF Item!Spec

\* Type correctness, of an item and all that is remembered about it
\* (ib_publishing_queue_item.rb:4).
THEOREM ItemTypeCorrect == Item!Spec => []Item!TypeOK
BY ItemInvariance, PTL DEF ItemInv

\* No interleaving publishes an item twice unless it was reopened in between
\* (dispatch_service.rb:33-51).
THEOREM PublishedOncePerOpening == Item!Spec => []Item!OneDeliveryPerOpening
<1>1. ItemInv => Item!OneDeliveryPerOpening
  BY DEF ItemInv, CountInv, Item!OneDeliveryPerOpening
<1> QED
  BY <1>1, ItemInvariance, PTL

\* What a publication is decided on is still true when it is written
\* (dispatch_service.rb:34-48).
THEOREM DecisionsStayCurrent == Item!Spec => []Item!DecisionIsCurrent
BY ItemInvariance, PTL DEF ItemInv
-----------------------------------------------------------------------------
(* The jobs                                                                *)

USE DEF Waiting, InWorker, Over, Statuses,
        Move, Call

\* A job is enqueued by one request, and only that request creates its record.
RecordsInv ==
  /\ \A j \in Jobs : caller[j] = "idle" => queue[j] = "none"
  /\ \A j \in Jobs : caller[j] \in {"idle", "enqueued", "replaying"} => record[j] = NoRecord
  /\ \A j \in Jobs : tracked[j] => record[j] # NoRecord

\* The count that made a dead letter cannot grow any more.
DeadInv ==
  \A j \in Jobs :
    /\ record[j] = "dead_letter" => serialized[j] + 1 = MaxAttempts
    /\ queue[j] \in {"retry", "dead"} /\ tracked[j] =>
         record[j] \in {"dead_letter", "cancelled", "recovered"}

JobsInv == TypeOK /\ RecordsInv /\ DeadInv

LEMMA JobsInit == Init => JobsInv
BY ConstantsAssumption
DEF Init, TypeOK, Known,
    JobsInv, RecordsInv, DeadInv

\* An UPDATE of a record makes it the newest of all.
LEMMA WriteFacts ==
  ASSUME JobsInv, NEW j \in Jobs, NEW status \in Statuses, Write(j, status)
  PROVE  /\ record' \in [Jobs -> Statuses \cup {NoRecord}]
         /\ record'[j] = status /\ \A i \in Jobs : i # j => record'[i] = record[i]
         /\ newer' \in [Jobs -> SUBSET (Known')]
         /\ \A i, k \in Known' : i # k => (i \in newer'[k] <=> k \notin newer'[i])
<1>1. /\ record \in [Jobs -> Statuses \cup {NoRecord}]
      /\ newer \in [Jobs -> SUBSET Known]
      /\ \A i, k \in Known : i # k => (i \in newer[k] <=> k \notin newer[i])
  BY DEF JobsInv, RecordsInv, TypeOK
<1>2. record' = [record EXCEPT ![j] = status]
  BY DEF Write
<1>3. /\ record' \in [Jobs -> Statuses \cup {NoRecord}]
      /\ record'[j] = status /\ \A i \in Jobs : i # j => record'[i] = record[i]
  BY <1>1, <1>2
<1>4. Known' = Known \cup {j}
  BY <1>3, ConstantsAssumption DEF Known
<1>5. newer' = [i \in Jobs |-> IF i \in Known \ {j} THEN newer[i] \cup {j} ELSE {}]
  BY DEF Write
<1>6. Known \subseteq Jobs
  BY DEF Known
<1>7. newer' \in [Jobs -> SUBSET (Known')]
  BY <1>1, <1>4, <1>5, <1>6
<1>8. \A i, k \in Known' : i # k => (i \in newer'[k] <=> k \notin newer'[i])
  BY <1>1, <1>4, <1>5, <1>6
<1> QED
  BY <1>3, <1>7, <1>8

\* A step that updates no record.
LEMMA QuietFacts ==
  ASSUME JobsInv, UNCHANGED <<record, newer>>
  PROVE  /\ record' \in [Jobs -> Statuses \cup {NoRecord}]
         /\ newer' \in [Jobs -> SUBSET (Known')]
         /\ \A i, k \in Known' : i # k => (i \in newer'[k] <=> k \notin newer'[i])
BY DEF JobsInv, RecordsInv, TypeOK, Known

\* What each job's own variables must satisfy after a step.
JobOK(j) ==
  /\ caller[j] \in {"idle", "enqueued", "replaying", "replayed", "done"}
  /\ queue[j] \in {"none"} \cup Waiting \cup InWorker \cup Over
  /\ serialized[j] \in 0 .. MaxAttempts - 1
  /\ retries[j] \in 0 .. MaxRetries
  /\ tracked[j] \in BOOLEAN
  /\ caller[j] = "idle" => queue[j] = "none"
  /\ caller[j] \in {"idle", "enqueued", "replaying"} => record[j] = NoRecord
  /\ tracked[j] => record[j] # NoRecord
  /\ record[j] = "dead_letter" => serialized[j] + 1 = MaxAttempts
  /\ queue[j] \in {"retry", "dead"} /\ tracked[j] =>
       record[j] \in {"dead_letter", "cancelled", "recovered"}

LEMMA JobFacts == ASSUME JobsInv, NEW j \in Jobs PROVE JobOK(j)
BY DEF JobsInv, RecordsInv, DeadInv, TypeOK, JobOK

\* A step of one job, whose record or another's it may update.
LEMMA JobStep ==
  ASSUME JobsInv, NEW j \in Jobs, NEW i \in Jobs,
         caller' = [caller EXCEPT ![j] = caller'[j]],
         queue' = [queue EXCEPT ![j] = queue'[j]],
         serialized' = [serialized EXCEPT ![j] = serialized'[j]],
         retries' = [retries EXCEPT ![j] = retries'[j]],
         tracked' = [tracked EXCEPT ![j] = tracked'[j]],
         shutdowns' \in 0 .. MaxShutdowns,
         \/ UNCHANGED <<record, newer>>
         \/ \E status \in Statuses : Write(i, status),
         JobOK(j)',
         i # j => JobOK(i)'
  PROVE  JobsInv'
<1>1. TypeOK
  BY DEF JobsInv
<1>2. /\ record' \in [Jobs -> Statuses \cup {NoRecord}]
      /\ newer' \in [Jobs -> SUBSET (Known')]
      /\ \A h, k \in Known' : h # k => (h \in newer'[k] <=> k \notin newer'[h])
      /\ \A k \in Jobs : k # i => record'[k] = record[k]
  BY QuietFacts, WriteFacts, <1>1 DEF TypeOK
<1>3. \A k \in Jobs \ {j} : /\ caller'[k] = caller[k] /\ queue'[k] = queue[k]
                            /\ serialized'[k] = serialized[k] /\ retries'[k] = retries[k]
                            /\ tracked'[k] = tracked[k]
  BY <1>1 DEF TypeOK
<1>4. \A k \in Jobs \ {i, j} : JobOK(k)'
  BY <1>2, <1>3, JobFacts DEF JobOK
<1>5. \A k \in Jobs : JobOK(k)'
  BY <1>4
<1>6. caller' \in [Jobs -> {"idle", "enqueued", "replaying", "replayed", "done"}]
  BY <1>1, <1>5 DEF TypeOK, JobOK
<1>7. queue' \in [Jobs -> {"none"} \cup Waiting \cup InWorker \cup Over]
  BY <1>1, <1>5 DEF TypeOK, JobOK
<1>8. serialized' \in [Jobs -> 0 .. MaxAttempts - 1]
  BY <1>1, <1>5 DEF TypeOK, JobOK
<1>9. retries' \in [Jobs -> 0 .. MaxRetries]
  BY <1>1, <1>5 DEF TypeOK, JobOK
<1>10. tracked' \in [Jobs -> BOOLEAN]
  BY <1>1, <1>5 DEF TypeOK, JobOK
<1>11. TypeOK'
  BY <1>2, <1>6, <1>7, <1>8, <1>9, <1>10 DEF TypeOK
<1>12. RecordsInv'
  BY <1>2, <1>5 DEF RecordsInv, JobOK
<1>13. DeadInv'
  BY <1>5 DEF DeadInv, JobOK
<1> QED
  BY <1>11, <1>12, <1>13 DEF JobsInv

\* A variable that an action leaves alone is a step of it all the same.
LEMMA SameFacts ==
  ASSUME JobsInv, NEW j \in Jobs
  PROVE  /\ caller = [caller EXCEPT ![j] = caller[j]]
         /\ queue = [queue EXCEPT ![j] = queue[j]]
         /\ serialized = [serialized EXCEPT ![j] = serialized[j]]
         /\ retries = [retries EXCEPT ![j] = retries[j]]
         /\ tracked = [tracked EXCEPT ![j] = tracked[j]]
         /\ shutdowns \in 0 .. MaxShutdowns
BY DEF JobsInv, TypeOK

LEMMA QueueStep ==
  ASSUME JobsInv, NEW j \in Jobs, NEW q \in {"ready", "taken", "running", "worked", "raised",
                                            "finished", "lost"},
         queue[j] # "none", queue' = [queue EXCEPT ![j] = q],
         UNCHANGED <<caller, serialized, retries, tracked>>,
         shutdowns' \in 0 .. MaxShutdowns,
         \/ UNCHANGED <<record, newer>>
         \/ \E status \in {"running", "succeeded"} :
              record[j] # NoRecord /\ Write(j, status)
  PROVE  JobsInv'
<1>1. JobOK(j)
  BY JobFacts
<1>2. queue'[j] = q
  BY DEF JobsInv, TypeOK
<1>3. \/ record'[j] = record[j]
      \/ record[j] # NoRecord /\ record'[j] \in {"running", "succeeded"}
  BY WriteFacts
<1>4. JobOK(j)'
  BY <1>1, <1>2, <1>3, ConstantsAssumption DEF JobOK
<1>5. /\ caller' = [caller EXCEPT ![j] = caller'[j]]
      /\ queue' = [queue EXCEPT ![j] = queue'[j]]
      /\ serialized' = [serialized EXCEPT ![j] = serialized'[j]]
      /\ retries' = [retries EXCEPT ![j] = retries'[j]]
      /\ tracked' = [tracked EXCEPT ![j] = tracked'[j]]
  BY <1>2, SameFacts
<1>6. \/ UNCHANGED <<record, newer>>
      \/ \E status \in Statuses : Write(j, status)
  OBVIOUS
<1> QED
  BY <1>4, <1>5, <1>6, JobStep

LEMMA CallerStep ==
  ASSUME JobsInv, NEW j \in Jobs, NEW i \in Jobs, NEW c \in {"replayed", "done"},
         caller' = [caller EXCEPT ![j] = c],
         UNCHANGED <<queue, serialized, retries, shutdowns, tracked>>,
         \/ UNCHANGED <<record, newer>>
         \/ caller[j] # "idle" /\ i = j /\ Write(i, "queued") /\ ~ tracked[j]
         \/ record[i] # NoRecord /\ Write(i, "recovered")
  PROVE  JobsInv'
<1>1. JobOK(j) /\ JobOK(i)
  BY JobFacts
<1>2. caller'[j] = c /\ (i # j => caller'[i] = caller[i])
  BY DEF JobsInv, TypeOK
<1>3. \/ record' = record
      \/ i = j /\ record'[i] = "queued" /\ ~ tracked[j]
      \/ record[i] # NoRecord /\ record'[i] = "recovered" /\ (i # j => record'[j] = record[j])
  BY WriteFacts
<1>4. JobOK(j)'
  BY <1>1, <1>2, <1>3, ConstantsAssumption DEF JobOK
<1>5. i # j => JobOK(i)'
  BY <1>1, <1>2, <1>3, ConstantsAssumption DEF JobOK
<1>6. /\ caller' = [caller EXCEPT ![j] = caller'[j]]
      /\ queue' = [queue EXCEPT ![j] = queue'[j]]
      /\ serialized' = [serialized EXCEPT ![j] = serialized'[j]]
      /\ retries' = [retries EXCEPT ![j] = retries'[j]]
      /\ tracked' = [tracked EXCEPT ![j] = tracked'[j]]
      /\ shutdowns' \in 0 .. MaxShutdowns
  BY <1>2, SameFacts
<1>7. \/ UNCHANGED <<record, newer>>
      \/ \E status \in Statuses : Write(i, status)
  OBVIOUS
<1> QED
  BY <1>4, <1>5, <1>6, <1>7, JobStep

LEMMA FailStep ==
  ASSUME JobsInv, NEW j \in Jobs, MarkFailed(j)
  PROVE  JobsInv'
<1> DEFINE failure == IF Exhausted(j) THEN "dead_letter" ELSE "failed"
<1>1. JobOK(j) /\ MaxAttempts \in Nat \ {0} /\ MaxRetries \in Nat /\ NoRecord \notin Statuses
  BY JobFacts, ConstantsAssumption
<1>2. TypeOK
  BY DEF JobsInv
<1>3. \/ /\ record[j] # NoRecord /\ Write(j, failure)
         /\ tracked' = [tracked EXCEPT ![j] = TRUE]
      \/ UNCHANGED <<record, newer>> /\ tracked' = [tracked EXCEPT ![j] = FALSE]
  <2>1. CASE UNCHANGED recordVars /\ tracked' = [tracked EXCEPT ![j] = FALSE]
    BY <2>1 DEF recordVars
  <2>2. CASE /\ SetStatus(j, failure)
             /\ tracked' = [tracked EXCEPT ![j] = (j \in Known)]
    <3>1. CASE j \in Known
      BY <2>2, <3>1 DEF SetStatus, Known
    <3>2. CASE j \notin Known
      <4>1. (j \in Known) = FALSE
        BY <3>2
      <4>2. tracked' = [tracked EXCEPT ![j] = FALSE]
        BY <2>2, <4>1
      <4>3. UNCHANGED <<record, newer>>
        BY <2>2, <3>2 DEF SetStatus, recordVars
      <4> QED
        BY <4>2, <4>3
    <3> QED
      BY <3>1, <3>2
  <2> QED
    BY <2>1, <2>2 DEF MarkFailed
<1>4. \/ record[j] # NoRecord /\ record'[j] = failure /\ tracked'[j] = TRUE
      \/ record'[j] = record[j] /\ tracked'[j] = FALSE
  BY <1>2, <1>3, WriteFacts DEF TypeOK
<1>5. \/ /\ serialized[j] + 1 < MaxAttempts
         /\ queue' = [queue EXCEPT ![j] = "waiting"] /\ retries' = retries
         /\ serialized' = [serialized EXCEPT ![j] = serialized[j] + 1]
      \/ /\ ~ (serialized[j] + 1 < MaxAttempts) /\ retries[j] < MaxRetries
         /\ queue' = [queue EXCEPT ![j] = "retry"] /\ serialized' = serialized
         /\ retries' = [retries EXCEPT ![j] = retries[j] + 1]
      \/ /\ ~ (serialized[j] + 1 < MaxAttempts)
         /\ queue' = [queue EXCEPT ![j] = "dead"] /\ serialized' = serialized
         /\ retries' = retries
  BY DEF MarkFailed, Requeue
<1>6. /\ queue' = [queue EXCEPT ![j] = queue'[j]]
      /\ serialized' = [serialized EXCEPT ![j] = serialized'[j]]
      /\ retries' = [retries EXCEPT ![j] = retries'[j]]
      /\ tracked' = [tracked EXCEPT ![j] = tracked'[j]]
  BY <1>2, <1>3, <1>5 DEF TypeOK
<1>7. /\ caller' = [caller EXCEPT ![j] = caller'[j]] /\ caller'[j] = caller[j]
      /\ shutdowns' \in 0 .. MaxShutdowns
  BY SameFacts DEF MarkFailed
<1>8. \/ /\ serialized[j] + 1 < MaxAttempts
         /\ queue'[j] = "waiting" /\ retries'[j] = retries[j]
         /\ serialized'[j] = serialized[j] + 1
      \/ /\ ~ (serialized[j] + 1 < MaxAttempts)
         /\ queue'[j] \in {"retry", "dead"} /\ serialized'[j] = serialized[j]
         /\ retries'[j] = retries[j] \/ (retries[j] < MaxRetries /\ retries'[j] = retries[j] + 1)
  BY <1>2, <1>5 DEF TypeOK
<1>9. serialized[j] \in 0 .. MaxAttempts - 1 /\ retries[j] \in 0 .. MaxRetries
  BY <1>1 DEF JobOK
<1>10. serialized'[j] \in 0 .. MaxAttempts - 1 /\ retries'[j] \in 0 .. MaxRetries
  BY <1>1, <1>8, <1>9
<1>11. /\ serialized[j] + 1 < MaxAttempts => failure = "failed"
       /\ ~ (serialized[j] + 1 < MaxAttempts) =>
            failure = "dead_letter" /\ serialized[j] + 1 = MaxAttempts
  BY <1>1, <1>9 DEF Exhausted
<1> HIDE DEF failure
<1>12. record'[j] = "dead_letter" => serialized'[j] + 1 = MaxAttempts
  BY <1>1, <1>4, <1>8, <1>9, <1>11 DEF JobOK
<1>13. queue'[j] \in {"retry", "dead"} /\ tracked'[j] => record'[j] = "dead_letter"
  BY <1>4, <1>8, <1>11
<1>14. JobOK(j)'
  <2>1. queue'[j] \in {"waiting", "retry", "dead"}
    BY <1>8
  <2>2. tracked'[j] \in BOOLEAN /\ (tracked'[j] => record'[j] # NoRecord)
    BY <1>1, <1>4, <1>8, <1>11
  <2>3. caller'[j] \in {"idle", "enqueued", "replaying"} => record'[j] = NoRecord
    BY <1>1, <1>4, <1>7 DEF JobOK
  <2>4. caller'[j] # "idle"
    BY <1>1, <1>7 DEF MarkFailed, JobOK
  <2> QED
    BY <1>1, <1>7, <1>10, <1>12, <1>13, <2>1, <2>2, <2>3, <2>4 DEF JobOK
<1>15. \/ UNCHANGED <<record, newer>>
       \/ \E status \in Statuses : Write(j, status)
  BY <1>3 DEF failure
<1> QED
  BY <1>6, <1>7, <1>14, <1>15, JobStep

LEMMA JobsStep == JobsInv /\ [Next]_vars => JobsInv'
<1> SUFFICES ASSUME JobsInv, [Next]_vars PROVE JobsInv'
  OBVIOUS
<1> USE DEF queueVars, recordVars, vars
<1>1. CASE UNCHANGED vars
  BY <1>1 DEF JobsInv, RecordsInv, DeadInv, TypeOK, Known
<1>2. ASSUME NEW j \in Jobs, Enqueue(j) PROVE JobsInv'
  <2>1. JobOK(j)
    BY JobFacts
  <2>2. PICK c \in {"enqueued", "replaying"} : caller' = [caller EXCEPT ![j] = c]
    BY <1>2 DEF Enqueue
  <2>3. /\ caller' = [caller EXCEPT ![j] = caller'[j]] /\ caller'[j] = c
        /\ queue' = [queue EXCEPT ![j] = queue'[j]] /\ queue'[j] = "ready"
    BY <1>2, <2>2 DEF Enqueue, JobsInv, TypeOK
  <2>4. /\ serialized' = [serialized EXCEPT ![j] = serialized'[j]]
        /\ retries' = [retries EXCEPT ![j] = retries'[j]]
        /\ tracked' = [tracked EXCEPT ![j] = tracked'[j]]
        /\ shutdowns' \in 0 .. MaxShutdowns
        /\ UNCHANGED <<record, newer>>
    BY <1>2, SameFacts DEF Enqueue
  <2>5. JobOK(j)'
    BY <1>2, <2>1, <2>3, <2>4 DEF Enqueue, JobOK
  <2> QED
    BY <2>3, <2>4, <2>5, JobStep
<1>3. ASSUME NEW j \in Jobs, Cancel(j) PROVE JobsInv'
  <2>1. JobOK(j)
    BY JobFacts
  <2>2. record[j] # NoRecord /\ Write(j, "cancelled")
    BY <1>3 DEF Cancel, SetStatus, Known
  <2>3. record'[j] = "cancelled"
    BY <2>2, WriteFacts
  <2>4. /\ caller' = [caller EXCEPT ![j] = caller'[j]]
        /\ queue' = [queue EXCEPT ![j] = queue'[j]]
        /\ serialized' = [serialized EXCEPT ![j] = serialized'[j]]
        /\ retries' = [retries EXCEPT ![j] = retries'[j]]
        /\ tracked' = [tracked EXCEPT ![j] = tracked'[j]]
        /\ shutdowns' \in 0 .. MaxShutdowns
    BY <1>3, SameFacts DEF Cancel
  <2>5. JobOK(j)'
    BY <1>3, <2>1, <2>2, <2>3, ConstantsAssumption
    DEF Cancel, JobOK
  <2> QED
    BY <2>2, <2>4, <2>5, JobStep
<1>4. ASSUME NEW j \in Jobs, Register(j) PROVE JobsInv'
  <2>1. PICK c \in {"replayed", "done"} : caller' = [caller EXCEPT ![j] = c]
    BY <1>4 DEF Register
  <2>2. caller[j] # "idle" /\ ~ tracked[j]
    BY <1>4, JobFacts DEF Register, JobOK
  <2> QED
    BY <1>4, <2>1, <2>2, CallerStep DEF Register
<1>5. ASSUME NEW j \in Jobs, MarkRecovered(j) PROVE JobsInv'
  <2>1. CASE UNCHANGED <<record, newer>>
    BY <1>5, <2>1, CallerStep DEF MarkRecovered
  <2>2. CASE \E i \in Newest(NeedsAttention) : SetStatus(i, "recovered")
    <3>1. PICK i \in Newest(NeedsAttention) : SetStatus(i, "recovered")
      BY <2>2
    <3>2. i \in Jobs /\ record[i] # NoRecord
      BY ConstantsAssumption
      DEF Newest, NeedsAttention, AttentionNeeded
    <3>3. Write(i, "recovered")
      BY <3>1, <3>2 DEF SetStatus, Known
    <3> QED
      BY <1>5, <3>2, <3>3, CallerStep DEF MarkRecovered
  <2> QED
    BY <1>5, <2>1, <2>2 DEF MarkRecovered
<1>6. ASSUME NEW j \in Jobs, CallerDies(j) PROVE JobsInv'
  BY <1>6, CallerStep DEF CallerDies
<1>7. ASSUME NEW j \in Jobs, Take(j) PROVE JobsInv'
  BY <1>7, SameFacts, QueueStep DEF Take
<1>8. ASSUME NEW j \in Jobs, MarkStarted(j) PROVE JobsInv'
  <2>1. PICK q \in {"running", "raised"} : queue' = [queue EXCEPT ![j] = q]
    BY <1>8 DEF MarkStarted
  <2>2. \/ UNCHANGED <<record, newer>>
        \/ record[j] # NoRecord /\ Write(j, "running")
    BY <1>8 DEF MarkStarted, SetStatus, Known
  <2> QED
    BY <1>8, <2>1, <2>2, SameFacts, QueueStep DEF MarkStarted
<1>9. ASSUME NEW j \in Jobs, Perform(j) PROVE JobsInv'
  BY <1>9, SameFacts, QueueStep DEF Perform
<1>10. ASSUME NEW j \in Jobs, MarkSucceeded(j) PROVE JobsInv'
  <2>1. PICK q \in {"finished", "raised"} : queue' = [queue EXCEPT ![j] = q]
    BY <1>10 DEF MarkSucceeded
  <2>2. \/ UNCHANGED <<record, newer>>
        \/ record[j] # NoRecord /\ Write(j, "succeeded")
    BY <1>10 DEF MarkSucceeded, SetStatus, Known
  <2> QED
    BY <1>10, <2>1, <2>2, SameFacts, QueueStep DEF MarkSucceeded
<1>11. ASSUME NEW j \in Jobs, WorkerDies(j) PROVE JobsInv'
  BY <1>11, SameFacts, QueueStep DEF WorkerDies
<1>12. ASSUME NEW j \in Jobs, Shutdown(j) PROVE JobsInv'
  <2>1. shutdowns' \in 0 .. MaxShutdowns
    BY <1>12, SameFacts, ConstantsAssumption DEF Shutdown
  <2> QED
    BY <1>12, <2>1, QueueStep DEF Shutdown
<1> QED
  BY <1>1, <1>2, <1>3, <1>4, <1>5, <1>6, <1>7, <1>8, <1>9, <1>10, <1>11, <1>12, FailStep
  DEF Next, Operator, Request, Worker, Fault

\* The inductive invariant of the jobs and their records.
THEOREM JobsInvariance == Spec => []JobsInv
BY JobsInit, JobsStep, PTL DEF Spec

\* Types of the queue and the records; of two records one was updated later
\* (ib_operational_job.rb:4-17, operational_job_tracker.rb:142-147).
THEOREM JobsTypeCorrect == Spec => []TypeOK
<1>1. JobsInv => TypeOK
  BY DEF JobsInv
<1> QED
  BY <1>1, JobsInvariance, PTL

\* The count that retry_on keeps in the payload and max_attempts of the record
\* agree on which jobs are dead letters (operational_job_tracker.rb:78-84).
THEOREM DeadLettersAreTheExhausted == Spec => []DeadLettersAreExhausted
<1>1. JobsInv => DeadLettersAreExhausted
  BY DEF JobsInv, DeadInv, DeadLettersAreExhausted
<1> QED
  BY <1>1, JobsInvariance, PTL
-----------------------------------------------------------------------------
(* The two together: each step is one of each part, or leaves it alone.    *)

LEMMA InitBoth == InitAll => Item!Init /\ Init
BY DEF InitAll

LEMMA StepOfTheItem == [NextAll]_allVars => [Item!Next]_(Item!vars)
<1> SUFFICES ASSUME [NextAll]_allVars PROVE [Item!Next]_(Item!vars)
  OBVIOUS
<1>1. CASE UNCHANGED allVars
  BY <1>1 DEF allVars, itemVars, Item!vars
<1>2. CASE Surroundings
  BY <1>2 DEF Surroundings, Item!Next
<1>3. ASSUME NEW j \in Jobs, Around(j) PROVE [Item!Next]_(Item!vars)
  BY <1>3 DEF Around, itemVars, Item!vars
<1>4. ASSUME NEW j \in Jobs, Start(j) PROVE [Item!Next]_(Item!vars)
  BY <1>4 DEF Start, Item!Next, itemVars, Item!vars
<1>5. ASSUME NEW j \in Jobs, Execute(j) PROVE [Item!Next]_(Item!vars)
  BY <1>5 DEF Execute, Item!Next, Item!Work
<1>6. ASSUME NEW j \in Jobs, Finish(j) PROVE [Item!Next]_(Item!vars)
  BY <1>6 DEF Finish, Item!Next, Item!Work
<1>7. ASSUME NEW j \in Jobs, Throw(j) PROVE [Item!Next]_(Item!vars)
  BY <1>7 DEF Throw, Item!Next, Item!Work
<1>8. ASSUME NEW j \in Jobs, Stop(j) PROVE [Item!Next]_(Item!vars)
  BY <1>8 DEF Stop, Item!Next, itemVars, Item!vars
<1> QED
  BY <1>1, <1>2, <1>3, <1>4, <1>5, <1>6, <1>7, <1>8 DEF NextAll, JobSteps

LEMMA StepOfTheJobs == [NextAll]_allVars => [Next]_vars
<1> SUFFICES ASSUME [NextAll]_allVars PROVE [Next]_vars
  OBVIOUS
<1> USE DEF vars, queueVars, recordVars,
            Next, Request, Worker, Operator, Fault
<1>1. CASE UNCHANGED allVars
  BY <1>1 DEF allVars, vars
<1>2. CASE Surroundings
  BY <1>2 DEF Surroundings, vars, queueVars, recordVars
<1>3. ASSUME NEW j \in Jobs, Around(j) PROVE [Next]_vars
  BY <1>3 DEF Around
<1>4. ASSUME NEW j \in Jobs, Start(j) PROVE [Next]_vars
  BY <1>4 DEF Start
<1>5. ASSUME NEW j \in Jobs, Execute(j) PROVE [Next]_vars
  BY <1>5 DEF Execute, vars, queueVars, recordVars
<1>6. ASSUME NEW j \in Jobs, Finish(j) \/ Throw(j) PROVE [Next]_vars
  BY <1>6 DEF Finish, Throw
<1>7. ASSUME NEW j \in Jobs, Stop(j) PROVE [Next]_vars
  BY <1>7 DEF Stop
<1> QED
  BY <1>1, <1>2, <1>3, <1>4, <1>5, <1>6, <1>7 DEF NextAll, JobSteps

\* A replayed job publishes its item as any dispatch job does: the behaviours of
\* the two together are behaviours of the publishing
\* (dispatch_job.rb:7-11, dispatch_service.rb:33-62).
THEOREM ReplaysAreDispatches == SpecAll => Item!Spec
BY InitBoth, StepOfTheItem, PTL DEF SpecAll, Item!Spec

\* And the tracker records the publishing as it does any job
\* (instrumented.rb:14-27).
THEOREM DispatchesAreTracked == SpecAll => Spec
BY InitBoth, StepOfTheJobs, PTL DEF SpecAll, Spec

\* Neither retries of the queue nor replays of operators publish an item twice
\* for one opening (dispatch_service.rb:33-51, dispatch_job.rb:5).
THEOREM ReplaysPublishOncePerOpening == SpecAll => []OneDeliveryPerOpening
BY ReplaysAreDispatches, PublishedOncePerOpening, PTL DEF OneDeliveryPerOpening

-----------------------------------------------------------------------------
(* What a record says of the item.                                         *)

\* The worker of a job is in its work exactly as long as the queue says so.
AgreeInv == \A j \in Jobs : pc[j] \in Item!Busy <=> queue[j] = "running"

\* All that may be read as "this item is published" follows a delivery.
DeliveredInv ==
  /\ item.delivered \/ item.token # NoToken => deliveries > 0
  /\ \A j \in Jobs : /\ pc[j] = "unlocked" => deliveries > 0
                     /\ queue[j] = "worked" => deliveries > 0
                     /\ record[j] = "succeeded" => deliveries > 0

BothInv == ItemInv /\ JobsInv /\ AgreeInv /\ DeliveredInv

LEMMA BothInit == InitAll => BothInv
<1> SUFFICES ASSUME InitAll PROVE BothInv
  OBVIOUS
<1>1. ItemInv /\ JobsInv
  BY InitBoth, ItemInit, JobsInit
<1>2. AgreeInv
  BY DEF InitAll, Item!Init, Init, AgreeInv
<1>3. DeliveredInv
  BY ConstantsAssumption
  DEF InitAll, Item!Init, Init, DeliveredInv
<1> QED
  BY <1>1, <1>2, <1>3 DEF BothInv

\* An actor leaves the transaction without an error only when a publication is done.
LEMMA ItemDelivered ==
  ASSUME ItemInv, [Item!Next]_(Item!vars), item.delivered \/ item.token # NoToken => deliveries > 0
  PROVE  /\ deliveries \in Nat /\ deliveries' \in Nat /\ deliveries <= deliveries'
         /\ item'.delivered \/ item'.token # NoToken => deliveries' > 0
         /\ \A a \in Item!Actors : pc'[a] = "unlocked" => pc[a] = "unlocked" \/ deliveries' > 0
<1>1. Item!TypeOK
  BY DEF ItemInv
<1>2. deliveries \in Nat /\ deliveries' \in Nat
  BY <1>1, ItemStep DEF ItemInv, Item!TypeOK
<1>3. CASE \E a \in Item!Actors : Item!Publish(a)
  BY <1>2, <1>3 DEF Item!Publish, Item!TypeOK
<1>4. CASE \E a \in Item!Actors : Item!Decide(a)
  <2>1. PICK a \in Item!Actors : Item!Decide(a)
    BY <1>4
  <2>2. item' = item /\ deliveries' = deliveries
    BY <2>1 DEF Item!Decide
  <2>3. Item!DigestKey \in Item!Tokens
    BY <1>1 DEF Item!DigestKey, Item!TypeOK
  <2>4. Item!NothingToDo => deliveries > 0
    BY <2>3, ItemConstants DEF Item!NothingToDo, Item!TokenRepeats
  <2>5. \A b \in Item!Actors : pc'[b] = "unlocked" => pc[b] = "unlocked" \/ deliveries' > 0
    BY <1>1, <2>1, <2>2, <2>4 DEF Item!Decide, Item!TypeOK
  <2> QED
    BY <1>2, <2>2, <2>5
<1>5. CASE \E r \in Item!Actors : Item!Schedule(r) \/ Item!Hold(r) \/ Item!Patch(r)
  <2>1. PICK r \in Item!Actors : Item!Schedule(r) \/ Item!Hold(r) \/ Item!Patch(r)
    BY <1>5
  <2>2. deliveries' = deliveries /\ pc' = [pc EXCEPT ![r] = "changed"]
    BY <2>1 DEF Item!Schedule, Item!Hold, Item!Patch
  <2>3. \/ \E t \in Times \cup {NoTime} :
             item' = [item EXCEPT !.state = "scheduled", !.time = t]
        \/ item' = [item EXCEPT !.state = "held"]
        \/ \E state \in Item!States, time \in Times \cup {NoTime}, metadata \in BOOLEAN :
             item' = Item!Patched(r, state, time, metadata)
    BY <2>1 DEF Item!Schedule, Item!Hold, Item!Patch, Item!WriteItem
  <2>4. item'.delivered = item.delivered /\ item'.token \in {item.token, NoToken}
    <3>1. item \in Item!Items
      BY <1>1 DEF Item!TypeOK
    <3>2. CASE \E t \in Times \cup {NoTime} :
                 item' = [item EXCEPT !.state = "scheduled", !.time = t]
      BY <3>1, <3>2
    <3>3. CASE item' = [item EXCEPT !.state = "held"]
      BY <3>1, <3>3
    <3>4. CASE \E state \in Item!States, time \in Times \cup {NoTime}, metadata \in BOOLEAN :
                 item' = Item!Patched(r, state, time, metadata)
      <4>1. PICK state \in Item!States, time \in Times \cup {NoTime}, metadata \in BOOLEAN :
              item' = Item!Patched(r, state, time, metadata)
        BY <3>4
      <4> QED
        BY <3>1, <4>1 DEF Item!Patched
    <3> QED
      BY <2>3, <3>2, <3>3, <3>4
  <2> QED
    BY <1>1, <1>2, <2>2, <2>4 DEF Item!TypeOK
<1>6. CASE \/ \E r \in Requests : Item!Arrive(r)
           \/ \E j \in Jobs : Item!BeginDispatch(j)
           \/ \E a \in Item!Actors : \/ Item!LockItem(a) \/ Item!Raise(a)
                                    \/ Item!Report(a) \/ Item!Crash(a)
           \/ Item!EditStory \/ Item!Tick \/ UNCHANGED Item!vars
  <2>1. item' = item /\ deliveries' = deliveries
    BY <1>6 DEF Item!Arrive, Item!BeginDispatch, Item!LockItem, Item!Raise, Item!Report,
                Item!Crash, Item!EditStory, Item!Tick, Item!vars
  <2>2. \/ pc' = pc
        \/ \E a \in Item!Actors, l \in {"schedule", "hold", "patch", "publish", "locked",
                                   "failed", "published"} : pc' = [pc EXCEPT ![a] = l]
    <3>1. CASE Item!EditStory \/ Item!Tick \/ UNCHANGED Item!vars
      BY <3>1 DEF Item!EditStory, Item!Tick, Item!vars
    <3>2. CASE \E r \in Requests : Item!Arrive(r)
      BY <3>2 DEF Item!Arrive
    <3>3. CASE \E j \in Jobs : Item!BeginDispatch(j)
      BY <3>3 DEF Item!BeginDispatch
    <3>4. CASE \E a \in Item!Actors : \/ Item!LockItem(a) \/ Item!Raise(a)
                                    \/ Item!Report(a) \/ Item!Crash(a)
      BY <3>4 DEF Item!LockItem, Item!Raise, Item!Report, Item!Crash
    <3> QED
      BY <1>6, <3>1, <3>2, <3>3, <3>4
  <2>3. \A b \in Item!Actors : pc'[b] = "unlocked" => pc[b] = "unlocked"
    BY <1>1, <2>2 DEF Item!TypeOK
  <2> QED
    BY <1>2, <2>1, <2>3
<1> QED
  BY <1>3, <1>4, <1>5, <1>6 DEF Item!Next, Item!Work

\* A record is marked "succeeded" for work that was done, and by nothing else.
LEMMA MarkedWhenWorked ==
  ASSUME JobsInv, [Next]_vars, NEW i \in Jobs, record'[i] = "succeeded"
  PROVE  record[i] = "succeeded" \/ queue[i] = "worked"
<1> USE DEF queueVars, recordVars, vars
<1> DEFINE Updated ==
      \/ UNCHANGED record
      \/ \E j \in Jobs, status \in Statuses \ {"succeeded"} : Write(j, status)
      \/ \E j \in Jobs : queue[j] = "worked" /\ Write(j, "succeeded")
<1>1. Updated
  <2>1. ASSUME NEW j \in Jobs, MarkRecovered(j) PROVE Updated
    <3>1. CASE \E k \in Newest(NeedsAttention) : SetStatus(k, "recovered")
      BY <3>1 DEF Newest, NeedsAttention, SetStatus
    <3> QED
      BY <2>1, <3>1 DEF MarkRecovered
  <2>2. ASSUME NEW j \in Jobs, Register(j) \/ Cancel(j) PROVE Updated
    BY <2>2 DEF Register, Cancel, SetStatus
  <2>3. ASSUME NEW j \in Jobs, MarkStarted(j) PROVE Updated
    BY <2>3 DEF MarkStarted, SetStatus
  <2>4. ASSUME NEW j \in Jobs, MarkSucceeded(j) PROVE Updated
    BY <2>4 DEF MarkSucceeded, SetStatus
  <2>5. ASSUME NEW j \in Jobs, MarkFailed(j) PROVE Updated
    <3>1. \/ UNCHANGED record
          \/ Write(j, "dead_letter") \/ Write(j, "failed")
      BY <2>5 DEF MarkFailed, SetStatus
    <3> QED
      BY <3>1
  <2>6. ASSUME NEW j \in Jobs,
               \/ Enqueue(j) \/ CallerDies(j) \/ Take(j)
               \/ Perform(j) \/ WorkerDies(j) \/ Shutdown(j)
        PROVE  UNCHANGED record
    BY <2>6 DEF Enqueue, CallerDies, Take, Perform,
                WorkerDies, Shutdown
  <2> QED
    BY <2>1, <2>2, <2>3, <2>4, <2>5, <2>6
    DEF Next, Operator, Request, Worker, Fault
<1> QED
  BY <1>1 DEF Write, JobsInv, TypeOK

\* Only the steps inside an execution, its start and its end move a job.
LEMMA JobsMove ==
  ASSUME BothInv, [NextAll]_allVars, NEW i \in Jobs
  PROVE  \/ pc'[i] = pc[i] /\ queue'[i] = queue[i]
         \/ pc'[i] = pc[i] /\ pc[i] \notin Item!Busy /\ queue'[i] \notin {"running", "worked"}
         \/ pc'[i] \in Item!Busy /\ queue'[i] = "running"
         \/ pc[i] = "unlocked" /\ pc'[i] \notin Item!Busy /\ queue'[i] = "worked"
         \/ pc'[i] \notin Item!Busy /\ queue'[i] \notin {"running", "worked"}
<1> DEFINE Moved(j) ==
         \/ pc'[j] = pc[j] /\ queue'[j] = queue[j]
         \/ pc'[j] = pc[j] /\ pc[j] \notin Item!Busy /\ queue'[j] \notin {"running", "worked"}
         \/ pc'[j] \in Item!Busy /\ queue'[j] = "running"
         \/ pc[j] = "unlocked" /\ pc'[j] \notin Item!Busy /\ queue'[j] = "worked"
         \/ pc'[j] \notin Item!Busy /\ queue'[j] \notin {"running", "worked"}
<1>1. /\ pc \in [Item!Actors -> {"idle"} \cup Item!Busy \cup Item!Ended]
      /\ queue \in [Jobs -> {"none"} \cup Waiting \cup InWorker \cup Over]
      /\ AgreeInv /\ Requests \cap Jobs = {}
  BY ItemConstants DEF BothInv, ItemInv, JobsInv, Item!TypeOK, TypeOK
<1>2. ASSUME UNCHANGED <<pc, queue>> PROVE Moved(i)
  BY <1>2
<1>3. ASSUME NEW a \in Item!Actors, NEW l, pc' = [pc EXCEPT ![a] = l], a # i, queue' = queue
      PROVE  Moved(i)
  BY <1>1, <1>3
<1>4. ASSUME NEW j \in Jobs, j # i, NEW q, queue' = [queue EXCEPT ![j] = q],
             pc' = pc \/ \E l : pc' = [pc EXCEPT ![j] = l]
      PROVE  Moved(i)
  BY <1>1, <1>4
<1>5. CASE Surroundings
  <2>1. CASE \E r \in Requests : Item!Arrive(r) \/ Item!Work(r) \/ Item!Crash(r)
    <3>1. PICK r \in Requests : Item!Arrive(r) \/ Item!Work(r) \/ Item!Crash(r)
      BY <2>1
    <3>2. \E l : pc' = [pc EXCEPT ![r] = l]
      BY <3>1 DEF Item!Arrive, Item!Work, Item!Schedule, Item!Hold, Item!Patch,
                  Item!LockItem, Item!Decide, Item!Publish, Item!Raise,
                  Item!Report, Item!Crash
    <3>3. queue' = queue /\ r # i
      BY <1>1, <1>5 DEF Surroundings, vars, queueVars, recordVars
    <3> QED
      BY <1>3, <3>2, <3>3
  <2>2. CASE Item!EditStory \/ Item!Tick
    BY <1>2, <1>5, <2>2 DEF Surroundings, vars, queueVars, recordVars, Item!EditStory, Item!Tick
  <2> QED
    BY <1>5, <2>1, <2>2 DEF Surroundings
<1>6. ASSUME NEW j \in Jobs, Around(j) PROVE Moved(i)
  <2>1. pc' = pc
    BY <1>6 DEF Around, itemVars
  <2>2. CASE queue' = queue
    BY <1>2, <2>1, <2>2
  <2>3. CASE /\ queue[j] # "running"
             /\ \E q \in {"ready", "taken", "finished", "raised", "waiting", "retry", "dead"} :
                  queue' = [queue EXCEPT ![j] = q]
    <3>1. CASE j = i
      BY <1>1, <2>1, <2>3, <3>1 DEF AgreeInv
    <3>2. CASE j # i
      BY <1>4, <2>1, <2>3, <3>2
    <3> QED
      BY <3>1, <3>2
  <2>4. CASE Request(j) \/ CallerDies(j)
    BY <2>2, <2>4 DEF Request, Register, MarkRecovered,
                      CallerDies, queueVars
  <2>5. CASE Enqueue(j)
    BY <2>3, <2>5 DEF Enqueue, BothInv, JobsInv, RecordsInv
  <2>6. CASE Take(j) \/ MarkSucceeded(j)
    BY <2>3, <2>6 DEF Take, MarkSucceeded
  <2>7. CASE MarkFailed(j)
    BY <2>3, <2>7 DEF MarkFailed, Requeue
  <2> QED
    BY <1>6, <2>4, <2>5, <2>6, <2>7 DEF Around
<1>7. ASSUME NEW j \in Jobs, Start(j) PROVE Moved(i)
  <2>1. \/ pc' = pc /\ queue' = [queue EXCEPT ![j] = "raised"]
        \/ pc' = [pc EXCEPT ![j] = "publish"] /\ queue' = [queue EXCEPT ![j] = "running"]
    <3>1. queue' \in {[queue EXCEPT ![j] = "raised"], [queue EXCEPT ![j] = "running"]}
      BY <1>7 DEF Start, MarkStarted
    <3>2. queue'[j] = "running" => pc' = [pc EXCEPT ![j] = "publish"]
      BY <1>7 DEF Start, Item!BeginDispatch
    <3>3. queue'[j] # "running" => pc' = pc
      BY <1>7 DEF Start, itemVars
    <3> QED
      BY <1>1, <3>1, <3>2, <3>3
  <2>2. queue[j] = "taken"
    BY <1>7 DEF Start, MarkStarted
  <2>3. CASE j = i
    BY <1>1, <2>1, <2>2, <2>3 DEF AgreeInv
  <2>4. CASE j # i
    BY <1>4, <2>1, <2>4
  <2> QED
    BY <2>3, <2>4
<1>8. ASSUME NEW j \in Jobs, Execute(j) PROVE Moved(i)
  <2>1. queue[j] = "running" /\ queue' = queue
    BY <1>8 DEF Execute, vars, queueVars, recordVars
  <2>2. PICK l \in {"locked", "publishing", "unlocked"} : pc' = [pc EXCEPT ![j] = l]
    BY <1>8 DEF Execute, Item!LockItem, Item!Decide, Item!Publish
  <2>3. CASE j = i
    BY <1>1, <2>1, <2>2, <2>3
  <2>4. CASE j # i
    BY <1>3, <2>1, <2>2, <2>4
  <2> QED
    BY <2>3, <2>4
<1>9. ASSUME NEW j \in Jobs, Finish(j) \/ Throw(j) PROVE Moved(i)
  <2>1. \/ /\ Finish(j) /\ pc[j] = "unlocked" /\ queue' = [queue EXCEPT ![j] = "worked"]
           /\ pc' = [pc EXCEPT ![j] = "published"] \/ pc' = [pc EXCEPT ![j] = "failed"]
        \/ /\ Throw(j) /\ pc' = [pc EXCEPT ![j] = "failed"]
           /\ queue' = [queue EXCEPT ![j] = "raised"]
    <3>1. queue' \in {[queue EXCEPT ![j] = "raised"], [queue EXCEPT ![j] = "worked"]}
      BY <1>9 DEF Finish, Throw, Perform
    <3>2. CASE Finish(j)
      BY <1>1, <3>1, <3>2 DEF Finish, Item!Report
    <3>3. CASE Throw(j)
      BY <1>1, <3>1, <3>3 DEF Throw, Item!Raise
    <3> QED
      BY <1>9, <3>2, <3>3
  <2>2. CASE j = i
    BY <1>1, <2>1, <2>2
  <2>3. CASE j # i
    BY <1>4, <2>1, <2>3
  <2> QED
    BY <2>2, <2>3
<1>10. ASSUME NEW j \in Jobs, Stop(j) PROVE Moved(i)
  <2>1. PICK q \in {"lost", "ready"} : queue' = [queue EXCEPT ![j] = q]
    BY <1>10 DEF Stop, WorkerDies, Shutdown
  <2>2. \/ pc[j] \notin Item!Busy /\ pc' = pc
        \/ pc' = [pc EXCEPT ![j] = "failed"]
    BY <1>10 DEF Stop, Item!Crash, itemVars
  <2>3. CASE j = i
    BY <1>1, <2>1, <2>2, <2>3
  <2>4. CASE j # i
    BY <1>4, <2>1, <2>2, <2>4
  <2> QED
    BY <2>3, <2>4
<1>11. CASE UNCHANGED allVars
  BY <1>2, <1>11 DEF allVars, itemVars, vars, queueVars, recordVars
<1> QED
  BY <1>5, <1>6, <1>7, <1>8, <1>9, <1>10, <1>11 DEF NextAll, JobSteps

LEMMA BothStep == BothInv /\ [NextAll]_allVars => BothInv'
<1> SUFFICES ASSUME BothInv, [NextAll]_allVars PROVE BothInv'
  OBVIOUS
<1>1. ItemInv' /\ JobsInv'
  BY StepOfTheItem, StepOfTheJobs, ItemStep, JobsStep DEF BothInv
<1>2. AgreeInv'
  <2>1. ASSUME NEW i \in Jobs PROVE pc'[i] \in Item!Busy <=> queue'[i] = "running"
    <3>1. pc[i] \in Item!Busy <=> queue[i] = "running"
      BY DEF BothInv, AgreeInv
    <3> QED
      BY <3>1, JobsMove
  <2> QED
    BY <2>1 DEF AgreeInv
<1>3. /\ deliveries \in Nat /\ deliveries' \in Nat /\ deliveries <= deliveries'
      /\ item'.delivered \/ item'.token # NoToken => deliveries' > 0
      /\ \A a \in Item!Actors : pc'[a] = "unlocked" => pc[a] = "unlocked" \/ deliveries' > 0
  BY StepOfTheItem, ItemDelivered DEF BothInv, DeliveredInv
<1>4. deliveries > 0 => deliveries' > 0
  BY <1>3
<1>5. ASSUME NEW i \in Jobs
      PROVE  /\ pc'[i] = "unlocked" => deliveries' > 0
             /\ queue'[i] = "worked" => deliveries' > 0
             /\ record'[i] = "succeeded" => deliveries' > 0
  <2>1. /\ pc[i] = "unlocked" => deliveries > 0
        /\ queue[i] = "worked" => deliveries > 0
        /\ record[i] = "succeeded" => deliveries > 0
    BY DEF BothInv, DeliveredInv
  <2>2. pc'[i] = "unlocked" => deliveries' > 0
    BY <1>3, <1>4, <2>1
  <2>3. queue'[i] = "worked" => queue[i] = "worked" \/ pc[i] = "unlocked"
    BY JobsMove
  <2>4. record'[i] = "succeeded" => record[i] = "succeeded" \/ queue[i] = "worked"
    BY StepOfTheJobs, MarkedWhenWorked DEF BothInv
  <2> QED
    BY <1>4, <2>1, <2>2, <2>3, <2>4
<1>6. DeliveredInv'
  BY <1>3, <1>5 DEF DeliveredInv
<1> QED
  BY <1>1, <1>2, <1>6 DEF BothInv

\* The inductive invariant of the two together.
THEOREM RecoveryInvariance == SpecAll => []BothInv
BY BothInit, BothStep, PTL DEF SpecAll

\* An operator who reads "succeeded" finds the item published
\* (dispatch_job.rb:7-11, instrumented.rb:14-22, dispatch_service.rb:33-62).
THEOREM SucceededIsDelivered == SpecAll => []SucceededMeansDelivered
<1>1. BothInv => SucceededMeansDelivered
  BY DEF BothInv, DeliveredInv, SucceededMeansDelivered
<1> QED
  BY <1>1, RecoveryInvariance, PTL

\* No job that was lost, put back or finished still holds the row lock of the
\* item: a worker's end is the end of its transaction (dispatch_service.rb:33-48).
THEOREM NoStoppedJobHoldsTheItem ==
  SpecAll => [](\A j \in Jobs : lock = j => queue[j] = "running")
<1>1. BothInv => \A j \in Jobs : lock = j => queue[j] = "running"
  BY DEF BothInv, ItemInv, LockInv, AgreeInv
<1> QED
  BY <1>1, RecoveryInvariance, PTL
=============================================================================
