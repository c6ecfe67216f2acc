# A TLA+ verification of the K-12 planning and LMS platform

This directory specifies the concurrent core of the platform in TLA+, checks it
with TLC and proves its main properties with TLAPS. It starts from the code of
`apps/core` (Rails, PostgreSQL, Sidekiq) and `apps/web` (Next.js); `src/` below
is the root of the repository.

Contents: [the system](#1-the-system), [the modules](#2-the-modules),
[what is checked](#3-what-tlc-checks), [what is proved](#4-what-tlaps-proves),
[findings](#5-findings), [what is left out](#6-what-is-left-out-and-why),
[the plan](#7-the-plan), [how to run it](#8-how-to-run-it).

## 1. The system

The Rails API is the system of record. Puma threads serve HTTP requests, Sidekiq
workers run jobs; both talk to one PostgreSQL database at its default isolation,
READ COMMITTED. Nothing else is shared, so the interesting behaviour is that of
requests and jobs whose *statements* interleave, of ActiveRecord objects that
age between the statement that loaded them and the one that writes them, and of
clients that retry, keep an offline queue, or never learn an answer.

| component | state | operations | hard behaviour | correct when |
| --- | --- | --- | --- | --- |
| **Document versions** (`models/curriculum_document.rb`, `section_autosave_service.rb`, `document_factory.rb`) | a document row with a pointer to its current version; immutable versions with unique numbers | create, autosave, save, rename, destroy | decisions before the row lock, stale objects, a document without a version, deaths inside and outside the transaction, lost answers | the history is gapless, immutable and current; every answer agrees with it; nobody waits forever |
| **Quiz attempts** (`quiz_attempts_controller.rb#create`, `models/quiz_attempt.rb`, `models/quiz.rb`) | a student's numbered attempts; the quiz's status and limit | start; publish, close and edit the quiz | `FOR UPDATE` of rows that do not exist yet, snapshots taken before the lock, a limit checked against a stale count | gapless numbers within the limit; one of the racing starts wins |
| **Answers and grading** (`attempt_answers_controller.rb`, `submit!`, `calculate_score!`, `grade`, `grade_all`) | an attempt's status and score; answers and points; notifications | save, submit, grade one, grade all | nothing is locked and nothing is one transaction; checks precede writes | nothing is reopened; the score is the sum of the points; answers are final once submitted |
| Publishing (`services/ib/publishing`, `dispatch_job.rb`) | a queue item and its story, audits | schedule, hold, publish now, the job and its retries | a job that was delayed past a hold; an idempotency token of coarse times; an audit that fails after the fact | a held item is not published; a publication happens once |
| Operational jobs (`operational_job_tracker.rb`, `job_operations_service.rb`) | one record per background job, its events | register, started, succeeded, failed, replay, cancel | enqueue before register; retries after the dead letter; a cancel that stops nothing | the record ends in agreement with the job |
| Import batches (`services/ib/migration`) | a batch, its rows, what it created | dry run, execute, resume, roll back | one transaction around all rows, retries, executing twice | a roll back undoes what was created; a retry creates nothing twice |
| Editor autosave (`useSectionAutosave.ts`, `DocumentEditor.tsx`) | the draft, the base version, a local copy | edit, autosave, restore | several saves in flight, a base that is never refreshed, a restored draft | no typed text is lost silently |
| Offline queue (`offlineMutationQueue.ts`, `SwrProvider.tsx`) | mutations in local storage | enqueue, flush | a flush that overlaps an enqueue or another flush; answers lost after the server acted | a queued mutation is sent, once, in order |
| Unit plans and approvals (`unit_plan.rb`, `approval.rb`, `approvals_controller.rb`) | a plan, its versions, its approvals | version, submit, approve, reject, publish, archive | no lock anywhere; approve commits before publish | one pending approval; an approved plan is published |
| Submissions (`submissions_controller.rb`, `missing_work_job.rb`) | a student's work for an assignment | submit, grade, return, mark missing | the missing-work job against the student | submitted work is never marked missing |
| Curriculum packs (`curriculum_pack_store.rb`, `..._lifecycle_service.rb`, `..._resolver.rb`) | releases, a cache, a bust counter | publish, freeze, deprecate, roll back, resolve | the cache against the life of a release; lost increments | what is resolved was eligible when it was read |
| Tokens (`mobile_session_token_service.rb`, `google_token_service.rb`) | a session's refresh token; a Google token | issue, refresh, revoke | two refreshes with one token; HTTP under a row lock | at most one valid token; a refresh is not lost |
| Notifications (`notification_service.rb`) | rows, some with a dedupe key | notify, digest | look, then create | at most one per key |
| Integrations, AI gateway, alerts and backups, web pages, iOS | little state of their own | | services outside the repository, I/O | not modelled |

How they interact: the editor's autosaves, and those the offline queue sends
again later, arrive at the document store; the migration and the duplication of
documents create documents through it; a unit plan's approval publishes it;
publishing, imports and exports run as jobs that the tracker records; grading,
approvals and submissions call the notification service. All of it is by method
call inside one request, by rows, or by jobs in Redis.

`PROJECT.json` lists the components with their sources and the hazards of the
code, each at its line with the properties that watch it, or with a note why no
property can.

## 2. The modules

| module | models |
| --- | --- |
| `RequestLog` | abstract: an append-only log that racing requests extend, and what each is told |
| `ImportLedger` | abstract: what the import of a batch promises a school, however often it is executed |
| `DocumentVersions` | one curriculum document, its versions and the requests on it |
| `QuizAttempts` | the attempts of one student at one quiz, and the teachers' edits of the quiz |
| `AttemptGrading` | one attempt after its start: answers, submission, grading, notification |
| `PublishingDispatch` | one item of the publishing queue, its story, the requests and jobs that publish it |
| `OperationalJobs` | tracked background jobs: the queue with both kinds of retries, and the records operators see |
| `PublishingRecovery` | composition of the last two: tracked jobs that publish the item |
| `ImportBatch` | one import batch: mapping, dry run, execution in requests and jobs, roll back |
| `OfflineQueue` | the offline mutation queue of the browser and the tabs that flush it |
| `UnitPlanApproval` | the status of one unit plan and the approvals asked for it |
| `Submissions` | the submissions to one assignment, grading, and the missing-work run |
| `PackReleases` | the releases of one curriculum pack, the tenant's default, and two caches |
| `MC*` | the small instances that TLC checks; the `.cfg` files give the constants their values |
| `*Proofs` | theorems and proofs, one module for each component; `QuizAttemptsProofs` is also about `AttemptGrading`, `PublishingRecoveryProofs` also about `PublishingDispatch` and `OperationalJobs` |

Conventions shared by the detailed modules:

* `Requests` is the set of HTTP requests that may arrive, each once. `pc[r]` is
  where a request is or, at the end, what its client was told. `failed` means an
  error or a lost connection: the client knows nothing.
* A step is what a request does up to and including its next statement, for only
  statements are seen by others. A transaction's writes are one step with its
  COMMIT, because READ COMMITTED shows them then; where other statements can see
  or wait for a row lock of the transaction, the steps before the COMMIT are
  separate and the lock is part of the state. Reads inside the transaction are
  steps of their own.
* `loaded[r]` (or `req[r].own`, `mine[a]`) is the ActiveRecord object as the
  request loaded it; decisions use it, and an UPDATE writes only the columns in
  which the new values differ from it.
* `Crash(r)` is the death of a thread or its connection at any point: PostgreSQL
  rolls back the open transaction and frees its locks.
* History variables (`crowd`, `unsettled`, `overlapped`, `raced`, `orderly`, `calm`,
  `marked`, `available`, ...) say what happened before, so that a property can
  name the condition under which it holds; the program does not have them.
* A definition with a suffix, such as `RenamedRow_WholeRow`, is a plausible bug of
  the definition after it. Nothing uses it; every property is shown to notice
  one of them (`PROJECT.json`, "mutants").

**DocumentVersions.** `doc` is the row (`current` is the number of the current
version, 0 for NULL), `versions` the table by `version_number`. `CreateDocument`
is `DocumentFactory.create!`: the row is committed first and alone, so a crash
leaves a document without a version. `BeginAutosave`, `BeginSave`, `BeginRename`
and `BeginDestroy` load the document; `Autosave` is the comparison with the base
and with the content in `SectionAutosaveService#save!`, made on what was loaded.
`LockDocument`, `ReadMaxNumber`, `RejectContent` and `CommitVersion` are
`create_version!` under `with_lock` (which reloads). `WriteRename` is the UPDATE
of a PATCH, `WriteDestroy` the `destroy!` that the foreign key of
`current_version_id` refuses as soon as a version exists. A content is a model
value; `ValidContents` are those that schema and presence checks accept.

**QuizAttempts.** `attempts` maps `attempt_number` to the request that started
it. `ReadNumbers` takes the snapshot of `SELECT ... FOR UPDATE` and
`LockAttempts` waits for the locks of the rows *in that snapshot*, none if there
is no attempt yet; then come the two validations and the INSERT, which the
unique index may refuse. `BeginPublish`, `BeginClose` and `BeginChange` with
`WriteQuiz` are the teachers' requests. `highest` is a history variable: the
most attempts the quiz ever allowed. The student's accommodation is the constant
`Extra`.

**AttemptGrading.** `attempt`, `answers` and `notices` are the rows. Each
statement commits by itself: `FindSaved` and `WriteAnswer` alternate for the
answers of a save; `MarkSubmitted`, `ReadAnswers`, `AutoGrade` for `submit!`;
`FindGraded` and `WriteGrade` for `grade_all`; `BeginGrade` (the answer is found
before the attempt), `LoadOwner` and `WriteGrade` for `grade`; then `SumPoints`,
`CheckComplete` and `WriteScore` for `calculate_score!` and `CheckNotice` and
`CreateNotice` for `notify_quiz_graded!`. A text is `right` or `wrong`, which is
all that `auto_grade!` sees of it. As in the code `grade` checks the bounds of
the points, `grade_all` checks neither bounds nor that points were sent (`Null`, a constant
that is no number), and neither looks at the attempt's status. Points have any sign. Of the history, `crowd` holds the requests
that graded at the same time as another, and `unsettled` is set when two do so or
one dies while it grades, until a request that is not in the crowd writes its score.
The module's names (`Calls`, `at`, `GradingSpec`, ...) differ from those of
`QuizAttempts` so that one module can extend both.

**PublishingDispatch.** `item` is the queue item (state, `scheduled_for`, whether
`delivered_at` is set, and the idempotency token in its metadata), `story` the
learning story, `lock` the holder of the item's row lock. `Schedule` and `Hold`
are one step under the lock; `Patch` writes what differs from the state and the
time that the request loaded, and a metadata parameter replaces the token with the
column; `held_reason`, which nothing reads, is left out. `LockItem`,
`Decide` and `Publish` are `publish_now!`: the decision is taken under the lock,
from the digest key of state, time and the story's `updated_at`, which is why
there is a `clock` in seconds and the story may be edited at any time (`EditStory`).
`Raise` is the ROLLBACK, `Report` the audit after the COMMIT, whose failure turns
a publication that took place into an error. A job is executed again and again
(`BeginDispatch`). `deliveries` and `reopened` are history variables.

**OperationalJobs.** `caller` is the request that enqueues (`Enqueue`), registers
(`Register`) and, for a replay, marks the old record recovered
(`MarkRecovered`); the worker may overtake it anywhere. `queue`, `serialized` and
`retries` are Sidekiq and ActiveJob (external): `retry_on` puts a job back with
its execution count, and when the attempts are used up Sidekiq's own retries
repeat the last execution. `MarkStarted`, `Perform`, `MarkSucceeded`, `MarkFailed`
are `Instrumented#around_perform` with the tracker; each of the tracker's calls
may itself raise, before or after its UPDATE. `WorkerDies` loses a job,
`Shutdown` puts it back as it was. `newer[j]` are the jobs whose records have a
later `updated_at` than the one of `j`, which is all that `mark_recovered!` sees of
the times.

**PublishingRecovery** extends `OperationalJobs` and instantiates
`PublishingDispatch` (`Item == INSTANCE PublishingDispatch`): the work that the
tracker leaves open is `publish_now!`. `Start` begins it when the record says `running`,
`Finish` and `Throw` end it and tell the worker, `Stop` takes the execution down
with its worker, and `Surroundings` are the requests on the same item.

**ImportBatch.** `batch` and `rows` are the tables, `entities` what is in the
school, by title and by who created it. `Map`/`MapRow` and
`DryRun`/`CheckRow`/`Summarise` commit row by row; `Begin`, `ImportRow` and
`Complete` are the one transaction of `ExecutionService#run!`, in which `work[a]`
holds what is not committed yet and the batch is locked; `RaiseInRun` rolls it back,
`Rescue` marks the batch as failed with the cursor that the object in memory
kept, and makes a job try again. `Rollback`, `DestroyRef`, `MarkRolledBack` go by
the summary as it was loaded; a deletion waits for nobody, for an entity that an
execution finds and leaves as it is holds no lock. `Enqueue`/`PerformLater`/`StartJob` are the
background path; `PerformLaterRaises` is the request whose job cannot be queued after
`executing` was committed. What a request is told is not modelled (`answered` may be an
error), so a registration that raises after the job was queued differs from none in nothing.

**OfflineQueue.** `queue` is the array in local storage, shared by the tabs.
JavaScript runs to the next `await`, so `Enqueue` is atomic and a step of a flush is
one request with what follows it: `Deliver`, `Refuse` (4xx), `ServerError` (5xx),
`NetworkFailure` (writes back the rest and stops), `Finish`. `Close` closes a tab
during a flush. A failed request may have been applied (`MaybeApply`). Histories:
`passed` has the mutations that a flush stepped over for a 4xx or a 5xx,
`forsaken` those that it then did not write back, `early` those that the server
had applied before they were queued.

**UnitPlanApproval.** `Submit`, `ValidateApproval`, `CreateApproval`; `Publish`
and `ApprovePending` (`apply_side_effects`); `Archive`; `Update`, which permits any
status; and for reviewers `Decide`, which commits the approval before `LoadPlan` and
`PublishApproved` or `Revert` touch the plan. `Refused` is what the workflow
engine refuses by the status *as it was loaded*. No lock, no transaction.

**Submissions.** `row[s]` is the submission of student `s`, with the request
whose work it holds. `ArriveStudent` checks and loads, `SaveSubmission` writes, and the
unique index refuses a second row (`Taken`). A run of `MissingWorkJob` loads the
rows of the class (`ArriveRun`), goes through them in one transaction
(`MarkNext`), in which `written[r]` are locked, and commits. Nothing in the
repository schedules that job; the model lets it run at any time. No handler makes a
`draft` either, but the column's default and the job's spec say that there are some:
a row is absent or a draft at first, and the run creates or updates accordingly.

**PackReleases.** `mine[a]` is what a request has in memory: the settings as it
loaded them with its tenant, the releases it loaded, those it is going to
deprecate, what it fetched. The settings are one JSON column, so `SaveSettings`
writes all of them. `LoadRelease`, `Scan`, `DeprecateOther`, `Publish`, `Write`,
`RestoreTarget`, `SetDefault`, `BustResolver`, `BustStore`, `LoadImport`, `SaveImport`
are `CurriculumProfileLifecycleService` statement by statement, with the two
`invalidate_cache!`; `Fetch`, `Read`, `Fill` are `CurriculumPackStore.fetch`,
`Resolve` and `Remember` the resolver on top of it. A new default (op `default`)
first fetches the version to see that it exists. What a fetch finds is `Current`: the
release, if it is published or frozen; nothing, if it is not; and where the tenant has
no release of that version, what the program itself brings (`Registry`: a system pack
of that version, or for the system's default key the fallback profile for any).
`Nothing` is then no pack; the resolver goes on to its own fallback, a fetch of the
latest version of the system's default key, which is not modelled further. Entries
may expire at any time. The history `torn` is set when a reader loads the
resolver's new counter with the store's old one, or an import changes the pack of the
default, and reset when the resolver's counter goes on.

## 3. What TLC checks

| run | properties | shows |
| --- | --- | --- |
| `document_versions` | `TypeOK`, `CurrentIsLatest`, `RepliesAreTrue`, `ImplementsRequestLog`, `EveryRequestIsAnswered` | 355,000 states. Whatever saves, renames, deletions and crashes interleave, the numbers have no gap, the current version is the last, what each request is told is true, the versions are an append-only log, and nobody waits forever |
| `autosave_overwrite` | `BaseIsAnOptimisticLock` | **violated**, see the findings |
| `quiz_attempts` | `TypeOK`, `AttemptsStayWithinTheLimit`, `OnlyARivalTakesTheNumber`, `ImplementsRequestLog`, `EveryRequestIsAnswered` | 65,000 states. The lock does not serialise starts and the count may be stale, but the numbers stay gapless and within the limit, and a start that loses its number lost it to a rival that got an attempt |
| `attempt_grading` | `GradingTypeOK`, `GradingAloneSettles`, `NothingIsReopened` | 2.4 million states. Points out of bounds come from `grade_all` only; a stale writer never takes an attempt back to progress nor unsets its score; a request that grades alone settles the score at the sum of the points, also after gradings that collided or died halfway and while answers are being saved; unless two ever graded at once the student is told at most once |
| `publishing_recovery` | `OneDeliveryPerOpening`, `SucceededMeansDelivered`, `ReplayIsDelivered` | 571,000 states. One publication for each time the item is opened, through retries, replays, shutdowns and requests; a record says succeeded only if the item was published; after a job is enqueued there is a time at which the item is published, also if it was published before and taken back, unless the job fails every attempt, dies, or the token repeats (section 5) |
| `operational_jobs` | `TypeOK`, `DeadLettersAreExhausted`, `EveryJobEnds` | 410,000 states. The record's count of attempts and the queue's agree although each keeps its own; every job leaves the queue |
| `import_batch` | `TypeOK`, `NothingIsImportedTwice`, `ImportsAreAccounted`, `ImplementsLedger`, `OrderlyRollbackUndoes`, `ExecutingSettles` | 477,000 states. Executions that race or are repeated import nothing twice; what was created is visible only with the summary that lists it; each execution takes effect all at once, on rows that were not executed, and without races on all that are ready, and nothing ever takes back what the school made; a roll back, without overlaps and of one execution, leaves nothing; a batch does not stay `executing` unless an operation died or its job could not be queued |
| `offline_queue` | `TypeOK`, `OrderlyFlushLosesNothing`, `OrderlyFlushSendsOnce`, `OrderlyFlushKeepsTheOrder`, `QueueDrains` | 307,000 states. As long as the queue is not written during a flush: nothing is lost but what got a 4xx, or a 5xx in a flush that then lost its connection; nothing is sent twice unless its answer was lost, and the order is kept. Where the connection is lost and returns again and again the queue empties |
| `lost_mutation` | `QueueIsRecoverable` | **violated**, see the findings |
| `unit_plan_approval` | `TypeOK`, `OrderlyPlansAgree`, `NothingSkipsTheSubmission` | 450,000 states. Where approval is required no race takes a plan out of draft that nobody submitted; after requests that did not overlap, plan and approvals agree |
| `submissions` | `TypeOK`, `NothingGoesBack`, `OnlyMissingWorkIsReplaced` | 84,000 states (up to symmetry). Submitted work is not marked missing, graded work not taken back, a first submission not replaced |
| `pack_releases` | `TypeOK`, `OrderlyStoreIsCurrent`, `OrderlyResolverIsCurrent`, `DefaultWasAvailable` | 883,000 states (up to symmetry). As long as admins come one after the other the pack store is current whenever none is at work, and so is what the resolver remembers, but for a reader between the two invalidations and an import of the default; the default could be fetched once, from a release or from the registry, whatever happens |

**Bounds.** A request does one thing and is then answered, so the number of
requests bounds every run; a retry of a client is one more request. Three
requests on a document make every pair of handlers race with a third one's
commit between their read and their write (the first also creates the document);
two titles and one content besides `{}`, which is refused, tell every branch
apart. Three requests at a quiz let two starts race behind one that committed,
or beside a teacher's edit, with `attempts_allowed` 1 or 2 (`MaxAllowed`) and
one extra attempt. Three requests on an attempt are a save and two gradings, a
submission between two saves, and so on, with one question that is graded
automatically and one that is not; points of -1, 0 and 2 (with a `MaxPoints` of
1) cover the accepted grade and both refused ones. In the composition one job with two
attempts of `retry_on`, one of Sidekiq's retries (`MaxRetries`, 25 in the
product) and one shutdown meets one request, and the clock (`MaxClock`) runs
within a second and past it; `operational_jobs` has two jobs, so that a replay
meets the record of the job it replaces. An import has two rows of one title, which
is the case in which the second row finds what the first created, two
requests and a job that is executed twice. Two mutations and two tabs are what an
order and a race of flushes need. Five requests on a plan are a submission, a
decision, a resubmission, and two that are stale through all of it; five
on two students' work let two runs, a student and a teacher meet. Two admins,
a reader and two versions, one with a release and one that at first only the program
brings, are a race of two changes with a reader between a
database read and its write of the cache. `attempt_grading`,
`autosave_overwrite`, `lost_mutation`, `unit_plan_approval`, `submissions` and
`pack_releases` use symmetry; no run with a liveness property does. Deadlock is not checked:
when every request has been answered the system rests.

**Fairness.** `FairSpec` gives each request fairness of its next step: Puma's
threads and Sidekiq's are scheduled by the operating system, and PostgreSQL
queues the waiters of a row lock, so one that is again and again able to take it
does (strong fairness where there is a lock to wait for, weak where there is
none). Nothing is assumed of arrivals, of crashes, or of an operator. In
`OperationalJobs` retries end because they are counted, not by fairness. In
`OfflineQueue` the effect of the event `online` runs in some open tab if it is due
again and again (strong, for the connection may be lost first), and every request
ends. That the connection is lost and returns again and again, and that
the server at last accepts what is sent forever, is no fairness of the code: it is the
hypothesis `Environment` of `QueueDrains`. On a steady connection nothing but the
user starts a flush, and the queue may keep what it has for ever (section 5).

**Refinement.** `ImplementsRequestLog` instantiates `RequestLog` twice: the
versions of a document and the attempts of a student are each a log to which a
request appends at most once; `saved` is only said to the author of an entry and
`refused` only to a request without one. A crash after the COMMIT leaves an
entry whose author was told nothing, which is what the log allows and what a
client that retries must expect.

`ImplementsLedger` instantiates `ImportLedger` with the entities that imports made
(`made`), the titles of the school's own (`own`), the summary (`listed`), the
statuses of the rows (`row`) and `overlapped` (`raced`). The COMMIT of an execution
(`Complete`) is the ledger's `Import`, however many steps came before it;
`MapRow` and `CheckRow` are `Prepare`, `DestroyRef` is `TakeBack`, `SchoolCreates` is
`Write`, the first operation that overlaps another is `Race`, and all else stutters,
crashes and roll backs of the transaction included. The ledger has no operation that
takes anything from the school, and none that executes a row twice without its being
prepared again. What it says of all ready rows, and of each executed row
having its entity, it says unless `raced`; section 5 has the reason.

## 4. What TLAPS proves

Every theorem holds for any sets of requests, jobs, tabs, students, questions or
versions and any values of the constants; the assumptions are
`ConstantsAssumption` of each module (`GradingAssumption` of `AttemptGrading`; that
of `PublishingDispatch` is assumed in `PublishingRecovery`, which instantiates it). In words: markers such as `NoOne` are
none of the real values, numbers are natural numbers (points any integers), the sets of admins and of
questions are finite. Each
proof module has an inductive invariant (`IInv`; `GradingInv`, `ItemInv`,
`JobsInv` and `BothInv` where a module has more than one component), proved
invariant with one lemma or step for each action; the theorems follow from it.
TLC checked each of these invariants on the instances of section 3 before it was
proved.

| module | theorems |
| --- | --- |
| `DocumentVersionsProofs` | `TypeCorrect`, `CurrentIsAlwaysLatest`, `NumbersNeverCollide`, `RepliesAreAlwaysTrue`; the action property `HistoryAlwaysGrows`; `Refinement` of `RequestLog` |
| `QuizAttemptsProofs` | `TypeCorrect`, `WithinTheLimit`, `SomeStartWins`, `Refinement` of `RequestLog`; of `AttemptGrading`: `GradingTypeCorrect`, `GradingSettles` and the action property `NothingReopens` |
| `PublishingRecoveryProofs` | of `PublishingDispatch`: `ItemTypeCorrect`, `PublishedOncePerOpening`, `DecisionsStayCurrent`; of `OperationalJobs`: `JobsTypeCorrect`, `DeadLettersAreTheExhausted`; of the composition: it implements both (`ReplaysAreDispatches`, `DispatchesAreTracked`), `ReplaysPublishOncePerOpening`, `SucceededIsDelivered`, `NoStoppedJobHoldsTheItem` |
| `ImportBatchProofs` | `ImportBatchType`, `TitlesAreImportedOnce`, `RollbackUndoes`; the action properties `SummaryIsExact` and `SchoolEntitiesStay`; `ImportsKeepTheLedger`, the refinement of `ImportLedger` |
| `OfflineQueueProofs` | `OfflineQueueType`, `FlushLosesNothing`, `FlushSendsOnce`, `FlushKeepsTheOrder` |
| `SubmissionsProofs` | `TypeCorrect`; the action properties `NothingEverGoesBack` and `FirstWorkStands` |
| `UnitPlanApprovalProofs` | `TypeCorrect`, `NoPlanSkipsTheSubmission`, `PlansAgree` |
| `PackReleasesProofs` | `TypeCorrect`, `DefaultAlwaysAvailable`, `StoreIsCurrentInOrder`, `ResolverIsCurrentInOrder` |

*Documents.* None of the invariants is inductive. That the next number is free needs that it
is still the maximum plus one at the commit (`NumberIsNext`), which needs that
only the holder of the lock is between its read and its commit (`LockInv`),
and that a document that is gone has no versions (`LifeInv`); that replies are
true needs who wrote which version (`AuthorsInv`); and that a version is never
saved with a blank title needs that a title is resolved before a write
(`TitlesResolved`). The refinement uses `IInv` before and after the step: a
commit maps to `AppendEntry`, a reply to `Answer`, everything else to a stutter.
`NoNumberCollision` and `HistoryOnlyGrows` are proved and therefore in no run.

*Attempts.* Here the lock plays no part in the argument.
The validation *counts* the attempts while the number follows the *last* one;
because the numbers have no gap (`Numbered`) the two agree, so a start that
passed the limit either still has room or has already lost its number
(`RoomOrLost`), and then the index refuses it. Snapshots are never ahead of the
table (`SnapshotsAreOld`), no quiz that a request still holds allows more than
the quiz once did (`Bounded`), and each attempt has one author (`Authored`).

*Grading.* Nothing is locked, so the argument is who else may be at it. A request
that is grading and not in the crowd is the only one (`AloneInv`), and what it holds of the
attempt is what the table holds (`Knows`), however the attempt was left before it
began. The sum that it read is still the sum when it writes it, and
"none is ungraded" may turn false meanwhile but never true, because a save, which
may come at any time, keeps the points of an answer and adds only answers
without points (`SaveFacts`). So its score settles the attempt (`Settled`), which stays
so until somebody is between a first award and a score again. The total is a fold
over the answers, which that argument never computes: the same answers have the same total.
`NothingReopens` needs no order at all: an UPDATE changes a column only if the new
value differs from the one that was loaded, no new status is `in_progress`, and no
new score is missing because a total is an integer. That is where the fold has to be
opened: its definition chooses a solution of a recursive equation, so one must exist
(`Solved`: the smallest size of a set without a solution would have a predecessor)
and each of its values is an integer by the same argument (`SumIsANumber`). It is an
induction over the size of a set, done with `WFMin`, the library's least-element
theorem, whose parameter is a set. That only `grade_all` leaves points out of bounds
is `BoundsInv`: whatever a request is about to award passed the check or belongs to a
`grade_all`, and a save keeps the points of an answer.

*Publishing.* The item and the jobs are proved apart and then together. Of the
item: the token plays no part: `delivered`, once set, is never cleared,
so that an item that is published again was taken back in between (`CountInv`),
and what was decided is still true of the row when it is written, because the
holder of the lock is the only one between the two (`LockInv`,
`DecisionIsCurrent`). Of the jobs: a record exists only after its registration
(`RecordsInv`), and once the count in the payload has made a dead letter it cannot
grow any more (`DeadInv`). Every step of the composition is a step or a stutter of each of
the two, so that what was proved of the parts holds of the whole; what neither
says alone is `BothInv`: a job is at work on the item exactly as long as its worker is
running (`AgreeInv`), and everything that may be read as "this item is published"
(the time in the row, the token, a job that finished its work) follows a
delivery (`DeliveredInv`).

*Imports.* At most one transaction is open, and only it holds what is not
committed (`ImporterInv`); what it created has the title of its row, which
neither another of its rows nor an earlier import has (`IsNew`), and since
nobody else can commit entities of an import meanwhile, that is still true at the COMMIT.
No summary that anybody loaded, however old, lists an entity of the school, and
after one execution the summary in the row lists all of the import (`RefsInv`).
If operations did not overlap, whoever rolls back loaded that summary, and
whatever of the import is left while it destroys is still on its list or was
skipped (`OrderInv`). The refinement needs one invariant more, `LedgerInv`: the rows
an execution goes through were not executed when it began and cannot be since,
because only a COMMIT executes rows and a second `Begin` waits for the first; without
races they are all that is ready, and each row that is done has its entity, in
the school or in the transaction. `SchoolKeepsItsOwn` is proved and therefore in
no run.

*Offline queue.* All three properties have one invariant, `Calm`, which holds
until the queue is written during a flush: one flush is under way at a time;
what it has yet to send and what it keeps are disjoint parts of the array,
what is in neither was applied or refused (`forsaken` has the latter), what is still
to be sent was not applied unless a request for it failed, and it is in the order in which it was queued
(`FlushInv`). Between two flushes the same is said of the array (`QueueInv`).

*Submissions.* A run decides on rows that it loaded long ago. What makes that
right is that a write of the run meets only rows without work or is refused:
`CalmInv` says that status and work agree in the table and in every copy, and that a
student who resubmits missing work still finds it missing; `DraftInv` that a draft a run
has found is still one and no other run's, and that what it is about to commit is as it
found it, absent or a draft; `WrittenInv` that a row is locked
by one run at most; `MarkedInv` that whoever may replace work is about a student
who was once marked.

*Unit plans.* `SubmissionInv` extends the property to everything that can take a
plan out of draft later: what a request loaded, where it is, and the approvals
that a reviewer may find. For `PlansAgree`, `OrderInv` says what the only request
at work knows (`Knows`: what it loaded is still so) and what it has done of its
part, and that otherwise exactly one approval is pending if the plan awaits one
and none if it does not (`Settled`), which is stated without counting.

*Packs.* `HoldsInv` says what a request at each point may remember of releases
that change under it (what was loaded exists; what was loaded as published was
published; whoever is about to set a default has a version that was available),
`AvailableInv` that the default and every cached pack was available once.
`CountInv` bounds the counters by the admins that have counted. `OrderInv` is the
argument of the cache: as long as admins come one after the other, nobody's
counter and no entry is ahead of the settings; unless an admin is *dirty*
(has changed releases, or may have, and not counted yet), the entries under the
present counter, and what a reader is about to fill in under it, are current. The
counter that makes the admin clean again has no entries yet. `ResolverInv` is the same
one cache higher: unless an admin is *late* with the resolver's counter, or it is
torn, every reader who knows the present counter resolves the present default and
fetches it under a counter of the store (not always the present one, for imports of
other versions count that on) whose entry, and whose next entry, is current.

Only model-checked: liveness (fairness and `ENABLED` are beyond the prover). What
`RequestLog` promises of liveness is not
proved either; the refinements are of its safety.

## 5. Findings

With a run:

* **An autosave is not an optimistic lock** (`section_autosave_service.rb:14`,
  run `autosave_overwrite`). The base is compared before the row is locked, with
  the document as it was loaded; `create_version!` reloads under the lock and
  does not compare again. Two editors on one base are both told `saved`, and the
  first one's text is no longer current. `session_service.rb:26` calls
  `base_version_id` the optimistic lock. The version it overwrote is still in
  the history (theorem `HistoryAlwaysGrows`).
* **A mutation that is queued during a flush is lost**
  (`offlineMutationQueue.ts:149`, run `lost_mutation`). The flush reads the array,
  awaits the server, and writes back what it kept of the array it had read.
  `docs/ib/phase8/mobile-offline-and-search-hardening.md:53` calls the queues
  explicit and recoverable.

Departures that the models show and that no doc of the repository contradicts;
each is why a property above has the condition it has:

* A graded attempt may keep a wrong score (`quiz_attempt.rb:38`): of two gradings
  at once the one that summed first may write last. An attempt whose `submit!` died after
  its first statement stays ungraded (`quiz_attempt.rb:24`). In both cases the next
  grading that runs alone puts it right (`GradingAloneSettles`), but nothing starts one.
* `grade_all` awards points outside of what an item is worth
  (`quiz_attempts_controller.rb:52-61`), negative ones included, which `grade` refuses
  (`attempt_answer_grading_controller.rb:11`). Two gradings at once may both find no
  notification and create one each (`quiz_attempts_controller.rb:80`).
* Answers change after submission (`attempt_answers_controller.rb:18`): the status
  is checked when a save begins, and the quiz page saves on a timer.
* The token that makes publishing idempotent is made of times cut to the second
  (`dispatch_service.rb:38`). If the story last changed in the very second in which it
  was published, an item that is taken back to its old state has its old token again:
  however often it is published then, it is reported as published without being so,
  until the story or the item's time is edited (`Collides`).
* A job that outruns its registration leaves a record that says `queued`
  (`operational_job_tracker.rb:18`).
* A batch says `executing` before its job is queued (`import_batch_service.rb:142-143`). If
  `perform_later` raises, the request answers an error and the batch says `executing`, with
  no job and nothing to take the status back, until somebody executes it again.
* The stored cursor of an import is of no use: an execution resets it and goes
  by the status of the rows (`execution_service.rb:19`, `:75`). A second
  execution forgets what the first created (`execution_service.rb:44`), so a
  roll back does not undo it. A roll back that races an execution may destroy an
  entity that the execution has found and not changed (`execution_service.rb:145`,
  `:247`): the row then says executed and its entity is gone.
* A flush drops a mutation that got a 4xx and tells nobody
  (`offlineMutationQueue.ts:135`). One that got a 5xx is kept if the flush goes
  through, and lost if a later item of it meets a network failure: what is written
  back begins at that item (`offlineMutationQueue.ts:142-145`).
* Only the return of the connection (`SwrProvider.tsx:17-24`) or a click
  (`DocumentEditor.tsx:461`) flushes the queue: what a flush kept after a 5xx, and what
  was queued after a failure while the browser was online, waits for one of them.
* Two submissions of a plan at once leave two pending approvals
  (`approval.rb:34`); of two reviewers at once the second overwrites the first
  (`approval.rb:18`), and the plan follows whoever writes last.
* A student who has a draft cannot submit (`submissions_controller.rb:122`) until a run has
  marked it missing, although `Submission#submit!`, which nothing calls, would take it.
  If two runs read the same draft and the student submits between their commits, the
  second marks the new work missing (`missing_work_job.rb:46`).
* When a teacher grades work that was not submitted, a run undoes the
  grade; when a teacher grades missing work while its student submits it, the run may
  mark the new work missing, which is not what `spec/jobs/missing_work_job_spec.rb`
  describes; of a student who submits missing work twice at once the later one stays.
* The resolver's counter is incremented before the store's
  (`curriculum_profile_lifecycle_service.rb:62`): a reader in between caches an
  old pack under the new counter until it expires. `import!` increments only the
  store's. Two admins at once lose an increment (`curriculum_pack_store.rb:58`).
  `publish!` and `rollback!`, interrupted or at once, may leave two published
  releases.

What holds although it looks doubtful: the attempt limit, despite a lock that
locks nothing for the first attempt and a count that may be stale; the pointer
to the current version, despite renames by requests that loaded the document
long before; the status of an attempt, despite stale writers, because only
changed columns are written; a single publication, despite a token that may
collide; the default of a tenant, despite settings that are written as they were
loaded and a check that reads the cache.

## 6. What is left out and why

Within the modelled components: the workflow transition and the other columns of
a document's PATCH; the deletion that rolls a migration back; the time window of
a quiz (`unlock_at`, `lock_at`), its deletion, and edits of an accommodation or
of quiz items; percentages, feedback, audit events, and a student who turned
quiz notifications off (then no row is created and `notify_quiz_graded!` never
finds one). Of publishing: the creation and listing of items. Of the tracker:
metadata, events and the search for stuck jobs. Of imports: parsing the file,
the field mappings and what an entity contains. Of unit plans: the numbering of
versions, whose lock is that of a document's. Of submissions: rubric scores,
grades as numbers, deletion. Of packs: the fetch of the latest version, the index
of packs, the candidates above the tenant's default, feature flags and the push
of a district. Authorization is reduced to the part that reads mutable state.

The editor in the browser (`DocumentEditor.tsx`, `useSectionAutosave.ts`) is a
debounced timer and a request that is not awaited; every autosave it can send is
an action of `DocumentVersions`. Sessions and tokens (rotation of a mobile refresh
token, refresh of a Google token) are small machines apart from the school's
records, and next in the plan. Notifications are modelled as the one row that
grading creates; delivery and the dedupe key are not.

Components without state worth a model: the AI gateway (a proxy), the Classroom,
OneRoster, LTI and SAML adapters (mappings to services outside the repository),
alerts, backups and health checks (I/O), search and analytics (queries over
views), tenant provisioning, web pages and the shared UI (views), iOS
applications (clients), `packages/contracts` and `infrastructure` (data and
configuration). They are most of the lines of the repository, which is why the
modelled share of all its lines is small although the concurrent core is covered.

## 7. The plan

*Done*: the modules of section 2 with their runs, and the eight proof modules:
every safety property and action property that a passing run checks is proved,
and the three refinements of an abstract specification.

Next, in this order:

1. `Tokens`: two refreshes with one mobile refresh token, a revocation between them,
   and the refresh of a Google token under a row lock across an HTTP call.
2. `EditorAutosave` as a client of `DocumentVersions`: several saves in flight, the
   base that is never refreshed, the restored draft.
3. `Notifications` with a dedupe key.

## 8. How to run it

```
tlc -config MCDocumentVersions.cfg MCDocumentVersions.tla     # any row of PROJECT.json "runs"
tlapm DocumentVersionsProofs.tla                              # any *Proofs module
```

No run takes much more than two minutes with two workers; a proof module takes one
to three minutes.
