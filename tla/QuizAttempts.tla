---------------------------- MODULE QuizAttempts ----------------------------
(***************************************************************************)
(* The attempts of one student at one quiz, and the requests that race to  *)
(* start one (a double click, two tabs, a retry after a lost answer) while *)
(* teachers publish, close and edit the quiz.                              *)
(*                                                                         *)
(* QuizAttemptsController#create reads the attempt numbers with SELECT ... *)
(* FOR UPDATE in a transaction at READ COMMITTED.  The statement sees the  *)
(* rows committed when it begins and then waits for their locks: a start   *)
(* that waited still numbers its attempt from the rows it saw before it    *)
(* waited, and the first start of all finds no row to lock.  What keeps    *)
(* the numbers apart is the unique index, not the lock.                    *)
(*                                                                         *)
(* A step is what a request does up to and including its next statement.   *)
(***************************************************************************)
EXTENDS Naturals, FiniteSets

CONSTANTS
  Requests,    \* the HTTP requests: of the student, or of a teacher
  MaxAllowed,  \* a bound on attempts_allowed
  Extra,       \* extra_attempts of the student's QuizAccommodation
  NoOne        \* the attempts are not locked

ASSUME ConstantsAssumption ==
  /\ NoOne \notin Requests
  /\ MaxAllowed \in Nat \ {0}
  /\ Extra \in Nat

VARIABLES
  quiz,      \* the committed row of the quiz: status and attempts_allowed
  attempts,  \* attempt_number -> the request that started the attempt
  lock,      \* the request that holds the row locks of the attempts
  pc,        \* where each request is, or what it was answered
  loaded,    \* the quiz as each request loaded it
  param,     \* attempts_allowed in a teacher's PATCH
  seen,      \* the last attempt_number in the snapshot of each start
  highest    \* history: the most attempts the quiz ever allowed the student

vars == <<quiz, attempts, lock, pc, loaded, param, seen, highest>>

Statuses == {"draft", "published", "closed"}
Quizzes  == [status : Statuses, allowed : 1 .. MaxAllowed]
Begun    == {"start", "waiting", "numbered", "unique", "allowed", "committed"}
Edits    == {"publish", "close", "change"}
Refusals == {"forbidden", "taken", "limit", "refused", "edited"}
Replies  == Refusals \cup {"created", "failed"}

Started == DOMAIN attempts
Latest  == Cardinality(Started)

Init ==
  /\ quiz \in [status : {"draft", "published"}, allowed : 1 .. MaxAllowed]
  /\ attempts = [n \in {} |-> NoOne]
  /\ lock = NoOne
  /\ pc = [r \in Requests |-> "idle"]
  /\ loaded = [r \in Requests |-> quiz]
  /\ param = [r \in Requests |-> 1]
  /\ seen = [r \in Requests |-> 0]
  /\ highest = quiz.allowed + Extra

GoTo(r, l) == pc' = [pc EXCEPT ![r] = l]

\* Every action loads the quiz first (set_quiz); the object ages from then on.
Load(r, next) ==
  /\ pc[r] = "idle" /\ GoTo(r, next)
  /\ loaded' = [loaded EXCEPT ![r] = quiz]
  /\ UNCHANGED <<quiz, attempts, lock, seen, highest>>

-----------------------------------------------------------------------------
(* QuizAttemptsController#create                                           *)

BeginStart(r) == Load(r, "start") /\ UNCHANGED param

\* The snapshot of SELECT attempt_number ... FOR UPDATE.
ReadNumbers(r) ==
  /\ pc[r] = "start" /\ GoTo(r, "waiting")
  /\ \E m \in {0} \cup Started :
       /\ \A n \in Started : n <= m
       /\ seen' = [seen EXCEPT ![r] = m]
  /\ UNCHANGED <<quiz, attempts, lock, loaded, param, highest>>

Lock(r) == IF seen[r] = 0 THEN UNCHANGED lock ELSE lock = NoOne /\ lock' = r

Unlock_Leaked(r) == UNCHANGED lock
Unlock(r) == lock' = IF lock = r THEN NoOne ELSE lock

\* The statement returns with the rows of its snapshot locked; authorize then
\* looks at the quiz as it was loaded, and raising rolls the transaction back.
LockAttempts(r) ==
  /\ pc[r] = "waiting"
  /\ seen[r] # 0 => lock = NoOne
  /\ IF loaded[r].status = "published" THEN Lock(r) /\ GoTo(r, "numbered")
                                       ELSE GoTo(r, "forbidden") /\ UNCHANGED lock
  /\ UNCHANGED <<quiz, attempts, loaded, param, seen, highest>>

NextNumber_Reused(r) == IF seen[r] = 0 THEN 1 ELSE seen[r]
NextNumber(r) == seen[r] + 1

IndexRefuses_NoIndex(r) == FALSE
IndexRefuses(r) == NextNumber(r) \in Started

\* validates :attempt_number, uniqueness: a SELECT of its own.
CheckNumber(r) ==
  /\ pc[r] = "numbered"
  /\ IF NextNumber(r) \in Started THEN GoTo(r, "taken") /\ Unlock(r)
                                  ELSE GoTo(r, "unique") /\ UNCHANGED lock
  /\ UNCHANGED <<quiz, attempts, loaded, param, seen, highest>>

LimitReached_OffByOne(r) == Latest > loaded[r].allowed + Extra
LimitReached(r) == Latest >= loaded[r].allowed + Extra

\* validate :within_attempt_limit: another SELECT, against the loaded quiz.
CheckLimit(r) ==
  /\ pc[r] = "unique"
  /\ IF LimitReached(r) THEN GoTo(r, "limit") /\ Unlock(r)
                        ELSE GoTo(r, "allowed") /\ UNCHANGED lock
  /\ UNCHANGED <<quiz, attempts, loaded, param, seen, highest>>

\* INSERT and COMMIT; the unique index waits for a rival that inserted the same
\* number and then raises RecordNotUnique, which nothing rescues.
InsertAttempt(r) ==
  /\ pc[r] = "allowed" /\ Unlock(r)
  /\ IF IndexRefuses(r)
       THEN GoTo(r, "taken") /\ UNCHANGED attempts
       ELSE /\ attempts' = [n \in Started \cup {NextNumber(r)} |->
                              IF n = NextNumber(r) THEN r ELSE attempts[n]]
            /\ GoTo(r, "committed")
  /\ UNCHANGED <<quiz, loaded, param, seen, highest>>

Respond(r) ==
  /\ pc[r] = "committed" /\ GoTo(r, "created")
  /\ UNCHANGED <<quiz, attempts, lock, loaded, param, seen, highest>>

-----------------------------------------------------------------------------
(* QuizzesController: publish, close, update                               *)

BeginPublish(r) == Load(r, "publish") /\ UNCHANGED param
BeginClose(r)   == Load(r, "close") /\ UNCHANGED param
BeginChange(r)  == /\ Load(r, "change")
                   /\ \E n \in 0 .. MaxAllowed : param' = [param EXCEPT ![r] = n]

\* publish!, close! and update check and compare the loaded quiz, and write
\* only the column that differs from it.
Edited(r) ==
  CASE pc[r] = "publish" -> [quiz EXCEPT !.status = "published"]
    [] pc[r] = "close"   -> [quiz EXCEPT !.status = "closed"]
    [] pc[r] = "change"  -> IF param[r] = loaded[r].allowed THEN quiz
                            ELSE [quiz EXCEPT !.allowed = param[r]]

EditIsLegal_Unvalidated(r) == TRUE
EditIsLegal(r) == /\ pc[r] = "publish" => loaded[r].status = "draft"
                  /\ pc[r] = "close"   => loaded[r].status = "published"
                  /\ pc[r] = "change"  => param[r] > 0

WriteQuiz(r) ==
  /\ pc[r] \in Edits
  /\ IF EditIsLegal(r) THEN quiz' = Edited(r) /\ GoTo(r, "edited")
                       ELSE UNCHANGED quiz /\ GoTo(r, "refused")
  /\ highest' = IF quiz'.allowed + Extra > highest THEN quiz'.allowed + Extra
                                                   ELSE highest
  /\ UNCHANGED <<attempts, lock, loaded, param, seen>>

\* The thread dies: PostgreSQL rolls back and unlocks, the client learns nothing.
Crash(r) ==
  /\ pc[r] \in Begun \cup Edits
  /\ GoTo(r, "failed") /\ Unlock(r)
  /\ UNCHANGED <<quiz, attempts, loaded, param, seen, highest>>

-----------------------------------------------------------------------------
Arrivals(r) == \/ BeginStart(r) \/ BeginPublish(r) \/ BeginClose(r)
               \/ BeginChange(r)

Work(r) == \/ ReadNumbers(r) \/ LockAttempts(r) \/ CheckNumber(r)
           \/ CheckLimit(r) \/ InsertAttempt(r) \/ Respond(r) \/ WriteQuiz(r)

Next == \E r \in Requests : Arrivals(r) \/ Work(r) \/ Crash(r)

Spec == Init /\ [][Next]_vars

\* A thread that can run runs, and the database serves those that wait for a
\* row lock in turn.
FairSpec == Spec /\ \A r \in Requests : SF_vars(Work(r))
-----------------------------------------------------------------------------
TypeOK ==
  /\ quiz \in Quizzes
  /\ Started \subseteq Nat /\ attempts \in [Started -> Requests]
  /\ lock \in Requests \cup {NoOne}
  /\ pc \in [Requests -> {"idle"} \cup Begun \cup Edits \cup Replies]
  /\ loaded \in [Requests -> Quizzes]
  /\ param \in [Requests -> 0 .. MaxAllowed]
  /\ seen \in [Requests -> Nat]
  /\ highest \in Nat

\* However starts race, the attempts of the student are numbered 1, 2, 3 ...
\* and there are never more of them than the quiz once allowed, although the
\* limit is checked against a count that is stale when the row is inserted
\* (quiz_attempts_controller.rb:13-34, quiz_attempt.rb:56-65).
AttemptsStayWithinTheLimit ==
  /\ Started = 1 .. Latest
  /\ Latest <= highest

\* A start fails on its number only when a rival took it: of the starts that
\* race, one gets its attempt.
OnlyARivalTakesTheNumber ==
  \A r \in Requests :
    pc[r] = "taken" => \E n \in Started : n > seen[r] /\ attempts[n] # r

\* Every request that arrives is answered: nobody waits for the row locks forever.
EveryRequestIsAnswered ==
  \A r \in Requests : pc[r] # "idle" ~> pc[r] \in Replies
-----------------------------------------------------------------------------
(* The attempts as the log of what the requests asked for.                 *)
Log == [n \in 1 .. Latest |-> [by |-> attempts[n], entry |-> "attempt"]]

Told == [r \in Requests |-> IF pc[r] = "created" THEN "saved"
                            ELSE IF pc[r] = "failed" THEN "unknown"
                            ELSE IF pc[r] \in Refusals THEN "refused" ELSE "none"]

Abstract == INSTANCE RequestLog
              WITH Entries <- {"attempt"}, log <- Log, answer <- Told

\* A start makes at most one attempt, "created" is said of an attempt that
\* exists and a refusal of a start that made none.
ImplementsRequestLog == Abstract!LogSpec
=============================================================================
