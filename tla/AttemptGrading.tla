--------------------------- MODULE AttemptGrading ---------------------------
(***************************************************************************)
(* One quiz attempt after it was started: the student saves answers and    *)
(* submits, teachers grade, and nothing is locked.                         *)
(*                                                                         *)
(* A request loads the attempt, decides on what it loaded, and then runs a *)
(* series of statements that commit one by one: neither submit! nor        *)
(* calculate_score! opens a transaction.  ActiveRecord writes only the     *)
(* columns that differ from the object as it was loaded.  A step is what a *)
(* request does up to and including its next statement.  The items of the  *)
(* quiz, and their points, do not change meanwhile.                        *)
(***************************************************************************)
EXTENDS Integers, FiniteSetsExt

(* A definition whose name carries a suffix (Changed_WholeRow) is a         *)
(* plausible bug of the definition that follows it; no other definition     *)
(* uses it.                                                                 *)

CONSTANTS
  Calls,         \* the HTTP requests: of the student, or of a teacher
  Questions,     \* the questions of the quiz
  AutoGradable,  \* those that auto_grade! grades
  MaxPoints,     \* the points of each quiz item
  Sent,          \* the points that teachers send, of whatever sign
  Null           \* no points, no score

ASSUME GradingAssumption ==
  /\ IsFiniteSet(Questions) /\ AutoGradable \subseteq Questions
  /\ MaxPoints \in Nat \ {0} /\ Sent \subseteq Int /\ Null \notin Int

VARIABLES
  attempt,  \* the committed row: status and score (Null: not scored)
  answers,  \* the committed answers, by question
  notices,  \* how many quiz_graded notifications the student was sent
  at,       \* where each request is, or what it was answered
  req,      \* what each request was sent, loaded and computed
  crowd,    \* history: requests that graded at the same time as another
  unsettled \* history: since two graded at once, or one died grading, none graded alone

gradingVars == <<attempt, answers, notices, at, req, crowd, unsettled>>
history     == <<crowd, unsettled>>

Texts    == {"right", "wrong"}
AttemptStatuses == {"in_progress", "submitted", "graded"}
Points   == {Null, 0, MaxPoints} \cup Sent
Scores   == {Null} \cup Int
Answer   == [text : Texts, points : Points]
Nothing  == [q \in {} |-> "right"]

Grading == {"submit", "auto", "grade", "owner", "award", "sum", "complete",
            "score", "notify", "create"}
\* A request that grades, from its submission or first award to its score.
Unscored == {"auto", "grade", "award", "sum", "complete", "score"}
Working == Grading \cup {"save", "write"}
Outcomes == {"ok", "refused", "failed"}

Answered == DOMAIN answers

GradingInit ==
  /\ attempt = [status |-> "in_progress", score |-> Null]
  /\ answers = Nothing
  /\ notices = 0
  /\ at = [r \in Calls |-> "idle"]
  /\ req = [r \in Calls |-> [kind |-> "none", own |-> attempt, todo |-> Nothing,
                             row |-> Nothing, sum |-> 0, all |-> FALSE]]
  /\ crowd = {} /\ unsettled = FALSE

MoveTo(r, l) == at' = [at EXCEPT ![r] = l]

Only(q, value) == [p \in {q} |-> value]

\* The SELECT of the answer to question q.
Found(q) == Only(q, IF q \in Answered THEN answers[q]
                    ELSE [text |-> "none", points |-> Null])

\* A request arrives and loads the attempt, or the answer that it is about.
LoadAttempt(r, kind, next, todo, row) ==
  /\ at[r] = "idle" /\ MoveTo(r, next)
  /\ req' = [req EXCEPT ![r] = [@ EXCEPT !.kind = kind, !.own = attempt,
                                         !.todo = todo, !.row = row]]
  /\ LET others == {s \in Calls : at[s] \in Grading}
     IN  IF next \in Grading /\ others # {}
           THEN crowd' = crowd \cup others \cup {r} /\ unsettled' = TRUE
           ELSE UNCHANGED history
  /\ UNCHANGED <<attempt, answers, notices>>

-----------------------------------------------------------------------------
(* Answers one at a time, each read and then written.                      *)

\* The next answer that the request was sent something for.
FindAnswer(r, from, to) ==
  /\ at[r] = from /\ MoveTo(r, to)
  /\ \E q \in DOMAIN req[r].todo :
       req' = [req EXCEPT ![r].row = Found(q)]
  /\ UNCHANGED <<attempt, answers, notices, history>>

\* The request has done its part of question q, and goes on with the others.
Done(r, q, next, after) ==
  LET rest == [p \in DOMAIN req[r].todo \ {q} |-> req[r].todo[p]]
  IN  /\ req' = [req EXCEPT ![r].todo = rest, ![r].row = Nothing]
      /\ MoveTo(r, IF DOMAIN rest = {} THEN after ELSE next)

\* AttemptAnswersController#create: save! on the answers that were sent, while
\* the attempt is in progress, and on none of the others.
MaySave(status) == status = "in_progress"

BeginSave(r) ==
  \E qs \in SUBSET Questions \ {{}} : \E texts \in [qs -> Texts] :
    LoadAttempt(r, "save", IF MaySave(attempt.status) THEN "save" ELSE "refused",
         texts, Nothing)

FindSaved(r) == FindAnswer(r, "save", "write")

\* save! inserts the answer or updates its text; an answer that a rival has
\* inserted since raises, and the rest of the payload is not saved.
WriteAnswer(r) ==
  /\ at[r] = "write"
  /\ \E q \in DOMAIN req[r].row :
       LET found == req[r].row[q]
           text  == req[r].todo[q]
       IN  IF found.text = "none" /\ q \in Answered
             THEN MoveTo(r, "refused") /\ UNCHANGED <<answers, req>>
             ELSE /\ answers' =
                       IF found.text = "none"
                         THEN [p \in Answered \cup {q} |->
                                 IF p \in Answered THEN answers[p]
                                 ELSE [text |-> text, points |-> Null]]
                         ELSE IF found.text = text THEN answers
                         ELSE [answers EXCEPT ![q].text = text]
                  /\ Done(r, q, "save", "ok")
  /\ UNCHANGED <<attempt, notices, history>>

-----------------------------------------------------------------------------
(* QuizAttempt#submit!                                                     *)

BeginSubmit(r) == LoadAttempt(r, "submit", "submit", Nothing, Nothing)

Changed_WholeRow(own, new) == new
Changed(own, new) == [c \in {"status", "score"} |->
                        IF new[c] = own[c] THEN attempt[c] ELSE new[c]]

\* update! of the attempt that the request holds.
UpdateAttempt(r, new) ==
  /\ attempt' = Changed(req[r].own, new)
  /\ req' = [req EXCEPT ![r].own = new]

MarkSubmitted(r) ==
  /\ at[r] = "submit"
  /\ IF req[r].own.status = "in_progress"
       THEN /\ UpdateAttempt(r, [req[r].own EXCEPT !.status = "submitted"])
            /\ MoveTo(r, "auto")
       ELSE MoveTo(r, "refused") /\ UNCHANGED <<attempt, req>>
  /\ UNCHANGED <<answers, notices, history>>

\* find_each reads the answers in one batch; each that can be graded is left to
\* grade by the text it had then.
ReadAnswers(r) ==
  /\ at[r] = "auto" /\ req[r].row = Nothing
  /\ LET auto == Answered \cap AutoGradable
     IN  /\ req' = [req EXCEPT ![r].row = [q \in auto |-> answers[q]],
                               ![r].todo = [q \in auto |-> IF answers[q].text = "right"
                                                           THEN MaxPoints ELSE 0]]
         /\ IF auto = {} THEN MoveTo(r, "sum") ELSE UNCHANGED at
  /\ UNCHANGED <<attempt, answers, notices, history>>

\* answers.update!(points_awarded:) of an object found in row.
Award(r, q) ==
  answers' = IF req[r].todo[q] = req[r].row[q].points THEN answers
             ELSE [answers EXCEPT ![q].points = req[r].todo[q]]

AutoGrade(r) ==
  /\ at[r] = "auto" /\ req[r].row # Nothing
  /\ \E q \in DOMAIN req[r].todo :
       LET rest == DOMAIN req[r].todo \ {q}
       IN  /\ Award(r, q)
           /\ req' = [req EXCEPT ![r].todo = [p \in rest |-> req[r].todo[p]]]
           /\ IF rest = {} THEN MoveTo(r, "sum") ELSE UNCHANGED at
  /\ UNCHANGED <<attempt, notices, history>>

-----------------------------------------------------------------------------
(* Grading by a teacher: of one answer, or of several with grade_all.      *)

\* grade_all checks neither that there is a grade nor its bounds.
BeginGradeAll(r) ==
  \E qs \in SUBSET Answered : \E grades \in [qs -> Sent \cup {Null}] :
    LoadAttempt(r, "grade_all", IF qs = {} THEN "sum" ELSE "grade", grades, Nothing)

\* attempt_answers/:id/grade finds the answer first and then its attempt.
BeginGrade(r) ==
  \E q \in Answered : \E grade \in Sent :
    LoadAttempt(r, "grade", "owner", Only(q, grade), Found(q))

OutOfBounds_TooMany(points) == points > MaxPoints
OutOfBounds(points) == points < 0 \/ points > MaxPoints

LoadOwner(r) ==
  /\ at[r] = "owner"
  /\ req' = [req EXCEPT ![r].own = attempt]
  /\ \E q \in DOMAIN req[r].todo :
       MoveTo(r, IF OutOfBounds(req[r].todo[q]) THEN "refused" ELSE "award")
  /\ UNCHANGED <<attempt, answers, notices, history>>

FindGraded(r) == FindAnswer(r, "grade", "award")

WriteGrade(r) ==
  /\ at[r] = "award"
  /\ \E q \in DOMAIN req[r].row : Award(r, q) /\ Done(r, q, "grade", "sum")
  /\ UNCHANGED <<attempt, notices, history>>

-----------------------------------------------------------------------------
(* QuizAttempt#calculate_score!: two SELECTs and an UPDATE                 *)

Graded == {q \in Answered : answers[q].points # Null}
Awarded(qs) == [q \in qs |-> answers[q].points]
SumOf(points) == MapThenSumSet(LAMBDA q : points[q], DOMAIN points)

Total == SumOf(Awarded(Graded))

SumPoints_AutoOnly(r) ==
  /\ at[r] = "sum" /\ MoveTo(r, "complete")
  /\ req' = [req EXCEPT ![r].sum = SumOf(Awarded(Graded \cap AutoGradable))]
  /\ UNCHANGED <<attempt, answers, notices, history>>
SumPoints(r) ==
  /\ at[r] = "sum" /\ MoveTo(r, "complete")
  /\ req' = [req EXCEPT ![r].sum = Total]
  /\ UNCHANGED <<attempt, answers, notices, history>>

NoneUngraded == Graded = Answered

CheckComplete(r) ==
  /\ at[r] = "complete" /\ MoveTo(r, "score")
  /\ req' = [req EXCEPT ![r].all = NoneUngraded]
  /\ UNCHANGED <<attempt, answers, notices, history>>

WriteScore(r) ==
  /\ at[r] = "score"
  /\ UpdateAttempt(r, [status |-> IF req[r].all THEN "graded" ELSE req[r].own.status,
                       score  |-> req[r].sum])
  /\ MoveTo(r, IF req[r].kind = "grade" THEN "ok" ELSE "notify")
  /\ unsettled' = (unsettled /\ r \in crowd)
  /\ UNCHANGED <<answers, notices, crowd>>

\* notify_quiz_graded!: once, unless the notification exists.
CheckNotice(r) ==
  /\ at[r] = "notify"
  /\ MoveTo(r, IF req[r].own.status = "graded" /\ notices = 0 THEN "create" ELSE "ok")
  /\ UNCHANGED <<attempt, answers, notices, req, history>>

CreateNotice(r) ==
  /\ at[r] = "create" /\ MoveTo(r, "ok")
  /\ notices' = notices + 1
  /\ UNCHANGED <<attempt, answers, req, history>>

\* The thread dies between two statements; what it committed stays.
CallDies(r) ==
  /\ at[r] \in Working /\ MoveTo(r, "failed")
  /\ unsettled' = (unsettled \/ at[r] \in Unscored)
  /\ UNCHANGED <<attempt, answers, notices, req, crowd>>

-----------------------------------------------------------------------------
CallArrives(r) == \/ BeginSave(r) \/ BeginSubmit(r) \/ BeginGradeAll(r) \/ BeginGrade(r)

CallWorks(r) ==
  \/ FindSaved(r) \/ WriteAnswer(r) \/ MarkSubmitted(r) \/ ReadAnswers(r)
  \/ AutoGrade(r) \/ FindGraded(r) \/ LoadOwner(r) \/ WriteGrade(r) \/ SumPoints(r)
  \/ CheckComplete(r) \/ WriteScore(r) \/ CheckNotice(r) \/ CreateNotice(r)

GradingNext == \E r \in Calls : CallArrives(r) \/ CallWorks(r) \/ CallDies(r)

GradingSpec == GradingInit /\ [][GradingNext]_gradingVars
-----------------------------------------------------------------------------
\* A score is a number, and an answer has no points that its item does not
\* allow unless grade_all, which alone does not check them, was asked for
\* (attempt_answer_grading_controller.rb:11, quiz_attempts_controller.rb:52-61,
\* attempt_answer.rb:13-25).
GradingTypeOK ==
  /\ attempt \in [status : AttemptStatuses, score : Scores]
  /\ Answered \subseteq Questions /\ answers \in [Answered -> Answer]
  /\ \A q \in Answered : answers[q].points \in {Null} \cup 0 .. MaxPoints
                         \/ \E r \in Calls : req[r].kind = "grade_all"
  /\ notices \in Nat
  /\ at \in [Calls -> {"idle"} \cup Working \cup Outcomes]
  /\ \A r \in Calls :
       /\ req[r].own \in [status : AttemptStatuses, score : Scores]
       /\ DOMAIN req[r].todo \subseteq Questions
       /\ DOMAIN req[r].row \subseteq Questions
       /\ req[r].sum \in Int
  /\ crowd \subseteq Calls /\ unsettled \in BOOLEAN

\* An attempt that was submitted or graded is never in progress again and a
\* score is never withdrawn, also by a request that loaded the attempt long
\* ago: update! writes only what changed (quiz_attempt.rb:17-25, 37-44).
NothingIsReopened ==
  [][/\ attempt'.status = "in_progress" => attempt.status = "in_progress"
     /\ attempt'.score = Null => attempt.score = Null]_gradingVars

\* What a request that grades alone leaves behind is settled, and stays settled
\* whatever is saved later: the score is the sum of the points and an attempt
\* whose answers are all graded is marked so.  It repairs what requests that died
\* halfway or graded at the same time left before it.  And unless two ever
\* graded at the same time the student was told at most once
\* (quiz_attempt.rb:17-54, quiz_attempts_controller.rb:78-99).
GradingAloneSettles ==
  /\ ~ unsettled /\ attempt.status # "in_progress"
       /\ (\A r \in Calls : at[r] \notin Unscored)
     => attempt.score = Total /\ (NoneUngraded => attempt.status = "graded")
  /\ crowd = {} => notices <= 1
=============================================================================
