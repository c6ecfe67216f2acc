------------------------------ MODULE Submissions ------------------------------
(***************************************************************************)
(* The submissions to one published assignment: students submit, teachers  *)
(* grade and return, and a run marks as missing who did not submit.        *)
(*                                                                         *)
(* A request decides on the row as it loaded it and writes the columns that*)
(* it changes.  A run reads the rows of the class first and then writes    *)
(* them in one transaction: what it wrote is locked, and seen by no other, *)
(* until it commits.  A step goes up to and including the next statement.  *)
(***************************************************************************)
EXTENDS Naturals

(* A definition whose name carries a suffix (Skipped_MissingOnly) is a      *)
(* plausible bug of the definition that follows it; no other definition     *)
(* uses it.                                                                 *)

CONSTANTS
  Requests,   \* HTTP requests and runs of the job, each arrives once
  Students,   \* the students enrolled in the course
  None        \* no request

ASSUME ConstantsAssumption == None \notin Requests

VARIABLES
  row,      \* the committed submission of each student
  pc,       \* where each request or run is, or how it ended
  loaded,   \* the rows it is about, as it loaded them
  todo,     \* the students that a run has not come to yet
  written,  \* the students whose rows a run has written and not committed
  marked,   \* history: students whose submission was once marked missing
  calm      \* history: no work was graded before it was there, no student had two
            \* requests at work at once, and no draft two runs

vars == <<row, pc, loaded, todo, written, marked, calm>>

Statuses == {"draft", "submitted", "graded", "returned", "missing"}
\* work: the request that submitted it; None as long as submitted_at is null.
Absent   == [status |-> "absent", work |-> None]
Draft    == [status |-> "draft", work |-> None]
Rows     == [status : Statuses \ {"draft"}, work : Requests \cup {None}] \cup {Absent, Draft}
Teaching == {"grade", "return"}
Busy     == {"submit", "mark"} \cup Teaching
Ended    == {"done", "failed"}
NoRows   == [s \in {} |-> Absent]

\* No handler makes a draft, but rows with the default of the column may be there.
Init ==
  /\ row \in [Students -> {Absent, Draft}]
  /\ pc = [r \in Requests |-> "idle"]
  /\ loaded = [r \in Requests |-> NoRows]
  /\ todo = [r \in Requests |-> {}] /\ written = [r \in Requests |-> {}]
  /\ marked = {} /\ calm = TRUE

\* It goes on at l, or it ends there, and what it held and knew is gone.
GoTo(r, l) ==
  /\ pc' = [pc EXCEPT ![r] = l]
  /\ loaded' = IF l \in Ended THEN [loaded EXCEPT ![r] = NoRows] ELSE loaded

\* It arrives, and loads the rows of these students.
Arrive(r, l, students) ==
  /\ pc[r] = "idle"
  /\ pc' = [pc EXCEPT ![r] = l]
  /\ loaded' = [loaded EXCEPT ![r] = IF l \in Ended THEN NoRows ELSE [s \in students |-> row[s]]]

About(r) == DOMAIN loaded[r]

\* The row is not locked by another one's transaction.
Free(r, s) == \A j \in Requests \ {r} : s \notin written[j]

-----------------------------------------------------------------------------
(* SubmissionsController#create                                            *)

MaySubmit(s) == row[s].status \in {"absent", "missing"}

ArriveStudent(r) ==
  \E s \in Students :
    /\ Arrive(r, IF MaySubmit(s) THEN "submit" ELSE "failed", {s})
    /\ calm' = (calm /\ ~ \E q \in Requests : pc[q] = "submit" /\ s \in About(q))
    /\ UNCHANGED <<row, todo, written, marked>>

\* save: by the validation, and for what that misses by the unique index, a
\* second row for the student is refused.
Taken_Never(r, s) == FALSE
Taken(r, s) == loaded[r][s] = Absent /\ row[s] # Absent

Submitted_Default(r) == [status |-> "draft", work |-> r]
Submitted(r) == [status |-> "submitted", work |-> r]

SaveSubmission(r) ==
  /\ pc[r] = "submit"
  /\ \E s \in About(r) :
       /\ Free(r, s)
       /\ IF Taken(r, s)
            THEN GoTo(r, "failed") /\ UNCHANGED row
            ELSE /\ row' = [row EXCEPT ![s] = Submitted(r)]
                 /\ GoTo(r, "done")
  /\ UNCHANGED <<todo, written, marked, calm>>

-----------------------------------------------------------------------------
(* Grading: SubmissionGradingController and SubmissionsController#update.  *)
(* A grade sets the status, what was not submitted included; returning     *)
(* needs a graded submission, or a grade that is sent along.               *)

ArriveTeacher(r) ==
  \E s \in {s \in Students : row[s] # Absent}, op \in Teaching, sent \in BOOLEAN :
    /\ op = "grade" => sent
    /\ Arrive(r, IF sent \/ row[s].status = "graded" THEN op ELSE "failed", {s})
    /\ UNCHANGED <<row, todo, written, marked, calm>>

\* update! writes the status only when it differs from the loaded one.
WriteVerdict(r) ==
  /\ pc[r] \in Teaching
  /\ LET verdict == IF pc[r] = "grade" THEN "graded" ELSE "returned" IN
     \E s \in About(r) :
       /\ Free(r, s)
       /\ row' = [row EXCEPT ![s].status = IF verdict = loaded[r][s].status THEN @ ELSE verdict]
       /\ calm' = (calm /\ row[s].work # None)
  /\ GoTo(r, "done")
  /\ UNCHANGED <<todo, written, marked>>

-----------------------------------------------------------------------------
(* MissingWorkJob, for this assignment                                     *)

\* A draft that is read by a second run before the first is through.
ShareADraft(r) ==
  \E q \in Requests \ {r}, s \in Students :
    pc[q] = "mark" /\ loaded[q][s] = Draft /\ row[s] = Draft

ArriveRun(r) ==
  /\ Arrive(r, "mark", Students)
  /\ todo' = [todo EXCEPT ![r] = Students]
  /\ calm' = (calm /\ ~ ShareADraft(r))
  /\ UNCHANGED <<row, written, marked>>

Skipped_MissingOnly(found) == found.status = "missing"
Skipped(found) == found.work # None \/ found.status = "missing"

\* The next student, in any order: nothing to do, an UPDATE, or a create!,
\* which raises if there is a row by now, and with it the transaction fails.
MarkNext(r) ==
  /\ pc[r] = "mark"
  /\ \E s \in todo[r] :
       LET found == loaded[r][s] IN
       IF Skipped(found)
         THEN /\ todo' = [todo EXCEPT ![r] = @ \ {s}]
              /\ UNCHANGED <<pc, loaded, written>>
       ELSE /\ Free(r, s)
            /\ IF Taken(r, s)
                 THEN /\ GoTo(r, "failed")
                      /\ todo' = [todo EXCEPT ![r] = {}]
                      /\ written' = [written EXCEPT ![r] = {}]
                 ELSE /\ todo' = [todo EXCEPT ![r] = @ \ {s}]
                      /\ written' = [written EXCEPT ![r] = @ \cup {s}]
                      /\ UNCHANGED <<pc, loaded>>
  /\ UNCHANGED <<row, marked, calm>>

Commit(r) ==
  /\ pc[r] = "mark" /\ todo[r] = {}
  /\ row' = [s \in Students |-> IF s \in written[r] THEN [row[s] EXCEPT !.status = "missing"]
                                                    ELSE row[s]]
  /\ marked' = marked \cup written[r]
  /\ written' = [written EXCEPT ![r] = {}] /\ GoTo(r, "done")
  /\ UNCHANGED <<todo, calm>>

\* The process dies, or the database ends a deadlock of two runs.
Crash(r) ==
  /\ pc[r] \in Busy /\ GoTo(r, "failed")
  /\ todo' = [todo EXCEPT ![r] = {}] /\ written' = [written EXCEPT ![r] = {}]
  /\ UNCHANGED <<row, marked, calm>>

-----------------------------------------------------------------------------
Next == \E r \in Requests :
          \/ ArriveStudent(r) \/ SaveSubmission(r) \/ ArriveTeacher(r) \/ WriteVerdict(r)
          \/ ArriveRun(r) \/ MarkNext(r) \/ Commit(r) \/ Crash(r)

Spec == Init /\ [][Next]_vars
-----------------------------------------------------------------------------
TypeOK ==
  /\ row \in [Students -> Rows]
  /\ pc \in [Requests -> {"idle"} \cup Busy \cup Ended]
  /\ loaded \in [Requests -> UNION {[S -> Rows] : S \in SUBSET Students}]
  /\ todo \in [Requests -> SUBSET Students] /\ written \in [Requests -> SUBSET Students]
  /\ marked \subseteq Students /\ calm \in BOOLEAN

Rank(s) == CASE row[s].status \in {"absent", "draft"} -> 0  [] row[s].status = "missing" -> 1
             [] row[s].status = "submitted" -> 2 [] OTHER -> 3

\* Work that was handed in is never marked missing, and work that was graded
\* or returned never goes back to less, however runs, students and teachers
\* overlap with what they loaded - unless a teacher graded work that was not
\* there, a student submitted twice at once or two runs read the same draft,
\* which the code does not look at: the UPDATE of the second run would overwrite
\* what the student submitted after the first (missing_work_job.rb:39-56,
\* submissions_controller.rb:121-133).
NothingGoesBack ==
  [][calm' => \A s \in Students : Rank(s)' >= Rank(s)]_vars

\* The work of a student is replaced by a second request only if it was marked
\* missing once: of two first submissions, or of a submission and a run, the
\* unique index lets one through (submissions_controller.rb:121-133).
OnlyMissingWorkIsReplaced ==
  [][\A s \in Students \ marked : row[s].work # None => row'[s].work = row[s].work]_vars
=============================================================================
