--------------------------- MODULE UnitPlanApproval ---------------------------
(***************************************************************************)
(* The status of one unit plan and the approvals asked for it: its author  *)
(* submits, publishes, archives and edits it, reviewers approve and reject.*)
(*                                                                         *)
(* Nothing is locked and no operation is a transaction: every request      *)
(* decides on the plan or the approval as it loaded it and commits one     *)
(* statement after the other.  The plan has a current version throughout.  *)
(***************************************************************************)
EXTENDS FiniteSets, Naturals

(* A definition whose name carries a suffix (Refused_DraftToo) is a         *)
(* plausible bug of the definition that follows it; no other definition     *)
(* uses it.                                                                 *)

CONSTANT
  Requests    \* HTTP requests, each arrives once

VARIABLES
  required,   \* the setting approval_required of the tenant, which stays
  status,     \* the committed status of the plan
  approvals,  \* the approval that each submit request created
  pc,         \* where each request is, or how it ended
  loaded,     \* the status of the plan as each request loaded it
  review,     \* the approval a reviewer decides on, as the request loaded it
  submitted,  \* history: a submit request changed the status
  edited,     \* history: an update request changed the status
  orderly     \* history: no requests overlapped or died

vars == <<required, status, approvals, pc, loaded, review, submitted, edited, orderly>>

Statuses  == {"draft", "pending_approval", "published", "archived"}
Decisions == {"pending", "approved", "rejected"}
Author    == {"submit", "publish", "archive", "update"}
Reviewer  == {"approve", "reject"}
Busy  == Author \cup Reviewer \cup
         {"submitted", "creating", "published", "approved", "rejected", "publishing",
          "reverting"}
Ended == {"done", "failed"}

Init ==
  /\ required \in BOOLEAN /\ status = "draft"
  /\ approvals = [r \in Requests |-> "none"]
  /\ pc = [r \in Requests |-> "idle"]
  /\ loaded = [r \in Requests |-> "draft"]
  /\ review = [r \in Requests |-> [of |-> r, status |-> "none"]]
  /\ submitted = FALSE /\ edited = FALSE /\ orderly = TRUE

GoTo(r, l) == pc' = [pc EXCEPT ![r] = l]
Pending == {a \in Requests : approvals[a] = "pending"}

\* update! writes the status only when it differs from the loaded one.
Write(r, s) == status' = IF s = loaded[r] THEN status ELSE s

-----------------------------------------------------------------------------
Alone(r) == \A q \in Requests \ {r} : pc[q] \notin Busy

\* set_unit_plan
ArriveAuthor(r) ==
  /\ pc[r] = "idle"
  /\ \E op \in Author : GoTo(r, op)
  /\ loaded' = [loaded EXCEPT ![r] = status]
  /\ orderly' = (orderly /\ Alone(r))
  /\ UNCHANGED <<status, approvals, review, submitted, edited>>

\* set_approval
ArriveReviewer(r) ==
  /\ pc[r] = "idle"
  /\ \E op \in Reviewer, a \in Requests :
       /\ approvals[a] # "none" /\ GoTo(r, op)
       /\ review' = [review EXCEPT ![r] = [of |-> a, status |-> approvals[a]]]
  /\ orderly' = (orderly /\ Alone(r))
  /\ UNCHANGED <<status, approvals, loaded, submitted, edited>>

\* The workflow engine: what it refuses by the status it finds on the record.
From(op) == CASE op = "submit"  -> {"draft"}
              [] op = "publish" -> {"draft", "pending_approval"}
              [] op = "archive" -> {"published"}
Refused_DraftToo(r) == loaded[r] \notin From(pc[r])
Refused(r) == \/ loaded[r] \notin From(pc[r])
              \/ pc[r] = "publish" /\ required /\ loaded[r] = "draft"
              \/ pc[r] = "submit" /\ ~ required

Refuse(r) ==
  /\ pc[r] \in Author \ {"update"} /\ Refused(r)
  /\ GoTo(r, "failed")
  /\ UNCHANGED <<status, approvals, loaded, review, submitted, edited, orderly>>

Submit(r) ==
  /\ pc[r] = "submit" /\ ~ Refused(r)
  /\ Write(r, "pending_approval") /\ submitted' = TRUE
  /\ GoTo(r, "submitted")
  /\ UNCHANGED <<approvals, loaded, review, edited, orderly>>

\* no_duplicate_pending looks before the INSERT.
NoDuplicate == Pending = {}

ValidateApproval(r) ==
  /\ pc[r] = "submitted"
  /\ GoTo(r, IF NoDuplicate THEN "creating" ELSE "failed")
  /\ UNCHANGED <<status, approvals, loaded, review, submitted, edited, orderly>>

\* The INSERT; the notices to the approvers follow.
CreateApproval(r) ==
  /\ pc[r] = "creating"
  /\ approvals' = [approvals EXCEPT ![r] = "pending"]
  /\ GoTo(r, "done")
  /\ UNCHANGED <<status, loaded, review, submitted, edited, orderly>>

Publish(r) ==
  /\ pc[r] = "publish" /\ ~ Refused(r)
  /\ Write(r, "published") /\ GoTo(r, "published")
  /\ UNCHANGED <<approvals, loaded, review, submitted, edited, orderly>>

\* apply_side_effects: publishing approves whatever is pending.
Resolved_Left == approvals
Resolved == [a \in Requests |-> IF a \in Pending THEN "approved" ELSE approvals[a]]

ApprovePending(r) ==
  /\ pc[r] = "published"
  /\ approvals' = Resolved /\ GoTo(r, "done")
  /\ UNCHANGED <<status, loaded, review, submitted, edited, orderly>>

Archive(r) ==
  /\ pc[r] = "archive" /\ ~ Refused(r)
  /\ Write(r, "archived") /\ GoTo(r, "done")
  /\ UNCHANGED <<approvals, loaded, review, submitted, edited, orderly>>

\* UnitPlansController#update permits the status, whatever it is.
Update(r) ==
  /\ pc[r] = "update"
  /\ \E s \in Statuses : Write(r, s) /\ edited' = (edited \/ s # loaded[r])
  /\ GoTo(r, "done")
  /\ UNCHANGED <<approvals, loaded, review, submitted, orderly>>

-----------------------------------------------------------------------------
(* Reviewers                                                               *)

IsPending(r) == review[r].status = "pending"

\* approve! and reject! commit the decision before the plan is even loaded.
Decide(r) ==
  /\ pc[r] \in Reviewer
  /\ LET verdict == IF pc[r] = "approve" THEN "approved" ELSE "rejected" IN
     IF IsPending(r)
       THEN /\ approvals' = [approvals EXCEPT ![review[r].of] = verdict]
            /\ GoTo(r, verdict)
       ELSE /\ GoTo(r, "failed") /\ UNCHANGED approvals
  /\ UNCHANGED <<status, loaded, review, submitted, edited, orderly>>

LoadPlan(r) ==
  /\ pc[r] \in {"approved", "rejected"}
  /\ loaded' = [loaded EXCEPT ![r] = status]
  /\ GoTo(r, IF pc[r] = "approved" THEN "publishing" ELSE "reverting")
  /\ UNCHANGED <<status, approvals, review, submitted, edited, orderly>>

\* UnitPlan#publish!: the approval stands also when the plan refuses.
PublishApproved(r) ==
  /\ pc[r] = "publishing"
  /\ IF loaded[r] \in From("publish")
       THEN Write(r, "published") /\ GoTo(r, "done")
       ELSE GoTo(r, "failed") /\ UNCHANGED status
  /\ UNCHANGED <<approvals, loaded, review, submitted, edited, orderly>>

Reverted_AsDecided == "rejected"
Reverted == "draft"

Revert(r) ==
  /\ pc[r] = "reverting"
  /\ Write(r, Reverted) /\ GoTo(r, "done")
  /\ UNCHANGED <<approvals, loaded, review, submitted, edited, orderly>>

Crash(r) ==
  /\ pc[r] \in Busy /\ GoTo(r, "failed") /\ orderly' = FALSE
  /\ UNCHANGED <<status, approvals, loaded, review, submitted, edited>>

-----------------------------------------------------------------------------
Step(r) ==
  \/ Refuse(r) \/ Submit(r) \/ ValidateApproval(r) \/ CreateApproval(r)
  \/ Publish(r) \/ ApprovePending(r) \/ Archive(r) \/ Update(r)
  \/ Decide(r) \/ LoadPlan(r) \/ PublishApproved(r) \/ Revert(r)

Next == /\ \E r \in Requests : ArriveAuthor(r) \/ ArriveReviewer(r) \/ Step(r) \/ Crash(r)
        /\ UNCHANGED required

Spec == Init /\ [][Next]_vars
-----------------------------------------------------------------------------
TypeOK ==
  /\ status \in Statuses
  /\ approvals \in [Requests -> Decisions \cup {"none"}]
  /\ pc \in [Requests -> {"idle"} \cup Busy \cup Ended]
  /\ loaded \in [Requests -> Statuses]
  /\ review \in [Requests -> [of : Requests, status : Decisions \cup {"none"}]]
  /\ required \in BOOLEAN /\ submitted \in BOOLEAN /\ edited \in BOOLEAN /\ orderly \in BOOLEAN

\* After requests that did not overlap, die or edit the status, the plan and
\* its approvals agree: it awaits approval exactly when one approval, and no
\* other, is pending (curriculum_workflow_engine.rb:62-101,
\* approvals_controller.rb:12-58).
OrderlyPlansAgree ==
  orderly /\ ~ edited /\ (\A r \in Requests : pc[r] \notin Busy) =>
    Cardinality(Pending) = (IF status = "pending_approval" THEN 1 ELSE 0)

\* Where approval is required, only a submission leads to a status other than
\* draft, however requests interleave: a stale request may publish a plan that
\* was rejected meanwhile, but not one that nobody submitted
\* (curriculum_workflow_engine.rb:53-60).  Requests that edit the status may.
NothingSkipsTheSubmission ==
  required /\ ~ edited /\ status # "draft" => submitted
=============================================================================
