------------------------- MODULE UnitPlanApprovalProofs -------------------------
(***************************************************************************)
(* Theorems about UnitPlanApproval, for any number of authors' and         *)
(* reviewers' requests.                                                    *)
(***************************************************************************)
EXTENDS UnitPlanApproval, FiniteSetTheorems, TLAPS

USE DEF Statuses, Decisions, Author, Reviewer, Busy, Ended

\* Whoever is past the workflow engine or has an approval before it.
PastSubmission == {"submitted", "creating", "published", "approve", "reject", "approved",
                   "rejected", "publishing", "reverting"}

\* Everything that can take the plan out of draft follows a submission: what a
\* request loaded, where it is, and the approvals that a reviewer may find.
SubmissionInv ==
  required /\ ~ edited =>
    /\ status # "draft" => submitted
    /\ \A r \in Requests : loaded[r] # "draft" => submitted
    /\ \A r \in Requests : approvals[r] # "none" => submitted
    /\ \A r \in Requests : pc[r] \in PastSubmission => submitted

\* The plan awaits approval exactly when one approval, and no other, is pending.
Settled == IF status = "pending_approval" THEN \E a \in Requests : Pending = {a}
                                          ELSE Pending = {}

\* What the request that is at work at l, alone, knows and has done of its part.
Knows(r, l) ==
  /\ l \in Author => loaded[r] = status /\ Settled
  /\ l \in Reviewer => review[r].status = approvals[review[r].of] /\ Settled
  /\ l \in {"submitted", "creating", "approved", "rejected", "publishing", "reverting"} =>
       status = "pending_approval" /\ Pending = {}
  /\ l \in {"publishing", "reverting"} => loaded[r] = status
  /\ l = "published" => status = "published"

\* As long as requests do not overlap, die or edit the status.
OrderInv ==
  orderly /\ ~ edited =>
    /\ \A q, r \in Requests : pc[q] \in Busy /\ pc[r] \in Busy => q = r
    /\ \A r \in Requests : pc[r] \in Busy => Knows(r, pc[r])
    /\ (\A r \in Requests : pc[r] \notin Busy) => Settled

IInv == TypeOK /\ SubmissionInv /\ OrderInv

LEMMA InitIInv == Init => IInv
<1> SUFFICES ASSUME Init PROVE IInv
  OBVIOUS
<1>1. TypeOK
  BY DEF Init, TypeOK
<1>2. SubmissionInv
  BY DEF Init, SubmissionInv, PastSubmission
<1>3. OrderInv
  BY DEF Init, OrderInv, Settled, Pending
<1> QED
  BY <1>1, <1>2, <1>3 DEF IInv

\* Each step keeps the types.
LEMMA TypeStep ==
  ASSUME TypeOK, [Next]_vars
  PROVE  TypeOK'
<1>1. CASE UNCHANGED vars
  BY <1>1 DEF vars, TypeOK
<1>2. ASSUME NEW r \in Requests, ArriveAuthor(r) \/ ArriveReviewer(r), UNCHANGED required
      PROVE  TypeOK'
  <2>1. CASE ArriveAuthor(r)
    BY <1>2, <2>1 DEF ArriveAuthor, GoTo, Alone, TypeOK
  <2>2. CASE ArriveReviewer(r)
    BY <1>2, <2>2 DEF ArriveReviewer, GoTo, Alone, TypeOK
  <2> QED
    BY <1>2, <2>1, <2>2
<1>3. ASSUME NEW r \in Requests, Step(r), UNCHANGED required
      PROVE  TypeOK'
  <2>1. CASE Refuse(r)
    BY <1>3, <2>1 DEF Refuse, GoTo, TypeOK
  <2>2. CASE Submit(r)
    BY <1>3, <2>2 DEF Submit, Write, GoTo, TypeOK
  <2>3. CASE ValidateApproval(r)
    BY <1>3, <2>3 DEF ValidateApproval, GoTo, TypeOK
  <2>4. CASE CreateApproval(r)
    BY <1>3, <2>4 DEF CreateApproval, GoTo, TypeOK
  <2>5. CASE Publish(r)
    BY <1>3, <2>5 DEF Publish, Write, GoTo, TypeOK
  <2>6. CASE ApprovePending(r)
    BY <1>3, <2>6 DEF ApprovePending, Resolved, GoTo, TypeOK
  <2>7. CASE Archive(r)
    BY <1>3, <2>7 DEF Archive, Write, GoTo, TypeOK
  <2>8. CASE Update(r)
    <3>1. status' \in Statuses /\ edited' \in BOOLEAN
      BY <2>8 DEF Update, Write, TypeOK
    <3> QED
      BY <1>3, <2>8, <3>1 DEF Update, GoTo, TypeOK
  <2>9. CASE Decide(r)
    <3>1. /\ approvals' \in [Requests -> Decisions \cup {"none"}]
          /\ pc' \in [Requests -> {"idle"} \cup Busy \cup Ended]
      BY <2>9 DEF Decide, GoTo, TypeOK
    <3> QED
      BY <1>3, <2>9, <3>1 DEF Decide, TypeOK
  <2>10. CASE LoadPlan(r)
    BY <1>3, <2>10 DEF LoadPlan, GoTo, TypeOK
  <2>11. CASE PublishApproved(r)
    BY <1>3, <2>11 DEF PublishApproved, Write, GoTo, TypeOK
  <2>12. CASE Revert(r)
    BY <1>3, <2>12 DEF Revert, Write, Reverted, GoTo, TypeOK
  <2> QED
    BY <1>3, <2>1, <2>2, <2>3, <2>4, <2>5, <2>6, <2>7, <2>8, <2>9, <2>10, <2>11, <2>12 DEF Step
<1>4. ASSUME NEW r \in Requests, Crash(r), UNCHANGED required
      PROVE  TypeOK'
  BY <1>4 DEF Crash, GoTo, TypeOK
<1> QED
  BY <1>1, <1>2, <1>3, <1>4 DEF Next

\* No step leaves draft without a submission, unless it edits the status.
LEMMA SubmissionStep ==
  ASSUME IInv, [Next]_vars
  PROVE  SubmissionInv'
<1>1. TypeOK /\ SubmissionInv
  BY DEF IInv
<1>2. CASE UNCHANGED vars
  BY <1>1, <1>2 DEF vars, SubmissionInv
<1>3. ASSUME NEW r \in Requests, ArriveAuthor(r) \/ ArriveReviewer(r), UNCHANGED required
      PROVE  SubmissionInv'
  <2>1. CASE ArriveAuthor(r)
    BY <1>1, <1>3, <2>1 DEF ArriveAuthor, GoTo, TypeOK, SubmissionInv, PastSubmission
  <2>2. CASE ArriveReviewer(r)
    BY <1>1, <1>3, <2>2 DEF ArriveReviewer, GoTo, TypeOK, SubmissionInv, PastSubmission
  <2> QED
    BY <1>3, <2>1, <2>2
<1>4. ASSUME NEW r \in Requests, Step(r), UNCHANGED required
      PROVE  SubmissionInv'
  <2>1. CASE Refuse(r)
    BY <1>1, <1>4, <2>1 DEF Refuse, GoTo, TypeOK, SubmissionInv, PastSubmission
  <2>2. CASE Submit(r)
    BY <1>1, <1>4, <2>2 DEF Submit, GoTo, TypeOK, SubmissionInv
  <2>3. CASE ValidateApproval(r)
    BY <1>1, <1>4, <2>3 DEF ValidateApproval, GoTo, TypeOK, SubmissionInv, PastSubmission
  <2>4. CASE CreateApproval(r)
    BY <1>1, <1>4, <2>4 DEF CreateApproval, GoTo, TypeOK, SubmissionInv, PastSubmission
  <2>5. CASE Publish(r)
    <3>1. required /\ ~ edited => submitted
      BY <1>1, <2>5 DEF Publish, Refused, From, SubmissionInv
    <3> QED
      BY <1>1, <1>4, <2>5, <3>1 DEF Publish, SubmissionInv
  <2>6. CASE ApprovePending(r)
    BY <1>1, <1>4, <2>6 DEF ApprovePending, GoTo, TypeOK, SubmissionInv, PastSubmission
  <2>7. CASE Archive(r)
    <3>1. required /\ ~ edited => submitted
      BY <1>1, <2>7 DEF Archive, Refused, From, SubmissionInv
    <3> QED
      BY <1>1, <1>4, <2>7, <3>1 DEF Archive, SubmissionInv
  <2>8. CASE Update(r)
    <3>1. PICK s \in Statuses : Write(r, s) /\ edited' = (edited \/ s # loaded[r])
      BY <2>8 DEF Update
    <3>2. ~ edited' => ~ edited /\ status' = status
      BY <1>1, <3>1 DEF Write, TypeOK
    <3> QED
      BY <1>1, <1>4, <2>8, <3>2 DEF Update, GoTo, TypeOK, SubmissionInv, PastSubmission
  <2>9. CASE Decide(r)
    <3>1. required /\ ~ edited => submitted
      BY <1>1, <2>9 DEF Decide, SubmissionInv, PastSubmission
    <3> QED
      BY <1>1, <1>4, <2>9, <3>1 DEF Decide, SubmissionInv
  <2>10. CASE LoadPlan(r)
    <3>1. required /\ ~ edited => submitted
      BY <1>1, <2>10 DEF LoadPlan, SubmissionInv, PastSubmission
    <3> QED
      BY <1>1, <1>4, <2>10, <3>1 DEF LoadPlan, SubmissionInv
  <2>11. CASE PublishApproved(r)
    <3>1. required /\ ~ edited => submitted
      BY <1>1, <2>11 DEF PublishApproved, SubmissionInv, PastSubmission
    <3> QED
      BY <1>1, <1>4, <2>11, <3>1 DEF PublishApproved, SubmissionInv
  <2>12. CASE Revert(r)
    <3>1. required /\ ~ edited => submitted
      BY <1>1, <2>12 DEF Revert, SubmissionInv, PastSubmission
    <3> QED
      BY <1>1, <1>4, <2>12, <3>1 DEF Revert, SubmissionInv
  <2> QED
    BY <1>4, <2>1, <2>2, <2>3, <2>4, <2>5, <2>6, <2>7, <2>8, <2>9, <2>10, <2>11, <2>12 DEF Step
<1>5. ASSUME NEW r \in Requests, Crash(r), UNCHANGED required
      PROVE  SubmissionInv'
  BY <1>1, <1>5 DEF Crash, GoTo, TypeOK, SubmissionInv, PastSubmission
<1> QED
  BY <1>2, <1>3, <1>4, <1>5 DEF Next

-----------------------------------------------------------------------------
\* One request moves on alone, and leaves the plan settled when it ends.
LEMMA MoveStep ==
  ASSUME IInv, NEW r \in Requests, NEW l \in Busy \cup Ended, GoTo(r, l),
         orderly' => orderly, ~ edited' => ~ edited,
         orderly' => pc[r] \in Busy \/ Alone(r),
         orderly' /\ ~ edited' => (l \in Busy => Knows(r, l)') /\ (l \in Ended => Settled')
  PROVE  OrderInv'
<1> SUFFICES ASSUME orderly', ~ edited' PROVE OrderInv'
  BY DEF OrderInv
<1>1. pc'[r] = l /\ \A q \in Requests \ {r} : pc'[q] = pc[q]
  BY DEF IInv, TypeOK, GoTo
<1>2. \A q \in Requests \ {r} : pc'[q] \notin Busy
  <2> SUFFICES ASSUME NEW q \in Requests \ {r}, pc[q] \in Busy PROVE FALSE
    BY <1>1
  <2>1. pc[r] \in Busy
    BY DEF Alone
  <2> QED
    BY <2>1 DEF IInv, OrderInv
<1>3. CASE l \in Busy
  BY <1>1, <1>2, <1>3 DEF OrderInv
<1>4. CASE l \in Ended
  BY <1>1, <1>2, <1>4 DEF OrderInv
<1> QED
  BY <1>3, <1>4

\* Nothing is settled anew, and nothing unsettled, where only a request moves.
LEMMA SameFacts ==
  ASSUME UNCHANGED <<status, approvals>>
  PROVE  Settled' = Settled /\ Pending' = Pending
BY DEF Settled, Pending

LEMMA ArriveStep ==
  ASSUME IInv, NEW r \in Requests, ArriveAuthor(r) \/ ArriveReviewer(r)
  PROVE  OrderInv'
<1>1. /\ pc[r] = "idle" /\ orderly' = (orderly /\ Alone(r))
      /\ UNCHANGED <<status, approvals, edited>>
  BY DEF ArriveAuthor, ArriveReviewer
<1>2. TypeOK /\ orderly \in BOOLEAN
  BY DEF IInv, TypeOK
<1>3. orderly' /\ ~ edited => Settled
  BY <1>1, <1>2 DEF IInv, OrderInv, Alone
<1>4. CASE ArriveAuthor(r)
  <2>1. PICK op \in Author : GoTo(r, op)
    BY <1>4 DEF ArriveAuthor
  <2>2. loaded'[r] = status'
    BY <1>1, <1>2, <1>4 DEF ArriveAuthor, TypeOK
  <2>3. orderly' /\ ~ edited' => Knows(r, op)'
    BY <1>1, <1>3, <2>2, SameFacts DEF Knows
  <2> QED
    BY <1>1, <2>1, <2>3, MoveStep
<1>5. CASE ArriveReviewer(r)
  <2>1. PICK op \in Reviewer, a \in Requests :
          GoTo(r, op) /\ review' = [review EXCEPT ![r] = [of |-> a, status |-> approvals[a]]]
    BY <1>5 DEF ArriveReviewer
  <2>2. review'[r].status = approvals'[review'[r].of]
    BY <1>1, <1>2, <2>1 DEF TypeOK
  <2>3. orderly' /\ ~ edited' => Knows(r, op)'
    BY <1>1, <1>3, <2>2, SameFacts DEF Knows
  <2> QED
    BY <1>1, <2>1, <2>3, MoveStep
<1> QED
  BY <1>4, <1>5

\* The author's requests.
LEMMA AuthorStep ==
  ASSUME IInv, NEW r \in Requests,
         \/ Refuse(r) \/ Submit(r) \/ ValidateApproval(r) \/ CreateApproval(r)
         \/ Publish(r) \/ ApprovePending(r) \/ Archive(r) \/ Update(r)
  PROVE  OrderInv'
<1>1. TypeOK /\ (orderly /\ ~ edited /\ pc[r] \in Busy => Knows(r, pc[r]))
  BY DEF IInv, OrderInv
<1>2. CASE Refuse(r)
  <2>1. /\ pc[r] \in Author /\ GoTo(r, "failed")
        /\ UNCHANGED <<status, approvals, edited, orderly>>
    BY <1>2 DEF Refuse
  <2>2. orderly' /\ ~ edited' => Settled'
    BY <1>1, <2>1, SameFacts DEF Knows
  <2> QED
    BY <2>1, <2>2, MoveStep
<1>3. CASE Submit(r)
  <2>1. /\ pc[r] = "submit" /\ loaded[r] = "draft" /\ GoTo(r, "submitted")
        /\ status' = "pending_approval" /\ UNCHANGED <<approvals, loaded, edited, orderly>>
    BY <1>3 DEF Submit, Refused, From, Write
  <2>2. Pending' = Pending
    BY <2>1 DEF Pending
  <2>3. orderly' /\ ~ edited' => Knows(r, "submitted")'
    BY <1>1, <2>1, <2>2 DEF Knows, Settled
  <2> QED
    BY <2>1, <2>3, MoveStep
<1>4. CASE ValidateApproval(r)
  <2>1. /\ pc[r] = "submitted" /\ UNCHANGED <<status, approvals, loaded, edited, orderly>>
        /\ GoTo(r, IF Pending = {} THEN "creating" ELSE "failed")
    BY <1>4 DEF ValidateApproval, NoDuplicate
  <2>2. orderly' /\ ~ edited' => Pending = {} /\ Knows(r, "creating")'
    BY <1>1, <2>1, SameFacts DEF Knows
  <2>3. CASE Pending = {}
    BY <2>1, <2>2, <2>3, MoveStep
  <2>4. CASE Pending # {}
    BY <2>1, <2>2, <2>4, MoveStep
  <2> QED
    BY <2>3, <2>4
<1>5. CASE CreateApproval(r)
  <2>1. /\ pc[r] = "creating" /\ GoTo(r, "done") /\ UNCHANGED <<status, edited, orderly>>
        /\ approvals' = [approvals EXCEPT ![r] = "pending"]
    BY <1>5 DEF CreateApproval
  <2>2. Pending' = Pending \cup {r}
    BY <1>1, <2>1 DEF TypeOK, Pending
  <2>3. orderly' /\ ~ edited' => Settled'
    BY <1>1, <2>1, <2>2 DEF Knows, Settled
  <2> QED
    BY <2>1, <2>3, MoveStep
<1>6. CASE Publish(r)
  <2>1. /\ pc[r] = "publish" /\ GoTo(r, "published") /\ UNCHANGED <<edited, orderly>>
        /\ status' = "published"
    BY <1>6 DEF Publish, Refused, From, Write
  <2>2. Knows(r, "published")'
    BY <2>1 DEF Knows
  <2> QED
    BY <2>1, <2>2, MoveStep
<1>7. CASE ApprovePending(r)
  <2>1. /\ pc[r] = "published" /\ GoTo(r, "done") /\ UNCHANGED <<status, edited, orderly>>
        /\ approvals' = Resolved
    BY <1>7 DEF ApprovePending
  <2>2. Pending' = {}
    BY <2>1 DEF Resolved, Pending
  <2>3. orderly' /\ ~ edited' => Settled'
    BY <1>1, <2>1, <2>2 DEF Knows, Settled
  <2> QED
    BY <2>1, <2>3, MoveStep
<1>8. CASE Archive(r)
  <2>1. /\ pc[r] = "archive" /\ loaded[r] = "published" /\ GoTo(r, "done")
        /\ UNCHANGED <<approvals, edited, orderly>> /\ status' = "archived"
    BY <1>8 DEF Archive, Refused, From, Write
  <2>2. Pending' = Pending
    BY <2>1 DEF Pending
  <2>3. orderly' /\ ~ edited' => Settled'
    BY <1>1, <2>1, <2>2 DEF Knows, Settled
  <2> QED
    BY <2>1, <2>3, MoveStep
<1>9. CASE Update(r)
  <2>1. /\ pc[r] = "update" /\ GoTo(r, "done") /\ UNCHANGED <<approvals, orderly>>
        /\ (~ edited' => ~ edited /\ status' = status)
    BY <1>1, <1>9 DEF Update, Write, TypeOK
  <2>2. orderly' /\ ~ edited' => Settled'
    BY <1>1, <2>1, SameFacts DEF Knows
  <2> QED
    BY <2>1, <2>2, MoveStep
<1> QED
  BY <1>2, <1>3, <1>4, <1>5, <1>6, <1>7, <1>8, <1>9

\* The reviewers' requests.
LEMMA ReviewerStep ==
  ASSUME IInv, NEW r \in Requests,
         Decide(r) \/ LoadPlan(r) \/ PublishApproved(r) \/ Revert(r)
  PROVE  OrderInv'
<1>1. TypeOK /\ (orderly /\ ~ edited /\ pc[r] \in Busy => Knows(r, pc[r]))
  BY DEF IInv, OrderInv
<1>2. CASE Decide(r)
  <2>1. pc[r] \in Reviewer /\ UNCHANGED <<status, edited, orderly>>
    BY <1>2 DEF Decide
  <2> DEFINE a == review[r].of
  <2>2. CASE IsPending(r)
    <3>1. PICK verdict \in {"approved", "rejected"} :
            approvals' = [approvals EXCEPT ![a] = verdict] /\ GoTo(r, verdict)
      BY <1>2, <2>2 DEF Decide
    <3>2. a \in Requests
      BY <1>1 DEF TypeOK
    <3>3. Pending' = Pending \ {a}
      BY <1>1, <3>1, <3>2 DEF TypeOK, Pending
    <3>4. orderly' /\ ~ edited' => a \in Pending /\ Settled
      BY <1>1, <2>1, <2>2, <3>2 DEF Knows, IsPending, Pending
    <3>5. orderly' /\ ~ edited' => Knows(r, verdict)'
      BY <2>1, <3>3, <3>4 DEF Knows, Settled
    <3> QED
      BY <2>1, <3>1, <3>5, MoveStep
  <2>3. CASE ~ IsPending(r)
    <3>1. GoTo(r, "failed") /\ UNCHANGED approvals
      BY <1>2, <2>3 DEF Decide
    <3>2. orderly' /\ ~ edited' => Settled'
      BY <1>1, <2>1, <3>1, SameFacts DEF Knows
    <3> QED
      BY <2>1, <3>1, <3>2, MoveStep
  <2> QED
    BY <2>2, <2>3
<1>3. CASE LoadPlan(r)
  <2>1. /\ pc[r] \in {"approved", "rejected"} /\ UNCHANGED <<status, approvals, edited, orderly>>
        /\ loaded' = [loaded EXCEPT ![r] = status]
    BY <1>3 DEF LoadPlan
  <2>2. PICK l \in {"publishing", "reverting"} : GoTo(r, l)
    BY <1>3 DEF LoadPlan
  <2>3. loaded'[r] = status'
    BY <1>1, <2>1 DEF TypeOK
  <2>4. orderly' /\ ~ edited' => Knows(r, l)'
    BY <1>1, <2>1, <2>3, SameFacts DEF Knows
  <2> QED
    BY <2>1, <2>2, <2>4, MoveStep
<1>4. CASE PublishApproved(r)
  <2>1. pc[r] = "publishing" /\ UNCHANGED <<approvals, edited, orderly>>
    BY <1>4 DEF PublishApproved
  <2>2. PICK l \in {"done", "failed"} : GoTo(r, l)
    BY <1>4 DEF PublishApproved
  <2>3. Pending' = Pending
    BY <2>1 DEF Pending
  <2>4. loaded[r] = "pending_approval" => status' = "published"
    BY <1>4 DEF PublishApproved, From, Write
  <2>5. orderly' /\ ~ edited' => Settled'
    BY <1>1, <2>1, <2>3, <2>4 DEF Knows, Settled
  <2> QED
    BY <2>1, <2>2, <2>5, MoveStep
<1>5. CASE Revert(r)
  <2>1. pc[r] = "reverting" /\ GoTo(r, "done") /\ UNCHANGED <<approvals, edited, orderly>>
    BY <1>5 DEF Revert
  <2>2. Pending' = Pending
    BY <2>1 DEF Pending
  <2>3. loaded[r] = "pending_approval" => status' = "draft"
    BY <1>5 DEF Revert, Reverted, Write
  <2>4. orderly' /\ ~ edited' => Settled'
    BY <1>1, <2>1, <2>2, <2>3 DEF Knows, Settled
  <2> QED
    BY <2>1, <2>4, MoveStep
<1> QED
  BY <1>2, <1>3, <1>4, <1>5

LEMMA OrderStep ==
  ASSUME IInv, [Next]_vars
  PROVE  OrderInv'
<1>1. CASE UNCHANGED vars
  BY <1>1 DEF IInv, vars, OrderInv, Knows, Settled, Pending
<1>2. ASSUME NEW r \in Requests, Step(r)
      PROVE  OrderInv'
  BY <1>2, AuthorStep, ReviewerStep DEF Step
<1>3. ASSUME NEW r \in Requests, Crash(r)
      PROVE  OrderInv'
  BY <1>3 DEF Crash, OrderInv
<1> QED
  BY <1>1, <1>2, <1>3, ArriveStep DEF Next

-----------------------------------------------------------------------------
\* The invariant holds of every behaviour, whatever the number of requests.
THEOREM Invariance == Spec => []IInv
<1>1. Init => IInv
  BY InitIInv
<1>2. IInv /\ [Next]_vars => IInv'
  BY TypeStep, SubmissionStep, OrderStep DEF IInv
<1> QED
  BY <1>1, <1>2, PTL DEF Spec

\* Every variable keeps its type; above all, the plan keeps to the statuses of
\* the model whatever a stale request writes (unit_plan.rb:4).
THEOREM TypeCorrect == Spec => []TypeOK
<1>1. IInv => TypeOK
  BY DEF IInv
<1> QED
  BY <1>1, Invariance, PTL

\* Where approval is required no plan leaves draft without a submission, unless
\* a request edits its status (curriculum_workflow_engine.rb:53-60).
THEOREM NoPlanSkipsTheSubmission == Spec => []NothingSkipsTheSubmission
<1>1. IInv => NothingSkipsTheSubmission
  BY DEF IInv, SubmissionInv, NothingSkipsTheSubmission
<1> QED
  BY <1>1, Invariance, PTL

\* After requests that did not overlap, die or edit the status, one approval is
\* pending when the plan awaits it and none otherwise
\* (curriculum_workflow_engine.rb:62-101, approvals_controller.rb:12-58).
THEOREM PlansAgree == Spec => []OrderlyPlansAgree
<1>1. IInv => OrderlyPlansAgree
  <2> SUFFICES ASSUME IInv, orderly, ~ edited, \A r \in Requests : pc[r] \notin Busy
               PROVE  Cardinality(Pending) = (IF status = "pending_approval" THEN 1 ELSE 0)
    BY DEF OrderlyPlansAgree
  <2>1. Settled
    BY DEF IInv, OrderInv
  <2> QED
    BY <2>1, FS_EmptySet, FS_Singleton DEF Settled
<1> QED
  BY <1>1, Invariance, PTL
=============================================================================
