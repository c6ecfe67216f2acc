---------------------------- MODULE SubmissionsProofs ----------------------------
(***************************************************************************)
(* Theorems about Submissions, for any number of students, requests and    *)
(* runs of the job.                                                        *)
(***************************************************************************)
EXTENDS Submissions, TLAPS

USE DEF Statuses, Teaching, Busy, Ended

\* A row is locked by one run at most, and only while it runs.
WrittenInv ==
  /\ \A r \in Requests : written[r] # {} => pc[r] = "mark"
  /\ \A q, r \in Requests : \A s \in Students : s \in written[q] /\ s \in written[r] => q = r

\* What is missing, or was when it was loaded, was marked so.
MarkedInv ==
  /\ \A s \in Students : row[s].status = "missing" => s \in marked
  /\ \A r \in Requests : \A s \in About(r) : loaded[r][s].status = "missing" => s \in marked

SubmitInv ==
  \A r \in Requests : pc[r] = "submit" =>
    \A s \in About(r) : loaded[r][s].status \in {"absent", "missing"}

\* A run holds the rows of the whole class.
RunInv == \A r \in Requests : pc[r] = "mark" => About(r) = Students

\* As long as all is calm, there is work exactly where the status says so, and a
\* student who replaces a missing submission still finds it missing.
Consistent(x) == x.work = None <=> x.status \in {"absent", "draft", "missing"}
CalmInv ==
  calm =>
    /\ \A s \in Students : Consistent(row[s])
    /\ \A r \in Requests : \A s \in About(r) : Consistent(loaded[r][s])
    /\ \A r \in Requests : \A s \in About(r) :
         pc[r] = "submit" /\ loaded[r][s].status = "missing" => row[s].status = "missing"
    /\ \A q, r \in Requests : \A s \in Students :
         /\ pc[q] = "submit" /\ s \in About(q) /\ pc[r] = "submit" /\ s \in About(r)
         => q = r

\* As long as all is calm, what a run is about to mark is as it found it, and a
\* draft that it found is still one and is its own.
DraftInv ==
  calm =>
    /\ \A r \in Requests : \A s \in written[r] :
         row[s].status \in {"absent", "draft"} /\ row[s].status = loaded[r][s].status
    /\ \A r \in Requests : \A s \in About(r) :
         pc[r] = "mark" /\ loaded[r][s].status = "draft" => row[s].status = "draft"
    /\ \A q, r \in Requests : \A s \in About(q) \cap About(r) :
         /\ pc[q] = "mark" /\ loaded[q][s].status = "draft"
         /\ pc[r] = "mark" /\ loaded[r][s].status = "draft"
         => q = r

IInv == TypeOK /\ WrittenInv /\ MarkedInv /\ SubmitInv /\ RunInv /\ CalmInv /\ DraftInv

LEMMA RowsFacts ==
  /\ Absent \in Rows /\ Draft \in Rows
  /\ \A x \in Rows : /\ x.status = "absent" => x = Absent
                     /\ x.status = "draft" => x = Draft
                     /\ x.status \in Statuses \cup {"absent"}
                     /\ x.work \in Requests \cup {None}
  /\ \A q \in Requests : Submitted(q) \in Rows /\ Submitted(q).status = "submitted"
                         /\ Submitted(q).work = q
BY DEF Rows, Absent, Draft, Submitted

LEMMA LoadedFacts ==
  ASSUME TypeOK, NEW r \in Requests
  PROVE  /\ About(r) \subseteq Students /\ loaded[r] \in [About(r) -> Rows]
         /\ \A s \in About(r) : loaded[r][s] \in Rows
<1>1. PICK S \in SUBSET Students : loaded[r] \in [S -> Rows]
  BY DEF TypeOK
<1> QED
  BY <1>1 DEF About

LEMMA InitIInv == Init => IInv
<1> SUFFICES ASSUME Init PROVE IInv
  OBVIOUS
<1>1. NoRows \in [{} -> Rows] /\ DOMAIN NoRows = {}
  BY DEF NoRows
<1>2. \A r \in Requests : About(r) = {} /\ pc[r] = "idle" /\ written[r] = {}
  BY <1>1 DEF Init, About
<1>3. loaded \in [Requests -> UNION {[S -> Rows] : S \in SUBSET Students}]
  <2>1. [{} -> Rows] \in {[S -> Rows] : S \in SUBSET Students}
    OBVIOUS
  <2> QED
    BY <1>1, <2>1 DEF Init
<1>4. TypeOK
  BY <1>3, RowsFacts DEF Init, TypeOK
<1>5. \A s \in Students : row[s].status \in {"absent", "draft"} /\ row[s].work = None
  BY DEF Init, Absent, Draft
<1>6. WrittenInv /\ MarkedInv /\ SubmitInv /\ RunInv
  BY <1>2, <1>5 DEF WrittenInv, MarkedInv, SubmitInv, RunInv
<1>7. CalmInv /\ DraftInv
  BY <1>2, <1>5 DEF CalmInv, DraftInv, Consistent
<1> QED
  BY <1>4, <1>6, <1>7 DEF IInv

\* Runs but that of r keep what they found: r is not marking, or no longer, and
\* what it writes is nothing that another run has found as a draft or written.
LEMMA DraftKept ==
  ASSUME IInv, NEW r \in Requests, pc'[r] # "mark", written'[r] = {}, calm' => calm,
         \A q \in Requests \ {r} : /\ pc'[q] = pc[q] /\ loaded'[q] = loaded[q]
                                    /\ About(q)' = About(q) /\ written'[q] = written[q],
         calm' => \A s \in Students :
           \/ row'[s].status = row[s].status
           \/ \A q \in Requests \ {r} :
                /\ s \notin written[q]
                /\ pc[q] = "mark" /\ s \in About(q) => loaded[q][s].status # "draft"
  PROVE  DraftInv'
<1> SUFFICES ASSUME calm' PROVE DraftInv'
  BY DEF DraftInv
<1>1. /\ calm /\ TypeOK
      /\ \A q \in Requests : About(q) \subseteq Students /\ written[q] \subseteq Students
  BY LoadedFacts DEF IInv, TypeOK
<1>2. ASSUME NEW q \in Requests, NEW s \in written'[q]
      PROVE  row'[s].status \in {"absent", "draft"} /\ row'[s].status = loaded'[q][s].status
  <2>1. q # r /\ s \in written[q] /\ s \in Students
    BY <1>1, <1>2
  <2>2. row'[s].status = row[s].status
    BY <2>1
  <2> QED
    BY <1>1, <2>1, <2>2 DEF IInv, DraftInv
<1>3. ASSUME NEW q \in Requests, NEW s \in About(q)', pc'[q] = "mark",
             loaded'[q][s].status = "draft"
      PROVE  row'[s].status = "draft"
  <2>1. q # r /\ s \in About(q) /\ pc[q] = "mark" /\ loaded[q][s].status = "draft"
    BY <1>3
  <2>2. row'[s].status = row[s].status
    BY <1>1, <2>1
  <2> QED
    BY <1>1, <2>1, <2>2 DEF IInv, DraftInv
<1>4. ASSUME NEW p \in Requests, NEW q \in Requests, NEW s \in About(p)' \cap About(q)',
             pc'[p] = "mark", loaded'[p][s].status = "draft",
             pc'[q] = "mark", loaded'[q][s].status = "draft"
      PROVE  p = q
  <2>1. /\ p # r /\ s \in About(p) /\ pc[p] = "mark" /\ loaded[p][s].status = "draft"
        /\ q # r /\ s \in About(q) /\ pc[q] = "mark" /\ loaded[q][s].status = "draft"
    BY <1>4
  <2> QED
    BY <1>1, <2>1 DEF IInv, DraftInv
<1> QED
  BY <1>2, <1>3, <1>4 DEF DraftInv

\* The rows that an arriving request or run loads are those of the table.
LEMMA ArriveFacts ==
  ASSUME IInv, NEW r \in Requests, NEW l \in Busy \cup {"failed"},
         NEW students \in SUBSET Students, Arrive(r, l, students)
  PROVE  /\ pc' \in [Requests -> {"idle"} \cup Busy \cup Ended]
         /\ loaded' \in [Requests -> UNION {[S -> Rows] : S \in SUBSET Students}]
         /\ pc[r] = "idle" /\ pc'[r] = l /\ written[r] = {}
         /\ About(r)' = IF l = "failed" THEN {} ELSE students
         /\ \A s \in About(r)' : loaded'[r][s] = row[s]
         /\ \A q \in Requests \ {r} : /\ pc'[q] = pc[q] /\ loaded'[q] = loaded[q]
                                      /\ About(q)' = About(q)
<1> DEFINE new == IF l \in Ended THEN NoRows ELSE [s \in students |-> row[s]]
<1>1. TypeOK /\ WrittenInv
  BY DEF IInv
<1>2. pc[r] = "idle" /\ pc' = [pc EXCEPT ![r] = l] /\ loaded' = [loaded EXCEPT ![r] = new]
  BY DEF Arrive
<1>3. new \in UNION {[S -> Rows] : S \in SUBSET Students}
      /\ DOMAIN new = (IF l = "failed" THEN {} ELSE students)
      /\ \A s \in DOMAIN new : new[s] = row[s]
  <2>1. CASE l = "failed"
    <3>1. new \in [{} -> Rows] /\ DOMAIN new = {}
      BY <2>1 DEF NoRows
    <3>2. [{} -> Rows] \in {[S -> Rows] : S \in SUBSET Students}
      OBVIOUS
    <3> QED
      BY <2>1, <3>1, <3>2
  <2>2. CASE l # "failed"
    <3>1. new = [s \in students |-> row[s]]
      BY <2>2
    <3>2. new \in [students -> Rows]
      BY <3>1, <1>1 DEF TypeOK
    <3>3. [students -> Rows] \in {[S -> Rows] : S \in SUBSET Students}
      OBVIOUS
    <3> QED
      BY <2>2, <3>1, <3>2, <3>3
  <2> QED
    BY <2>1, <2>2
<1> HIDE DEF new
<1>4. loaded'[r] = new /\ \A q \in Requests \ {r} : pc'[q] = pc[q] /\ loaded'[q] = loaded[q]
  BY <1>1, <1>2 DEF TypeOK
<1>5. pc'[r] = l /\ written[r] = {}
  BY <1>1, <1>2 DEF TypeOK, WrittenInv
<1>6. /\ pc' \in [Requests -> {"idle"} \cup Busy \cup Ended]
      /\ loaded' \in [Requests -> UNION {[S -> Rows] : S \in SUBSET Students}]
  BY <1>1, <1>2, <1>3 DEF TypeOK
<1> QED
  BY <1>2, <1>3, <1>4, <1>5, <1>6 DEF About

\* Who ends forgets what it loaded.
LEMMA EndFacts ==
  ASSUME IInv, NEW r \in Requests, NEW l \in {"done", "failed"}, GoTo(r, l)
  PROVE  /\ pc' \in [Requests -> {"idle"} \cup Busy \cup Ended]
         /\ loaded' \in [Requests -> UNION {[S -> Rows] : S \in SUBSET Students}]
         /\ pc'[r] = l /\ About(r)' = {}
         /\ \A q \in Requests \ {r} : /\ pc'[q] = pc[q] /\ loaded'[q] = loaded[q]
                                      /\ About(q)' = About(q)
<1>1. TypeOK
  BY DEF IInv
<1>2. pc' = [pc EXCEPT ![r] = l] /\ loaded' = [loaded EXCEPT ![r] = NoRows]
  BY DEF GoTo
<1>3. NoRows \in [{} -> Rows] /\ DOMAIN NoRows = {}
  BY DEF NoRows
<1>4. [{} -> Rows] \in {[S -> Rows] : S \in SUBSET Students}
  OBVIOUS
<1>5. NoRows \in UNION {[S -> Rows] : S \in SUBSET Students}
  BY <1>3, <1>4
<1> QED
  BY <1>1, <1>2, <1>3, <1>5 DEF TypeOK, About

LEMMA ArriveStudentStep ==
  ASSUME IInv, NEW r \in Requests, ArriveStudent(r)
  PROVE  IInv'
<1>1. PICK s \in Students :
        /\ Arrive(r, IF MaySubmit(s) THEN "submit" ELSE "failed", {s})
        /\ calm' = (calm /\ ~ \E q \in Requests : pc[q] = "submit" /\ s \in About(q))
        /\ UNCHANGED <<row, todo, written, marked>>
  BY DEF ArriveStudent
<1> DEFINE l == IF MaySubmit(s) THEN "submit" ELSE "failed"
<1>2. l \in {"submit", "failed"} /\ (l = "submit" => row[s].status \in {"absent", "missing"})
  BY DEF MaySubmit
<1> HIDE DEF l
<1>3. /\ pc' \in [Requests -> {"idle"} \cup Busy \cup Ended]
      /\ loaded' \in [Requests -> UNION {[S -> Rows] : S \in SUBSET Students}]
      /\ pc[r] = "idle" /\ pc'[r] = l /\ written[r] = {}
      /\ About(r)' = (IF l = "failed" THEN {} ELSE {s})
      /\ \A t \in About(r)' : loaded'[r][t] = row[t]
      /\ \A q \in Requests \ {r} : /\ pc'[q] = pc[q] /\ loaded'[q] = loaded[q]
                                   /\ About(q)' = About(q)
  BY <1>1, <1>2, ArriveFacts DEF l
<1>4. TypeOK'
  BY <1>1, <1>3 DEF IInv, TypeOK
<1>5. WrittenInv'
  BY <1>1, <1>3 DEF IInv, WrittenInv
<1>6. MarkedInv'
  BY <1>1, <1>3 DEF IInv, MarkedInv
<1>7. SubmitInv'
  BY <1>1, <1>2, <1>3 DEF IInv, SubmitInv
<1>8. CalmInv'
  <2> SUFFICES ASSUME calm' PROVE CalmInv'
    BY DEF CalmInv
  <2>1. calm /\ \A q \in Requests : ~ (pc[q] = "submit" /\ s \in About(q))
    BY <1>1
  <2>2. (\A t \in Students : Consistent(row[t]))'
    BY <1>1, <2>1 DEF IInv, CalmInv, Consistent
  <2>3. (\A q \in Requests : \A t \in About(q) : Consistent(loaded[q][t]))'
    BY <1>1, <1>3, <2>1 DEF IInv, CalmInv, Consistent
  <2>4. (\A q \in Requests : \A t \in About(q) :
           pc[q] = "submit" /\ loaded[q][t].status = "missing" => row[t].status = "missing")'
    BY <1>1, <1>3, <2>1 DEF IInv, CalmInv
  <2>5. \A p, q \in Requests : \A t \in Students :
          /\ pc'[p] = "submit" /\ t \in About(p)' /\ pc'[q] = "submit" /\ t \in About(q)'
          => p = q
    BY <1>1, <1>3, <2>1 DEF IInv, CalmInv
  <2> QED
    BY <2>2, <2>3, <2>4, <2>5 DEF CalmInv
<1>9. RunInv'
  BY <1>2, <1>3 DEF IInv, RunInv
<1>10. DraftInv'
  BY <1>1, <1>2, <1>3, DraftKept
<1> QED
  BY <1>4, <1>5, <1>6, <1>7, <1>8, <1>9, <1>10 DEF IInv

LEMMA ArriveOtherStep ==
  ASSUME IInv, NEW r \in Requests, NEW l \in Teaching \cup {"mark", "failed"},
         NEW students \in SUBSET Students, Arrive(r, l, students),
         l = "mark" => students = Students,
         todo' \in [Requests -> SUBSET Students],
         calm' \in BOOLEAN, calm' => calm, l = "mark" /\ calm' => ~ ShareADraft(r),
         UNCHANGED <<row, written, marked>>
  PROVE  IInv'
<1>1. /\ pc' \in [Requests -> {"idle"} \cup Busy \cup Ended]
      /\ loaded' \in [Requests -> UNION {[S -> Rows] : S \in SUBSET Students}]
      /\ pc[r] = "idle" /\ pc'[r] = l /\ written[r] = {}
      /\ About(r)' = (IF l = "failed" THEN {} ELSE students)
      /\ \A t \in About(r)' : loaded'[r][t] = row[t]
      /\ \A q \in Requests \ {r} : /\ pc'[q] = pc[q] /\ loaded'[q] = loaded[q]
                                   /\ About(q)' = About(q)
  BY ArriveFacts
<1>2. row' = row /\ written' = written /\ marked' = marked /\ (calm' => calm)
  OBVIOUS
<1>3. TypeOK'
  BY <1>1, <1>2 DEF IInv, TypeOK
<1>4. WrittenInv'
  BY <1>1, <1>2 DEF IInv, WrittenInv
<1>5. MarkedInv'
  BY <1>1, <1>2 DEF IInv, MarkedInv
<1>6. SubmitInv'
  BY <1>1 DEF IInv, SubmitInv
<1>7. CalmInv'
  <2> SUFFICES ASSUME calm' PROVE CalmInv'
    BY DEF CalmInv
  <2>1. (\A t \in Students : Consistent(row[t]))'
    BY <1>2 DEF IInv, CalmInv, Consistent
  <2>2. (\A q \in Requests : \A t \in About(q) : Consistent(loaded[q][t]))'
    BY <1>1, <1>2 DEF IInv, CalmInv, Consistent
  <2>3. (\A q \in Requests : \A t \in About(q) :
           pc[q] = "submit" /\ loaded[q][t].status = "missing" => row[t].status = "missing")'
    BY <1>1, <1>2 DEF IInv, CalmInv
  <2>4. \A p, q \in Requests : \A t \in Students :
          /\ pc'[p] = "submit" /\ t \in About(p)' /\ pc'[q] = "submit" /\ t \in About(q)'
          => p = q
    BY <1>1, <1>2 DEF IInv, CalmInv
  <2> QED
    BY <2>1, <2>2, <2>3, <2>4 DEF CalmInv
<1>8. RunInv'
  BY <1>1 DEF IInv, RunInv
<1>9. DraftInv'
  <2>1. CASE l # "mark"
    BY <1>1, <1>2, <2>1, DraftKept
  <2>2. CASE l = "mark"
    <3> SUFFICES ASSUME calm' PROVE DraftInv'
      BY DEF DraftInv
    <3>1. calm /\ ~ ShareADraft(r)
      BY <1>2, <2>2
    <3>2. (\A q \in Requests : \A t \in written[q] :
             row[t].status \in {"absent", "draft"} /\ row[t].status = loaded[q][t].status)'
      BY <1>1, <1>2, <3>1 DEF IInv, DraftInv
    <3>3. (\A q \in Requests : \A t \in About(q) :
             pc[q] = "mark" /\ loaded[q][t].status = "draft" => row[t].status = "draft")'
      BY <1>1, <1>2, <3>1 DEF IInv, DraftInv
    <3>4. ASSUME NEW q \in Requests \ {r}, NEW t \in About(q)' \cap About(r)',
                 pc'[q] = "mark", loaded'[q][t].status = "draft", loaded'[r][t].status = "draft"
          PROVE  FALSE
      <4>1. /\ t \in Students /\ t \in About(q) /\ pc[q] = "mark"
            /\ loaded[q][t].status = "draft" /\ row[t].status = "draft"
        BY <1>1, <3>4, LoadedFacts DEF IInv
      <4>2. loaded[q][t] \in Rows /\ row[t] \in Rows
        BY <4>1, LoadedFacts DEF IInv, TypeOK
      <4>3. loaded[q][t] = Draft /\ row[t] = Draft
        BY <4>1, <4>2, RowsFacts
      <4> QED
        BY <3>1, <4>1, <4>3 DEF ShareADraft
    <3>5. ASSUME NEW p \in Requests \ {r}, NEW q \in Requests \ {r},
                 NEW t \in About(p)' \cap About(q)',
                 pc'[p] = "mark", loaded'[p][t].status = "draft",
                 pc'[q] = "mark", loaded'[q][t].status = "draft"
          PROVE  p = q
      BY <1>1, <3>1, <3>5 DEF IInv, DraftInv
    <3> QED
      BY <3>2, <3>3, <3>4, <3>5 DEF DraftInv
  <2> QED
    BY <2>1, <2>2
<1> QED
  BY <1>3, <1>4, <1>5, <1>6, <1>7, <1>8, <1>9 DEF IInv

\* A request that is refused, a run whose transaction fails, a crash.
LEMMA EndStep ==
  ASSUME IInv, NEW r \in Requests, NEW l \in {"done", "failed"}, GoTo(r, l),
         written' = [written EXCEPT ![r] = {}],
         todo' \in [Requests -> SUBSET Students],
         UNCHANGED <<row, marked, calm>>
  PROVE  IInv'
<1>1. /\ pc' \in [Requests -> {"idle"} \cup Busy \cup Ended]
      /\ loaded' \in [Requests -> UNION {[S -> Rows] : S \in SUBSET Students}]
      /\ pc'[r] = l /\ About(r)' = {}
      /\ \A q \in Requests \ {r} : /\ pc'[q] = pc[q] /\ loaded'[q] = loaded[q]
                                   /\ About(q)' = About(q)
  BY EndFacts
<1>2. /\ row' = row /\ marked' = marked /\ calm' = calm
      /\ written' \in [Requests -> SUBSET Students]
      /\ written'[r] = {} /\ \A q \in Requests \ {r} : written'[q] = written[q]
  BY DEF IInv, TypeOK
<1>3. TypeOK'
  BY <1>1, <1>2 DEF IInv, TypeOK
<1>4. WrittenInv'
  BY <1>1, <1>2 DEF IInv, WrittenInv
<1>5. MarkedInv'
  BY <1>1, <1>2 DEF IInv, MarkedInv
<1>6. SubmitInv'
  BY <1>1 DEF IInv, SubmitInv
<1>7. CalmInv'
  <2> SUFFICES ASSUME calm' PROVE CalmInv'
    BY DEF CalmInv
  <2>1. (\A t \in Students : Consistent(row[t]))'
    BY <1>2 DEF IInv, CalmInv, Consistent
  <2>2. (\A q \in Requests : \A t \in About(q) : Consistent(loaded[q][t]))'
    BY <1>1, <1>2 DEF IInv, CalmInv, Consistent
  <2>3. (\A q \in Requests : \A t \in About(q) :
           pc[q] = "submit" /\ loaded[q][t].status = "missing" => row[t].status = "missing")'
    BY <1>1, <1>2 DEF IInv, CalmInv
  <2>4. \A p, q \in Requests : \A t \in Students :
          /\ pc'[p] = "submit" /\ t \in About(p)' /\ pc'[q] = "submit" /\ t \in About(q)'
          => p = q
    BY <1>1, <1>2 DEF IInv, CalmInv
  <2> QED
    BY <2>1, <2>2, <2>3, <2>4 DEF CalmInv
<1>8. RunInv'
  BY <1>1 DEF IInv, RunInv
<1>9. DraftInv'
  BY <1>1, <1>2, DraftKept
<1> QED
  BY <1>3, <1>4, <1>5, <1>6, <1>7, <1>8, <1>9 DEF IInv

\* One row is written, by someone who is then done.
LEMMA RowFacts ==
  ASSUME IInv, NEW r \in Requests, NEW s \in Students, NEW x \in Rows,
         row' = [row EXCEPT ![s] = x], x.status = "missing" => s \in marked,
         pc[r] # "mark", GoTo(r, "done"), calm' \in BOOLEAN,
         UNCHANGED <<todo, written, marked>>
  PROVE  /\ TypeOK' /\ WrittenInv' /\ MarkedInv' /\ SubmitInv' /\ RunInv'
         /\ row'[s] = x /\ \A t \in Students \ {s} : row'[t] = row[t]
         /\ written[r] = {} /\ About(r)' = {} /\ pc'[r] = "done"
         /\ \A q \in Requests \ {r} : /\ pc'[q] = pc[q] /\ loaded'[q] = loaded[q]
                                      /\ About(q)' = About(q)
<1>1. /\ pc' \in [Requests -> {"idle"} \cup Busy \cup Ended]
      /\ loaded' \in [Requests -> UNION {[S -> Rows] : S \in SUBSET Students}]
      /\ pc'[r] = "done" /\ About(r)' = {}
      /\ \A q \in Requests \ {r} : /\ pc'[q] = pc[q] /\ loaded'[q] = loaded[q]
                                   /\ About(q)' = About(q)
  BY EndFacts
<1>2. row' \in [Students -> Rows] /\ row'[s] = x /\ \A t \in Students \ {s} : row'[t] = row[t]
  BY DEF IInv, TypeOK
<1>3. written[r] = {}
  BY DEF IInv, WrittenInv
<1>4. TypeOK'
  BY <1>1, <1>2 DEF IInv, TypeOK
<1>5. WrittenInv'
  BY <1>1, <1>3 DEF IInv, WrittenInv
<1>6. MarkedInv'
  BY <1>1, <1>2 DEF IInv, MarkedInv
<1>7. SubmitInv'
  BY <1>1 DEF IInv, SubmitInv
<1>8. RunInv'
  BY <1>1 DEF IInv, RunInv
<1> QED
  BY <1>1, <1>2, <1>3, <1>4, <1>5, <1>6, <1>7, <1>8

\* A submission that is saved: at whom it finds what it replaces.
LEMMA SaveFacts ==
  ASSUME IInv, NEW r \in Requests, NEW s \in About(r), pc[r] = "submit",
         Free(r, s), ~ Taken(r, s)
  PROVE  /\ s \in Students
         /\ row[s] # Absent => s \in marked
         /\ calm => row[s].status \in {"absent", "missing"}
         /\ \A q \in Requests : s \notin written[q]
<1>1. s \in Students /\ loaded[r][s] \in Rows
  BY LoadedFacts DEF IInv
<1>2. CASE loaded[r][s] = Absent
  <2>1. row[s] = Absent
    BY <1>2 DEF Taken
  <2> QED
    BY <1>1, <2>1 DEF IInv, WrittenInv, Free, Absent
<1>3. CASE loaded[r][s] # Absent
  <2>1. loaded[r][s].status = "missing"
    BY <1>1, <1>3, RowsFacts DEF IInv, SubmitInv
  <2>2. s \in marked /\ (calm => row[s].status = "missing")
    BY <2>1 DEF IInv, MarkedInv, CalmInv
  <2> QED
    BY <1>1, <2>2 DEF IInv, WrittenInv, Free
<1> QED
  BY <1>2, <1>3

LEMMA SaveStep ==
  ASSUME IInv, NEW r \in Requests, SaveSubmission(r)
  PROVE  IInv'
<1>1. PICK s \in About(r) :
        /\ Free(r, s)
        /\ IF Taken(r, s)
             THEN GoTo(r, "failed") /\ UNCHANGED row
             ELSE row' = [row EXCEPT ![s] = Submitted(r)] /\ GoTo(r, "done")
  BY DEF SaveSubmission
<1>2. pc[r] = "submit" /\ UNCHANGED <<todo, written, marked, calm>>
  BY DEF SaveSubmission
<1>3. written[r] = {} /\ written = [written EXCEPT ![r] = {}] /\ TypeOK
  BY <1>2 DEF IInv, WrittenInv, TypeOK
<1>4. CASE Taken(r, s)
  BY <1>1, <1>2, <1>3, <1>4, EndStep DEF TypeOK
<1>5. CASE ~ Taken(r, s)
  <2> DEFINE x == Submitted(r)
  <2>1. x \in Rows /\ x.status = "submitted" /\ x.work = r /\ x # Absent
    BY RowsFacts, ConstantsAssumption DEF Absent
  <2> HIDE DEF x
  <2>2. /\ s \in Students /\ \A q \in Requests : s \notin written[q]
    BY <1>1, <1>2, <1>5, SaveFacts
  <2>3. row' = [row EXCEPT ![s] = x] /\ GoTo(r, "done")
    BY <1>1, <1>5 DEF x
  <2>4. /\ TypeOK' /\ WrittenInv' /\ MarkedInv' /\ SubmitInv' /\ RunInv'
        /\ row'[s] = x /\ \A t \in Students \ {s} : row'[t] = row[t]
        /\ About(r)' = {} /\ pc'[r] = "done"
        /\ \A q \in Requests \ {r} : /\ pc'[q] = pc[q] /\ loaded'[q] = loaded[q]
                                     /\ About(q)' = About(q)
    BY <1>2, <1>3, <2>1, <2>2, <2>3, RowFacts DEF TypeOK
  <2>5. CalmInv'
    <3> SUFFICES ASSUME calm' PROVE CalmInv'
      BY DEF CalmInv
    <3>1. calm /\ written' = written
      BY <1>2
    <3>2. (\A t \in Students : Consistent(row[t]))'
      BY <2>1, <2>4, <3>1, ConstantsAssumption DEF IInv, CalmInv, Consistent
    <3>3. (\A q \in Requests : \A t \in About(q) : Consistent(loaded[q][t]))'
      BY <2>4, <3>1 DEF IInv, CalmInv, Consistent
    <3>4. (\A q \in Requests : \A t \in About(q) :
             pc[q] = "submit" /\ loaded[q][t].status = "missing" => row[t].status = "missing")'
      <4> SUFFICES ASSUME NEW q \in Requests, NEW t \in About(q)', pc'[q] = "submit",
                          loaded'[q][t].status = "missing"
                   PROVE  row'[t].status = "missing"
        OBVIOUS
      <4>1. q # r /\ pc[q] = "submit" /\ t \in About(q) /\ loaded[q][t].status = "missing"
        BY <2>4
      <4>2. t \in Students
        BY <1>3, <4>1, LoadedFacts
      <4>3. t # s
        BY <1>2, <2>2, <3>1, <4>1 DEF IInv, CalmInv
      <4> QED
        BY <2>4, <3>1, <4>1, <4>2, <4>3 DEF IInv, CalmInv
    <3>5. \A p, q \in Requests : \A t \in Students :
            /\ pc'[p] = "submit" /\ t \in About(p)' /\ pc'[q] = "submit" /\ t \in About(q)'
            => p = q
      BY <2>4, <3>1 DEF IInv, CalmInv
    <3> QED
      BY <3>2, <3>3, <3>4, <3>5 DEF CalmInv
  <2>6. DraftInv'
    <3>1. calm => row[s].status # "draft"
      BY <1>1, <1>2, <1>5, SaveFacts
    <3>2. calm => \A q \in Requests :
                    pc[q] = "mark" /\ s \in About(q) => loaded[q][s].status # "draft"
      BY <3>1 DEF IInv, DraftInv
    <3> QED
      BY <1>2, <1>3, <2>2, <2>4, <3>2, DraftKept
  <2> QED
    BY <2>4, <2>5, <2>6 DEF IInv
<1> QED
  BY <1>4, <1>5

LEMMA VerdictStep ==
  ASSUME IInv, NEW r \in Requests, WriteVerdict(r)
  PROVE  IInv'
<1>1. PICK s \in About(r), v \in {"graded", "returned"} :
        /\ Free(r, s)
        /\ row' = [row EXCEPT ![s].status = IF v = loaded[r][s].status THEN @ ELSE v]
        /\ calm' = (calm /\ row[s].work # None)
  BY DEF WriteVerdict
<1>2. pc[r] \in Teaching /\ GoTo(r, "done") /\ UNCHANGED <<todo, written, marked>>
  BY DEF WriteVerdict
<1>3. TypeOK /\ s \in Students /\ row[s] \in Rows
  BY LoadedFacts DEF IInv, TypeOK
<1> DEFINE x == [row[s] EXCEPT !.status = IF v = loaded[r][s].status THEN @ ELSE v]
<1>4. row' = [row EXCEPT ![s] = x]
  BY <1>1, <1>3 DEF TypeOK
<1>5. /\ x \in Rows /\ x.work = row[s].work
      /\ x.status = row[s].status \/ x.status \in {"graded", "returned"}
  BY <1>1, <1>3 DEF Rows, Absent, Draft
<1> HIDE DEF x
<1>6. x.status = "missing" => s \in marked
  BY <1>3, <1>5 DEF IInv, MarkedInv
<1>7. calm' \in BOOLEAN /\ pc[r] # "mark" /\ pc[r] # "submit"
  BY <1>1, <1>2, <1>3 DEF TypeOK
<1>8. /\ TypeOK' /\ WrittenInv' /\ MarkedInv' /\ SubmitInv' /\ RunInv'
      /\ row'[s] = x /\ \A t \in Students \ {s} : row'[t] = row[t]
      /\ About(r)' = {} /\ pc'[r] = "done"
      /\ \A q \in Requests \ {r} : /\ pc'[q] = pc[q] /\ loaded'[q] = loaded[q]
                                   /\ About(q)' = About(q)
  BY <1>2, <1>3, <1>4, <1>5, <1>6, <1>7, RowFacts
<1>9. CalmInv'
  <2> SUFFICES ASSUME calm' PROVE CalmInv'
    BY DEF CalmInv
  <2>1. calm /\ row[s].work # None /\ written' = written
    BY <1>1, <1>2
  <2>2. row[s].status \notin {"absent", "draft", "missing"}
    BY <1>3, <2>1 DEF IInv, CalmInv, Consistent
  <2>3. (\A t \in Students : Consistent(row[t]))'
    BY <1>5, <1>8, <2>1, <2>2 DEF IInv, CalmInv, Consistent
  <2>4. (\A q \in Requests : \A t \in About(q) : Consistent(loaded[q][t]))'
    BY <1>8, <2>1 DEF IInv, CalmInv, Consistent
  <2>5. (\A q \in Requests : \A t \in About(q) :
           pc[q] = "submit" /\ loaded[q][t].status = "missing" => row[t].status = "missing")'
    <3> SUFFICES ASSUME NEW q \in Requests, NEW t \in About(q)', pc'[q] = "submit",
                        loaded'[q][t].status = "missing"
                 PROVE  row'[t].status = "missing"
      OBVIOUS
    <3>1. q # r /\ pc[q] = "submit" /\ t \in About(q) /\ loaded[q][t].status = "missing"
      BY <1>8
    <3>2. t \in Students /\ row[t].status = "missing"
      BY <1>3, <2>1, <3>1, LoadedFacts DEF IInv, CalmInv
    <3> QED
      BY <1>8, <2>2, <3>2
  <2>6. \A p, q \in Requests : \A t \in Students :
          /\ pc'[p] = "submit" /\ t \in About(p)' /\ pc'[q] = "submit" /\ t \in About(q)'
          => p = q
    BY <1>8, <2>1 DEF IInv, CalmInv
  <2> QED
    BY <2>3, <2>4, <2>5, <2>6 DEF CalmInv
<1>10. DraftInv'
  <2>1. calm' => calm /\ row[s].work # None
    BY <1>1
  <2>2. calm' => row[s].status \notin {"absent", "draft"}
    BY <1>3, <2>1 DEF IInv, CalmInv, Consistent
  <2>3. calm' => \A q \in Requests :
                   /\ s \notin written[q]
                   /\ pc[q] = "mark" /\ s \in About(q) => loaded[q][s].status # "draft"
    BY <2>1, <2>2 DEF IInv, DraftInv
  <2>4. written'[r] = {} /\ pc'[r] # "mark" /\ \A q \in Requests \ {r} : written'[q] = written[q]
    BY <1>2, <1>7, <1>8 DEF IInv, WrittenInv
  <2> QED
    BY <1>8, <2>1, <2>3, <2>4, DraftKept
<1> QED
  BY <1>8, <1>9, <1>10 DEF IInv

\* A run that writes a row of the class holds its lock alone from then on.
LEMMA MarkNextStep ==
  ASSUME IInv, NEW r \in Requests, MarkNext(r)
  PROVE  IInv'
<1>1. /\ pc[r] = "mark" /\ row' = row /\ marked' = marked /\ calm' = calm
      /\ TypeOK /\ todo' \in [Requests -> SUBSET Students]
  <2>1. TypeOK /\ pc[r] = "mark" /\ UNCHANGED <<row, marked, calm>>
    BY DEF MarkNext, IInv
  <2>2. (\E s \in todo[r] : todo' = [todo EXCEPT ![r] = @ \ {s}]) \/ todo' = [todo EXCEPT ![r] = {}]
    BY DEF MarkNext
  <2> QED
    BY <2>1, <2>2 DEF TypeOK
<1>2. PICK s \in todo[r] :
        \/ UNCHANGED <<pc, loaded, written>>
        \/ GoTo(r, "failed") /\ written' = [written EXCEPT ![r] = {}]
        \/ /\ ~ Skipped(loaded[r][s]) /\ Free(r, s) /\ ~ Taken(r, s)
           /\ written' = [written EXCEPT ![r] = @ \cup {s}]
           /\ UNCHANGED <<pc, loaded>>
  BY DEF MarkNext
<1>3. s \in Students
  BY <1>1 DEF TypeOK
<1>4. CASE UNCHANGED <<pc, loaded, written>>
  BY <1>1, <1>4 DEF IInv, TypeOK, WrittenInv, MarkedInv, SubmitInv, RunInv, CalmInv, DraftInv,
     Consistent, About
<1>5. CASE GoTo(r, "failed") /\ written' = [written EXCEPT ![r] = {}]
  BY <1>1, <1>5, EndStep
<1>6. CASE /\ ~ Skipped(loaded[r][s]) /\ Free(r, s) /\ ~ Taken(r, s)
           /\ written' = [written EXCEPT ![r] = @ \cup {s}]
           /\ UNCHANGED <<pc, loaded>>
  <2>1. /\ pc' = pc /\ loaded' = loaded /\ \A q \in Requests : About(q)' = About(q)
        /\ written' \in [Requests -> SUBSET Students]
        /\ written'[r] = written[r] \cup {s} /\ \A q \in Requests \ {r} : written'[q] = written[q]
    BY <1>1, <1>3, <1>6 DEF TypeOK, About
  <2>2. TypeOK'
    BY <1>1, <2>1 DEF TypeOK
  <2>3. WrittenInv'
    BY <1>1, <1>6, <2>1 DEF IInv, WrittenInv, Free
  <2>4. MarkedInv' /\ SubmitInv' /\ RunInv'
    BY <1>1, <2>1 DEF IInv, MarkedInv, SubmitInv, RunInv
  <2>5. s \in About(r) /\ loaded[r][s] \in Rows
    BY <1>1, <1>3, LoadedFacts DEF IInv, RunInv
  <2>6. CalmInv'
    BY <1>1, <2>1 DEF IInv, CalmInv, Consistent
  <2>7. calm => row[s].status \in {"absent", "draft"} /\ row[s].status = loaded[r][s].status
    <3> SUFFICES ASSUME calm
                 PROVE  row[s].status \in {"absent", "draft"} /\ row[s].status = loaded[r][s].status
      OBVIOUS
    <3>1. loaded[r][s].status \in {"absent", "draft"}
      BY <1>6, <2>5 DEF IInv, CalmInv, Consistent, Skipped
    <3>2. CASE loaded[r][s].status = "absent"
      BY <1>6, <2>5, <3>2, RowsFacts DEF Taken
    <3>3. CASE loaded[r][s].status = "draft"
      BY <1>1, <2>5, <3>3 DEF IInv, DraftInv
    <3> QED
      BY <3>1, <3>2, <3>3
  <2>8. DraftInv'
    <3> SUFFICES ASSUME calm' PROVE DraftInv'
      BY DEF DraftInv
    <3>1. calm
      BY <1>1
    <3>2. (\A q \in Requests : \A t \in written[q] :
             row[t].status \in {"absent", "draft"} /\ row[t].status = loaded[q][t].status)'
      BY <1>1, <2>1, <2>7, <3>1 DEF IInv, DraftInv
    <3> QED
      BY <1>1, <2>1, <3>1, <3>2 DEF IInv, DraftInv
  <2> QED
    BY <2>2, <2>3, <2>4, <2>6, <2>8 DEF IInv
<1> QED
  BY <1>2, <1>4, <1>5, <1>6

\* All that a run has written becomes missing at once.
LEMMA CommitStep ==
  ASSUME IInv, NEW r \in Requests, Commit(r)
  PROVE  IInv'
<1>1. /\ pc[r] = "mark" /\ GoTo(r, "done") /\ todo' = todo /\ calm' = calm
      /\ marked' = marked \cup written[r] /\ written' = [written EXCEPT ![r] = {}]
      /\ row' = [s \in Students |-> IF s \in written[r] THEN [row[s] EXCEPT !.status = "missing"]
                                                        ELSE row[s]]
  BY DEF Commit
<1>2. TypeOK /\ written[r] \subseteq Students
  BY DEF IInv, TypeOK
<1>3. /\ pc' \in [Requests -> {"idle"} \cup Busy \cup Ended]
      /\ loaded' \in [Requests -> UNION {[S -> Rows] : S \in SUBSET Students}]
      /\ pc'[r] = "done" /\ About(r)' = {}
      /\ \A q \in Requests \ {r} : /\ pc'[q] = pc[q] /\ loaded'[q] = loaded[q]
                                   /\ About(q)' = About(q)
  BY <1>1, EndFacts
<1>4. /\ written' \in [Requests -> SUBSET Students]
      /\ written'[r] = {} /\ \A q \in Requests \ {r} : written'[q] = written[q]
  BY <1>1, <1>2 DEF TypeOK
<1>5. \A s \in Students :
        /\ row[s] \in Rows /\ row'[s] \in Rows
        /\ s \notin written[r] => row'[s] = row[s]
        /\ s \in written[r] => row'[s].status = "missing" /\ row'[s].work = row[s].work
  <2> SUFFICES ASSUME NEW s \in Students
               PROVE  /\ row[s] \in Rows /\ row'[s] \in Rows
                      /\ s \notin written[r] => row'[s] = row[s]
                      /\ s \in written[r] => row'[s].status = "missing" /\ row'[s].work = row[s].work
    OBVIOUS
  <2>1. row[s] \in Rows
    BY <1>2 DEF TypeOK
  <2>2. /\ [row[s] EXCEPT !.status = "missing"] \in Rows
        /\ [row[s] EXCEPT !.status = "missing"].status = "missing"
        /\ [row[s] EXCEPT !.status = "missing"].work = row[s].work
    BY <2>1 DEF Rows, Absent, Draft
  <2> QED
    BY <1>1, <2>1, <2>2
<1>6. row' \in [Students -> Rows]
  <2>1. row' = [s \in Students |-> row'[s]]
    BY <1>1
  <2> QED
    BY <1>5, <2>1
<1>7. TypeOK'
  BY <1>1, <1>2, <1>3, <1>4, <1>6 DEF TypeOK
<1>8. WrittenInv'
  BY <1>3, <1>4 DEF IInv, WrittenInv
<1>9. MarkedInv'
  BY <1>1, <1>3, <1>5 DEF IInv, MarkedInv
<1>10. SubmitInv' /\ RunInv'
  BY <1>3 DEF IInv, SubmitInv, RunInv
<1>11. CalmInv'
  <2> SUFFICES ASSUME calm' PROVE CalmInv'
    BY DEF CalmInv
  <2>1. calm
    BY <1>1
  <2>2. \A s \in written[r] : row[s].work = None
    <3> SUFFICES ASSUME NEW s \in written[r] PROVE row[s].work = None
      OBVIOUS
    <3>1. s \in Students /\ row[s].status \in {"absent", "draft"}
      BY <1>2, <2>1 DEF IInv, DraftInv
    <3> QED
      BY <2>1, <3>1 DEF IInv, CalmInv, Consistent
  <2>3. (\A t \in Students : Consistent(row[t]))'
    <3> SUFFICES ASSUME NEW t \in Students PROVE Consistent(row'[t])
      BY DEF Consistent
    <3>1. CASE t \in written[r]
      BY <1>5, <2>2, <3>1 DEF Consistent
    <3>2. CASE t \notin written[r]
      BY <1>5, <2>1, <3>2 DEF IInv, CalmInv
    <3> QED
      BY <3>1, <3>2
  <2>4. (\A q \in Requests : \A t \in About(q) : Consistent(loaded[q][t]))'
    BY <1>3, <2>1 DEF IInv, CalmInv, Consistent
  <2>5. (\A q \in Requests : \A t \in About(q) :
           pc[q] = "submit" /\ loaded[q][t].status = "missing" => row[t].status = "missing")'
    <3> SUFFICES ASSUME NEW q \in Requests, NEW t \in About(q)', pc'[q] = "submit",
                        loaded'[q][t].status = "missing"
                 PROVE  row'[t].status = "missing"
      OBVIOUS
    <3>1. q # r /\ pc[q] = "submit" /\ t \in About(q) /\ loaded[q][t].status = "missing"
      BY <1>3
    <3>2. t \in Students /\ row[t].status = "missing"
      BY <1>2, <2>1, <3>1, LoadedFacts DEF IInv, CalmInv
    <3>3. CASE t \in written[r]
      BY <1>5, <3>2, <3>3
    <3>4. CASE t \notin written[r]
      BY <1>5, <3>2, <3>4
    <3> QED
      BY <3>3, <3>4
  <2>6. \A p, q \in Requests : \A t \in Students :
          /\ pc'[p] = "submit" /\ t \in About(p)' /\ pc'[q] = "submit" /\ t \in About(q)'
          => p = q
    BY <1>3, <2>1 DEF IInv, CalmInv
  <2> QED
    BY <2>3, <2>4, <2>5, <2>6 DEF CalmInv
<1>12. DraftInv'
  <2>1. ASSUME calm', NEW s \in written[r], NEW q \in Requests \ {r}
        PROVE  /\ s \notin written[q]
               /\ pc[q] = "mark" /\ s \in About(q) => loaded[q][s].status # "draft"
    <3>1. s \in Students /\ s \notin written[q]
      BY <1>2 DEF IInv, WrittenInv
    <3>2. ASSUME pc[q] = "mark", s \in About(q), loaded[q][s].status = "draft" PROVE FALSE
      <4>1. calm /\ s \in About(r)
        BY <1>1, <2>1, <3>1 DEF IInv, RunInv
      <4>2. row[s].status = "draft" /\ loaded[r][s].status = "draft"
        BY <3>2, <4>1 DEF IInv, DraftInv
      <4> QED
        BY <1>1, <3>2, <4>1, <4>2 DEF IInv, DraftInv
    <3> QED
      BY <3>1, <3>2
  <2>2. calm' => \A s \in Students :
          \/ row'[s].status = row[s].status
          \/ \A q \in Requests \ {r} :
               /\ s \notin written[q]
               /\ pc[q] = "mark" /\ s \in About(q) => loaded[q][s].status # "draft"
    BY <1>5, <2>1
  <2> QED
    BY <1>1, <1>3, <1>4, <2>2, DraftKept
<1> QED
  BY <1>7, <1>8, <1>9, <1>10, <1>11, <1>12 DEF IInv

LEMMA IInvStep ==
  ASSUME IInv, [Next]_vars
  PROVE  IInv'
<1>1. TypeOK
  BY DEF IInv
<1>2. CASE UNCHANGED vars
  BY <1>2 DEF vars, IInv, TypeOK, WrittenInv, MarkedInv, SubmitInv, RunInv, CalmInv, DraftInv,
     Consistent, About
<1>3. ASSUME NEW r \in Requests, ArriveTeacher(r)
      PROVE  IInv'
  <2>1. PICK s \in Students, l \in Teaching \cup {"failed"} :
          Arrive(r, l, {s}) /\ UNCHANGED <<row, todo, written, marked, calm>>
    BY <1>3 DEF ArriveTeacher
  <2>2. todo' \in [Requests -> SUBSET Students] /\ calm' \in BOOLEAN
    BY <1>1, <2>1 DEF TypeOK
  <2> QED
    BY <2>1, <2>2, ArriveOtherStep
<1>4. ASSUME NEW r \in Requests, ArriveRun(r)
      PROVE  IInv'
  <2>1. /\ Arrive(r, "mark", Students) /\ todo' = [todo EXCEPT ![r] = Students]
        /\ calm' = (calm /\ ~ ShareADraft(r)) /\ UNCHANGED <<row, written, marked>>
    BY <1>4 DEF ArriveRun
  <2>2. todo' \in [Requests -> SUBSET Students]
    BY <1>1, <2>1 DEF TypeOK
  <2> QED
    BY <1>1, <2>1, <2>2, ArriveOtherStep DEF TypeOK
<1>5. ASSUME NEW r \in Requests, Crash(r)
      PROVE  IInv'
  <2>1. /\ GoTo(r, "failed") /\ todo' = [todo EXCEPT ![r] = {}]
        /\ written' = [written EXCEPT ![r] = {}] /\ UNCHANGED <<row, marked, calm>>
    BY <1>5 DEF Crash
  <2>2. todo' \in [Requests -> SUBSET Students]
    BY <1>1, <2>1 DEF TypeOK
  <2> QED
    BY <2>1, <2>2, EndStep
<1> QED
  BY <1>2, <1>3, <1>4, <1>5, ArriveStudentStep, SaveStep, VerdictStep, MarkNextStep, CommitStep
  DEF Next

-----------------------------------------------------------------------------
\* The invariant holds of every behaviour, whatever the number of students and
\* of requests.
THEOREM Invariance == Spec => []IInv
<1>1. Init => IInv
  BY InitIInv
<1>2. IInv /\ [Next]_vars => IInv'
  BY IInvStep
<1> QED
  BY <1>1, <1>2, PTL DEF Spec

\* Every variable keeps its type; above all, no run is left with a lock on a row
\* of a student it is not about (missing_work_job.rb:28-58).
THEOREM TypeCorrect == Spec => []TypeOK
<1>1. IInv => TypeOK
  BY DEF IInv
<1> QED
  BY <1>1, Invariance, PTL

\* The work of a student whose submission was never marked missing is never
\* replaced (submissions_controller.rb:121-133).
THEOREM FirstWorkStands == Spec => OnlyMissingWorkIsReplaced
<1> DEFINE Kept == \A s \in Students \ marked : row[s].work # None => row'[s].work = row[s].work
<1>1. ASSUME IInv, [Next]_vars PROVE [Kept]_vars
  <2>1. IInv /\ TypeOK
    BY <1>1 DEF IInv
  <2>2. CASE row' = row
    BY <2>2
  <2>3. ASSUME NEW r \in Requests, SaveSubmission(r) PROVE Kept
    <3>1. PICK t \in About(r) :
            /\ Free(r, t) /\ (Taken(r, t) => row' = row)
            /\ ~ Taken(r, t) => row' = [row EXCEPT ![t] = Submitted(r)]
      BY <2>3 DEF SaveSubmission
    <3>2. CASE Taken(r, t)
      BY <3>1, <3>2
    <3>3. CASE ~ Taken(r, t)
      <4>1. t \in Students /\ (row[t] # Absent => t \in marked)
        BY <2>1, <2>3, <3>1, <3>3, SaveFacts DEF SaveSubmission
      <4>2. \A s \in Students \ {t} : row'[s] = row[s]
        BY <2>1, <3>1, <3>3 DEF TypeOK
      <4> QED
        BY <4>1, <4>2 DEF Absent
    <3> QED
      BY <3>2, <3>3
  <2>4. ASSUME NEW r \in Requests, WriteVerdict(r) PROVE Kept
    <3>1. PICK t \in About(r), v \in {"graded", "returned"} :
            row' = [row EXCEPT ![t].status = IF v = loaded[r][t].status THEN @ ELSE v]
      BY <2>4 DEF WriteVerdict
    <3>2. t \in Students
      BY <2>1, LoadedFacts DEF IInv
    <3>3. \A s \in Students : row[s] \in Rows
      BY <2>1 DEF TypeOK
    <3> QED
      BY <2>1, <3>1, <3>2, <3>3 DEF TypeOK, Rows, Absent, Draft
  <2>5. ASSUME NEW r \in Requests, Commit(r) PROVE Kept
    <3>1. \A s \in Students : row[s] \in Rows
      BY <2>1 DEF TypeOK
    <3> QED
      BY <2>5, <3>1 DEF Commit, Rows, Absent, Draft
  <2> QED
    BY <1>1, <2>2, <2>3, <2>4, <2>5
    DEF Next, vars, ArriveStudent, ArriveTeacher, ArriveRun, MarkNext, Crash
<1> QED
  BY <1>1, Invariance, PTL DEF Spec, OnlyMissingWorkIsReplaced

\* As long as all is calm, no submission ever goes back: submitted work is not
\* marked missing, and graded work is not reopened (missing_work_job.rb:39-56).
THEOREM NothingEverGoesBack == Spec => NothingGoesBack
<1> DEFINE Grows == calm' => \A s \in Students : Rank(s)' >= Rank(s)
<1>1. ASSUME IInv, [Next]_vars PROVE [Grows]_vars
  <2>1. IInv /\ TypeOK /\ (\A s \in Students : row[s] \in Rows /\ Rank(s) \in 0 .. 3)
    BY <1>1 DEF IInv, TypeOK, Rank
  <2>2. CASE row' = row
    BY <2>1, <2>2 DEF Rank
  <2>3. ASSUME NEW r \in Requests, SaveSubmission(r) PROVE Grows
    <3> SUFFICES ASSUME calm', NEW s \in Students PROVE Rank(s)' >= Rank(s)
      OBVIOUS
    <3>1. PICK t \in About(r) :
            /\ Free(r, t) /\ (Taken(r, t) => row' = row)
            /\ ~ Taken(r, t) => row' = [row EXCEPT ![t] = Submitted(r)]
      BY <2>3 DEF SaveSubmission
    <3>2. calm /\ pc[r] = "submit"
      BY <2>3 DEF SaveSubmission
    <3>3. CASE Taken(r, t)
      BY <2>1, <3>1, <3>3 DEF Rank
    <3>4. CASE ~ Taken(r, t)
      <4>1. t \in Students /\ row[t].status \in {"absent", "missing"}
        BY <2>1, <3>1, <3>2, <3>4, SaveFacts
      <4>2. row'[t].status = "submitted" /\ \A u \in Students \ {t} : row'[u] = row[u]
        BY <2>1, <3>1, <3>4, <4>1 DEF TypeOK, Submitted
      <4>3. CASE s = t
        BY <4>1, <4>2, <4>3 DEF Rank
      <4>4. CASE s # t
        BY <2>1, <4>2, <4>4 DEF Rank
      <4> QED
        BY <4>3, <4>4
    <3> QED
      BY <3>3, <3>4
  <2>4. ASSUME NEW r \in Requests, WriteVerdict(r) PROVE Grows
    <3> SUFFICES ASSUME NEW s \in Students PROVE Rank(s)' >= Rank(s)
      OBVIOUS
    <3>1. PICK t \in About(r), v \in {"graded", "returned"} :
            row' = [row EXCEPT ![t].status = IF v = loaded[r][t].status THEN @ ELSE v]
      BY <2>4 DEF WriteVerdict
    <3>2. t \in Students
      BY <2>1, LoadedFacts DEF IInv
    <3>3. /\ row'[t].status = row[t].status \/ row'[t].status \in {"graded", "returned"}
          /\ \A u \in Students \ {t} : row'[u] = row[u]
      BY <2>1, <3>1, <3>2 DEF TypeOK, Rows, Absent, Draft
    <3>4. CASE s = t
      BY <2>1, <3>3, <3>4 DEF Rank
    <3>5. CASE s # t
      BY <2>1, <3>3, <3>5 DEF Rank
    <3> QED
      BY <3>4, <3>5
  <2>5. ASSUME NEW r \in Requests, Commit(r) PROVE Grows
    <3> SUFFICES ASSUME calm', NEW s \in Students PROVE Rank(s)' >= Rank(s)
      OBVIOUS
    <3>1. calm /\ row'[s] = IF s \in written[r] THEN [row[s] EXCEPT !.status = "missing"] ELSE row[s]
      BY <2>5 DEF Commit
    <3>2. CASE s \in written[r]
      <4>1. row[s].status \in {"absent", "draft"}
        BY <2>1, <3>1, <3>2 DEF IInv, DraftInv
      <4>2. Rank(s) = 0
        BY <4>1 DEF Rank
      <4> QED
        BY <2>1, <4>2 DEF Rank
    <3>3. CASE s \notin written[r]
      BY <2>1, <3>1, <3>3 DEF Rank
    <3> QED
      BY <3>2, <3>3
  <2> QED
    BY <1>1, <2>2, <2>3, <2>4, <2>5
    DEF Next, vars, ArriveStudent, ArriveTeacher, ArriveRun, MarkNext, Crash
<1> QED
  BY <1>1, Invariance, PTL DEF Spec, NothingGoesBack
=============================================================================
