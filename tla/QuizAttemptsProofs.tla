------------------------- MODULE QuizAttemptsProofs -------------------------
(***************************************************************************)
(* Theorems about QuizAttempts, for every set of requests, every bound on  *)
(* attempts_allowed and every accommodation, and about AttemptGrading, for *)
(* every set of requests and questions and all points.  The two modules    *)
(* have no variable in common; each theorem is about one of them.          *)
(***************************************************************************)
EXTENDS QuizAttempts, AttemptGrading, FiniteSetTheorems, SequenceTheorems,
        WellFoundedInduction, TLAPS

USE DEF Started, Statuses, Quizzes, Begun, Edits, Refusals, Replies, GoTo

\* The validation counts the rows, the number follows the last one: that the
\* two agree is the crux, and holds because the numbers have no gap.
Numbered == Latest \in Nat /\ Started = 1 .. Latest

\* No quiz that a request holds allows more than the quiz ever did, and a start
\* that passed the limit either still has room or has lost its number already.
Bounded ==
  /\ quiz.allowed + Extra <= highest
  /\ \A r \in Requests : loaded[r].allowed + Extra <= highest
  /\ Latest <= highest

SnapshotsAreOld == \A r \in Requests : seen[r] <= Latest

RoomOrLost ==
  /\ \A r \in Requests : pc[r] = "allowed" => seen[r] < Latest \/ Latest < highest
  /\ \A r \in Requests : pc[r] = "taken" => seen[r] < Latest

\* Each attempt has one author, which has committed; who committed has one.
Authored ==
  /\ \A n \in Started : pc[attempts[n]] \in {"committed", "created", "failed"}
  /\ \A m, n \in Started : attempts[m] = attempts[n] => m = n
  /\ \A r \in Requests : pc[r] \in {"committed", "created"} =>
                           \E n \in Started : attempts[n] = r

IInv == TypeOK /\ Numbered /\ Bounded /\ SnapshotsAreOld /\ RoomOrLost /\ Authored

LEMMA CountOfInterval ==
  ASSUME NEW k \in Nat
  PROVE  Cardinality(1 .. k) = k
  BY FS_Interval

LEMMA InitIInv == Init => IInv
<1> SUFFICES ASSUME Init PROVE IInv
  OBVIOUS
<1>1. Started = {} /\ Latest = 0
  BY FS_EmptySet DEF Init, Latest
<1>2. \A r \in Requests : pc[r] = "idle" /\ seen[r] = 0 /\ loaded[r] = quiz
  BY DEF Init
<1>3. TypeOK
  BY <1>1, ConstantsAssumption DEF Init, TypeOK
<1>4. Numbered
  BY <1>1 DEF Numbered
<1>5. Bounded
  BY <1>1, <1>2, <1>3, ConstantsAssumption DEF Init, Bounded, TypeOK
<1> QED
  BY <1>1, <1>2, <1>3, <1>4, <1>5 DEF IInv, SnapshotsAreOld, RoomOrLost, Authored

\* A start that gets its attempt gets the next number, and there was room.
LEMMA InsertAppends ==
  ASSUME IInv, NEW r \in Requests, InsertAttempt(r), ~ IndexRefuses(r)
  PROVE  /\ seen[r] = Latest /\ Latest < highest
         /\ Started' = 1 .. Latest + 1 /\ Latest' = Latest + 1
         /\ attempts' = [n \in 1 .. Latest + 1 |->
                           IF n = Latest + 1 THEN r ELSE attempts[n]]
         /\ pc[r] = "allowed" /\ pc' = [pc EXCEPT ![r] = "committed"]
<1>1. Latest \in Nat /\ Started = 1 .. Latest /\ seen[r] \in Nat /\ seen[r] <= Latest
  BY DEF IInv, Numbered, SnapshotsAreOld, TypeOK
<1>2. /\ NextNumber(r) \notin Started /\ pc[r] = "allowed"
      /\ attempts' = [n \in Started \cup {NextNumber(r)} |->
                        IF n = NextNumber(r) THEN r ELSE attempts[n]]
      /\ pc' = [pc EXCEPT ![r] = "committed"]
  BY DEF InsertAttempt, IndexRefuses
<1>3. seen[r] = Latest /\ NextNumber(r) = Latest + 1
  BY <1>1, <1>2 DEF NextNumber
<1>4. Started \cup {NextNumber(r)} = 1 .. Latest + 1
  BY <1>1, <1>3
<1>5. Latest < highest
  BY <1>1, <1>2, <1>3 DEF IInv, RoomOrLost
<1>6. Started' = 1 .. Latest + 1
  BY <1>2, <1>4
<1>7. Latest' = Latest + 1
  BY <1>1, <1>6, CountOfInterval DEF Latest
<1> QED
  BY <1>2, <1>3, <1>4, <1>5, <1>6, <1>7

LEMMA InsertStep ==
  ASSUME IInv, NEW r \in Requests, InsertAttempt(r)
  PROVE  IInv'
<1> USE DEF IInv, TypeOK
<1>1. CASE IndexRefuses(r)
  <2>1. /\ pc[r] = "allowed" /\ pc' = [pc EXCEPT ![r] = "taken"]
        /\ lock' = IF lock = r THEN NoOne ELSE lock
        /\ UNCHANGED <<quiz, attempts, loaded, param, seen, highest>>
    BY <1>1 DEF InsertAttempt, Unlock
  <2>2. UNCHANGED Latest
    BY <2>1 DEF Latest
  <2>3. seen[r] < Latest
    BY <1>1 DEF IndexRefuses, NextNumber, Numbered
  <2>4. TypeOK' /\ Numbered' /\ Bounded' /\ SnapshotsAreOld'
    BY <2>1, <2>2 DEF Numbered, Bounded, SnapshotsAreOld
  <2>5. RoomOrLost'
    BY <2>1, <2>2, <2>3 DEF RoomOrLost
  <2>6. Authored'
    BY <2>1 DEF Authored
  <2> QED
    BY <2>4, <2>5, <2>6
<1>2. CASE ~ IndexRefuses(r)
  <2> DEFINE k == Latest
  <2>1. /\ seen[r] = k /\ k < highest /\ Started' = 1 .. k + 1 /\ Latest' = k + 1
        /\ attempts' = [n \in 1 .. k + 1 |-> IF n = k + 1 THEN r ELSE attempts[n]]
        /\ pc[r] = "allowed" /\ pc' = [pc EXCEPT ![r] = "committed"]
    BY <1>2, InsertAppends
  <2>2. /\ lock' = IF lock = r THEN NoOne ELSE lock
        /\ UNCHANGED <<quiz, loaded, param, seen, highest>>
    BY DEF InsertAttempt, Unlock
  <2>3. k \in Nat /\ Started = 1 .. k
    BY DEF Numbered
  <2>4. /\ \A n \in 1 .. k : n \in Started' /\ attempts'[n] = attempts[n]
        /\ attempts'[k + 1] = r /\ k + 1 \in Started'
        /\ \A n \in Started' : n = k + 1 \/ n \in 1 .. k
    BY <2>1, <2>3
  <2>5. TypeOK'
    <3>1. Started' \subseteq Nat /\ attempts' \in [Started' -> Requests]
      BY <2>1, <2>3
    <3> QED
      BY <2>1, <2>2, <3>1
  <2>6. Numbered' /\ Bounded' /\ SnapshotsAreOld'
    BY <2>1, <2>2, <2>3 DEF Numbered, Bounded, SnapshotsAreOld
  <2>7. RoomOrLost'
    BY <2>1, <2>2, <2>3 DEF RoomOrLost, SnapshotsAreOld
  <2>8. \A n \in 1 .. k : attempts[n] # r
    BY <2>1, <2>3 DEF Authored
  <2>9. Authored'
    <3>1. \A n \in Started' : pc'[attempts'[n]] \in {"committed", "created", "failed"}
      BY <2>1, <2>3, <2>4, <2>8 DEF Authored
    <3>2. ASSUME NEW m \in Started', NEW n \in Started', attempts'[m] = attempts'[n]
          PROVE  m = n
      <4>1. \A i, j \in 1 .. k : attempts[i] = attempts[j] => i = j
        BY <2>3 DEF Authored
      <4>2. CASE m = k + 1
        BY <2>4, <2>8, <3>2, <4>2
      <4>3. CASE n = k + 1
        BY <2>4, <2>8, <3>2, <4>3
      <4>4. CASE m \in 1 .. k /\ n \in 1 .. k
        BY <2>4, <3>2, <4>1, <4>4
      <4> QED
        BY <2>4, <4>2, <4>3, <4>4
    <3>3. ASSUME NEW q \in Requests, pc'[q] \in {"committed", "created"}
          PROVE  \E n \in Started' : attempts'[n] = q
      <4>1. CASE q = r
        BY <2>4, <4>1
      <4>2. CASE q # r
        <5>1. pc[q] \in {"committed", "created"}
          BY <2>1, <3>3, <4>2
        <5>2. PICK n \in 1 .. k : attempts[n] = q
          BY <2>3, <5>1 DEF Authored
        <5> QED
          BY <2>4, <5>2
      <4> QED
        BY <4>1, <4>2
    <3> QED
      BY <3>1, <3>2, <3>3 DEF Authored
  <2> QED
    BY <2>5, <2>6, <2>7, <2>9
<1> QED
  BY <1>1, <1>2

\* A step that leaves the attempts alone, and takes r from one place to another
\* that the invariants about attempts allow.
LEMMA AuthoredStep ==
  ASSUME IInv, NEW r \in Requests, NEW l, GoTo(r, l), UNCHANGED attempts,
         \/ pc[r] \notin {"committed", "created", "failed"}
            /\ l \notin {"committed", "created"}
         \/ pc[r] = "committed" /\ l \in {"created", "failed"}
  PROVE  Authored' /\ Numbered' /\ UNCHANGED Latest
<1> USE DEF IInv, TypeOK
<1>1. UNCHANGED Latest
  BY DEF Latest
<1>2. Numbered'
  BY <1>1 DEF Numbered
<1>3. Authored'
  BY DEF Authored
<1> QED
  BY <1>1, <1>2, <1>3

LEMMA StartStep ==
  ASSUME IInv, NEW r \in Requests,
         \/ BeginStart(r) \/ ReadNumbers(r) \/ LockAttempts(r)
         \/ CheckNumber(r) \/ CheckLimit(r) \/ Respond(r) \/ Crash(r)
  PROVE  IInv'
<1> USE DEF IInv, TypeOK
<1>1. CASE BeginStart(r)
  <2>1. /\ pc[r] = "idle" /\ GoTo(r, "start") /\ loaded' = [loaded EXCEPT ![r] = quiz]
        /\ UNCHANGED <<quiz, attempts, lock, seen, highest, param>>
    BY <1>1 DEF BeginStart, Load
  <2>2. Authored' /\ Numbered' /\ UNCHANGED Latest
    BY <2>1, AuthoredStep
  <2>3. TypeOK'
    BY <2>1
  <2> QED
    BY <2>1, <2>2, <2>3 DEF Bounded, SnapshotsAreOld, RoomOrLost
<1>2. CASE ReadNumbers(r)
  <2>1. PICK m \in {0} \cup Started :
          /\ pc[r] = "start" /\ GoTo(r, "waiting") /\ seen' = [seen EXCEPT ![r] = m]
          /\ UNCHANGED <<quiz, attempts, lock, loaded, param, highest>>
    BY <1>2 DEF ReadNumbers
  <2>2. Authored' /\ Numbered' /\ UNCHANGED Latest
    BY <2>1, AuthoredStep
  <2>3. m \in Nat /\ m <= Latest
    BY <2>1 DEF Numbered
  <2>4. TypeOK'
    BY <2>1, <2>3
  <2> QED
    BY <2>1, <2>2, <2>3, <2>4 DEF Bounded, SnapshotsAreOld, RoomOrLost
<1>3. CASE LockAttempts(r)
  <2>1. /\ pc[r] = "waiting" /\ lock' \in {lock, r}
        /\ GoTo(r, "numbered") \/ GoTo(r, "forbidden")
        /\ UNCHANGED <<quiz, attempts, loaded, param, seen, highest>>
    BY <1>3 DEF LockAttempts, Lock
  <2>2. Authored' /\ Numbered' /\ UNCHANGED Latest
    BY <2>1, AuthoredStep
  <2>3. TypeOK'
    BY <2>1
  <2> QED
    BY <2>1, <2>2, <2>3 DEF Bounded, SnapshotsAreOld, RoomOrLost
<1>4. CASE CheckNumber(r)
  <2>1. /\ pc[r] = "numbered" /\ lock' \in {lock, NoOne}
        /\ \/ GoTo(r, "taken") /\ NextNumber(r) \in Started
           \/ GoTo(r, "unique")
        /\ UNCHANGED <<quiz, attempts, loaded, param, seen, highest>>
    BY <1>4 DEF CheckNumber, Unlock
  <2>2. Authored' /\ Numbered' /\ UNCHANGED Latest
    BY <2>1, AuthoredStep
  <2>3. NextNumber(r) \in Started => seen[r] < Latest
    BY DEF NextNumber, Numbered
  <2>4. TypeOK'
    BY <2>1
  <2> QED
    BY <2>1, <2>2, <2>3, <2>4 DEF Bounded, SnapshotsAreOld, RoomOrLost
<1>5. CASE CheckLimit(r)
  <2>1. /\ pc[r] = "unique" /\ lock' \in {lock, NoOne}
        /\ GoTo(r, "limit") \/ (GoTo(r, "allowed") /\ ~ LimitReached(r))
        /\ UNCHANGED <<quiz, attempts, loaded, param, seen, highest>>
    BY <1>5 DEF CheckLimit, Unlock
  <2>2. Authored' /\ Numbered' /\ UNCHANGED Latest
    BY <2>1, AuthoredStep
  <2>3. ~ LimitReached(r) => Latest < highest
    BY ConstantsAssumption DEF LimitReached, Bounded, Numbered
  <2>4. TypeOK'
    BY <2>1
  <2> QED
    BY <2>1, <2>2, <2>3, <2>4 DEF Bounded, SnapshotsAreOld, RoomOrLost
<1>6. CASE Respond(r)
  <2>1. /\ pc[r] = "committed" /\ GoTo(r, "created")
        /\ UNCHANGED <<quiz, attempts, lock, loaded, param, seen, highest>>
    BY <1>6 DEF Respond
  <2>2. Authored' /\ Numbered' /\ UNCHANGED Latest
    BY <2>1, AuthoredStep
  <2>3. TypeOK'
    BY <2>1
  <2> QED
    BY <2>1, <2>2, <2>3 DEF Bounded, SnapshotsAreOld, RoomOrLost
<1>7. CASE Crash(r)
  <2>1. /\ pc[r] \in Begun \cup Edits /\ GoTo(r, "failed") /\ lock' \in {lock, NoOne}
        /\ UNCHANGED <<quiz, attempts, loaded, param, seen, highest>>
    BY <1>7 DEF Crash, Unlock
  <2>2. Authored' /\ Numbered' /\ UNCHANGED Latest
    BY <2>1, AuthoredStep
  <2>3. TypeOK'
    BY <2>1
  <2> QED
    BY <2>1, <2>2, <2>3 DEF Bounded, SnapshotsAreOld, RoomOrLost
<1> QED
  BY <1>1, <1>2, <1>3, <1>4, <1>5, <1>6, <1>7

LEMMA TeacherStep ==
  ASSUME IInv, NEW r \in Requests,
         BeginPublish(r) \/ BeginClose(r) \/ BeginChange(r) \/ WriteQuiz(r)
  PROVE  IInv'
<1> USE DEF IInv, TypeOK
<1>1. CASE BeginPublish(r) \/ BeginClose(r) \/ BeginChange(r)
  <2>1. /\ pc[r] = "idle" /\ \E l \in Edits : GoTo(r, l)
        /\ loaded' = [loaded EXCEPT ![r] = quiz]
        /\ param' \in [Requests -> 0 .. MaxAllowed]
        /\ UNCHANGED <<quiz, attempts, lock, seen, highest>>
    BY <1>1 DEF BeginPublish, BeginClose, BeginChange, Load
  <2>2. Authored' /\ Numbered' /\ UNCHANGED Latest
    BY <2>1, AuthoredStep
  <2>3. TypeOK'
    BY <2>1
  <2> QED
    BY <2>1, <2>2, <2>3 DEF Bounded, SnapshotsAreOld, RoomOrLost
<1>2. CASE WriteQuiz(r)
  <2>1. /\ pc[r] \in Edits /\ (GoTo(r, "edited") \/ GoTo(r, "refused"))
        /\ highest' = IF quiz'.allowed + Extra > highest THEN quiz'.allowed + Extra
                                                         ELSE highest
        /\ UNCHANGED <<attempts, lock, loaded, param, seen>>
    BY <1>2 DEF WriteQuiz
  <2>2. Authored' /\ Numbered' /\ UNCHANGED Latest
    BY <2>1, AuthoredStep
  <2>3. quiz' \in Quizzes
    <3>1. CASE ~ EditIsLegal(r)
      BY <1>2, <3>1 DEF WriteQuiz
    <3>2. CASE EditIsLegal(r)
      <4>1. quiz' = Edited(r)
        BY <1>2, <3>2 DEF WriteQuiz
      <4>2. CASE pc[r] = "publish"
        BY <4>1, <4>2 DEF Edited
      <4>3. CASE pc[r] = "close"
        BY <4>1, <4>3 DEF Edited
      <4>4. CASE pc[r] = "change"
        <5>1. param[r] \in 1 .. MaxAllowed
          BY <3>2, <4>4, ConstantsAssumption DEF EditIsLegal
        <5>2. quiz' = IF param[r] = loaded[r].allowed THEN quiz
                      ELSE [quiz EXCEPT !.allowed = param[r]]
          BY <4>1, <4>4 DEF Edited
        <5> QED
          BY <5>1, <5>2
      <4> QED
        BY <2>1, <4>2, <4>3, <4>4
    <3> QED
      BY <3>1, <3>2
  <2>4. /\ highest' \in Nat /\ highest' >= highest /\ quiz'.allowed + Extra <= highest'
    BY <2>1, <2>3, ConstantsAssumption
  <2>5. TypeOK'
    BY <2>1, <2>3, <2>4
  <2>6. Bounded'
    <3>1. Latest \in Nat /\ Latest' = Latest /\ Latest <= highest
      BY <2>2 DEF Bounded, Numbered
    <3>2. \A q \in Requests : loaded'[q] = loaded[q] /\ loaded[q].allowed \in Nat
      BY <2>1
    <3>3. highest \in Nat
      OBVIOUS
    <3> QED
      BY <2>4, <3>1, <3>2, <3>3, ConstantsAssumption DEF Bounded
  <2>7. RoomOrLost' /\ SnapshotsAreOld'
    BY <2>1, <2>2, <2>4 DEF RoomOrLost, SnapshotsAreOld, Numbered
  <2> QED
    BY <2>2, <2>5, <2>6, <2>7
<1> QED
  BY <1>1, <1>2

LEMMA IInvStep == IInv /\ [Next]_vars => IInv'
<1> SUFFICES ASSUME IInv, [Next]_vars PROVE IInv'
  OBVIOUS
<1>1. ASSUME NEW r \in Requests, Arrivals(r) \/ Work(r) \/ Crash(r) PROVE IInv'
  BY <1>1, StartStep, TeacherStep, InsertStep DEF Arrivals, Work
<1>2. CASE UNCHANGED vars
  BY <1>2 DEF vars, IInv, TypeOK, Numbered, Bounded, SnapshotsAreOld, RoomOrLost,
              Authored, Latest
<1> QED
  BY <1>1, <1>2 DEF Next
-----------------------------------------------------------------------------
\* The inductive invariant holds of every state the requests can reach.
THEOREM Invariance == Spec => []IInv
  BY InitIInv, IInvStep, PTL DEF Spec

\* Every variable keeps its type, whatever is loaded, edited or left by a crash.
THEOREM TypeCorrect == Spec => []TypeOK
<1>1. IInv => TypeOK
  BY DEF IInv
<1> QED
  BY <1>1, Invariance, PTL

\* No race of starts, edits and crashes gives the student a gap in the attempt
\* numbers or an attempt more than the quiz once allowed.
THEOREM WithinTheLimit == Spec => []AttemptsStayWithinTheLimit
<1>1. IInv => AttemptsStayWithinTheLimit
  BY DEF IInv, Numbered, Bounded, AttemptsStayWithinTheLimit
<1> QED
  BY <1>1, Invariance, PTL

\* Of the starts that race for a number one gets it: no two refuse each other.
THEOREM SomeStartWins == Spec => []OnlyARivalTakesTheNumber
<1>1. ASSUME IInv, NEW r \in Requests, pc[r] = "taken"
      PROVE  \E n \in Started : n > seen[r] /\ attempts[n] # r
  <2>1. seen[r] \in Nat /\ seen[r] + 1 \in Started
    BY <1>1 DEF IInv, TypeOK, Numbered, RoomOrLost
  <2>2. attempts[seen[r] + 1] # r
    BY <1>1, <2>1 DEF IInv, Authored
  <2> QED
    BY <2>1, <2>2
<1>2. IInv => OnlyARivalTakesTheNumber
  BY <1>1 DEF OnlyARivalTakesTheNumber
<1> QED
  BY <1>2, Invariance, PTL
-----------------------------------------------------------------------------
(* The refinement: an insertion appends to the log, a reply answers.        *)

Entry(r) == [by |-> r, entry |-> "attempt"]
Records  == [by : Requests, entry : {"attempt"}]

LEMMA FunctionIsSequence ==
  ASSUME NEW T, NEW k \in Nat, NEW f \in [1 .. k -> T]
  PROVE  f \in Seq(T)
  BY SeqDef

LEMMA LogIsSequence ==
  ASSUME IInv
  PROVE  /\ Log \in Seq(Records) /\ Len(Log) = Latest /\ DOMAIN Log = 1 .. Latest
         /\ \A r \in Requests : r \in Abstract!Authors <=> \E n \in Started : attempts[n] = r
<1> USE DEF IInv, TypeOK, Numbered
<1>1. Log \in [1 .. Latest -> Records]
  BY DEF Log, Records
<1>2. Log \in Seq(Records)
  BY <1>1, FunctionIsSequence
<1>3. Len(Log) = Latest /\ DOMAIN Log = 1 .. Latest
  BY <1>1, <1>2
<1>4. Abstract!Authors = {attempts[n] : n \in Started}
  BY <1>3 DEF Abstract!Authors, Log
<1> QED
  BY <1>2, <1>3, <1>4

LEMMA RefinesInit == Init => Abstract!LogInit
<1> SUFFICES ASSUME Init PROVE Abstract!LogInit
  OBVIOUS
<1>1. Latest = 0 /\ \A r \in Requests : pc[r] = "idle"
  BY FS_EmptySet DEF Init, Latest
<1>2. Log = <<>>
  BY <1>1 DEF Log
<1>3. Told = [r \in Requests |-> "none"]
  BY <1>1 DEF Told
<1> QED
  BY <1>2, <1>3 DEF Abstract!LogInit

LEMMA RefinesInsert ==
  ASSUME IInv, NEW r \in Requests, InsertAttempt(r), ~ IndexRefuses(r)
  PROVE  Abstract!AppendEntry(r)
<1> DEFINE k == Latest
<1>1. /\ Latest' = k + 1 /\ pc[r] = "allowed" /\ pc' = [pc EXCEPT ![r] = "committed"]
      /\ attempts' = [n \in 1 .. k + 1 |-> IF n = k + 1 THEN r ELSE attempts[n]]
  BY InsertAppends
<1>2. k \in Nat
  BY DEF IInv, Numbered
<1>3. /\ Log \in Seq(Records) /\ Len(Log) = k
      /\ r \in Abstract!Authors <=> \E n \in Started : attempts[n] = r
  BY LogIsSequence
<1>4. Log' = Append(Log, Entry(r))
  <2> DEFINE a == Append(Log, Entry(r))
  <2>1. Entry(r) \in Records
    BY DEF Entry, Records
  <2>2. /\ a \in Seq(Records) /\ Len(a) = k + 1
        /\ \A i \in 1 .. k : a[i] = Log[i]
        /\ a[k + 1] = Entry(r)
    BY <1>3, <2>1, AppendProperties
  <2>3. a \in [1 .. k + 1 -> Records]
    BY <2>2, LenProperties
  <2>4. \A i \in 1 .. k + 1 : i # k + 1 => i \in 1 .. k
    BY <1>2
  <2>5. \A i \in 1 .. k : a[i] = [by |-> attempts[i], entry |-> "attempt"]
    BY <2>2 DEF Log
  <2>6. Log' = [n \in 1 .. k + 1 |-> [by |-> attempts'[n], entry |-> "attempt"]]
    BY <1>1 DEF Log
  <2>7. \A i \in 1 .. k + 1 : [by |-> attempts'[i], entry |-> "attempt"] = a[i]
    BY <1>1, <2>2, <2>4, <2>5 DEF Entry
  <2> QED
    BY <2>3, <2>6, <2>7
<1>5. r \notin Abstract!Authors
  BY <1>1, <1>3 DEF IInv, Authored
<1>6. Told[r] = "none" /\ UNCHANGED Told
  BY <1>1 DEF Told, IInv, TypeOK
<1> QED
  BY <1>4, <1>5, <1>6 DEF Abstract!AppendEntry, Entry

\* Any other step leaves the log, and answers one request or none.
LEMMA RefinesMove ==
  ASSUME IInv, IInv', UNCHANGED attempts, NEW r \in Requests,
         NEW l \in Begun \cup Edits \cup Replies,
         pc[r] \in {"idle"} \cup Begun \cup Edits, GoTo(r, l)
  PROVE  Abstract!Answer(r) \/ UNCHANGED Abstract!logVars
<1> USE DEF IInv, TypeOK
<1> DEFINE a == IF l = "created" THEN "saved" ELSE IF l = "failed" THEN "unknown"
                ELSE IF l \in Refusals THEN "refused" ELSE "none"
<1>1. UNCHANGED Log
  BY DEF Log, Latest
<1>2. Told[r] = "none" /\ Told' = [Told EXCEPT ![r] = a]
  BY DEF Told
<1>3. CASE l \in Begun \cup Edits
  <2>1. Told' = Told
    BY <1>2, <1>3 DEF Told
  <2> QED
    BY <1>1, <2>1 DEF Abstract!logVars
<1>4. CASE l \in Replies
  <2>1. a \in Abstract!Answers \ {"none"}
    BY <1>4 DEF Abstract!Answers
  <2>2. r \in Abstract!Authors <=> \E n \in Started : attempts[n] = r
    BY LogIsSequence
  <2>3. Started' = Started /\ pc'[r] = l /\ l \notin {"idle"} \cup Begun
    BY <1>4
  <2>4. a = "saved" => r \in Abstract!Authors
    <3>1. a = "saved" => pc'[r] = "created"
      BY <2>3
    <3>2. pc'[r] = "created" => \E n \in Started : attempts[n] = r
      BY <2>3 DEF Authored
    <3> QED
      BY <2>2, <3>1, <3>2
  <2>5. a = "refused" => r \notin Abstract!Authors
    <3>1. a = "refused" => pc'[r] \notin {"committed", "created", "failed"}
      BY <2>3
    <3>2. \A n \in Started : pc'[attempts[n]] \in {"committed", "created", "failed"}
      BY <2>3 DEF Authored
    <3> QED
      BY <2>2, <3>1, <3>2
  <2> QED
    BY <1>1, <1>2, <2>1, <2>4, <2>5 DEF Abstract!Answer
<1> QED
  BY <1>3, <1>4

LEMMA OtherStepsMove ==
  ASSUME NEW r \in Requests, Arrivals(r) \/ Work(r) \/ Crash(r),
         ~ (InsertAttempt(r) /\ ~ IndexRefuses(r))
  PROVE  /\ UNCHANGED attempts
         /\ pc[r] \in {"idle"} \cup Begun \cup Edits
         /\ \E l \in Begun \cup Edits \cup Replies : GoTo(r, l)
<1>1. CASE Arrivals(r)
  BY <1>1 DEF Arrivals, BeginStart, BeginPublish, BeginClose, BeginChange, Load
<1>2. CASE ReadNumbers(r) \/ LockAttempts(r) \/ CheckNumber(r)
  BY <1>2 DEF ReadNumbers, LockAttempts, CheckNumber
<1>3. CASE CheckLimit(r) \/ Respond(r) \/ WriteQuiz(r) \/ Crash(r)
  BY <1>3 DEF CheckLimit, Respond, WriteQuiz, Crash
<1>4. CASE InsertAttempt(r) /\ IndexRefuses(r)
  BY <1>4 DEF InsertAttempt
<1> QED
  BY <1>1, <1>2, <1>3, <1>4 DEF Work

\* Racing starts are the appends of RequestLog: one attempt for a start at most,
\* and no reply that the attempts contradict.
THEOREM Refinement == Spec => ImplementsRequestLog
<1>1. IInv /\ IInv' /\ [Next]_vars => [Abstract!LogNext]_(Abstract!logVars)
  <2> SUFFICES ASSUME IInv, IInv', [Next]_vars
               PROVE  Abstract!LogNext \/ UNCHANGED Abstract!logVars
    OBVIOUS
  <2>1. ASSUME NEW r \in Requests, Arrivals(r) \/ Work(r) \/ Crash(r)
        PROVE  Abstract!LogNext \/ UNCHANGED Abstract!logVars
    <3>1. CASE InsertAttempt(r) /\ ~ IndexRefuses(r)
      BY <3>1, RefinesInsert DEF Abstract!LogNext
    <3>2. CASE ~ (InsertAttempt(r) /\ ~ IndexRefuses(r))
      BY <2>1, <3>2, OtherStepsMove, RefinesMove DEF Abstract!LogNext
    <3> QED
      BY <3>1, <3>2
  <2>2. CASE UNCHANGED vars
    BY <2>2 DEF vars, Log, Latest, Told, Abstract!logVars
  <2> QED
    BY <2>1, <2>2 DEF Next
<1> QED
  BY <1>1, RefinesInit, Invariance, PTL
     DEF Spec, ImplementsRequestLog, Abstract!LogSpec
-----------------------------------------------------------------------------
(***************************************************************************)
(* A started attempt, answered and graded (AttemptGrading), for every set  *)
(* of requests, of questions and of points.  The statements are about all  *)
(* of its behaviours, crashes and crowded grading included.                *)
(***************************************************************************)
Fields == {"kind", "own", "todo", "row", "sum", "all"}

\* The shapes of what is stored and of what the requests hold.
ShapeInv ==
  /\ at \in [Calls -> {"idle"} \cup Working \cup Outcomes]
  /\ req = [r \in Calls |-> req[r]]
  /\ \A r \in Calls : req[r] = [f \in Fields |-> req[r][f]]
  /\ answers = [q \in Answered |-> answers[q]]
  /\ \A q \in Answered : answers[q] = [f \in {"text", "points"} |-> answers[q][f]]

Columns == {"status", "score"}

ColumnsInv ==
  /\ attempt = [c \in Columns |-> attempt[c]]
  /\ \A r \in Calls : req[r].own = [c \in Columns |-> req[r].own[c]]

Settled ==
  attempt.status # "in_progress" =>
    attempt.score = Total /\ (NoneUngraded => attempt.status = "graded")

\* What a request that grades alone knows of the attempt.
Knows(r) ==
  /\ at[r] \in Grading => /\ req[r].own.status = attempt.status
                          /\ req[r].own.score = attempt.score
  /\ at[r] = "create" => notices = 0
  /\ at[r] \in {"complete", "score"} => req[r].sum = Total
  /\ at[r] = "score" /\ NoneUngraded => req[r].all

\* A request that is not of the crowd grades alone and knows the attempt; while
\* the attempt is not unsettled, whoever grades does so alone.
AloneInv ==
  /\ \A r \in crowd : at[r] # "idle"
  /\ \A r, s \in Calls : at[r] \in Grading /\ at[s] \in Grading /\ r \notin crowd => r = s
  /\ \A r \in Calls : r \notin crowd => Knows(r)
  /\ ~ unsettled => \A r \in Calls : at[r] \in Grading => r \notin crowd
  /\ ~ unsettled /\ (\A r \in Calls : at[r] \notin Unscored) => Settled
  /\ crowd = {} => notices \in {0, 1}

GradingInv == ShapeInv /\ AloneInv

USE DEF Grading, Working, Outcomes, history

LEMMA InitGradingInv == GradingInit => GradingInv
<1> SUFFICES ASSUME GradingInit PROVE GradingInv
  OBVIOUS
<1> USE DEF GradingInit
<1>1. ShapeInv
  <2>1. req = [r \in Calls |-> req[r]]
    OBVIOUS
  <2>2. \A r \in Calls : req[r] = [f \in Fields |-> req[r][f]]
    BY DEF Fields
  <2>3. answers = [q \in Answered |-> answers[q]] /\ Answered = {}
    BY DEF Nothing, Answered
  <2> QED
    BY <2>1, <2>2, <2>3 DEF ShapeInv
<1>2. AloneInv
  BY DEF AloneInv, Knows, Settled
<1> QED
  BY <1>1, <1>2 DEF GradingInv

\* A save keeps the points that were awarded, and leaves a gap for a new answer.
LEMMA SaveFacts ==
  ASSUME ShapeInv, NEW r \in Calls, WriteAnswer(r)
  PROVE  /\ Total' = Total
         /\ NoneUngraded' => NoneUngraded
         /\ answers' = [q \in Answered' |-> answers'[q]]
         /\ \A q \in Answered' : answers'[q] = [f \in {"text", "points"} |-> answers'[q][f]]
<1>1. answers = [p \in Answered |-> answers[p]]
      /\ \A p \in Answered : answers[p] = [f \in {"text", "points"} |-> answers[p][f]]
  BY DEF ShapeInv
<1> PICK q \in DOMAIN req[r].row :
      IF req[r].row[q].text = "none" /\ q \in Answered
        THEN UNCHANGED answers
        ELSE answers' = IF req[r].row[q].text = "none"
                          THEN [p \in Answered \cup {q} |->
                                  IF p \in Answered THEN answers[p]
                                  ELSE [text |-> req[r].todo[q], points |-> Null]]
                          ELSE IF req[r].row[q].text = req[r].todo[q] THEN answers
                          ELSE [answers EXCEPT ![q].text = req[r].todo[q]]
  BY DEF WriteAnswer
<1> DEFINE text == req[r].todo[q]
<1>2. \/ answers' = answers
      \/ /\ q \notin Answered
         /\ answers' = [p \in Answered \cup {q} |->
                          IF p \in Answered THEN answers[p]
                          ELSE [text |-> text, points |-> Null]]
      \/ answers' = [answers EXCEPT ![q].text = text]
  <2>1. CASE req[r].row[q].text = "none"
    BY <2>1
  <2>2. CASE req[r].row[q].text # "none"
    BY <2>2
  <2> QED
    BY <2>1, <2>2
<1> HIDE DEF text
<1>3. CASE answers' = answers
  BY <1>1, <1>3 DEF Total, Awarded, Graded, NoneUngraded,
     Answered
<1>4. CASE /\ q \notin Answered
           /\ answers' = [p \in Answered \cup {q} |->
                            IF p \in Answered THEN answers[p]
                            ELSE [text |-> text, points |-> Null]]
  <2>1. /\ Answered' = Answered \cup {q}
        /\ \A p \in Answered : answers'[p] = answers[p]
        /\ answers'[q] = [text |-> text, points |-> Null]
    BY <1>4 DEF Answered
  <2>2. q \notin Graded' /\ Graded' = Graded
    BY <2>1 DEF Graded
  <2>3. Awarded(Graded)' = Awarded(Graded)
    BY <2>1, <2>2 DEF Awarded, Graded
  <2>4. ~ NoneUngraded'
    BY <2>1, <2>2 DEF NoneUngraded
  <2>5. \A p \in Answered' : answers'[p] = [f \in {"text", "points"} |-> answers'[p][f]]
    BY <1>1, <2>1
  <2> QED
    BY <1>4, <2>1, <2>3, <2>4, <2>5 DEF Total
<1>5. CASE answers' = [answers EXCEPT ![q].text = text]
  <2>1. /\ Answered' = Answered
        /\ \A p \in Answered : p # q => answers'[p] = answers[p]
    BY <1>1, <1>5 DEF Answered
  <2>2. q \in Answered => answers'[q] = [answers[q] EXCEPT !.text = text]
    BY <1>1, <1>5 DEF Answered
  <2>3. \A p \in Answered : /\ answers'[p].points = answers[p].points
                            /\ answers'[p] = [f \in {"text", "points"} |-> answers'[p][f]]
    BY <1>1, <2>1, <2>2
  <2>4. Graded' = Graded
    BY <2>1, <2>3 DEF Graded
  <2>5. Awarded(Graded)' = Awarded(Graded)
    BY <2>3, <2>4 DEF Awarded, Graded
  <2>6. answers' = [p \in Answered' |-> answers'[p]]
    BY <1>1, <1>5, <2>1
  <2> QED
    BY <2>1, <2>3, <2>4, <2>5, <2>6 DEF Total, NoneUngraded
<1> QED
  BY <1>2, <1>3, <1>4, <1>5

\* The answers keep their shape through an award.
LEMMA AwardFacts ==
  ASSUME ShapeInv, NEW r \in Calls, NEW q, Award(r, q)
  PROVE  /\ answers' = [p \in Answered' |-> answers'[p]]
         /\ \A p \in Answered' : answers'[p] = [f \in {"text", "points"} |-> answers'[p][f]]
<1>1. answers = [p \in Answered |-> answers[p]]
      /\ \A p \in Answered : answers[p] = [f \in {"text", "points"} |-> answers[p][f]]
  BY DEF ShapeInv
<1>2. CASE answers' = answers
  BY <1>1, <1>2 DEF Answered
<1>3. CASE answers' = [answers EXCEPT ![q].points = req[r].todo[q]]
  <2>1. /\ Answered' = Answered
        /\ \A p \in Answered : p # q => answers'[p] = answers[p]
    BY <1>1, <1>3 DEF Answered
  <2>2. q \in Answered => answers'[q] = [answers[q] EXCEPT !.points = req[r].todo[q]]
    BY <1>1, <1>3 DEF Answered
  <2> QED
    BY <1>1, <1>3, <2>1, <2>2
<1> QED
  BY <1>2, <1>3 DEF Award

\* The shape of the requests, and what one of them keeps when it changes another field.
ReqStep(r, changed) ==
  /\ req' = [s \in Calls |-> req'[s]]
  /\ \A s \in Calls : req'[s] = [f \in Fields |-> req'[s][f]]
  /\ \A s \in Calls : s # r => req'[s] = req[s]
  /\ \A f \in Fields \ changed : req'[r][f] = req[r][f]

LEMMA ReqFacts ==
  ASSUME ShapeInv, NEW r \in Calls, NEW u, NEW v, NEW w, NEW x
  PROVE  /\ req' = req => ReqStep(r, {})
         /\ req' = [req EXCEPT ![r].sum = v] => ReqStep(r, {"sum"}) /\ req'[r].sum = v
         /\ req' = [req EXCEPT ![r].all = v] => ReqStep(r, {"all"}) /\ req'[r].all = v
         /\ req' = [req EXCEPT ![r].own = v] => ReqStep(r, {"own"}) /\ req'[r].own = v
         /\ req' = [req EXCEPT ![r].row = v] => ReqStep(r, {"row"})
         /\ req' = [req EXCEPT ![r].todo = v] => ReqStep(r, {"todo"})
         /\ req' = [req EXCEPT ![r].todo = v, ![r].row = w] => ReqStep(r, {"todo", "row"})
         /\ req' = [req EXCEPT ![r].row = w, ![r].todo = v] => ReqStep(r, {"todo", "row"})
         /\ req' = [req EXCEPT ![r] = [@ EXCEPT !.kind = x, !.own = u, !.todo = v, !.row = w]]
              => ReqStep(r, {"kind", "own", "todo", "row"}) /\ req'[r].own = u
<1>1. /\ req = [s \in Calls |-> req[s]]
      /\ \A s \in Calls : req[s] = [f \in Fields |-> req[s][f]]
  BY DEF ShapeInv
<1>2. req' = req => ReqStep(r, {})
  BY <1>1 DEF ReqStep
<1>3. req' = [req EXCEPT ![r].sum = v] => ReqStep(r, {"sum"}) /\ req'[r].sum = v
  BY <1>1 DEF ReqStep, Fields
<1>4. req' = [req EXCEPT ![r].all = v] => ReqStep(r, {"all"}) /\ req'[r].all = v
  BY <1>1 DEF ReqStep, Fields
<1>5. req' = [req EXCEPT ![r].own = v] => ReqStep(r, {"own"}) /\ req'[r].own = v
  BY <1>1 DEF ReqStep, Fields
<1>6. req' = [req EXCEPT ![r].row = v] => ReqStep(r, {"row"})
  BY <1>1 DEF ReqStep, Fields
<1>7. req' = [req EXCEPT ![r].todo = v] => ReqStep(r, {"todo"})
  BY <1>1 DEF ReqStep, Fields
<1>8. req' = [req EXCEPT ![r].todo = v, ![r].row = w] => ReqStep(r, {"todo", "row"})
  BY <1>1 DEF ReqStep, Fields
<1>9. req' = [req EXCEPT ![r].row = w, ![r].todo = v] => ReqStep(r, {"todo", "row"})
  BY <1>1 DEF ReqStep, Fields
<1>10. req' = [req EXCEPT ![r] = [@ EXCEPT !.kind = x, !.own = u, !.todo = v, !.row = w]]
         => ReqStep(r, {"kind", "own", "todo", "row"}) /\ req'[r].own = u
  <2> SUFFICES ASSUME req' = [req EXCEPT ![r] = [@ EXCEPT !.kind = x, !.own = u,
                                                         !.todo = v, !.row = w]]
               PROVE  ReqStep(r, {"kind", "own", "todo", "row"}) /\ req'[r].own = u
    OBVIOUS
  <2>1. /\ req' = [s \in Calls |-> req'[s]]
        /\ \A s \in Calls : s # r => req'[s] = req[s]
        /\ req'[r] = [req[r] EXCEPT !.kind = x, !.own = u, !.todo = v, !.row = w]
    BY <1>1
  <2>2. req[r] = [f \in Fields |-> req[r][f]]
    BY <1>1
  <2>3. req'[r] = [f \in Fields |-> req'[r][f]]
    BY <2>1, <2>2
  <2>4. req'[r].own = u
    BY <2>1, <2>2 DEF Fields
  <2>5. req'[r].sum = req[r].sum /\ req'[r].all = req[r].all
    BY <2>1, <2>2 DEF Fields
  <2>6. \A f \in Fields \ {"kind", "own", "todo", "row"} : f = "sum" \/ f = "all"
    BY DEF Fields
  <2>7. \A f \in Fields \ {"kind", "own", "todo", "row"} : req'[r][f] = req[r][f]
    BY <2>5, <2>6
  <2> QED
    BY <1>1, <2>1, <2>3, <2>4, <2>7 DEF ReqStep
<1> QED
  BY <1>2, <1>3, <1>4, <1>5, <1>6, <1>7, <1>8, <1>9, <1>10

LEMMA SameAnswers ==
  ASSUME ShapeInv, UNCHANGED answers
  PROVE  /\ answers' = [q \in Answered' |-> answers'[q]]
         /\ \A q \in Answered' : answers'[q] = [f \in {"text", "points"} |-> answers'[q][f]]
         /\ Total' = Total /\ NoneUngraded' = NoneUngraded
BY DEF ShapeInv, Answered, Total, NoneUngraded, Graded,
   Awarded

\* Before a step of a request that grades the attempt is settled, if it was
\* not unsettled and this request has yet to award anything, or has the score.
LEMMA SettledBefore ==
  ASSUME GradingInv, NEW r \in Calls, at[r] \in Grading, at[r] \notin Unscored, ~ unsettled
  PROVE  Settled
<1>1. \A s \in Calls : s # r => at[s] \notin Grading
  BY DEF GradingInv, AloneInv
<1>2. \A s \in Calls : at[s] \notin Unscored
  BY <1>1 DEF Unscored
<1> QED
  BY <1>2 DEF GradingInv, AloneInv

\* A step of a request that grades, and knows what it leaves behind.
LEMMA GradingStep ==
  ASSUME GradingInv, ShapeInv', NEW r \in Calls, NEW l \in (Working \cup Outcomes) \ {"failed"},
         at[r] \in Grading, at' = [at EXCEPT ![r] = l], l \notin {"save", "write"},
         UNCHANGED crowd, ~ unsettled' => ~ unsettled \/ r \notin crowd,
         r \notin crowd => Knows(r)',
         r \notin crowd /\ ~ unsettled' /\ l \notin Unscored => Settled',
         crowd = {} => notices' \in {0, 1}
  PROVE  GradingInv'
<1>1. at'[r] = l /\ \A s \in Calls : s # r => at'[s] = at[s]
  BY DEF GradingInv, ShapeInv
<1>2. AloneInv
  BY DEF GradingInv
<1>3. \A s \in Calls : at'[s] \in Grading => at[s] \in Grading
  BY <1>1
<1>4. \A s \in crowd' : at'[s] # "idle"
  BY <1>1, <1>2 DEF AloneInv
<1>5. \A s, t \in Calls : at'[s] \in Grading /\ at'[t] \in Grading /\ s \notin crowd' => s = t
  BY <1>2, <1>3 DEF AloneInv
<1>6. ASSUME NEW s \in Calls, s \notin crowd' PROVE Knows(s)'
  <2>1. CASE s # r
    <3>1. at'[s] \notin Grading
      BY <1>2, <1>3, <1>6, <2>1 DEF AloneInv
    <3> QED
      BY <3>1 DEF Knows
  <2> QED
    BY <1>6, <2>1
<1>7. ~ unsettled' => r \notin crowd
  BY <1>2 DEF AloneInv
<1>8. ~ unsettled' => \A s \in Calls : at'[s] \in Grading => s \notin crowd'
  BY <1>2, <1>3, <1>7 DEF AloneInv
<1>9. ~ unsettled' /\ (\A s \in Calls : at'[s] \notin Unscored) => Settled'
  BY <1>1, <1>7
<1> QED
  BY <1>4, <1>5, <1>6, <1>8, <1>9 DEF AloneInv, GradingInv

\* A step of a request that does not grade: nothing is awarded, and no gap is closed.
LEMMA SavingStep ==
  ASSUME GradingInv, ShapeInv', NEW r \in Calls, NEW l \in {"save", "write", "ok", "refused"},
         at[r] \in {"idle", "save", "write"}, at' = [at EXCEPT ![r] = l],
         UNCHANGED <<attempt, notices, crowd, unsettled>>,
         \A s \in Calls : s # r => req'[s] = req[s],
         Total' = Total, NoneUngraded' => NoneUngraded
  PROVE  GradingInv'
<1>1. at'[r] = l /\ \A s \in Calls : s # r => at'[s] = at[s]
  BY DEF GradingInv, ShapeInv
<1>2. AloneInv
  BY DEF GradingInv
<1>3. \A s \in crowd' : at'[s] # "idle"
  BY <1>1, <1>2 DEF AloneInv
<1>4. \A s \in Calls : s # r /\ s \notin crowd' => Knows(s)'
  BY <1>1, <1>2 DEF AloneInv, Knows
<1>5. Knows(r)'
  BY <1>1 DEF Knows
<1>6. \A s \in Calls : at'[s] \in Grading => at[s] \in Grading
  BY <1>1
<1>7. \A s, t \in Calls : at'[s] \in Grading /\ at'[t] \in Grading /\ s \notin crowd' => s = t
  BY <1>2, <1>6 DEF AloneInv
<1>8. ~ unsettled' => \A s \in Calls : at'[s] \in Grading => s \notin crowd'
  BY <1>2, <1>6 DEF AloneInv
<1>9. ~ unsettled' /\ (\A s \in Calls : at'[s] \notin Unscored) => Settled'
  <2>1. (\A s \in Calls : at'[s] \notin Unscored) => \A s \in Calls : at[s] \notin Unscored
    BY <1>1 DEF Unscored
  <2>2. Settled => Settled'
    BY DEF Settled
  <2> QED
    BY <1>2, <2>1, <2>2 DEF AloneInv
<1>10. crowd' = {} => notices' \in {0, 1}
  BY <1>2 DEF AloneInv
<1> QED
  BY <1>3, <1>4, <1>5, <1>7, <1>8, <1>9, <1>10 DEF AloneInv, GradingInv

\* A request that comes to grade: alone, or joining others, which makes a crowd.
LEMMA ComingStep ==
  ASSUME GradingInv, ShapeInv', NEW r \in Calls, NEW l \in {"submit", "grade", "sum", "owner"},
         at[r] = "idle", at' = [at EXCEPT ![r] = l],
         UNCHANGED <<attempt, answers, notices>>,
         IF \E s \in Calls : at[s] \in Grading
           THEN /\ crowd' = crowd \cup {s \in Calls : at[s] \in Grading} \cup {r}
                /\ unsettled'
           ELSE UNCHANGED <<crowd, unsettled>>,
         \A s \in Calls : s # r => req'[s] = req[s],
         req'[r].own = attempt
  PROVE  GradingInv'
<1>1. at'[r] = l /\ \A s \in Calls : s # r => at'[s] = at[s]
  BY DEF GradingInv, ShapeInv
<1>2. AloneInv /\ r \notin crowd
  BY DEF GradingInv, AloneInv
<1>3. Settled => Settled'
  BY SameAnswers DEF GradingInv, Settled
<1>4. Knows(r)'
  BY <1>1 DEF Knows
<1>5. CASE \E s \in Calls : at[s] \in Grading
  <2>1. \A s \in crowd' : at'[s] # "idle"
    BY <1>1, <1>2, <1>5 DEF AloneInv
  <2>2. \A s \in Calls : s \notin crowd' => at'[s] \notin Grading
    BY <1>1, <1>5
  <2>3. \A s \in Calls : s \notin crowd' => Knows(s)'
    BY <2>2 DEF Knows
  <2> QED
    BY <1>5, <2>1, <2>2, <2>3 DEF AloneInv, GradingInv
<1>6. CASE \A s \in Calls : at[s] \notin Grading
  <2>1. \A s \in crowd' : at'[s] # "idle"
    BY <1>1, <1>2, <1>6 DEF AloneInv
  <2>2. \A s \in Calls : at'[s] \in Grading => s = r
    BY <1>1, <1>6
  <2>3. \A s \in Calls : s \notin crowd' => Knows(s)'
    BY <1>4, <2>2 DEF Knows
  <2>4. ~ unsettled => Settled
    BY <1>2, <1>6 DEF AloneInv, Unscored
  <2>5. UNCHANGED <<crowd, unsettled>>
    BY <1>6
  <2>6. crowd = {} => notices \in {0, 1}
    BY <1>2 DEF AloneInv
  <2> QED
    BY <1>2, <1>3, <2>1, <2>2, <2>3, <2>4, <2>5, <2>6 DEF AloneInv, GradingInv
<1> QED
  BY <1>5, <1>6

LEMMA ShapeStep ==
  ASSUME ShapeInv, NEW r \in Calls,
         NEW l \in {"idle"} \cup Working \cup Outcomes,
         at' = [at EXCEPT ![r] = l],
         req' = [s \in Calls |-> req'[s]],
         \A s \in Calls : req'[s] = [f \in Fields |-> req'[s][f]],
         answers' = [q \in Answered' |-> answers'[q]],
         \A q \in Answered' : answers'[q] = [f \in {"text", "points"} |-> answers'[q][f]]
  PROVE  ShapeInv'
<1>1. at' \in [Calls -> {"idle"} \cup Working \cup Outcomes]
  BY DEF ShapeInv
<1> QED
  BY <1>1 DEF ShapeInv

LEMMA KeepsFindSaved ==
  ASSUME GradingInv, NEW r \in Calls, FindSaved(r)
  PROVE  GradingInv'
<1> USE DEF FindSaved, FindAnswer, MoveTo
<1>1. PICK q \in DOMAIN req[r].todo : req' = [req EXCEPT ![r].row = Found(q)]
  OBVIOUS
<1>2. ReqStep(r, {"row"})
  BY <1>1, ReqFacts DEF GradingInv
<1>3. ShapeInv'
  BY <1>2, ShapeStep, SameAnswers DEF GradingInv, ReqStep
<1>4. /\ Total' = Total /\ (NoneUngraded' => NoneUngraded)
      /\ \A s \in Calls : s # r => req'[s] = req[s]
      /\ UNCHANGED <<attempt, notices, crowd, unsettled>>
      /\ at[r] = "save" /\ at' = [at EXCEPT ![r] = "write"]
  BY <1>2, SameAnswers DEF GradingInv, ReqStep, history
<1> HIDE DEF FindSaved, FindAnswer, MoveTo
<1> QED
  BY <1>3, <1>4, SavingStep

LEMMA KeepsWriteAnswer ==
  ASSUME GradingInv, NEW r \in Calls, WriteAnswer(r)
  PROVE  GradingInv'
<1>1. \E l \in {"save", "ok", "refused"} : at' = [at EXCEPT ![r] = l]
  BY DEF WriteAnswer, Done, MoveTo
<1>2. ReqStep(r, {"todo", "row"})
  <2>1. PICK q \in DOMAIN req[r].row : req' = req \/ Done(r, q, "save", "ok")
    BY DEF WriteAnswer
  <2>2. CASE req' = req
    BY <2>2, ReqFacts DEF GradingInv, ReqStep
  <2>3. CASE Done(r, q, "save", "ok")
    BY <2>3, ReqFacts DEF GradingInv, Done
  <2> QED
    BY <2>1, <2>2, <2>3
<1>3. ShapeInv'
  BY <1>1, <1>2, SaveFacts, ShapeStep DEF GradingInv, ReqStep
<1>4. /\ Total' = Total /\ (NoneUngraded' => NoneUngraded)
      /\ \A s \in Calls : s # r => req'[s] = req[s]
      /\ UNCHANGED <<attempt, notices, crowd, unsettled>> /\ at[r] = "write"
  BY <1>2, SaveFacts DEF GradingInv, ReqStep, WriteAnswer, history
<1> QED
  BY <1>1, <1>3, <1>4, SavingStep

LEMMA KeepsArrivals ==
  ASSUME GradingInv, NEW r \in Calls, CallArrives(r)
  PROVE  GradingInv'
<1> USE DEF MoveTo
<1>1. ASSUME NEW kind, NEW next \in {"save", "refused", "submit", "grade", "sum", "owner"},
             NEW todo, NEW row, LoadAttempt(r, kind, next, todo, row)
      PROVE  GradingInv'
  <2> USE <1>1 DEF LoadAttempt
  <2>1. ReqStep(r, {"kind", "own", "todo", "row"}) /\ req'[r].own = attempt
    BY ReqFacts DEF GradingInv
  <2>2. ShapeInv'
    BY <2>1, ShapeStep, SameAnswers DEF GradingInv, ReqStep
  <2>3. CASE next \in {"save", "refused"}
    <3>1. /\ Total' = Total /\ (NoneUngraded' => NoneUngraded)
          /\ \A s \in Calls : s # r => req'[s] = req[s]
          /\ UNCHANGED <<attempt, notices, crowd, unsettled>>
          /\ at[r] = "idle" /\ at' = [at EXCEPT ![r] = next]
      BY <2>1, <2>3, SameAnswers DEF GradingInv, ReqStep, history
    <3> HIDE <1>1
    <3> QED
      BY <2>2, <2>3, <3>1, SavingStep
  <2>4. CASE next \in {"submit", "grade", "sum", "owner"}
    <3>1. /\ \A s \in Calls : s # r => req'[s] = req[s]
          /\ at[r] = "idle" /\ at' = [at EXCEPT ![r] = next]
          /\ UNCHANGED <<attempt, answers, notices>>
      BY <2>1 DEF ReqStep
    <3>2. IF \E s \in Calls : at[s] \in Grading
            THEN /\ crowd' = crowd \cup {s \in Calls : at[s] \in Grading} \cup {r}
                 /\ unsettled'
            ELSE UNCHANGED <<crowd, unsettled>>
      BY <2>4 DEF history
    <3> HIDE <1>1
    <3> QED
      BY <2>1, <2>2, <2>4, <3>1, <3>2, ComingStep
  <2> QED
    BY <2>3, <2>4
<1>2. CASE BeginSave(r)
  BY <1>1, <1>2 DEF BeginSave
<1>3. CASE BeginSubmit(r)
  BY <1>1, <1>3 DEF BeginSubmit
<1>4. CASE BeginGradeAll(r)
  BY <1>1, <1>4 DEF BeginGradeAll
<1>5. CASE BeginGrade(r)
  BY <1>1, <1>5 DEF BeginGrade
<1> QED
  BY <1>2, <1>3, <1>4, <1>5 DEF CallArrives

LEMMA KeepsCrash == ASSUME GradingInv, NEW r \in Calls, CallDies(r) PROVE GradingInv'
<1>1. /\ at' = [at EXCEPT ![r] = "failed"]
      /\ unsettled' = (unsettled \/ at[r] \in Unscored)
      /\ UNCHANGED <<attempt, answers, notices, req, crowd>>
  BY DEF CallDies, MoveTo
<1>2. ShapeInv'
  BY <1>1, ReqFacts, ShapeStep, SameAnswers DEF GradingInv, ReqStep
<1>3. AloneInv /\ at'[r] = "failed" /\ \A s \in Calls : s # r => at'[s] = at[s]
  BY <1>1 DEF GradingInv, ShapeInv
<1>4. Total' = Total /\ NoneUngraded' = NoneUngraded
  BY <1>1, SameAnswers DEF GradingInv
<1>5. \A s \in crowd' : at'[s] # "idle"
  BY <1>1, <1>3 DEF AloneInv
<1>6. \A s \in Calls : at'[s] \in Grading => at[s] \in Grading
  BY <1>3
<1>7. \A s, t \in Calls : at'[s] \in Grading /\ at'[t] \in Grading /\ s \notin crowd' => s = t
  BY <1>1, <1>3, <1>6 DEF AloneInv
<1>8. \A s \in Calls : s \notin crowd' => Knows(s)'
  BY <1>1, <1>3, <1>4 DEF AloneInv, Knows
<1>9. ~ unsettled' => \A s \in Calls : at'[s] \in Grading => s \notin crowd'
  BY <1>1, <1>3, <1>6 DEF AloneInv
<1>10. ~ unsettled' /\ (\A s \in Calls : at'[s] \notin Unscored) => Settled'
  <2> SUFFICES ASSUME ~ unsettled', \A s \in Calls : at'[s] \notin Unscored PROVE Settled'
    OBVIOUS
  <2>1. ~ unsettled /\ \A s \in Calls : at[s] \notin Unscored
    BY <1>1, <1>3
  <2> QED
    BY <1>1, <1>3, <1>4, <2>1 DEF AloneInv, Settled
<1>11. crowd' = {} => notices' \in {0, 1}
  BY <1>1, <1>3 DEF AloneInv
<1> QED
  BY <1>2, <1>5, <1>7, <1>8, <1>9, <1>10, <1>11 DEF AloneInv, GradingInv

LEMMA KeepsMarkSubmitted ==
  ASSUME GradingInv, ColumnsInv, NEW r \in Calls, MarkSubmitted(r)
  PROVE  GradingInv'
<1> USE DEF MarkSubmitted, MoveTo, UpdateAttempt, Changed
<1>1. CASE req[r].own.status = "in_progress"
  <2> USE <1>1
  <2> DEFINE new == [req[r].own EXCEPT !.status = "submitted"]
  <2>1. req' = [req EXCEPT ![r].own = new] /\ attempt' = Changed(req[r].own, new)
    OBVIOUS
  <2>2. ReqStep(r, {"own"}) /\ req'[r].own = new
    BY <2>1, ReqFacts DEF GradingInv
  <2>3. ShapeInv'
    BY <2>2, ShapeStep, SameAnswers DEF GradingInv, ReqStep
  <2>4. r \notin crowd =>
          req[r].own.status = attempt.status /\ req[r].own.score = attempt.score
    BY DEF GradingInv, AloneInv, Knows
  <2>5. at'[r] = "auto"
    BY DEF GradingInv, ShapeInv
  <2>6. r \notin crowd => Knows(r)'
    <3>1. new.status = "submitted" /\ new.score = req[r].own.score
      BY DEF ColumnsInv, Columns
    <3> QED
      BY <2>1, <2>2, <2>4, <2>5, <3>1 DEF Knows
  <2> QED
    BY <2>3, <2>6, GradingStep DEF AloneInv, Unscored, GradingInv
<1>2. CASE req[r].own.status # "in_progress"
  <2> USE <1>2
  <2>1. ShapeInv'
    <3>1. ReqStep(r, {})
      BY ReqFacts DEF GradingInv
    <3> QED
      BY <3>1, ShapeStep, SameAnswers DEF GradingInv, ReqStep
  <2>2. at'[r] = "refused"
    BY DEF GradingInv, ShapeInv
  <2>3. Knows(r)'
    BY <2>2 DEF Knows
  <2>4. ~ unsettled => Settled'
    <3>1. ~ unsettled => Settled
      BY SettledBefore DEF Unscored
    <3> QED
      BY <3>1, SameAnswers DEF Settled, GradingInv
  <2> QED
    BY <2>1, <2>3, <2>4, GradingStep DEF AloneInv, GradingInv
<1> QED
  BY <1>1, <1>2

\* The steps up to the sum, which neither change the attempt nor leave Unscored.
LEMMA GatheringStep ==
  ASSUME GradingInv, NEW r \in Calls,
         NEW l \in {"auto", "grade", "award", "sum", "complete", "score"},
         at[r] \in Grading, at' = [at EXCEPT ![r] = l],
         NEW changed \in SUBSET {"todo", "row", "sum", "all"}, ReqStep(r, changed),
         UNCHANGED <<attempt, notices, crowd, unsettled>>,
         answers' = [q \in Answered' |-> answers'[q]],
         \A q \in Answered' : answers'[q] = [f \in {"text", "points"} |-> answers'[q][f]],
         l \in {"complete", "score"} /\ r \notin crowd => req'[r].sum = Total',
         l = "score" /\ r \notin crowd => (NoneUngraded' => req'[r].all)
  PROVE  GradingInv'
<1>1. ShapeInv'
  BY ShapeStep DEF GradingInv, ReqStep
<1>2. req'[r].own = req[r].own
  BY DEF ReqStep, Fields
<1>3. at'[r] = l
  BY DEF GradingInv, ShapeInv
<1>4. r \notin crowd => Knows(r)'
  BY <1>2, <1>3 DEF Knows, GradingInv, AloneInv
<1>5. crowd = {} => notices' \in {0, 1}
  BY DEF GradingInv, AloneInv
<1> QED
  BY <1>1, <1>4, <1>5, GradingStep DEF Unscored

LEMMA KeepsReadAnswers ==
  ASSUME GradingInv, NEW r \in Calls, ReadAnswers(r)
  PROVE  GradingInv'
<1> USE DEF MoveTo
<1>1. ReqStep(r, {"todo", "row"})
  <2>1. \E v, w : req' = [req EXCEPT ![r].row = w, ![r].todo = v]
    BY DEF ReadAnswers
  <2> QED
    BY <2>1, ReqFacts DEF GradingInv
<1>2. \E l \in {"auto", "sum"} : at' = [at EXCEPT ![r] = l]
  BY DEF ReadAnswers, GradingInv, ShapeInv
<1> QED
  BY <1>1, <1>2, GatheringStep, SameAnswers DEF ReadAnswers, GradingInv

LEMMA KeepsAutoGrade ==
  ASSUME GradingInv, NEW r \in Calls, AutoGrade(r)
  PROVE  GradingInv'
<1> USE DEF MoveTo
<1>1. PICK q \in DOMAIN req[r].todo :
        /\ Award(r, q)
        /\ req' = [req EXCEPT ![r].todo = [p \in DOMAIN req[r].todo \ {q} |-> req[r].todo[p]]]
        /\ \E l \in {"auto", "sum"} : at' = [at EXCEPT ![r] = l]
  BY DEF AutoGrade, GradingInv, ShapeInv
<1>2. ReqStep(r, {"todo"})
  BY <1>1, ReqFacts DEF GradingInv
<1>3. /\ answers' = [p \in Answered' |-> answers'[p]]
      /\ \A p \in Answered' : answers'[p] = [f \in {"text", "points"} |-> answers'[p][f]]
  BY <1>1, AwardFacts DEF GradingInv
<1> QED
  BY <1>1, <1>2, <1>3, GatheringStep DEF AutoGrade

LEMMA KeepsFindGraded ==
  ASSUME GradingInv, NEW r \in Calls, FindGraded(r)
  PROVE  GradingInv'
<1> USE DEF FindGraded, FindAnswer, MoveTo
<1>1. ReqStep(r, {"row"})
  BY ReqFacts DEF GradingInv
<1> QED
  BY <1>1, GatheringStep, SameAnswers DEF GradingInv

LEMMA KeepsLoadOwner ==
  ASSUME GradingInv, NEW r \in Calls, LoadOwner(r)
  PROVE  GradingInv'
<1> USE DEF MoveTo
<1>1. req' = [req EXCEPT ![r].own = attempt]
  BY DEF LoadOwner
<1>2. ReqStep(r, {"own"}) /\ req'[r].own = attempt
  BY <1>1, ReqFacts DEF GradingInv
<1>3. PICK l \in {"refused", "award"} : at' = [at EXCEPT ![r] = l]
  BY DEF LoadOwner
<1>4. ShapeInv'
  BY <1>2, <1>3, ShapeStep, SameAnswers DEF GradingInv, ReqStep, LoadOwner
<1>5. at'[r] = l
  BY <1>3 DEF GradingInv, ShapeInv
<1>6. Knows(r)'
  BY <1>2, <1>5 DEF Knows, LoadOwner
<1>7. ~ unsettled => Settled'
  <2>1. ~ unsettled => Settled
    BY SettledBefore DEF Unscored, LoadOwner
  <2>2. Total' = Total /\ NoneUngraded' = NoneUngraded
    BY SameAnswers DEF GradingInv, LoadOwner
  <2> QED
    BY <2>1, <2>2 DEF Settled, LoadOwner
<1>8. /\ at[r] \in Grading /\ UNCHANGED <<crowd, unsettled>>
      /\ crowd = {} => notices' \in {0, 1}
  BY DEF GradingInv, AloneInv, LoadOwner
<1> QED
  BY <1>3, <1>4, <1>6, <1>7, <1>8, GradingStep

LEMMA KeepsWriteGrade ==
  ASSUME GradingInv, NEW r \in Calls, WriteGrade(r)
  PROVE  GradingInv'
<1> USE DEF MoveTo
<1>1. PICK q \in DOMAIN req[r].row :
        /\ Award(r, q)
        /\ \E v : req' = [req EXCEPT ![r].todo = v, ![r].row = Nothing]
        /\ \E l \in {"grade", "sum"} : at' = [at EXCEPT ![r] = l]
  BY DEF WriteGrade, Done
<1>2. ReqStep(r, {"todo", "row"})
  BY <1>1, ReqFacts DEF GradingInv
<1>3. /\ answers' = [p \in Answered' |-> answers'[p]]
      /\ \A p \in Answered' : answers'[p] = [f \in {"text", "points"} |-> answers'[p][f]]
  BY <1>1, AwardFacts DEF GradingInv
<1> QED
  BY <1>1, <1>2, <1>3, GatheringStep DEF WriteGrade

LEMMA KeepsSumPoints ==
  ASSUME GradingInv, NEW r \in Calls, SumPoints(r)
  PROVE  GradingInv'
<1> USE DEF SumPoints, MoveTo
<1>1. ReqStep(r, {"sum"}) /\ req'[r].sum = Total
  BY ReqFacts DEF GradingInv
<1> QED
  BY <1>1, GatheringStep, SameAnswers DEF GradingInv

LEMMA KeepsCheckComplete ==
  ASSUME GradingInv, NEW r \in Calls, CheckComplete(r)
  PROVE  GradingInv'
<1> USE DEF CheckComplete, MoveTo
<1>1. ReqStep(r, {"all"}) /\ req'[r].all = NoneUngraded
  BY ReqFacts DEF GradingInv
<1>2. r \notin crowd => req'[r].sum = Total
  BY <1>1 DEF GradingInv, AloneInv, Knows, ReqStep, Fields
<1>3. /\ at[r] = "complete" /\ at' = [at EXCEPT ![r] = "score"]
      /\ UNCHANGED <<attempt, notices, crowd, unsettled>>
      /\ answers' = [q \in Answered' |-> answers'[q]]
      /\ \A q \in Answered' : answers'[q] = [f \in {"text", "points"} |-> answers'[q][f]]
      /\ Total' = Total /\ NoneUngraded' = NoneUngraded
  BY SameAnswers DEF GradingInv
<1> HIDE DEF CheckComplete, MoveTo
<1> QED
  BY <1>1, <1>2, <1>3, GatheringStep

LEMMA KeepsWriteScore ==
  ASSUME GradingInv, NEW r \in Calls, WriteScore(r)
  PROVE  GradingInv'
<1> DEFINE new == [status |-> IF req[r].all THEN "graded" ELSE req[r].own.status,
                   score  |-> req[r].sum]
<1>1. /\ req' = [req EXCEPT ![r].own = new]
      /\ attempt' = [c \in {"status", "score"} |->
                       IF new[c] = req[r].own[c] THEN attempt[c] ELSE new[c]]
  BY DEF WriteScore, UpdateAttempt, Changed
<1>2. ReqStep(r, {"own"}) /\ req'[r].own = new
  <2> HIDE DEF new
  <2> QED
    BY <1>1, ReqFacts DEF GradingInv
<1>3. PICK l \in {"ok", "notify"} : at' = [at EXCEPT ![r] = l]
  BY DEF WriteScore, MoveTo
<1>4. ShapeInv'
  BY <1>2, <1>3, ShapeStep, SameAnswers DEF GradingInv, ReqStep, WriteScore
<1>5. at'[r] = l
  BY <1>3 DEF GradingInv, ShapeInv
<1>6. r \notin crowd => /\ attempt'.status = new.status /\ attempt'.score = new.score
                        /\ req[r].sum = Total /\ (NoneUngraded => req[r].all)
  <2> SUFFICES ASSUME r \notin crowd
               PROVE  /\ attempt'.status = new.status /\ attempt'.score = new.score
                      /\ req[r].sum = Total /\ (NoneUngraded => req[r].all)
    OBVIOUS
  <2>1. Knows(r) /\ at[r] = "score"
    BY DEF GradingInv, AloneInv, WriteScore
  <2>2. /\ attempt["status"] = req[r].own["status"] /\ attempt["score"] = req[r].own["score"]
        /\ req[r].sum = Total /\ (NoneUngraded => req[r].all)
    BY <2>1 DEF Knows
  <2> QED
    BY <1>1, <2>2
<1>7. r \notin crowd => Knows(r)'
  BY <1>2, <1>5, <1>6 DEF Knows
<1>8. r \notin crowd => Settled'
  <2>1. Total' = Total /\ NoneUngraded' = NoneUngraded
    BY SameAnswers DEF GradingInv, WriteScore
  <2> QED
    BY <1>6, <2>1 DEF Settled
<1>9. /\ at[r] \in Grading /\ UNCHANGED crowd /\ (~ unsettled' => ~ unsettled \/ r \notin crowd)
      /\ crowd = {} => notices' \in {0, 1}
  BY DEF GradingInv, AloneInv, WriteScore
<1> QED
  BY <1>3, <1>4, <1>7, <1>8, <1>9, GradingStep

LEMMA KeepsNotices ==
  ASSUME GradingInv, NEW r \in Calls, CheckNotice(r) \/ CreateNotice(r)
  PROVE  GradingInv'
<1> USE DEF CheckNotice, CreateNotice, MoveTo
<1>1. PICK l \in {"create", "ok"} : at' = [at EXCEPT ![r] = l]
  OBVIOUS
<1>2. ShapeInv'
  BY <1>1, ReqFacts, ShapeStep, SameAnswers DEF GradingInv, ReqStep
<1>3. at'[r] = l
  BY <1>1 DEF GradingInv, ShapeInv
<1>4. r \notin crowd => Knows(r)'
  BY <1>1, <1>3 DEF GradingInv, AloneInv, ShapeInv, Knows
<1>5. crowd = {} => notices' \in {0, 1}
  BY <1>1, <1>3 DEF GradingInv, AloneInv, Knows
<1>6. ~ unsettled => Settled'
  <2>1. ~ unsettled => Settled
    BY SettledBefore DEF Unscored
  <2>2. Total' = Total /\ NoneUngraded' = NoneUngraded
    BY SameAnswers DEF GradingInv
  <2> QED
    BY <2>1, <2>2 DEF Settled
<1>7. at[r] \in Grading /\ UNCHANGED <<crowd, unsettled>>
  OBVIOUS
<1> HIDE DEF CheckNotice, CreateNotice, MoveTo
<1> QED
  BY <1>1, <1>2, <1>4, <1>5, <1>6, <1>7, GradingStep

LEMMA KeepsColumns ==
  ASSUME ShapeInv, ColumnsInv, [GradingNext]_gradingVars
  PROVE  ColumnsInv'
<1> USE DEF Columns
<1>1. ASSUME NEW r \in Calls, NEW changed \in SUBSET (Fields \ {"own"}),
             ReqStep(r, changed), UNCHANGED attempt
      PROVE  ColumnsInv'
  <2>1. \A s \in Calls : req'[s].own = req[s].own
    BY <1>1 DEF ReqStep, Fields
  <2> QED
    BY <1>1, <2>1 DEF ColumnsInv
<1>2. ASSUME NEW r \in Calls, ReqStep(r, {"kind", "own", "todo", "row"}),
             req'[r].own = [c \in Columns |-> req'[r].own[c]],
             attempt' = [c \in Columns |-> attempt'[c]]
      PROVE  ColumnsInv'
  <2>1. \A s \in Calls : s # r => req'[s].own = req[s].own
    BY <1>2 DEF ReqStep
  <2>2. \A s \in Calls : req'[s].own = [c \in Columns |-> req'[s].own[c]]
    BY <1>2, <2>1 DEF ColumnsInv
  <2> QED
    BY <1>2, <2>2 DEF ColumnsInv
<1>4. CASE UNCHANGED gradingVars
  BY <1>4 DEF gradingVars, ColumnsInv
<1>5. ASSUME NEW r \in Calls, CallArrives(r) PROVE ColumnsInv'
  <2>1. ASSUME NEW kind, NEW next, NEW todo, NEW row, LoadAttempt(r, kind, next, todo, row)
        PROVE  ColumnsInv'
    <3>1. /\ ReqStep(r, {"kind", "own", "todo", "row"})
          /\ req'[r].own = attempt /\ attempt' = attempt
      BY <2>1, ReqFacts DEF LoadAttempt
    <3> QED
      BY <1>2, <3>1 DEF ColumnsInv
  <2> QED
    BY <1>5, <2>1 DEF CallArrives, BeginSave, BeginSubmit,
       BeginGradeAll, BeginGrade
<1>6. ASSUME NEW r \in Calls, CallDies(r) \/ CheckNotice(r)
                              \/ CreateNotice(r)
      PROVE  ColumnsInv'
  BY <1>6 DEF ColumnsInv, CallDies, CheckNotice, CreateNotice
<1>7. ASSUME NEW r \in Calls, FindSaved(r) \/ FindGraded(r) PROVE ColumnsInv'
  <2>1. ReqStep(r, {"row"}) /\ UNCHANGED attempt
    BY <1>7, ReqFacts DEF FindSaved, FindGraded, FindAnswer
  <2> QED
    BY <1>1, <2>1 DEF Fields
<1>8. ASSUME NEW r \in Calls,
             WriteAnswer(r) \/ ReadAnswers(r) \/ AutoGrade(r)
               \/ WriteGrade(r)
      PROVE  ColumnsInv'
  <2>1. /\ UNCHANGED attempt
        /\ \/ req' = req
           \/ \E v : req' = [req EXCEPT ![r].todo = v]
           \/ \E v, w : req' = [req EXCEPT ![r].todo = v, ![r].row = w]
           \/ \E v, w : req' = [req EXCEPT ![r].row = w, ![r].todo = v]
    <3>1. CASE WriteAnswer(r)
      <4>1. PICK q \in DOMAIN req[r].row : req' = req \/ Done(r, q, "save", "ok")
        BY <3>1 DEF WriteAnswer
      <4> QED
        BY <3>1, <4>1 DEF WriteAnswer, Done
    <3>2. CASE ReadAnswers(r)
      BY <3>2 DEF ReadAnswers
    <3>3. CASE AutoGrade(r)
      BY <3>3 DEF AutoGrade
    <3>4. CASE WriteGrade(r)
      BY <3>4 DEF WriteGrade, Done
    <3> QED
      BY <1>8, <3>1, <3>2, <3>3, <3>4
  <2>2. \/ ReqStep(r, {}) \/ ReqStep(r, {"todo"}) \/ ReqStep(r, {"todo", "row"})
    BY <2>1, ReqFacts
  <2> QED
    BY <1>1, <2>1, <2>2 DEF Fields
<1>9. ASSUME NEW r \in Calls, SumPoints(r) \/ CheckComplete(r)
      PROVE  ColumnsInv'
  <2>1. /\ UNCHANGED attempt
        /\ \E v : req' = [req EXCEPT ![r].sum = v] \/ req' = [req EXCEPT ![r].all = v]
    BY <1>9 DEF SumPoints, CheckComplete
  <2>2. ReqStep(r, {"sum"}) \/ ReqStep(r, {"all"})
    BY <2>1, ReqFacts
  <2> QED
    BY <1>1, <2>1, <2>2 DEF Fields
<1>10. ASSUME NEW r \in Calls, LoadOwner(r) PROVE ColumnsInv'
  <2>1. ReqStep(r, {"own"}) /\ req'[r].own = attempt /\ attempt' = attempt
    BY <1>10, ReqFacts DEF LoadOwner
  <2>2. \A t \in Calls : t # r => req'[t].own = req[t].own
    BY <2>1 DEF ReqStep
  <2>3. \A t \in Calls : req'[t].own = [c \in Columns |-> req'[t].own[c]]
    BY <2>1, <2>2 DEF ColumnsInv
  <2> QED
    BY <2>1, <2>3 DEF ColumnsInv
<1>11. ASSUME NEW r \in Calls, NEW new, new = [c \in Columns |-> new[c]],
              UpdateAttempt(r, new)
       PROVE  ColumnsInv'
  <2>1. ReqStep(r, {"own"}) /\ req'[r].own = new
    BY <1>11, ReqFacts DEF UpdateAttempt
  <2>2. attempt' = [c \in Columns |-> attempt'[c]]
    BY <1>11 DEF UpdateAttempt, Changed
  <2> QED
    <3>1. ReqStep(r, {"kind", "own", "todo", "row"})
      BY <2>1 DEF ReqStep
    <3> QED
      BY <1>2, <1>11, <2>1, <2>2, <3>1
<1>12. ASSUME NEW r \in Calls, MarkSubmitted(r) PROVE ColumnsInv'
  <2> DEFINE new == [req[r].own EXCEPT !.status = "submitted"]
  <2>1. CASE UNCHANGED <<attempt, req>>
    BY <2>1 DEF ColumnsInv
  <2>2. CASE UpdateAttempt(r, new)
    <3>1. new = [c \in Columns |-> new[c]]
      BY DEF ColumnsInv
    <3> HIDE DEF new
    <3> QED
      BY <1>11, <2>2, <3>1
  <2> QED
    BY <1>12, <2>1, <2>2 DEF MarkSubmitted
<1>13. ASSUME NEW r \in Calls, WriteScore(r) PROVE ColumnsInv'
  <2> DEFINE new == [status |-> IF req[r].all THEN "graded" ELSE req[r].own.status,
                     score  |-> req[r].sum]
  <2>1. new = [c \in Columns |-> new[c]] /\ UpdateAttempt(r, new)
    BY <1>13 DEF WriteScore
  <2> HIDE DEF new
  <2> QED
    BY <1>11, <2>1
<1> QED
  BY <1>4, <1>5, <1>6, <1>7, <1>8, <1>9, <1>10, <1>12, <1>13 DEF GradingNext, CallWorks

LEMMA GradingInvStep ==
  ASSUME GradingInv, ColumnsInv, [GradingNext]_gradingVars
  PROVE  GradingInv'
<1>1. CASE UNCHANGED gradingVars
  <2>1. UNCHANGED <<attempt, answers, notices, at, req, crowd, unsettled>>
    BY <1>1 DEF gradingVars
  <2>2. ShapeInv'
    BY <2>1 DEF GradingInv, ShapeInv, Answered
  <2>3. Total' = Total /\ NoneUngraded' = NoneUngraded
    BY <2>1, SameAnswers DEF GradingInv
  <2>4. Settled' = Settled
    BY <2>1, <2>3 DEF Settled
  <2>5. AloneInv'
    BY <2>1, <2>3, <2>4 DEF GradingInv, AloneInv, Knows
  <2> QED
    BY <2>2, <2>5 DEF GradingInv
<1>2. ASSUME NEW r \in Calls, CallArrives(r) \/ CallWorks(r) \/ CallDies(r)
      PROVE  GradingInv'
  BY <1>2, KeepsArrivals, KeepsCrash, KeepsFindSaved, KeepsWriteAnswer, KeepsMarkSubmitted,
     KeepsReadAnswers, KeepsAutoGrade, KeepsFindGraded, KeepsLoadOwner, KeepsWriteGrade,
     KeepsSumPoints, KeepsCheckComplete, KeepsWriteScore, KeepsNotices DEF CallWorks
<1> QED
  BY <1>1, <1>2 DEF GradingNext

LEMMA GradingInvariance == GradingSpec => [](GradingInv /\ ColumnsInv)
<1>1. GradingInit => GradingInv /\ ColumnsInv
  BY InitGradingInv DEF GradingInit, ColumnsInv, Columns
<1>2. GradingInv /\ ColumnsInv /\ [GradingNext]_gradingVars => (GradingInv /\ ColumnsInv)'
  BY GradingInvStep, KeepsColumns DEF GradingInv
<1> QED
  BY <1>1, <1>2, PTL DEF GradingSpec

\* Unless somebody is at it, the score of a submitted attempt is the sum of its
\* points, and it is marked graded when all of its answers are, as soon as one
\* request has graded alone since the last two that graded at the same time and
\* since the last that died; saves do not matter.  Where no two ever graded at
\* the same time the student is told at most once
\* (quiz_attempt.rb:17-54, quiz_attempts_controller.rb:78-99).
THEOREM GradingSettles == GradingSpec => []GradingAloneSettles
<1>1. GradingInv => GradingAloneSettles
  BY DEF GradingInv, AloneInv, GradingAloneSettles, Settled
<1> QED
  BY GradingInvariance, <1>1, PTL

-----------------------------------------------------------------------------
(* The total is a number: the fold by which it is defined has a solution,  *)
(* and each of its values is one, by induction over the size of the set.   *)

\* A set of numbers that is not empty has a least one.
LEMMA Least ==
  ASSUME NEW T \in SUBSET Nat, T # {}
  PROVE  \E n \in T : \A m \in T : n <= m
<1>1. PICK n \in T : \A m \in T : ~ (<<m, n>> \in OpToRel(<, Nat))
  BY WFMin, NatLessThanWellFounded
<1>2. \A m \in T : ~ (m < n)
  BY <1>1 DEF OpToRel
<1> QED
  BY <1>2

One(s) == CHOOSE x \in s : TRUE
Fold(points, g, s) == IF s = {} THEN 0 ELSE points[One(s)] + g[s \ {One(s)}]
Solves(points, g, D) == g = [s \in D |-> Fold(points, g, s)]

LEMMA SumDef ==
  ASSUME NEW points
  PROVE  SumOf(points) =
           (CHOOSE g : Solves(points, g, SUBSET DOMAIN points))[DOMAIN points]
BY DEF SumOf, MapThenSumSet, MapThenFoldSet, Solves, Fold, One

LEMMA OneLess ==
  ASSUME NEW S, IsFiniteSet(S), NEW s \in SUBSET S, s # {}
  PROVE  /\ One(s) \in s /\ s \ {One(s)} \in SUBSET S
         /\ Cardinality(s) \in Nat \ {0} /\ Cardinality(s \ {One(s)}) = Cardinality(s) - 1
<1>1. One(s) \in s
  BY DEF One
<1>2. IsFiniteSet(s)
  BY FS_Subset
<1> QED
  BY <1>1, <1>2, FS_RemoveElement, FS_EmptySet, FS_CardinalityType

\* A solution on the sets of at most n elements extends to those of one more.
Small(S, n) == {s \in SUBSET S : Cardinality(s) <= n}

LEMMA Extends ==
  ASSUME NEW S, IsFiniteSet(S), NEW points, NEW n \in Nat,
         NEW f, Solves(points, f, Small(S, n))
  PROVE  \E g : Solves(points, g, Small(S, n + 1))
<1> DEFINE g == [s \in Small(S, n + 1) |-> Fold(points, f, s)]
<1>1. \A s \in Small(S, n) : f[s] = Fold(points, f, s)
  BY DEF Solves
<1>2. ASSUME NEW s \in Small(S, n + 1)
      PROVE  Fold(points, g, s) = Fold(points, f, s)
  <2>1. CASE s = {}
    BY <2>1 DEF Fold
  <2>2. CASE s # {}
    <3>1. s \ {One(s)} \in Small(S, n) /\ s \ {One(s)} \in Small(S, n + 1)
      BY <2>2, OneLess DEF Small
    <3>2. g[s \ {One(s)}] = f[s \ {One(s)}]
      BY <1>1, <3>1
    <3> HIDE DEF g
    <3> QED
      BY <3>2 DEF Fold
  <2> QED
    BY <2>1, <2>2
<1>3. g = [s \in Small(S, n + 1) |-> Fold(points, g, s)]
  BY <1>2
<1> QED
  BY <1>3 DEF Solves

LEMMA Solved ==
  ASSUME NEW S, IsFiniteSet(S), NEW points
  PROVE  \E g : Solves(points, g, SUBSET S)
<1> DEFINE Unsolved == {n \in Nat : ~ \E g : Solves(points, g, Small(S, n))}
<1>1. 0 \notin Unsolved
  <2> DEFINE g == [s \in Small(S, 0) |-> 0]
  <2>1. \A s \in Small(S, 0) : s = {}
    BY FS_Subset, FS_EmptySet, FS_CardinalityType DEF Small
  <2>2. \A s \in Small(S, 0) : Fold(points, g, s) = 0
    BY <2>1 DEF Fold
  <2>3. Solves(points, g, Small(S, 0))
    BY <2>2 DEF Solves
  <2> QED
    BY <2>3
<1>2. \A n \in Nat : n \notin Unsolved => n + 1 \notin Unsolved
  BY Extends
<1>3. Unsolved = {}
  <2> SUFFICES ASSUME Unsolved # {} PROVE FALSE
    OBVIOUS
  <2> HIDE DEF Unsolved
  <2>1. Unsolved \subseteq Nat
    BY DEF Unsolved
  <2>2. PICK n \in Unsolved : \A m \in Unsolved : n <= m
    BY <2>1, Least
  <2>3. n - 1 \in Nat /\ n - 1 \notin Unsolved
    BY <1>1, <2>1, <2>2
  <2> QED
    BY <1>2, <2>1, <2>3
<1>4. Cardinality(S) \in Nat /\ Small(S, Cardinality(S)) = SUBSET S
  BY FS_CardinalityType, FS_Subset DEF Small
<1>5. \E g : Solves(points, g, Small(S, Cardinality(S)))
  <2>1. Cardinality(S) \notin Unsolved
    BY <1>3
  <2> QED
    BY <1>4, <2>1
<1> QED
  BY <1>4, <1>5

LEMMA SumIsANumber ==
  ASSUME NEW points, IsFiniteSet(DOMAIN points), \A q \in DOMAIN points : points[q] \in Int
  PROVE  SumOf(points) \in Int
<1> DEFINE S == DOMAIN points
           iter == CHOOSE g : Solves(points, g, SUBSET S)
<1>1. SumOf(points) = iter[S]
  BY SumDef
<1>2. Solves(points, iter, SUBSET S)
  BY Solved
<1> HIDE DEF iter
<1>3. \A s \in SUBSET S : iter[s] = Fold(points, iter, s)
  BY <1>2 DEF Solves
<1> DEFINE Bad == {n \in Nat : \E s \in SUBSET S : Cardinality(s) = n /\ iter[s] \notin Int}
<1>4. Bad = {}
  <2> SUFFICES ASSUME Bad # {} PROVE FALSE
    OBVIOUS
  <2>1. PICK n \in Bad : \A m \in Bad : n <= m
    <3>1. Bad \subseteq Nat
      OBVIOUS
    <3> HIDE DEF Bad
    <3> QED
      BY <3>1, Least
  <2>2. PICK s \in SUBSET S : Cardinality(s) = n /\ iter[s] \notin Int
    OBVIOUS
  <2>3. s # {}
    <3> SUFFICES ASSUME s = {} PROVE FALSE
      OBVIOUS
    <3>1. Fold(points, iter, s) = 0
      BY DEF Fold
    <3> QED
      BY <1>3, <2>2, <3>1
  <2>4. /\ One(s) \in S /\ s \ {One(s)} \in SUBSET S
        /\ Cardinality(s \ {One(s)}) = n - 1 /\ n - 1 \in Nat
    BY <2>2, <2>3, OneLess
  <2>5. n - 1 \notin Bad
    BY <2>1, <2>4
  <2>6. iter[s \ {One(s)}] \in Int
    BY <2>4, <2>5
  <2>7. iter[s] = points[One(s)] + iter[s \ {One(s)}]
    BY <1>3, <2>3 DEF Fold
  <2> QED
    BY <2>2, <2>4, <2>6, <2>7
<1>5. Cardinality(S) \in Nat /\ S \in SUBSET S
  BY FS_CardinalityType
<1> QED
  BY <1>1, <1>4, <1>5

-----------------------------------------------------------------------------
(* Types of the rows, and of what a request is about to write.             *)

Rows == [status : AttemptStatuses, score : Scores]

RequestOK(r) ==
  /\ req[r].own \in Rows /\ req[r].sum \in Int
  /\ DOMAIN req[r].todo \subseteq Questions /\ DOMAIN req[r].row \subseteq Questions
  /\ at[r] \in {"save", "write"} => \A q \in DOMAIN req[r].todo : req[r].todo[q] \in Texts
  /\ at[r] \in {"submit", "auto", "owner", "grade", "award"} =>
       \A q \in DOMAIN req[r].todo : req[r].todo[q] \in Points
  /\ at[r] \in {"write", "owner", "award"} => DOMAIN req[r].row \subseteq DOMAIN req[r].todo

TypeInv ==
  /\ attempt \in Rows
  /\ Answered \subseteq Questions
  /\ \A q \in Answered : answers[q] \in Answer
  /\ notices \in Nat
  /\ \A r \in Calls : RequestOK(r)

LEMMA InitTypeInv == ASSUME GradingInit PROVE TypeInv
<1>1. Answered = {}
  BY DEF GradingInit, Nothing, Answered
<1>2. \A r \in Calls : /\ req[r].own = attempt /\ req[r].sum = 0
                          /\ DOMAIN req[r].todo = {} /\ DOMAIN req[r].row = {}
  BY DEF GradingInit, Nothing
<1>3. attempt \in Rows
  BY DEF GradingInit, Rows, AttemptStatuses, Scores
<1> QED
  BY <1>1, <1>2, <1>3 DEF GradingInit, TypeInv, RequestOK

LEMMA TotalIsANumber == ASSUME TypeInv PROVE Total \in Int
<1>1. Graded \subseteq Questions /\ IsFiniteSet(Graded)
  BY FS_Subset, GradingAssumption DEF TypeInv, Graded
<1>2. \A q \in Graded : answers[q].points \in Int
  <2>1. \A q \in Graded :
          answers[q].points \in Points /\ answers[q].points # Null
    BY DEF TypeInv, Graded, Answer
  <2>2. \A p \in Points : p = Null \/ p = 0 \/ p = MaxPoints \/ p \in Sent
    BY DEF Points
  <2>3. MaxPoints \in Nat /\ Sent \subseteq Int
    BY GradingAssumption
  <2> SUFFICES ASSUME NEW q \in Graded PROVE answers[q].points \in Int
    OBVIOUS
  <2> DEFINE p == answers[q].points
  <2>4. p \in Points /\ p # Null
    BY <2>1
  <2> HIDE DEF p
  <2>5. p = 0 \/ p = MaxPoints \/ p \in Sent
    BY <2>2, <2>4
  <2>6. p \in Int
    <3>1. CASE p = 0
      BY <3>1
    <3>2. CASE p = MaxPoints
      BY <2>3, <3>2
    <3>3. CASE p \in Sent
      BY <2>3, <3>3
    <3> QED
      BY <2>5, <3>1, <3>2, <3>3
  <2> QED
    BY <2>6 DEF p
<1>3. /\ DOMAIN Awarded(Graded) = Graded
      /\ \A q \in Graded : Awarded(Graded)[q] = answers[q].points
  BY DEF Awarded
<1> QED
  BY <1>1, <1>2, <1>3, SumIsANumber DEF Total

\* A step of one request.
LEMMA TypeStep ==
  ASSUME ShapeInv, TypeInv, NEW r \in Calls,
         \A s \in Calls : s # r => req'[s] = req[s] /\ at'[s] = at[s],
         attempt' \in Rows, notices' \in Nat,
         Answered' \subseteq Questions,
         \A q \in Answered' : answers'[q] \in Answer,
         RequestOK(r)'
  PROVE  TypeInv'
<1>1. \A s \in Calls : s # r => RequestOK(s)'
  BY DEF TypeInv, RequestOK
<1> QED
  BY <1>1 DEF TypeInv

\* What each kind of step makes of the request.
LEMMA RequestFacts ==
  ASSUME ShapeInv, NEW r \in Calls, NEW v, NEW w
  PROVE  /\ req' = [req EXCEPT ![r].row = v] => req'[r].row = v
         /\ req' = [req EXCEPT ![r].todo = v] => req'[r].todo = v
         /\ req' = [req EXCEPT ![r].todo = v, ![r].row = w]
              => req'[r].todo = v /\ req'[r].row = w
         /\ req' = [req EXCEPT ![r].row = w, ![r].todo = v]
              => req'[r].todo = v /\ req'[r].row = w
<1>1. /\ req = [s \in Calls |-> req[s]]
      /\ \A s \in Calls : req[s] = [f \in Fields |-> req[s][f]]
  BY DEF ShapeInv
<1>2. req' = [req EXCEPT ![r].row = v] => req'[r].row = v
  BY <1>1 DEF Fields
<1>3. req' = [req EXCEPT ![r].todo = v] => req'[r].todo = v
  BY <1>1 DEF Fields
<1>4. req' = [req EXCEPT ![r].todo = v, ![r].row = w] => req'[r].todo = v /\ req'[r].row = w
  BY <1>1 DEF Fields
<1>5. req' = [req EXCEPT ![r].row = w, ![r].todo = v] => req'[r].todo = v /\ req'[r].row = w
  BY <1>1 DEF Fields
<1> QED
  BY <1>2, <1>3, <1>4, <1>5

LEMMA LoadFacts ==
  ASSUME ShapeInv, NEW r \in Calls, NEW kind, NEW next, NEW todo, NEW row,
         LoadAttempt(r, kind, next, todo, row)
  PROVE  /\ ReqStep(r, {"kind", "own", "todo", "row"}) /\ req'[r].own = attempt
         /\ req'[r].todo = todo /\ req'[r].row = row /\ req'[r].kind = kind
<1>1. req' = [req EXCEPT ![r] = [@ EXCEPT !.kind = kind, !.own = attempt,
                                         !.todo = todo, !.row = row]]
  BY DEF LoadAttempt
<1>2. ReqStep(r, {"kind", "own", "todo", "row"}) /\ req'[r].own = attempt
  BY <1>1, ReqFacts
<1>3. req'[r] = [req[r] EXCEPT !.kind = kind, !.own = attempt, !.todo = todo, !.row = row]
  BY <1>1 DEF ShapeInv
<1>4. req[r] = [f \in Fields |-> req[r][f]]
  BY DEF ShapeInv
<1>5. req'[r].todo = todo /\ req'[r].row = row /\ req'[r].kind = kind
  BY <1>3, <1>4 DEF Fields
<1> QED
  BY <1>2, <1>5

LEMMA TypedArrival ==
  ASSUME ShapeInv, TypeInv, NEW r \in Calls, NEW kind, NEW next, NEW todo, NEW row,
         LoadAttempt(r, kind, next, todo, row),
         DOMAIN todo \subseteq Questions, DOMAIN row \subseteq Questions,
         next = "save" => \A q \in DOMAIN todo : todo[q] \in Texts,
         next \in {"submit", "owner", "grade"} =>
           \A q \in DOMAIN todo : todo[q] \in Points,
         next = "owner" => DOMAIN row \subseteq DOMAIN todo,
         next \notin {"write", "award", "auto"}
  PROVE  TypeInv'
<1>1. /\ ReqStep(r, {"kind", "own", "todo", "row"}) /\ req'[r].own = attempt
      /\ req'[r].todo = todo /\ req'[r].row = row
  BY LoadFacts
<1>2. req'[r].sum = req[r].sum /\ at'[r] = next /\ \A s \in Calls : s # r => at'[s] = at[s]
  BY <1>1 DEF ReqStep, Fields, LoadAttempt, MoveTo, ShapeInv
<1>3. RequestOK(r)'
  BY <1>1, <1>2 DEF TypeInv, RequestOK
<1>4. /\ attempt' \in Rows /\ notices' \in Nat
      /\ Answered' \subseteq Questions
      /\ \A q \in Answered' : answers'[q] \in Answer
  BY DEF LoadAttempt, TypeInv, Answered
<1> QED
  BY <1>1, <1>2, <1>3, <1>4, TypeStep DEF ReqStep

LEMMA TypedArrivals ==
  ASSUME ShapeInv, TypeInv, NEW r \in Calls, CallArrives(r)
  PROVE  TypeInv'
<1>1. DOMAIN Nothing = {}
  BY DEF Nothing
<1>2. CASE BeginSave(r)
  BY <1>1, <1>2, TypedArrival DEF BeginSave
<1>3. CASE BeginSubmit(r)
  BY <1>1, <1>3, TypedArrival DEF BeginSubmit
<1>4. CASE BeginGradeAll(r)
  <2>1. \A p \in Sent \cup {Null} : p \in Points
    BY DEF Points
  <2> QED
    BY <1>1, <1>4, <2>1, TypedArrival DEF BeginGradeAll, TypeInv
<1>5. CASE BeginGrade(r)
  <2>1. PICK q \in Answered, grade \in Sent :
          LoadAttempt(r, "grade", "owner", Only(q, grade), Found(q))
    BY <1>5 DEF BeginGrade
  <2>2. /\ DOMAIN Only(q, grade) = {q} /\ Only(q, grade)[q] = grade
        /\ DOMAIN Found(q) = {q}
        /\ q \in Questions /\ grade \in Points
    BY DEF Only, Found, TypeInv, Points
  <2> QED
    BY <2>1, <2>2, TypedArrival
<1> QED
  BY <1>2, <1>3, <1>4, <1>5 DEF CallArrives

\* A step that leaves the rows alone.
LEMMA TypedReading ==
  ASSUME ShapeInv, TypeInv, NEW r \in Calls, NEW l, at' = [at EXCEPT ![r] = l],
         UNCHANGED <<attempt, answers>>, notices' \in Nat,
         \A s \in Calls : s # r => req'[s] = req[s],
         at'[r] = l => RequestOK(r)'
  PROVE  TypeInv'
<1>1. at'[r] = l /\ \A s \in Calls : s # r => at'[s] = at[s]
  BY DEF ShapeInv
<1>2. /\ attempt' \in Rows
      /\ Answered' \subseteq Questions
      /\ \A q \in Answered' : answers'[q] \in Answer
  BY DEF TypeInv, Answered
<1> QED
  BY <1>1, <1>2, TypeStep

LEMMA TypedReadings ==
  ASSUME ShapeInv, TypeInv, NEW r \in Calls,
         \/ FindSaved(r) \/ FindGraded(r) \/ ReadAnswers(r)
         \/ LoadOwner(r) \/ SumPoints(r) \/ CheckComplete(r)
         \/ CheckNotice(r) \/ CreateNotice(r) \/ CallDies(r)
  PROVE  TypeInv'
<1>1. RequestOK(r) /\ notices \in Nat
  BY DEF TypeInv
<1>2. ASSUME NEW from, NEW to, <<from, to>> \in {<<"save", "write">>, <<"grade", "award">>},
             FindAnswer(r, from, to)
      PROVE  TypeInv'
  <2>1. PICK q \in DOMAIN req[r].todo : req' = [req EXCEPT ![r].row = Found(q)]
    BY <1>2 DEF FindAnswer
  <2>2. ReqStep(r, {"row"}) /\ req'[r].row = Found(q) /\ DOMAIN Found(q) = {q}
    <3>1. ReqStep(r, {"row"})
      BY <2>1, ReqFacts
    <3>2. req'[r].row = Found(q)
      BY <2>1, RequestFacts
    <3>3. DOMAIN Found(q) = {q}
      BY DEF Found, Only
    <3> QED
      BY <3>1, <3>2, <3>3
  <2>3. req'[r].own = req[r].own /\ req'[r].sum = req[r].sum /\ req'[r].todo = req[r].todo
    BY <2>2 DEF ReqStep, Fields
  <2>4. at[r] = from /\ (at'[r] = to => RequestOK(r)')
    BY <1>1, <1>2, <2>2, <2>3 DEF RequestOK, FindAnswer
  <2> QED
    BY <1>1, <1>2, <2>2, <2>4, TypedReading DEF FindAnswer, MoveTo, ReqStep
<1>3. CASE FindSaved(r) \/ FindGraded(r)
  BY <1>2, <1>3 DEF FindSaved, FindGraded
<1>4. CASE ReadAnswers(r)
  <2> DEFINE auto == Answered \cap AutoGradable
             todo == [q \in auto |-> IF answers[q].text = "right" THEN MaxPoints ELSE 0]
             row  == [q \in auto |-> answers[q]]
  <2>1. req' = [req EXCEPT ![r].row = row, ![r].todo = todo]
    BY <1>4 DEF ReadAnswers
  <2>2. /\ DOMAIN todo \subseteq Questions /\ DOMAIN row \subseteq Questions
        /\ \A q \in DOMAIN todo : todo[q] \in Points
    BY DEF TypeInv, Points
  <2> HIDE DEF todo, row
  <2>3. ReqStep(r, {"todo", "row"}) /\ req'[r].row = row /\ req'[r].todo = todo
    <3>1. ReqStep(r, {"todo", "row"})
      BY <2>1, ReqFacts
    <3>2. req'[r].row = row /\ req'[r].todo = todo
      BY <2>1, RequestFacts
    <3> QED
      BY <3>1, <3>2
  <2>4. req'[r].own = req[r].own /\ req'[r].sum = req[r].sum
    BY <2>3 DEF ReqStep, Fields
  <2>5. \E l \in {"auto", "sum"} : at' = [at EXCEPT ![r] = l]
    BY <1>4 DEF ReadAnswers, MoveTo, ShapeInv
  <2>6. at'[r] \in {"auto", "sum"} => RequestOK(r)'
    BY <1>1, <2>2, <2>3, <2>4 DEF RequestOK
  <2>7. UNCHANGED <<attempt, answers>> /\ notices' \in Nat
    BY <1>1, <1>4 DEF ReadAnswers
  <2>8. \A s \in Calls : s # r => req'[s] = req[s]
    BY <2>3 DEF ReqStep
  <2> QED
    BY <2>5, <2>6, <2>7, <2>8, TypedReading
<1>5. CASE LoadOwner(r)
  <2>1. ReqStep(r, {"own"}) /\ req'[r].own = attempt
    BY <1>5, ReqFacts DEF LoadOwner
  <2>2. /\ req'[r].sum = req[r].sum /\ req'[r].todo = req[r].todo /\ req'[r].row = req[r].row
    BY <2>1 DEF ReqStep, Fields
  <2>3. \E l \in {"refused", "award"} : at' = [at EXCEPT ![r] = l]
    BY <1>5 DEF LoadOwner, MoveTo
  <2>4. at[r] = "owner" /\ attempt \in Rows
    BY <1>5 DEF LoadOwner, TypeInv
  <2>5. at'[r] \in {"refused", "award"} => RequestOK(r)'
    BY <1>1, <2>1, <2>2, <2>4 DEF RequestOK
  <2>6. UNCHANGED <<attempt, answers>> /\ notices' \in Nat
    BY <1>1, <1>5 DEF LoadOwner
  <2>7. \A s \in Calls : s # r => req'[s] = req[s]
    BY <2>1 DEF ReqStep
  <2> QED
    BY <2>3, <2>5, <2>6, <2>7, TypedReading
<1>6. CASE SumPoints(r)
  <2>1. ReqStep(r, {"sum"}) /\ req'[r].sum = Total
    BY <1>6, ReqFacts DEF SumPoints
  <2>2. /\ req'[r].own = req[r].own /\ req'[r].todo = req[r].todo /\ req'[r].row = req[r].row
    BY <2>1 DEF ReqStep, Fields
  <2>3. at'[r] = "complete" => RequestOK(r)'
    BY <1>1, <2>1, <2>2, TotalIsANumber DEF RequestOK
  <2> QED
    BY <1>1, <1>6, <2>1, <2>3, TypedReading DEF SumPoints, MoveTo, ReqStep
<1>7. CASE CheckComplete(r)
  <2>1. ReqStep(r, {"all"})
    BY <1>7, ReqFacts DEF CheckComplete
  <2>2. /\ req'[r].own = req[r].own /\ req'[r].todo = req[r].todo /\ req'[r].row = req[r].row
        /\ req'[r].sum = req[r].sum
    BY <2>1 DEF ReqStep, Fields
  <2>3. at'[r] = "score" => RequestOK(r)'
    BY <1>1, <2>2 DEF RequestOK
  <2> QED
    BY <1>1, <1>7, <2>1, <2>3, TypedReading DEF CheckComplete, MoveTo, ReqStep
<1>8. CASE CheckNotice(r) \/ CreateNotice(r) \/ CallDies(r)
  <2>1. PICK l \in {"create", "ok", "failed"} : at' = [at EXCEPT ![r] = l]
    BY <1>8 DEF CheckNotice, CreateNotice, CallDies, MoveTo
  <2>2. req' = req /\ UNCHANGED <<attempt, answers>> /\ notices' \in Nat
    BY <1>1, <1>8 DEF CheckNotice, CreateNotice, CallDies
  <2>3. at'[r] = l => RequestOK(r)'
    BY <1>1, <2>2 DEF RequestOK
  <2> QED
    BY <2>1, <2>2, <2>3, TypedReading
<1> QED
  BY <1>3, <1>4, <1>5, <1>6, <1>7, <1>8

LEMMA DoneFacts ==
  ASSUME ShapeInv, NEW r \in Calls, NEW q, NEW next, NEW after, Done(r, q, next, after)
  PROVE  /\ ReqStep(r, {"todo", "row"}) /\ req'[r].row = Nothing
         /\ req'[r].todo = [p \in DOMAIN req[r].todo \ {q} |-> req[r].todo[p]]
         /\ at'[r] \in {next, after} /\ \A s \in Calls : s # r => at'[s] = at[s]
<1> DEFINE rest == [p \in DOMAIN req[r].todo \ {q} |-> req[r].todo[p]]
<1>1. req' = [req EXCEPT ![r].todo = rest, ![r].row = Nothing]
  BY DEF Done
<1>2. \E l \in {next, after} : at' = [at EXCEPT ![r] = l]
  BY DEF Done, MoveTo
<1>3. at'[r] \in {next, after} /\ \A s \in Calls : s # r => at'[s] = at[s]
  BY <1>2 DEF ShapeInv
<1> HIDE DEF rest
<1>4. ReqStep(r, {"todo", "row"})
  BY <1>1, ReqFacts
<1>5. req'[r].row = Nothing /\ req'[r].todo = rest
  BY <1>1, RequestFacts
<1> QED
  BY <1>3, <1>4, <1>5 DEF rest

\* What remains to be done is as good as what there was.
LEMMA DoneOK ==
  ASSUME NEW r \in Calls, RequestOK(r), at[r] \in {"write", "award"}, NEW q,
         ReqStep(r, {"todo", "row"}), req'[r].row = Nothing,
         req'[r].todo = [p \in DOMAIN req[r].todo \ {q} |-> req[r].todo[p]],
         at'[r] \in (IF at[r] = "write" THEN {"save", "ok"} ELSE {"grade", "sum"})
  PROVE  RequestOK(r)'
<1>1. req'[r].own = req[r].own /\ req'[r].sum = req[r].sum
  BY DEF ReqStep, Fields
<1>2. DOMAIN req'[r].row = {}
  BY DEF Nothing
<1> QED
  BY <1>1, <1>2 DEF RequestOK

LEMMA TypedWriteAnswer ==
  ASSUME ShapeInv, TypeInv, NEW r \in Calls, WriteAnswer(r)
  PROVE  TypeInv'
<1>1. RequestOK(r) /\ at[r] = "write"
  BY DEF TypeInv, WriteAnswer
<1>2. /\ attempt' \in Rows /\ notices' \in Nat
      /\ \A s \in Calls : s # r => at'[s] = at[s]
  BY DEF TypeInv, WriteAnswer, Done, MoveTo, ShapeInv
<1> PICK q \in DOMAIN req[r].row :
       IF req[r].row[q].text = "none" /\ q \in Answered
         THEN at' = [at EXCEPT ![r] = "refused"] /\ UNCHANGED <<answers, req>>
         ELSE /\ answers' =
                   IF req[r].row[q].text = "none"
                     THEN [p \in Answered \cup {q} |->
                             IF p \in Answered THEN answers[p]
                             ELSE [text |-> req[r].todo[q], points |-> Null]]
                     ELSE IF req[r].row[q].text = req[r].todo[q] THEN answers
                     ELSE [answers EXCEPT ![q].text = req[r].todo[q]]
              /\ Done(r, q, "save", "ok")
  BY DEF WriteAnswer, MoveTo
<1>3. q \in Questions /\ req[r].todo[q] \in Texts
  BY <1>1 DEF RequestOK
<1>4. CASE req[r].row[q].text = "none" /\ q \in Answered
  <2>1. at'[r] = "refused" /\ UNCHANGED <<answers, req>>
    BY <1>4 DEF ShapeInv
  <2>2. RequestOK(r)'
    BY <1>1, <2>1 DEF RequestOK
  <2>3. /\ Answered' \subseteq Questions
        /\ \A p \in Answered' : answers'[p] \in Answer
    BY <2>1 DEF TypeInv, Answered
  <2> QED
    BY <1>2, <2>1, <2>2, <2>3, TypeStep
<1>5. CASE ~ (req[r].row[q].text = "none" /\ q \in Answered)
  <2>1. Done(r, q, "save", "ok")
    BY <1>5
  <2>2. /\ Answered' \subseteq Questions
        /\ \A p \in Answered' : answers'[p] \in Answer
    <3>1. /\ Answered \subseteq Questions
          /\ \A p \in Answered : answers[p] \in Answer
      BY DEF TypeInv
    <3>2. CASE answers' = answers
      BY <3>1, <3>2 DEF Answered
    <3>3. CASE answers' = [p \in Answered \cup {q} |->
                             IF p \in Answered THEN answers[p]
                             ELSE [text |-> req[r].todo[q], points |-> Null]]
      <4>1. [text |-> req[r].todo[q], points |-> Null] \in Answer
        BY <1>3 DEF Answer, Points
      <4>2. Answered' = Answered \cup {q}
        BY <3>3 DEF Answered
      <4> QED
        BY <1>3, <3>1, <3>3, <4>1, <4>2
    <3>4. CASE answers' = [answers EXCEPT ![q].text = req[r].todo[q]]
      <4>1. /\ Answered' = Answered
            /\ \A p \in Answered : p # q => answers'[p] = answers[p]
            /\ q \in Answered => answers'[q] = [answers[q] EXCEPT !.text = req[r].todo[q]]
        BY <3>4 DEF Answered, ShapeInv
      <4>2. q \in Answered => answers'[q] \in Answer
        BY <1>3, <3>1, <4>1 DEF Answer
      <4> QED
        BY <3>1, <4>1, <4>2
    <3> QED
      BY <1>5, <3>2, <3>3, <3>4
  <2>3. /\ ReqStep(r, {"todo", "row"}) /\ req'[r].row = Nothing
        /\ req'[r].todo = [p \in DOMAIN req[r].todo \ {q} |-> req[r].todo[p]]
        /\ at'[r] \in {"save", "ok"}
    BY <2>1, DoneFacts
  <2>4. RequestOK(r)'
    BY <1>1, <2>3, DoneOK
  <2> QED
    BY <1>2, <2>2, <2>3, <2>4, TypeStep DEF ReqStep
<1> QED
  BY <1>4, <1>5

LEMMA TypedAward ==
  ASSUME ShapeInv, TypeInv, NEW r \in Calls, NEW q, Award(r, q),
         req[r].todo[q] \in Points
  PROVE  /\ Answered' \subseteq Questions
         /\ \A p \in Answered' : answers'[p] \in Answer
<1>1. /\ Answered \subseteq Questions
      /\ \A p \in Answered : answers[p] \in Answer
  BY DEF TypeInv
<1>2. CASE answers' = answers
  BY <1>1, <1>2 DEF Answered
<1>3. CASE answers' = [answers EXCEPT ![q].points = req[r].todo[q]]
  <2>1. /\ Answered' = Answered
        /\ \A p \in Answered : p # q => answers'[p] = answers[p]
        /\ q \in Answered => answers'[q] = [answers[q] EXCEPT !.points = req[r].todo[q]]
    BY <1>3 DEF Answered, ShapeInv
  <2>2. q \in Answered => answers'[q] \in Answer
    BY <1>1, <2>1 DEF Answer
  <2> QED
    BY <1>1, <2>1, <2>2
<1> QED
  BY <1>2, <1>3 DEF Award

LEMMA TypedAwards ==
  ASSUME ShapeInv, TypeInv, NEW r \in Calls, AutoGrade(r) \/ WriteGrade(r)
  PROVE  TypeInv'
<1>1. RequestOK(r)
  BY DEF TypeInv
<1>2. CASE AutoGrade(r)
  <2>1. PICK q \in DOMAIN req[r].todo :
          /\ Award(r, q)
          /\ req' = [req EXCEPT ![r].todo = [p \in DOMAIN req[r].todo \ {q} |-> req[r].todo[p]]]
          /\ \E l \in {"auto", "sum"} : at' = [at EXCEPT ![r] = l]
    BY <1>2 DEF AutoGrade, MoveTo, ShapeInv
  <2>2. req[r].todo[q] \in Points
    BY <1>1, <1>2 DEF AutoGrade, RequestOK
  <2>3. /\ Answered' \subseteq Questions
        /\ \A p \in Answered' : answers'[p] \in Answer
    BY <2>1, <2>2, TypedAward
  <2>4. /\ ReqStep(r, {"todo"})
        /\ req'[r].todo = [p \in DOMAIN req[r].todo \ {q} |-> req[r].todo[p]]
    <3> DEFINE rest == [p \in DOMAIN req[r].todo \ {q} |-> req[r].todo[p]]
    <3>1. req' = [req EXCEPT ![r].todo = rest]
      BY <2>1
    <3> HIDE DEF rest
    <3>2. ReqStep(r, {"todo"})
      BY <3>1, ReqFacts
    <3>3. req'[r].todo = rest
      BY <3>1, RequestFacts
    <3> QED
      BY <3>2, <3>3 DEF rest
  <2>5. req'[r].own = req[r].own /\ req'[r].sum = req[r].sum /\ req'[r].row = req[r].row
    BY <2>4 DEF ReqStep, Fields
  <2>6. at'[r] \in {"auto", "sum"} /\ \A s \in Calls : s # r => at'[s] = at[s]
    BY <2>1 DEF ShapeInv
  <2>7. at[r] = "auto" /\ UNCHANGED <<attempt, notices>>
    BY <1>2 DEF AutoGrade
  <2>8. RequestOK(r)'
    BY <1>1, <2>4, <2>5, <2>6, <2>7 DEF RequestOK
  <2> QED
    BY <2>3, <2>4, <2>6, <2>7, <2>8, TypeStep DEF ReqStep, TypeInv
<1>3. CASE WriteGrade(r)
  <2>1. PICK q \in DOMAIN req[r].row : Award(r, q) /\ Done(r, q, "grade", "sum")
    BY <1>3 DEF WriteGrade
  <2>2. req[r].todo[q] \in Points
    BY <1>1, <1>3 DEF WriteGrade, RequestOK
  <2>3. /\ Answered' \subseteq Questions
        /\ \A p \in Answered' : answers'[p] \in Answer
    BY <2>1, <2>2, TypedAward
  <2>4. /\ ReqStep(r, {"todo", "row"}) /\ req'[r].row = Nothing
        /\ req'[r].todo = [p \in DOMAIN req[r].todo \ {q} |-> req[r].todo[p]]
        /\ at'[r] \in {"grade", "sum"} /\ \A s \in Calls : s # r => at'[s] = at[s]
    BY <2>1, DoneFacts
  <2>5. at[r] = "award" /\ UNCHANGED <<attempt, notices>>
    BY <1>3 DEF WriteGrade
  <2>6. RequestOK(r)'
    BY <1>1, <2>4, <2>5, DoneOK
  <2> QED
    BY <2>3, <2>4, <2>5, <2>6, TypeStep DEF ReqStep, TypeInv
<1> QED
  BY <1>2, <1>3

LEMMA TypedUpdates ==
  ASSUME ShapeInv, TypeInv, NEW r \in Calls, MarkSubmitted(r) \/ WriteScore(r)
  PROVE  TypeInv'
<1>1. RequestOK(r) /\ attempt \in Rows
  BY DEF TypeInv
<1>2. ASSUME NEW new \in Rows, UpdateAttempt(r, new)
      PROVE  ReqStep(r, {"own"}) /\ req'[r].own \in Rows /\ attempt' \in Rows
  <2>1. ReqStep(r, {"own"}) /\ req'[r].own = new
    BY <1>2, ReqFacts DEF UpdateAttempt
  <2>2. attempt' = [c \in {"status", "score"} |->
                      IF new[c] = req[r].own[c] THEN attempt[c] ELSE new[c]]
    BY <1>2 DEF UpdateAttempt, Changed
  <2>3. attempt' \in Rows
    BY <1>1, <1>2, <2>2 DEF Rows
  <2> QED
    BY <1>2, <2>1, <2>3
<1>3. ReqStep(r, {"own"}) /\ req'[r].own \in Rows /\ attempt' \in Rows
  <2>1. CASE UNCHANGED <<attempt, req>>
    <3>1. ReqStep(r, {})
      BY <2>1, ReqFacts
    <3> QED
      BY <1>1, <2>1, <3>1 DEF ReqStep, RequestOK
  <2>2. CASE UpdateAttempt(r, [req[r].own EXCEPT !.status = "submitted"])
    <3>1. [req[r].own EXCEPT !.status = "submitted"] \in Rows
      BY <1>1 DEF RequestOK, Rows, AttemptStatuses
    <3> QED
      BY <1>2, <2>2, <3>1
  <2>3. CASE WriteScore(r)
    <3> DEFINE new == [status |-> IF req[r].all THEN "graded" ELSE req[r].own.status,
                       score  |-> req[r].sum]
    <3>1. new \in Rows
      BY <1>1 DEF RequestOK, Rows, AttemptStatuses, Scores
    <3>2. UpdateAttempt(r, new)
      BY <2>3 DEF WriteScore
    <3> HIDE DEF new
    <3> QED
      BY <1>2, <3>1, <3>2
  <2> QED
    BY <2>1, <2>2, <2>3 DEF MarkSubmitted
<1>4. req'[r].todo = req[r].todo /\ req'[r].sum = req[r].sum /\ req'[r].row = req[r].row
  BY <1>3 DEF ReqStep, Fields
<1>5. /\ UNCHANGED <<answers, notices>>
      /\ \E l \in {"auto", "refused", "ok", "notify"} :
           at' = [at EXCEPT ![r] = l] /\ (l = "auto" => at[r] = "submit")
  BY DEF MarkSubmitted, WriteScore, MoveTo
<1>6. /\ at'[r] \in {"auto", "refused", "ok", "notify"}
      /\ (at'[r] = "auto" => at[r] = "submit")
      /\ \A s \in Calls : s # r => at'[s] = at[s]
  BY <1>5 DEF ShapeInv
<1>7. RequestOK(r)'
  BY <1>1, <1>3, <1>4, <1>6 DEF RequestOK
<1>8. /\ notices' \in Nat
      /\ Answered' \subseteq Questions
      /\ \A q \in Answered' : answers'[q] \in Answer
  BY <1>5 DEF TypeInv, Answered
<1> QED
  BY <1>3, <1>6, <1>7, <1>8, TypeStep DEF ReqStep

LEMMA KeepsTypes ==
  ASSUME ShapeInv, TypeInv, [GradingNext]_gradingVars
  PROVE  TypeInv'
<1>1. CASE UNCHANGED gradingVars
  BY <1>1 DEF gradingVars, TypeInv, RequestOK, Answered
<1>2. ASSUME NEW r \in Calls, CallArrives(r) \/ CallWorks(r) \/ CallDies(r)
      PROVE  TypeInv'
  BY <1>2, TypedArrivals, TypedReadings, TypedWriteAnswer, TypedAwards,
     TypedUpdates DEF CallWorks
<1> QED
  BY <1>1, <1>2 DEF GradingNext

LEMMA TypeInvariance == GradingSpec => [](ShapeInv /\ TypeInv)
<1>1. GradingInit => TypeInv
  BY InitTypeInv
<1>2. ShapeInv /\ TypeInv /\ [GradingNext]_gradingVars => TypeInv'
  BY KeepsTypes
<1>3. GradingInv => ShapeInv
  BY DEF GradingInv
<1> QED
  BY <1>1, <1>2, <1>3, GradingInvariance, PTL DEF GradingSpec

HistoryOK == crowd \subseteq Calls /\ unsettled \in BOOLEAN

LEMMA KeepsHistory ==
  ASSUME HistoryOK, [GradingNext]_gradingVars
  PROVE  HistoryOK'
<1>1. CASE UNCHANGED history
  BY <1>1 DEF HistoryOK
<1>2. ASSUME NEW r \in Calls, CallArrives(r) \/ WriteScore(r) \/ CallDies(r)
      PROVE  HistoryOK'
  <2>1. crowd' = crowd \/ crowd' = crowd \cup {s \in Calls : at[s] \in Grading} \cup {r}
    BY <1>2 DEF CallArrives, BeginSave, BeginSubmit, BeginGradeAll, BeginGrade,
       LoadAttempt, WriteScore, CallDies
  <2>2. unsettled' \in BOOLEAN
    <3>1. unsettled' \in {unsettled, TRUE, unsettled /\ r \in crowd,
                          unsettled \/ at[r] \in Unscored}
      BY <1>2, Zenon DEF CallArrives, BeginSave, BeginSubmit, BeginGradeAll,
         BeginGrade, LoadAttempt, WriteScore, CallDies
    <3> QED
      BY <3>1, Zenon DEF HistoryOK
  <2> QED
    BY <2>1, <2>2 DEF HistoryOK
<1>3. CASE UNCHANGED gradingVars
  BY <1>1, <1>3 DEF gradingVars
<1>4. ASSUME NEW r \in Calls, CallWorks(r), ~ WriteScore(r)
      PROVE  UNCHANGED history
  BY <1>4 DEF CallWorks, FindSaved, FindGraded, FindAnswer, WriteAnswer, MarkSubmitted,
     ReadAnswers, AutoGrade, LoadOwner, WriteGrade, SumPoints, CheckComplete,
     CheckNotice, CreateNotice
<1> QED
  BY <1>1, <1>2, <1>3, <1>4 DEF GradingNext

-----------------------------------------------------------------------------
(* The points that answers have: only grade_all lets any through.          *)

Asked == \E r \in Calls : req[r].kind = "grade_all"

Allowed == {Null} \cup 0 .. MaxPoints

\* Where what a request has in todo are points that it may award.
Awarding == {"submit", "auto", "grade", "award"}

TodoBounded(r) ==
  at[r] \in Awarding => \A q \in DOMAIN req[r].todo : req[r].todo[q] \in Allowed

\* A grade that waits to be compared is one, and of one answer.
Single(r) == \E q : DOMAIN req[r].todo = {q} /\ req[r].todo[q] \in Sent

BoundsInv ==
  /\ \A r \in Calls : at[r] = "idle" => req[r].kind # "grade_all"
  /\ \A r \in Calls : at[r] = "owner" => Single(r)
  /\ Asked \/ /\ \A q \in Answered : answers[q].points \in Allowed
              /\ \A r \in Calls : TodoBounded(r)

\* A step of one request, which keeps what it was asked for.
LEMMA BoundsStep ==
  ASSUME BoundsInv, NEW r \in Calls,
         \A s \in Calls : s # r => req'[s] = req[s] /\ at'[s] = at[s],
         at'[r] # "idle", at'[r] = "owner" => Single(r)',
         at[r] = "idle" \/ req'[r].kind = req[r].kind,
         (\A q \in Answered : answers[q].points \in Allowed) /\ TodoBounded(r) /\ ~ Asked' =>
           /\ \A q \in Answered' : answers'[q].points \in Allowed
           /\ TodoBounded(r)'
  PROVE  BoundsInv'
<1>1. /\ \A s \in Calls : at'[s] = "idle" => req'[s].kind # "grade_all"
      /\ \A s \in Calls : at'[s] = "owner" => Single(s)'
  BY DEF BoundsInv, Single
<1>2. Asked => Asked'
  <2> SUFFICES ASSUME Asked PROVE Asked'
    OBVIOUS
  <2>1. PICK s \in Calls : req[s].kind = "grade_all"
    BY DEF Asked
  <2>2. req'[s].kind = "grade_all"
    BY <2>1 DEF BoundsInv
  <2> QED
    BY <2>2 DEF Asked
<1>3. ASSUME ~ Asked'
      PROVE  /\ \A q \in Answered' : answers'[q].points \in Allowed
             /\ \A s \in Calls : TodoBounded(s)'
  <2>1. /\ \A q \in Answered : answers[q].points \in Allowed
        /\ \A s \in Calls : TodoBounded(s)
    BY <1>2, <1>3 DEF BoundsInv
  <2>2. /\ \A q \in Answered' : answers'[q].points \in Allowed
        /\ TodoBounded(r)'
    BY <1>3, <2>1
  <2>3. ASSUME NEW s \in Calls, s # r PROVE TodoBounded(s)'
    BY <2>1, <2>3 DEF TodoBounded
  <2> QED
    BY <2>2, <2>3
<1> QED
  BY <1>1, <1>3 DEF BoundsInv

\* A step that leaves the answers alone, and what there is to award.
LEMMA BoundsQuiet ==
  ASSUME BoundsInv, ShapeInv, NEW r \in Calls, NEW l, at' = [at EXCEPT ![r] = l],
         l \notin {"idle", "owner"}, answers' = answers,
         NEW changed \in SUBSET {"own", "row", "sum", "all"}, ReqStep(r, changed),
         l \in Awarding => at[r] \in Awarding
  PROVE  BoundsInv'
<1>1. at'[r] = l /\ \A s \in Calls : s # r => at'[s] = at[s]
  BY DEF ShapeInv
<1>2. /\ req'[r].kind = req[r].kind /\ req'[r].todo = req[r].todo
      /\ \A s \in Calls : s # r => req'[s] = req[s]
  BY DEF ReqStep, Fields
<1>3. TodoBounded(r) => TodoBounded(r)'
  BY <1>1, <1>2 DEF TodoBounded
<1>4. Answered' = Answered
  BY DEF Answered
<1> QED
  BY <1>1, <1>2, <1>3, <1>4, BoundsStep

LEMMA BoundsArrival ==
  ASSUME BoundsInv, ShapeInv, NEW r \in Calls, NEW kind, NEW next, NEW todo, NEW row,
         LoadAttempt(r, kind, next, todo, row), next # "idle",
         next = "owner" => \E q : DOMAIN todo = {q} /\ todo[q] \in Sent,
         kind = "grade_all" \/ next \notin Awarding \/ DOMAIN todo = {}
  PROVE  BoundsInv'
<1>1. /\ ReqStep(r, {"kind", "own", "todo", "row"}) /\ req'[r].todo = todo
      /\ req'[r].kind = kind
  BY LoadFacts
<1>2. at[r] = "idle" /\ at'[r] = next /\ \A s \in Calls : s # r => at'[s] = at[s]
  BY DEF LoadAttempt, MoveTo, ShapeInv
<1>3. answers' = answers /\ Answered' = Answered
  BY DEF LoadAttempt, Answered
<1>4. ~ Asked' => TodoBounded(r)'
  BY <1>1, <1>2 DEF Asked, TodoBounded
<1>5. at'[r] = "owner" => Single(r)'
  BY <1>1, <1>2 DEF Single
<1> QED
  BY <1>1, <1>2, <1>3, <1>4, <1>5, BoundsStep DEF ReqStep

LEMMA BoundsArrivals ==
  ASSUME BoundsInv, ShapeInv, NEW r \in Calls, CallArrives(r)
  PROVE  BoundsInv'
<1>1. DOMAIN Nothing = {}
  BY DEF Nothing
<1>2. CASE BeginSave(r)
  BY <1>2, BoundsArrival DEF BeginSave, Awarding
<1>3. CASE BeginSubmit(r)
  BY <1>1, <1>3, BoundsArrival DEF BeginSubmit
<1>4. CASE BeginGradeAll(r)
  BY <1>4, BoundsArrival DEF BeginGradeAll
<1>5. CASE BeginGrade(r)
  <2>1. PICK q \in Answered, grade \in Sent :
          LoadAttempt(r, "grade", "owner", Only(q, grade), Found(q))
    BY <1>5 DEF BeginGrade
  <2>2. DOMAIN Only(q, grade) = {q} /\ Only(q, grade)[q] = grade
    BY DEF Only
  <2> QED
    BY <2>1, <2>2, BoundsArrival DEF Awarding
<1> QED
  BY <1>2, <1>3, <1>4, <1>5 DEF CallArrives

\* What is awarded was allowed.
LEMMA BoundsAward ==
  ASSUME ShapeInv, NEW r \in Calls, NEW q \in DOMAIN req[r].todo, Award(r, q),
         at[r] \in Awarding
  PROVE  (\A p \in Answered : answers[p].points \in Allowed) /\ TodoBounded(r) =>
           \A p \in Answered' : answers'[p].points \in Allowed
<1> SUFFICES ASSUME \A p \in Answered : answers[p].points \in Allowed, TodoBounded(r)
             PROVE  \A p \in Answered' : answers'[p].points \in Allowed
  OBVIOUS
<1>1. req[r].todo[q] \in Allowed
  BY DEF TodoBounded
<1>2. CASE answers' = answers
  BY <1>2 DEF Answered
<1>3. CASE answers' = [answers EXCEPT ![q].points = req[r].todo[q]]
  <2>1. /\ Answered' = Answered
        /\ \A p \in Answered : p # q => answers'[p] = answers[p]
        /\ q \in Answered => answers'[q] = [answers[q] EXCEPT !.points = req[r].todo[q]]
    BY <1>3 DEF Answered, ShapeInv
  <2>2. q \in Answered => answers'[q].points = req[r].todo[q]
    BY <2>1 DEF ShapeInv
  <2> QED
    BY <1>1, <2>1, <2>2
<1> QED
  BY <1>2, <1>3 DEF Award

\* The rest of what was to be awarded is allowed if all of it was.
LEMMA BoundsRest ==
  ASSUME NEW r \in Calls, NEW q, at[r] \in Awarding,
         req'[r].todo = [p \in DOMAIN req[r].todo \ {q} |-> req[r].todo[p]]
  PROVE  TodoBounded(r) => TodoBounded(r)'
BY DEF TodoBounded

LEMMA BoundsAwards ==
  ASSUME BoundsInv, ShapeInv, TypeInv, NEW r \in Calls, AutoGrade(r) \/ WriteGrade(r)
  PROVE  BoundsInv'
<1>1. PICK q \in DOMAIN req[r].todo :
        /\ Award(r, q) /\ at[r] \in Awarding
        /\ ReqStep(r, {"todo", "row"})
        /\ req'[r].todo = [p \in DOMAIN req[r].todo \ {q} |-> req[r].todo[p]]
        /\ at'[r] \notin {"idle", "owner"} /\ \A s \in Calls : s # r => at'[s] = at[s]
  <2>1. CASE AutoGrade(r)
    <3>1. PICK q \in DOMAIN req[r].todo :
            /\ Award(r, q)
            /\ req' = [req EXCEPT ![r].todo = [p \in DOMAIN req[r].todo \ {q} |-> req[r].todo[p]]]
            /\ \E l \in {"auto", "sum"} : at' = [at EXCEPT ![r] = l]
      BY <2>1 DEF AutoGrade, MoveTo, ShapeInv
    <3> DEFINE rest == [p \in DOMAIN req[r].todo \ {q} |-> req[r].todo[p]]
    <3>2. req' = [req EXCEPT ![r].todo = rest]
      BY <3>1
    <3> HIDE DEF rest
    <3>3. ReqStep(r, {"todo"}) /\ req'[r].todo = rest
      BY <3>2, ReqFacts, RequestFacts
    <3>4. ReqStep(r, {"todo", "row"})
      BY <3>3 DEF ReqStep
    <3>5. at'[r] \notin {"idle", "owner"} /\ \A s \in Calls : s # r => at'[s] = at[s]
      BY <3>1 DEF ShapeInv
    <3>6. at[r] \in Awarding
      BY <2>1 DEF AutoGrade, Awarding
    <3> QED
      BY <3>1, <3>3, <3>4, <3>5, <3>6 DEF rest
  <2>2. CASE WriteGrade(r)
    <3>1. PICK q \in DOMAIN req[r].row : Award(r, q) /\ Done(r, q, "grade", "sum")
      BY <2>2 DEF WriteGrade
    <3>2. /\ ReqStep(r, {"todo", "row"})
          /\ req'[r].todo = [p \in DOMAIN req[r].todo \ {q} |-> req[r].todo[p]]
          /\ at'[r] \in {"grade", "sum"} /\ \A s \in Calls : s # r => at'[s] = at[s]
      BY <3>1, DoneFacts
    <3>3. q \in DOMAIN req[r].todo /\ at[r] \in Awarding
      BY <2>2 DEF WriteGrade, TypeInv, RequestOK, Awarding
    <3> QED
      BY <3>1, <3>2, <3>3
  <2> QED
    BY <2>1, <2>2
<1>2. req'[r].kind = req[r].kind /\ \A s \in Calls : s # r => req'[s] = req[s]
  BY <1>1 DEF ReqStep, Fields
<1>3. TodoBounded(r) => TodoBounded(r)'
  BY <1>1, BoundsRest
<1>4. (\A p \in Answered : answers[p].points \in Allowed) /\ TodoBounded(r) =>
        \A p \in Answered' : answers'[p].points \in Allowed
  BY <1>1, BoundsAward
<1> QED
  BY <1>1, <1>2, <1>3, <1>4, BoundsStep

LEMMA BoundsWriteAnswer ==
  ASSUME BoundsInv, ShapeInv, NEW r \in Calls, WriteAnswer(r)
  PROVE  BoundsInv'
<1> PICK q \in DOMAIN req[r].row :
       IF req[r].row[q].text = "none" /\ q \in Answered
         THEN at' = [at EXCEPT ![r] = "refused"] /\ UNCHANGED <<answers, req>>
         ELSE /\ answers' =
                   IF req[r].row[q].text = "none"
                     THEN [p \in Answered \cup {q} |->
                             IF p \in Answered THEN answers[p]
                             ELSE [text |-> req[r].todo[q], points |-> Null]]
                     ELSE IF req[r].row[q].text = req[r].todo[q] THEN answers
                     ELSE [answers EXCEPT ![q].text = req[r].todo[q]]
              /\ Done(r, q, "save", "ok")
  BY DEF WriteAnswer, MoveTo
<1>1. CASE at' = [at EXCEPT ![r] = "refused"] /\ UNCHANGED <<answers, req>>
  <2>1. ReqStep(r, {})
    BY <1>1, ReqFacts
  <2> QED
    <3>1. {} \in SUBSET {"own", "row", "sum", "all"} /\ "refused" \notin Awarding
      BY DEF Awarding
    <3> QED
      BY <1>1, <2>1, <3>1, BoundsQuiet
<1>2. CASE Done(r, q, "save", "ok")
  <2>1. /\ ReqStep(r, {"todo", "row"})
        /\ at'[r] \in {"save", "ok"} /\ \A s \in Calls : s # r => at'[s] = at[s]
    BY <1>2, DoneFacts
  <2>2. req'[r].kind = req[r].kind /\ \A s \in Calls : s # r => req'[s] = req[s]
    BY <2>1 DEF ReqStep, Fields
  <2>3. \A p \in Answered' : answers'[p].points = Null
                             \/ (p \in Answered /\ answers'[p].points = answers[p].points)
    <3>1. CASE answers' = answers
      BY <3>1 DEF Answered
    <3>2. CASE answers' = [p \in Answered \cup {q} |->
                             IF p \in Answered THEN answers[p]
                             ELSE [text |-> req[r].todo[q], points |-> Null]]
      <4>1. Answered' = Answered \cup {q}
        BY <3>2 DEF Answered
      <4>2. ASSUME NEW p \in Answered' PROVE answers'[p].points = Null
                             \/ (p \in Answered /\ answers'[p].points = answers[p].points)
        <5>1. CASE p \in Answered
          BY <3>2, <4>1, <5>1
        <5>2. CASE p \notin Answered
          BY <3>2, <4>1, <4>2, <5>2
        <5> QED
          BY <5>1, <5>2
      <4> QED
        BY <4>2
    <3>3. CASE answers' = [answers EXCEPT ![q].text = req[r].todo[q]]
      <4>1. /\ Answered' = Answered
            /\ \A p \in Answered : p # q => answers'[p] = answers[p]
            /\ q \in Answered => answers'[q] = [answers[q] EXCEPT !.text = req[r].todo[q]]
        BY <3>3 DEF Answered, ShapeInv
      <4>2. q \in Answered => answers'[q].points = answers[q].points
        BY <4>1 DEF ShapeInv
      <4> QED
        BY <4>1, <4>2
    <3>4. CASE UNCHANGED answers
      BY <3>1, <3>4
    <3> QED
      BY <3>1, <3>2, <3>3, <3>4
  <2>4. at'[r] \notin Awarding
    BY <2>1 DEF Awarding
  <2>5. TodoBounded(r)'
    BY <2>4 DEF TodoBounded
  <2>6. (\A p \in Answered : answers[p].points \in Allowed) =>
          \A p \in Answered' : answers'[p].points \in Allowed
    BY <2>3 DEF Allowed
  <2> QED
    BY <2>1, <2>2, <2>5, <2>6, BoundsStep
<1> QED
  BY <1>1, <1>2

LEMMA BoundsOthers ==
  ASSUME BoundsInv, ShapeInv, TypeInv, NEW r \in Calls,
         \/ FindSaved(r) \/ FindGraded(r) \/ MarkSubmitted(r) \/ SumPoints(r)
         \/ CheckComplete(r) \/ WriteScore(r) \/ CheckNotice(r) \/ CreateNotice(r)
         \/ CallDies(r)
  PROVE  BoundsInv'
<1>1. PICK changed \in SUBSET {"own", "row", "sum", "all"} : ReqStep(r, changed)
  BY ReqFacts DEF FindSaved, FindGraded, FindAnswer, MarkSubmitted, SumPoints,
     CheckComplete, WriteScore, CheckNotice, CreateNotice, CallDies, UpdateAttempt
<1>2. answers' = answers
  BY DEF FindSaved, FindGraded, FindAnswer, MarkSubmitted, SumPoints,
     CheckComplete, WriteScore, CheckNotice, CreateNotice, CallDies
<1>3. PICK l : /\ at' = [at EXCEPT ![r] = l] /\ l \notin {"idle", "owner"}
               /\ l \in Awarding => at[r] \in Awarding
  BY DEF FindSaved, FindGraded, FindAnswer, MarkSubmitted, SumPoints, Awarding, MoveTo,
     CheckComplete, WriteScore, CheckNotice, CreateNotice, CallDies
<1> QED
  BY <1>1, <1>2, <1>3, BoundsQuiet

\* find_each leaves full points or none; a grade that is out of bounds is refused.
LEMMA BoundsChecks ==
  ASSUME BoundsInv, ShapeInv, TypeInv, NEW r \in Calls, ReadAnswers(r) \/ LoadOwner(r)
  PROVE  BoundsInv'
<1>1. answers' = answers /\ Answered' = Answered
  BY DEF ReadAnswers, LoadOwner, Answered
<1>2. CASE ReadAnswers(r)
  <2> DEFINE auto == Answered \cap AutoGradable
             todo == [q \in auto |-> IF answers[q].text = "right" THEN MaxPoints ELSE 0]
             row  == [q \in auto |-> answers[q]]
  <2>1. req' = [req EXCEPT ![r].row = row, ![r].todo = todo]
    BY <1>2 DEF ReadAnswers
  <2>2. \A q \in DOMAIN todo : todo[q] \in Allowed
    BY GradingAssumption DEF Allowed
  <2> HIDE DEF todo, row
  <2>3. ReqStep(r, {"todo", "row"}) /\ req'[r].todo = todo
    BY <2>1, ReqFacts, RequestFacts
  <2>4. req'[r].kind = req[r].kind /\ \A s \in Calls : s # r => req'[s] = req[s]
    BY <2>3 DEF ReqStep, Fields
  <2>5. at'[r] \notin {"idle", "owner"} /\ \A s \in Calls : s # r => at'[s] = at[s]
    BY <1>2 DEF ReadAnswers, MoveTo, ShapeInv
  <2>6. TodoBounded(r)'
    BY <2>2, <2>3 DEF TodoBounded
  <2> QED
    BY <1>1, <2>4, <2>5, <2>6, BoundsStep
<1>3. CASE LoadOwner(r)
  <2>1. ReqStep(r, {"own"})
    BY <1>3, ReqFacts DEF LoadOwner
  <2>2. PICK q \in DOMAIN req[r].todo :
          MoveTo(r, IF OutOfBounds(req[r].todo[q]) THEN "refused" ELSE "award")
    BY <1>3 DEF LoadOwner
  <2>3. /\ req'[r].kind = req[r].kind /\ req'[r].todo = req[r].todo
        /\ \A s \in Calls : s # r => req'[s] = req[s]
    BY <2>1 DEF ReqStep, Fields
  <2>4. /\ at'[r] = IF OutOfBounds(req[r].todo[q]) THEN "refused" ELSE "award"
        /\ \A s \in Calls : s # r => at'[s] = at[s]
    BY <2>2 DEF MoveTo, ShapeInv
  <2>5. DOMAIN req[r].todo = {q} /\ req[r].todo[q] \in Sent
    BY <1>3, <2>2 DEF LoadOwner, BoundsInv, Single
  <2>6. TodoBounded(r)'
    <3> SUFFICES ASSUME at'[r] = "award" PROVE req[r].todo[q] \in Allowed
      BY <2>3, <2>4, <2>5 DEF TodoBounded, Awarding
    <3>1. ~ OutOfBounds(req[r].todo[q])
      BY <2>4
    <3>2. req[r].todo[q] \in Int /\ MaxPoints \in Nat
      BY <2>5, GradingAssumption
    <3> QED
      BY <3>1, <3>2 DEF OutOfBounds, Allowed
  <2> QED
    BY <1>1, <2>3, <2>4, <2>6, BoundsStep
<1> QED
  BY <1>2, <1>3

LEMMA KeepsBounds ==
  ASSUME ShapeInv, TypeInv, BoundsInv, [GradingNext]_gradingVars
  PROVE  BoundsInv'
<1>1. CASE UNCHANGED gradingVars
  BY <1>1 DEF gradingVars, BoundsInv, Asked, TodoBounded, Single, Answered
<1>2. ASSUME NEW r \in Calls, CallArrives(r) \/ CallWorks(r) \/ CallDies(r)
      PROVE  BoundsInv'
  BY <1>2, BoundsArrivals, BoundsAwards, BoundsWriteAnswer, BoundsOthers, BoundsChecks
     DEF CallWorks
<1> QED
  BY <1>1, <1>2 DEF GradingNext

-----------------------------------------------------------------------------
\* Every row and every request keeps its type: a score, where there is one, is
\* a number, and points that the item does not allow come from grade_all
\* (quiz_attempt.rb:4-10, 37-44, attempt_answer.rb:4-25,
\* attempt_answer_grading_controller.rb:11).
THEOREM GradingTypeCorrect == GradingSpec => []GradingTypeOK
<1>1. ShapeInv /\ TypeInv /\ HistoryOK /\ BoundsInv => GradingTypeOK
  <2> SUFFICES ASSUME ShapeInv, TypeInv, HistoryOK, BoundsInv PROVE GradingTypeOK
    OBVIOUS
  <2>1. answers \in [Answered -> Answer]
    BY DEF ShapeInv, TypeInv
  <2>2. at \in [Calls -> {"idle"} \cup Working \cup Outcomes]
    BY DEF ShapeInv
  <2>3. crowd \subseteq Calls /\ unsettled \in BOOLEAN
    BY DEF HistoryOK
  <2>4. \A q \in Answered : answers[q].points \in {Null} \cup 0 .. MaxPoints
                            \/ \E r \in Calls : req[r].kind = "grade_all"
    BY DEF BoundsInv, Asked, Allowed
  <2> QED
    BY <2>1, <2>2, <2>3, <2>4 DEF GradingTypeOK, TypeInv, RequestOK, Rows
<1>2. GradingInit => HistoryOK
  BY DEF GradingInit, HistoryOK
<1>3. GradingSpec => []HistoryOK
  BY <1>2, KeepsHistory, PTL DEF GradingSpec
<1>4. GradingInit => BoundsInv
  BY DEF GradingInit, Nothing, BoundsInv, Asked, TodoBounded, Answered
<1>5. ShapeInv /\ TypeInv /\ BoundsInv /\ [GradingNext]_gradingVars => BoundsInv'
  BY KeepsBounds
<1> QED
  BY <1>1, <1>3, <1>4, <1>5, TypeInvariance, PTL DEF GradingSpec

\* No request, however long ago it loaded the attempt, puts a submitted or
\* graded attempt back in progress or takes its score away, crowded or not: an
\* UPDATE writes only what changed, and a sum is a number
\* (quiz_attempt.rb:17-25, 37-44).
THEOREM NothingReopens == GradingSpec => NothingIsReopened
<1>1. ASSUME NEW r \in Calls, NEW new, UpdateAttempt(r, new),
             new.status # "in_progress" \/ new.status = req[r].own.status,
             new.score # Null \/ new.score = req[r].own.score
      PROVE  /\ attempt'.status = "in_progress" => attempt.status = "in_progress"
             /\ attempt'.score = Null => attempt.score = Null
  BY <1>1 DEF UpdateAttempt, Changed
<1>2. ASSUME TypeInv, NEW r \in Calls, MarkSubmitted(r)
      PROVE  /\ attempt'.status = "in_progress" => attempt.status = "in_progress"
             /\ attempt'.score = Null => attempt.score = Null
  <2> DEFINE new == [req[r].own EXCEPT !.status = "submitted"]
  <2>1. new.status = "submitted" /\ new.score = req[r].own.score
    BY <1>2 DEF TypeInv, RequestOK, Rows
  <2>2. UNCHANGED attempt \/ UpdateAttempt(r, new)
    BY <1>2 DEF MarkSubmitted
  <2> HIDE DEF new
  <2> QED
    BY <1>1, <2>1, <2>2
<1>3. ASSUME TypeInv, NEW r \in Calls, WriteScore(r)
      PROVE  /\ attempt'.status = "in_progress" => attempt.status = "in_progress"
             /\ attempt'.score = Null => attempt.score = Null
  <2> DEFINE new == [status |-> IF req[r].all THEN "graded" ELSE req[r].own.status,
                     score  |-> req[r].sum]
  <2>1. /\ UpdateAttempt(r, new)
        /\ (new.status # "in_progress" \/ new.status = req[r].own.status)
    BY <1>3 DEF WriteScore
  <2>2. new.score # Null
    BY <1>3, GradingAssumption DEF TypeInv, RequestOK
  <2> HIDE DEF new
  <2> QED
    BY <1>1, <2>1, <2>2
<1>4. TypeInv /\ [GradingNext]_gradingVars =>
        [/\ attempt'.status = "in_progress" => attempt.status = "in_progress"
         /\ attempt'.score = Null => attempt.score = Null]_gradingVars
  <2> SUFFICES ASSUME TypeInv, [GradingNext]_gradingVars, attempt' # attempt
               PROVE  /\ attempt'.status = "in_progress" => attempt.status = "in_progress"
                      /\ attempt'.score = Null => attempt.score = Null
    OBVIOUS
  <2>1. PICK r \in Calls : CallArrives(r) \/ CallWorks(r) \/ CallDies(r)
    BY DEF GradingNext, gradingVars
  <2>2. MarkSubmitted(r) \/ WriteScore(r)
    <3>1. ~ CallArrives(r)
      BY DEF CallArrives, BeginSave, BeginSubmit,
         BeginGradeAll, BeginGrade, LoadAttempt
    <3>2. ~ CallDies(r)
      BY DEF CallDies
    <3> QED
      BY <2>1, <3>1, <3>2 DEF CallWorks, FindSaved, FindGraded,
         FindAnswer, WriteAnswer,
         ReadAnswers, AutoGrade, LoadOwner, WriteGrade,
         SumPoints, CheckComplete,
         CheckNotice, CreateNotice
  <2> QED
    BY <1>2, <1>3, <2>2
<1> QED
  BY <1>4, TypeInvariance, PTL DEF GradingSpec, NothingIsReopened
=============================================================================
