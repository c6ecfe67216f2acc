----------------------- MODULE DocumentVersionsProofs -----------------------
(***************************************************************************)
(* Theorems about DocumentVersions, for every set of requests, titles and  *)
(* contents.                                                               *)
(***************************************************************************)
EXTENDS DocumentVersions, SequenceTheorems, TLAPS

(***************************************************************************)
(* A document that exists has a title, a request that loaded it has seen   *)
(* one, and a request on its way to a write has resolved the title it      *)
(* writes: this is why a version is never saved with a blank title.        *)
(***************************************************************************)
Writing == {"waiting", "locked", "numbered", "committed", "rename"}

TitlesResolved ==
  /\ doc.life = "unborn" => \A r \in Requests : pc[r] = "idle"
  /\ doc.life # "unborn" => doc.title \in Titles
  /\ \A r \in Requests : pc[r] \in InFlight => loaded[r].title \in Titles
  /\ \A r \in Requests : pc[r] \in Writing  => param[r].title \in Titles

TypeInv == TypeOK /\ TitlesResolved

LEMMA InitTypeInv == Init => TypeInv
  BY ConstantsAssumption
     DEF Init, TypeInv, TypeOK, TitlesResolved, Numbers, Rows, Params, Version,
         NoParams, InFlight, Replies, Refusals, Writing

USE DEF Numbers, Rows, Params, Version, InFlight, Replies, Refusals, Writing, GoTo

\* The largest number in use is a natural number, once the numbers are 1 .. n.
LEMMA MaxOfInterval ==
  ASSUME NEW n \in Nat, Numbers = 1 .. n
  PROVE  MaxNumber = n
<1>1. CASE n = 0
  BY <1>1 DEF MaxNumber
<1>2. CASE n # 0
  <2>1. n \in Numbers /\ \A m \in Numbers : m <= n
    BY <1>2
  <2>2. \A m \in Numbers : (\A k \in Numbers : k <= m) => m = n
    BY <2>1
  <2> QED
    BY <2>1, <2>2 DEF MaxNumber
<1> QED
  BY <1>1, <1>2

(***************************************************************************)
(* The whole inductive invariant.  The lock is held exactly by the request *)
(* between its SELECT ... FOR UPDATE and its COMMIT, so the number that it *)
(* computed is still the next one; a document that does not live has no    *)
(* versions; and a request is the author of a version exactly when it      *)
(* committed one.                                                          *)
(***************************************************************************)
LockInv ==
  \A r \in Requests : pc[r] \in {"locked", "numbered"} <=> lock = r

NumberIsNext ==
  \A r \in Requests : pc[r] = "numbered" => number[r] = doc.current + 1

LifeInv == doc.life # "live" => Numbers = {} /\ lock = NoOne

AuthorsInv ==
  \A r \in Requests :
    /\ pc[r] \notin {"committed", "saved", "failed"} => VersionsBy(r) = {}
    /\ pc[r] \in {"committed", "saved"} =>
         \E n \in Numbers : /\ VersionsBy(r) = {n}
                            /\ versions[n].content = param[r].content

IInv == /\ TypeInv /\ LockInv /\ CurrentIsLatest /\ NumberIsNext
        /\ LifeInv /\ AuthorsInv
\* TypeInv is kept by every step; NextNumber is a number because 1 .. n is
\* what the numbers are, so the step lemma assumes CurrentIsLatest.
LEMMA TypeInvStep ==
  ASSUME TypeInv, CurrentIsLatest, [Next]_vars
  PROVE  TypeInv'
<1> USE DEF TypeInv, TypeOK, TitlesResolved
<1>1. ASSUME NEW r \in Requests, CreateDocument(r) PROVE TypeInv'
  BY <1>1 DEF CreateDocument
<1>2. ASSUME NEW r \in Requests, BeginAutosave(r) PROVE TypeInv'
  BY <1>2 DEF BeginAutosave, Arrive, CurrentIsLatest
<1>3. ASSUME NEW r \in Requests, BeginSave(r) PROVE TypeInv'
  BY <1>3 DEF BeginSave, Arrive
<1>4. ASSUME NEW r \in Requests, BeginRename(r) PROVE TypeInv'
  BY <1>4, ConstantsAssumption DEF BeginRename, Arrive
<1>5. ASSUME NEW r \in Requests, BeginDestroy(r) PROVE TypeInv'
  BY <1>5, ConstantsAssumption DEF BeginDestroy, Arrive, NoParams
<1>6. ASSUME NEW r \in Requests, Autosave(r) PROVE TypeInv'
  BY <1>6 DEF Autosave, ResolvedTitle
<1>7. ASSUME NEW r \in Requests, LockDocument(r) PROVE TypeInv'
  <2>1. CASE doc.life = "gone"
    BY <1>7, <2>1 DEF LockDocument
  <2>2. CASE doc.life # "gone"
    <3>1. doc \in Rows /\ doc.title \in Titles
      BY <1>7 DEF LockDocument
    <3>2. /\ pc[r] = "waiting" /\ pc' = [pc EXCEPT ![r] = "locked"]
          /\ lock' = r /\ loaded' = [loaded EXCEPT ![r] = doc]
          /\ UNCHANGED <<doc, versions, param, number>>
      BY <1>7, <2>2 DEF LockDocument
    <3>3. /\ loaded' \in [Requests -> Rows]
          /\ \A q \in Requests : loaded'[q] = IF q = r THEN doc ELSE loaded[q]
      BY <3>1, <3>2 DEF Rows
    <3>4. TitlesResolved'
      BY <3>1, <3>2, <3>3
    <3> QED
      BY <3>2, <3>3, <3>4
  <2> QED
    BY <2>1, <2>2
<1>8. ASSUME NEW r \in Requests, ReadMaxNumber(r) PROVE TypeInv'
  <2>1. NextNumber \in Nat
    BY MaxOfInterval DEF NextNumber, CurrentIsLatest
  <2> QED
    BY <1>8, <2>1 DEF ReadMaxNumber
<1>9. ASSUME NEW r \in Requests, RejectContent(r) PROVE TypeInv'
  BY <1>9 DEF RejectContent, Unlock
<1>10. ASSUME NEW r \in Requests, CommitVersion(r) PROVE TypeInv'
  <2>1. CASE number[r] \in Numbers
    BY <1>10, <2>1 DEF CommitVersion, Unlock
  <2>2. CASE number[r] \notin Numbers
    <3> DEFINE more == Numbers \cup {number[r]}
    <3>1. /\ pc[r] = "numbered" /\ pc' = [pc EXCEPT ![r] = "committed"]
          /\ versions' = [n \in more |-> IF n \in Numbers THEN versions[n] ELSE NewVersion(r)]
          /\ doc' = [doc EXCEPT !.current = number[r], !.title = param[r].title]
          /\ lock' = IF lock = r THEN NoOne ELSE lock
          /\ UNCHANGED <<param, loaded, number>>
      BY <1>10, <2>2 DEF CommitVersion, Unlock
    <3>2. param[r].title \in Titles /\ param[r].content \in Contents
      BY <3>1
    <3>3. NewVersion(r) \in Version
      BY <3>2 DEF NewVersion
    <3>4. /\ more \subseteq Nat
          /\ \A n \in more : (IF n \in Numbers THEN versions[n] ELSE NewVersion(r)) \in Version
      BY <3>3
    <3>5. DOMAIN versions' = more /\ versions' \in [more -> Version]
      BY <3>1, <3>4 DEF Version
    <3>6. Numbers' \subseteq Nat /\ versions' \in [Numbers' -> Version]
      BY <3>4, <3>5
    <3>7. doc' \in Rows /\ doc'.title \in Titles /\ doc'.life = doc.life
      BY <3>1, <3>2
    <3> QED
      BY <3>1, <3>2, <3>6, <3>7
  <2> QED
    BY <2>1, <2>2
<1>11. ASSUME NEW r \in Requests, Respond(r) PROVE TypeInv'
  BY <1>11 DEF Respond
<1>12. ASSUME NEW r \in Requests, WriteRename(r) PROVE TypeInv'
  <2>1. /\ pc[r] = "rename" /\ pc' = [pc EXCEPT ![r] = "renamed"]
        /\ doc' = RenamedRow(r)
        /\ UNCHANGED <<versions, lock, param, loaded, number>>
    BY <1>12 DEF WriteRename
  <2>2. RenamedRow(r) = doc \/ RenamedRow(r) = [doc EXCEPT !.title = param[r].title]
    BY DEF RenamedRow
  <2>3. param[r].title \in Titles
    BY <2>1
  <2>4. doc' \in Rows /\ doc'.life = doc.life /\ doc'.title \in {doc.title, param[r].title}
    BY <2>1, <2>2, <2>3 DEF Rows
  <2>5. TypeOK'
    BY <2>1, <2>4
  <2>6. TitlesResolved'
    BY <2>1, <2>3, <2>4
  <2> QED
    BY <2>5, <2>6
<1>13. ASSUME NEW r \in Requests, WriteDestroy(r) PROVE TypeInv'
  <2>1. /\ pc[r] = "destroy"
        /\ \E l \in {"destroyed", "failed"} : pc' = [pc EXCEPT ![r] = l]
        /\ doc' = doc \/ doc' = [doc EXCEPT !.life = "gone"]
        /\ UNCHANGED <<versions, lock, param, loaded, number>>
    BY <1>13 DEF WriteDestroy
  <2>2. TypeOK'
    BY <2>1
  <2>3. TitlesResolved'
    BY <2>1
  <2> QED
    BY <2>2, <2>3
<1>14. ASSUME NEW r \in Requests, Crash(r) PROVE TypeInv'
  BY <1>14 DEF Crash, Unlock
<1>15. CASE UNCHANGED vars
  BY <1>15 DEF vars
<1> QED
  BY <1>1, <1>2, <1>3, <1>4, <1>5, <1>6, <1>7, <1>8, <1>9, <1>10, <1>11,
     <1>12, <1>13, <1>14, <1>15 DEF Next, Arrivals, Work
CoreInv == LockInv /\ CurrentIsLatest /\ NumberIsNext /\ LifeInv

\* The lock discipline, the numbering and the life cycle are kept by every step.
LEMMA CoreInvStep ==
  ASSUME TypeInv, CoreInv, [Next]_vars
  PROVE  CoreInv'
<1> USE DEF TypeInv, TypeOK, CoreInv, LockInv, CurrentIsLatest, NumberIsNext, LifeInv
<1>1. ASSUME NEW r \in Requests, CreateDocument(r) PROVE CoreInv'
  <2>1. /\ Numbers = {} /\ UNCHANGED <<versions, lock, number>>
        /\ doc'.current = 0 /\ doc'.life = "live"
        /\ pc' = [pc EXCEPT ![r] = "waiting"]
        /\ \A q \in Requests : pc[q] = "idle"
    BY <1>1 DEF CreateDocument, TitlesResolved
  <2>2. CurrentIsLatest' /\ LifeInv'
    BY <2>1
  <2> QED
    BY <2>1, <2>2
<1>2. ASSUME NEW r \in Requests,
             BeginAutosave(r) \/ BeginSave(r) \/ BeginRename(r) \/ BeginDestroy(r)
      PROVE  CoreInv'
  <2>1. /\ pc[r] = "idle" /\ UNCHANGED <<doc, versions, lock, number>>
        /\ \E l \in {"loaded", "waiting", "rename", "destroy"} : GoTo(r, l)
    BY <1>2 DEF BeginAutosave, BeginSave, BeginRename, BeginDestroy, Arrive
  <2> QED
    BY <2>1
<1>3. ASSUME NEW r \in Requests, Autosave(r) PROVE CoreInv'
  BY <1>3 DEF Autosave
<1>4. ASSUME NEW r \in Requests, LockDocument(r) PROVE CoreInv'
  <2>1. CASE doc.life = "gone"
    BY <1>4, <2>1 DEF LockDocument
  <2>2. CASE doc.life # "gone"
    <3>1. doc.life = "live"
      BY <1>4, <2>2 DEF LockDocument, TitlesResolved
    <3> QED
      BY <1>4, <2>2, <3>1, ConstantsAssumption DEF LockDocument, LockIsFree
  <2> QED
    BY <2>1, <2>2
<1>5. ASSUME NEW r \in Requests, ReadMaxNumber(r) PROVE CoreInv'
  <2>1. NextNumber = doc.current + 1
    BY MaxOfInterval DEF NextNumber
  <2> QED
    BY <1>5, <2>1 DEF ReadMaxNumber
<1>6. ASSUME NEW r \in Requests, RejectContent(r) PROVE CoreInv'
  BY <1>6, ConstantsAssumption DEF RejectContent, Unlock
<1>7. ASSUME NEW r \in Requests, CommitVersion(r) PROVE CoreInv'
  <2>1. /\ pc[r] = "numbered" /\ lock = r /\ doc.life = "live"
        /\ number[r] = doc.current + 1 /\ number[r] \notin Numbers
    BY <1>7, ConstantsAssumption DEF CommitVersion
  <2>2. /\ pc' = [pc EXCEPT ![r] = "committed"] /\ lock' = NoOne
        /\ Numbers' = Numbers \cup {number[r]}
        /\ doc'.current = number[r] /\ doc'.life = "live"
        /\ UNCHANGED number
    BY <1>7, <2>1 DEF CommitVersion, Unlock
  <2>3. CurrentIsLatest'
    BY <2>1, <2>2
  <2>4. LockInv' /\ NumberIsNext' /\ LifeInv'
    BY <2>1, <2>2, ConstantsAssumption
  <2> QED
    BY <2>3, <2>4
<1>8. ASSUME NEW r \in Requests, Respond(r) PROVE CoreInv'
  BY <1>8 DEF Respond
<1>9. ASSUME NEW r \in Requests, WriteRename(r) PROVE CoreInv'
  BY <1>9 DEF WriteRename, RenamedRow
<1>10. ASSUME NEW r \in Requests, WriteDestroy(r) PROVE CoreInv'
  BY <1>10 DEF WriteDestroy, LockIsFree
<1>11. ASSUME NEW r \in Requests, Crash(r) PROVE CoreInv'
  <2>1. /\ pc' = [pc EXCEPT ![r] = "failed"]
        /\ lock' = IF lock = r THEN NoOne ELSE lock
        /\ UNCHANGED <<doc, versions, number>>
    BY <1>11 DEF Crash, Unlock
  <2>2. LockInv'
    BY <2>1, ConstantsAssumption
  <2> QED
    BY <2>1, <2>2
<1>12. CASE UNCHANGED vars
  BY <1>12 DEF vars
<1> QED
  BY <1>1, <1>2, <1>3, <1>4, <1>5, <1>6, <1>7, <1>8, <1>9, <1>10, <1>11, <1>12
     DEF Next, Arrivals, Work

\* Only CommitVersion makes a request an author, and only once.
LEMMA AuthorsStep ==
  ASSUME TypeInv, CoreInv, AuthorsInv, [Next]_vars
  PROVE  AuthorsInv'
<1> USE DEF TypeInv, TypeOK, AuthorsInv
<1>1. ASSUME NEW r \in Requests, NEW l, UNCHANGED versions,
             GoTo(r, l), pc[r] \notin {"committed", "saved"},
             l \notin {"committed", "saved"},
             l # "failed" => pc[r] # "failed",
             \A q \in Requests \ {r} : param'[q] = param[q]
      PROVE  AuthorsInv'
  <2>1. \A q \in Requests : VersionsBy(q)' = VersionsBy(q)
    BY <1>1 DEF VersionsBy
  <2>2. pc'[r] = l /\ \A q \in Requests \ {r} : pc'[q] = pc[q]
    BY <1>1
  <2>3. ASSUME NEW q \in Requests, pc'[q] \notin {"committed", "saved", "failed"}
        PROVE  VersionsBy(q)' = {}
    BY <1>1, <2>1, <2>2, <2>3
  <2>4. ASSUME NEW q \in Requests, pc'[q] \in {"committed", "saved"}
        PROVE  \E n \in Numbers' : /\ VersionsBy(q)' = {n}
                                   /\ versions'[n].content = param'[q].content
    <3>1. q # r /\ pc[q] \in {"committed", "saved"} /\ param'[q] = param[q]
      BY <1>1, <2>2, <2>4
    <3>2. PICK n \in Numbers : /\ VersionsBy(q) = {n}
                               /\ versions[n].content = param[q].content
      BY <3>1
    <3> QED
      BY <1>1, <2>1, <3>1, <3>2
  <2> QED
    BY <2>3, <2>4
<1>2. ASSUME NEW r \in Requests, Arrivals(r) PROVE AuthorsInv'
  <2>1. CASE CreateDocument(r)
    <3>1. /\ pc[r] = "idle" /\ UNCHANGED versions /\ GoTo(r, "waiting")
          /\ \A q \in Requests \ {r} : param'[q] = param[q]
      BY <2>1 DEF CreateDocument
    <3> QED
      BY <1>1, <3>1
  <2>2. CASE BeginAutosave(r) \/ BeginSave(r) \/ BeginRename(r) \/ BeginDestroy(r)
    <3>1. /\ pc[r] = "idle" /\ UNCHANGED versions
          /\ \E l \in {"loaded", "waiting", "rename", "destroy"} : GoTo(r, l)
          /\ \E p : param' = [param EXCEPT ![r] = p]
      BY <2>2 DEF BeginAutosave, BeginSave, BeginRename, BeginDestroy, Arrive
    <3> QED
      BY <1>1, <3>1
  <2> QED
    BY <1>2, <2>1, <2>2 DEF Arrivals
<1>3. ASSUME NEW r \in Requests,
             \/ Autosave(r) \/ LockDocument(r) \/ ReadMaxNumber(r)
             \/ RejectContent(r) \/ WriteRename(r) \/ WriteDestroy(r)
      PROVE  AuthorsInv'
  <2>1. CASE Autosave(r)
    <3>1. /\ pc[r] = "loaded" /\ UNCHANGED versions
          /\ \E l \in {"conflict", "unchanged", "waiting"} : GoTo(r, l)
      BY <2>1 DEF Autosave
    <3>2. \A q \in Requests \ {r} : param'[q] = param[q]
      BY <2>1 DEF Autosave
    <3> QED
      BY <1>1, <3>1, <3>2
  <2>2. CASE LockDocument(r)
    <3>1. /\ pc[r] = "waiting" /\ UNCHANGED <<versions, param>>
          /\ \E l \in {"missing", "locked"} : GoTo(r, l)
      BY <2>2 DEF LockDocument
    <3> QED
      BY <1>1, <3>1
  <2>3. CASE ReadMaxNumber(r) \/ RejectContent(r)
    <3>1. /\ pc[r] \in {"locked", "numbered"} /\ UNCHANGED <<versions, param>>
          /\ \E l \in {"numbered", "invalid"} : GoTo(r, l)
      BY <2>3 DEF ReadMaxNumber, RejectContent
    <3> QED
      BY <1>1, <3>1
  <2>4. CASE WriteRename(r) \/ WriteDestroy(r)
    <3>1. /\ pc[r] \in {"rename", "destroy"} /\ UNCHANGED <<versions, param>>
          /\ \E l \in {"renamed", "destroyed", "failed"} : GoTo(r, l)
      BY <2>4 DEF WriteRename, WriteDestroy
    <3> QED
      BY <1>1, <3>1
  <2> QED
    BY <1>3, <2>1, <2>2, <2>3, <2>4
<1>4. ASSUME NEW r \in Requests, CommitVersion(r) PROVE AuthorsInv'
  <2> DEFINE n == number[r]
  <2>1. pc[r] = "numbered" /\ n \notin Numbers /\ VersionsBy(r) = {}
    <3>1. pc[r] = "numbered"
      BY <1>4 DEF CommitVersion
    <3>2. n = doc.current + 1 /\ Numbers = 1 .. doc.current /\ doc.current \in Nat
      BY <3>1 DEF CoreInv, NumberIsNext, CurrentIsLatest
    <3>3. n \notin Numbers
      BY <3>2
    <3> QED
      BY <3>1, <3>3
  <2>2. /\ pc' = [pc EXCEPT ![r] = "committed"] /\ UNCHANGED param
        /\ versions' = [m \in Numbers \cup {n} |->
                          IF m \in Numbers THEN versions[m] ELSE NewVersion(r)]
    BY <1>4, <2>1 DEF CommitVersion
  <2>3. /\ Numbers' = Numbers \cup {n}
        /\ \A m \in Numbers : versions'[m] = versions[m]
        /\ versions'[n].by = r /\ versions'[n].content = param[r].content
    BY <2>1, <2>2 DEF NewVersion
  <2>4. VersionsBy(r)' = {n}
    BY <2>1, <2>3 DEF VersionsBy
  <2>5. \A q \in Requests \ {r} : VersionsBy(q)' = VersionsBy(q)
    BY <2>3 DEF VersionsBy
  <2>6. \A q \in Requests \ {r} :
          pc'[q] = pc[q] /\ (\A m \in VersionsBy(q) : versions'[m] = versions[m])
    BY <2>2, <2>3 DEF VersionsBy
  <2>7. ASSUME NEW q \in Requests \ {r}, pc'[q] \in {"committed", "saved"}
        PROVE  \E m \in Numbers' : /\ VersionsBy(q)' = {m}
                                   /\ versions'[m].content = param'[q].content
    <3>1. pc[q] \in {"committed", "saved"} /\ param'[q] = param[q]
      BY <2>2, <2>6, <2>7
    <3>2. PICK m \in Numbers : /\ VersionsBy(q) = {m}
                               /\ versions[m].content = param[q].content
      BY <3>1
    <3>3. versions'[m] = versions[m] /\ m \in Numbers'
      BY <2>3, <3>2
    <3> QED
      BY <2>5, <3>1, <3>2, <3>3
  <2>8. ASSUME NEW q \in Requests, pc'[q] \notin {"committed", "saved", "failed"}
        PROVE  VersionsBy(q)' = {}
    BY <2>2, <2>5, <2>6, <2>8
  <2>9. \E m \in Numbers' : /\ VersionsBy(r)' = {m}
                            /\ versions'[m].content = param'[r].content
    BY <2>2, <2>3, <2>4
  <2> QED
    BY <2>7, <2>8, <2>9
<1>5. ASSUME NEW r \in Requests, Respond(r) \/ Crash(r) PROVE AuthorsInv'
  <2>0. \A q \in Requests : VersionsBy(q)' = VersionsBy(q)
    BY <1>5 DEF Respond, Crash, VersionsBy
  <2>1. CASE Respond(r)
    BY <2>0, <2>1 DEF Respond
  <2>2. CASE Crash(r)
    BY <2>0, <2>2 DEF Crash
  <2> QED
    BY <1>5, <2>1, <2>2
<1>6. CASE UNCHANGED vars
  BY <1>6 DEF vars, VersionsBy
<1> QED
  BY <1>2, <1>3, <1>4, <1>5, <1>6 DEF Next, Work
LEMMA InitIInv == Init => IInv
<1> SUFFICES ASSUME Init PROVE IInv
  OBVIOUS
<1>1. /\ Numbers = {} /\ lock = NoOne /\ doc.current = 0
      /\ \A r \in Requests : pc[r] = "idle"
  BY DEF Init
<1>2. AuthorsInv
  BY <1>1 DEF AuthorsInv, VersionsBy
<1>3. CurrentIsLatest
  BY <1>1 DEF CurrentIsLatest
<1>4. LockInv /\ NumberIsNext /\ LifeInv
  BY <1>1, ConstantsAssumption DEF LockInv, NumberIsNext, LifeInv
<1> QED
  BY <1>2, <1>3, <1>4, InitTypeInv DEF IInv

LEMMA IInvStep == IInv /\ [Next]_vars => IInv'
  BY TypeInvStep, CoreInvStep, AuthorsStep DEF IInv, CoreInv

\* Everything below rests on this: IInv holds in every reachable state.
THEOREM Invariance == Spec => []IInv
  BY InitIInv, IInvStep, PTL DEF Spec

\* Every variable keeps its type; in particular no version has a blank title.
THEOREM TypeCorrect == Spec => []TypeOK
<1>1. IInv => TypeOK
  BY DEF IInv, TypeInv
<1> QED
  BY <1>1, Invariance, PTL

\* create_version! numbers the versions 1, 2, 3 ... without a gap, and the
\* document points at the last one.
THEOREM CurrentIsAlwaysLatest == Spec => []CurrentIsLatest
<1>1. IInv => CurrentIsLatest
  BY DEF IInv
<1> QED
  BY <1>1, Invariance, PTL

\* The row lock of with_lock keeps every save from the unique index.
THEOREM NumbersNeverCollide == Spec => []NoNumberCollision
<1>1. IInv => NoNumberCollision
  <2> SUFFICES ASSUME IInv, NEW r \in Requests, pc[r] = "numbered"
               PROVE  number[r] \notin Numbers
    BY DEF NoNumberCollision
  <2>1. /\ number[r] = doc.current + 1 /\ Numbers = 1 .. doc.current
        /\ doc.current \in Nat
    BY DEF IInv, TypeInv, TypeOK, NumberIsNext, CurrentIsLatest
  <2> QED
    BY <2>1
<1> QED
  BY <1>1, Invariance, PTL

\* What a request is told about itself is true, and stays true.
THEOREM RepliesAreAlwaysTrue == Spec => []RepliesAreTrue
<1>1. IInv => RepliesAreTrue
  BY DEF IInv, AuthorsInv, RepliesAreTrue
<1> QED
  BY <1>1, Invariance, PTL

\* A step adds at most one version, at the end, and changes no other.
LEMMA StepAppends ==
  ASSUME IInv, [Next]_vars
  PROVE  \/ UNCHANGED versions /\ doc'.current = doc.current
         \/ \E r \in Requests :
              /\ CommitVersion(r) /\ pc[r] = "numbered"
              /\ pc' = [pc EXCEPT ![r] = "committed"]
              /\ doc'.current = doc.current + 1
              /\ versions' = [n \in 1 .. doc.current + 1 |->
                                IF n \in Numbers THEN versions[n] ELSE NewVersion(r)]
<1> USE DEF IInv, TypeInv, TypeOK
<1>1. ASSUME NEW r \in Requests, CommitVersion(r)
      PROVE  /\ pc[r] = "numbered" /\ pc' = [pc EXCEPT ![r] = "committed"]
             /\ doc'.current = doc.current + 1
             /\ versions' = [n \in 1 .. doc.current + 1 |->
                               IF n \in Numbers THEN versions[n] ELSE NewVersion(r)]
  <2>1. pc[r] = "numbered"
    BY <1>1 DEF CommitVersion
  <2>2. number[r] = doc.current + 1 /\ Numbers = 1 .. doc.current
    BY <2>1 DEF NumberIsNext, CurrentIsLatest
  <2>3. number[r] \notin Numbers /\ Numbers \cup {number[r]} = 1 .. doc.current + 1
    BY <2>2
  <2> QED
    BY <1>1, <2>1, <2>2, <2>3 DEF CommitVersion
<1>2. ASSUME NEW r \in Requests, Arrivals(r)
      PROVE  UNCHANGED versions /\ doc'.current = doc.current
  <2>1. CASE CreateDocument(r)
    <3>1. Numbers = {} /\ UNCHANGED versions /\ doc'.current = 0
      BY <2>1 DEF CreateDocument, LifeInv
    <3>2. 1 .. doc.current = {} /\ doc.current \in Nat
      BY <3>1 DEF CurrentIsLatest
    <3>3. doc.current = 0
      <4>1. doc.current >= 1 => 1 \in 1 .. doc.current
        BY <3>2
      <4> QED
        BY <3>2, <4>1
    <3> QED
      BY <3>1, <3>3
  <2> QED
    BY <1>2, <2>1 DEF Arrivals, BeginAutosave, BeginSave, BeginRename,
                      BeginDestroy, Arrive
<1>3. ASSUME NEW r \in Requests, Work(r), ~CommitVersion(r)
      PROVE  UNCHANGED versions /\ doc'.current = doc.current
  BY <1>3 DEF Work, Autosave, ReadMaxNumber, RejectContent, Respond,
              LockDocument, WriteRename, RenamedRow, WriteDestroy
<1>4. ASSUME NEW r \in Requests, Crash(r)
      PROVE  UNCHANGED versions /\ doc'.current = doc.current
  BY <1>4 DEF Crash
<1>5. CASE UNCHANGED vars
  BY <1>5 DEF vars
<1> QED
  BY <1>1, <1>2, <1>3, <1>4, <1>5 DEF Next

\* Versions are immutable, none is ever lost and the current one never moves
\* back, however old the row is that a request writes from.
THEOREM HistoryAlwaysGrows == Spec => HistoryOnlyGrows
<1>1. IInv /\ [Next]_vars =>
        [/\ \A n \in Numbers : n \in DOMAIN versions' /\ versions'[n] = versions[n]
         /\ doc'.current >= doc.current]_vars
  <2> SUFFICES ASSUME IInv, [Next]_vars
               PROVE  /\ \A n \in Numbers :
                           n \in DOMAIN versions' /\ versions'[n] = versions[n]
                      /\ doc'.current >= doc.current
    OBVIOUS
  <2>1. doc.current \in Nat /\ Numbers = 1 .. doc.current
    BY DEF IInv, TypeInv, TypeOK, CurrentIsLatest
  <2> QED
    BY <2>1, StepAppends
<1> QED
  BY <1>1, Invariance, PTL DEF Spec, HistoryOnlyGrows
-----------------------------------------------------------------------------
(* The refinement: a commit appends to the log, the step that answers a     *)
(* request answers it, every other step leaves the log and the answers.     *)

LEMMA FunctionIsSequence ==
  ASSUME NEW T, NEW k \in Nat, NEW f \in [1 .. k -> T]
  PROVE  f \in Seq(T)
  BY SeqDef

LEMMA LogIsSequence ==
  ASSUME IInv
  PROVE  /\ Log \in Seq([by : Requests, entry : LogEntries])
         /\ Len(Log) = doc.current /\ DOMAIN Log = 1 .. doc.current
         /\ Abstract!Authors = {versions[n].by : n \in Numbers}
<1> USE DEF IInv, TypeInv, TypeOK, CurrentIsLatest
<1>1. \A n \in 1 .. doc.current : versions[n] \in Version
  OBVIOUS
<1>2. Log \in [1 .. doc.current -> [by : Requests, entry : LogEntries]]
  BY <1>1 DEF Log, LogEntries
<1>3. Log \in Seq([by : Requests, entry : LogEntries])
  BY <1>2, FunctionIsSequence
<1>4. Len(Log) = doc.current /\ DOMAIN Log = 1 .. doc.current
  BY <1>2, <1>3
<1>5. Abstract!Authors = {versions[n].by : n \in Numbers}
  BY <1>4 DEF Abstract!Authors, Log
<1> QED
  BY <1>3, <1>4, <1>5
LEMMA RefinesInit == Init => Abstract!LogInit
<1> SUFFICES ASSUME Init PROVE Abstract!LogInit
  OBVIOUS
<1>1. doc.current = 0 /\ \A r \in Requests : pc[r] = "idle"
  BY DEF Init
<1>2. Log = <<>>
  BY <1>1 DEF Log
<1>3. Told = [r \in Requests |-> "none"]
  BY <1>1 DEF Told
<1> QED
  BY <1>2, <1>3 DEF Abstract!LogInit

\* The commit of request r is the append of its version.
LEMMA RefinesCommit ==
  ASSUME IInv, IInv', NEW r \in Requests, CommitVersion(r),
         pc[r] = "numbered", pc' = [pc EXCEPT ![r] = "committed"],
         doc'.current = doc.current + 1,
         versions' = [n \in 1 .. doc.current + 1 |->
                        IF n \in Numbers THEN versions[n] ELSE NewVersion(r)]
  PROVE  Abstract!AppendEntry(r)
<1> USE DEF IInv, TypeInv, TypeOK
<1> DEFINE e == [title |-> param[r].title, content |-> param[r].content]
           S == [by : Requests, entry : LogEntries]
           k == doc.current
<1>1. k \in Nat /\ Numbers = 1 .. k /\ DOMAIN versions' = 1 .. k + 1
  BY DEF CurrentIsLatest
<1>2. e \in LogEntries /\ [by |-> r, entry |-> e] \in S
  BY DEF LogEntries, TitlesResolved
<1>3. /\ Log \in Seq(S) /\ Len(Log) = k /\ DOMAIN Log = 1 .. k
      /\ Abstract!Authors = {versions[n].by : n \in Numbers}
  BY LogIsSequence
<1>4. Log' = [n \in 1 .. k + 1 |->
                IF n = k + 1 THEN [by |-> r, entry |-> e] ELSE Log[n]]
  <2>1. ASSUME NEW n \in 1 .. k
        PROVE  versions'[n] = versions[n]
    BY <1>1
  <2>2. versions'[k + 1] = NewVersion(r)
    BY <1>1
  <2>3. ASSUME NEW n \in 1 .. k + 1, n # k + 1
        PROVE  n \in 1 .. k
    BY <1>1, <2>3
  <2> QED
    BY <1>1, <2>1, <2>2, <2>3 DEF Log, NewVersion
<1>5. Log' = Append(Log, [by |-> r, entry |-> e])
  <2> DEFINE a == Append(Log, [by |-> r, entry |-> e])
  <2>1. /\ a \in Seq(S) /\ Len(a) = k + 1
        /\ \A i \in 1 .. k : a[i] = Log[i]
        /\ a[k + 1] = [by |-> r, entry |-> e]
    BY <1>2, <1>3, AppendProperties
  <2>2. a \in [1 .. k + 1 -> S]
    BY <2>1, LenProperties
  <2>3. \A i \in 1 .. k + 1 : i # k + 1 => i \in 1 .. k
    BY <1>1
  <2> QED
    BY <1>4, <2>1, <2>2, <2>3
<1>6. r \notin Abstract!Authors
  <2>1. VersionsBy(r) = {}
    BY DEF AuthorsInv
  <2>2. \A n \in Numbers : versions[n].by # r
    BY <2>1 DEF VersionsBy
  <2> QED
    BY <1>3, <2>2
<1>7. Told[r] = "none" /\ UNCHANGED Told
  BY DEF Told
<1> QED
  BY <1>2, <1>5, <1>6, <1>7 DEF Abstract!AppendEntry
\* Any other step leaves the log, and answers one request or none.
LEMMA RefinesOther ==
  ASSUME IInv, IInv', [Next]_vars, UNCHANGED versions, doc'.current = doc.current
  PROVE  (\E r \in Requests : Abstract!Answer(r)) \/ UNCHANGED Abstract!logVars
<1> USE DEF IInv, TypeInv, TypeOK
<1>1. UNCHANGED Log
  BY DEF Log
<1>2. ASSUME NEW r \in Requests, NEW l \in InFlight \cup Replies,
             pc[r] \in {"idle"} \cup InFlight, GoTo(r, l)
      PROVE  Abstract!Answer(r) \/ UNCHANGED Abstract!logVars
  <2> DEFINE a == IF l = "saved" THEN "saved" ELSE IF l = "failed" THEN "unknown"
                  ELSE IF l \in Refusals THEN "refused" ELSE "none"
  <2>1. Told[r] = "none" /\ Told' = [Told EXCEPT ![r] = a]
    <3>1. /\ pc' = [pc EXCEPT ![r] = l] /\ pc \in [Requests -> {"idle"} \cup InFlight \cup Replies]
          /\ \A q \in Requests \ {r} : pc'[q] = pc[q]
          /\ pc'[r] = l
      BY <1>2
    <3>2. Told[r] = "none"
      BY <1>2 DEF Told
    <3>3. Told'[r] = a /\ \A q \in Requests \ {r} : Told'[q] = Told[q]
      BY <3>1 DEF Told
    <3>4. /\ DOMAIN Told = Requests /\ DOMAIN Told' = Requests
          /\ Told = [q \in Requests |-> Told[q]] /\ Told' = [q \in Requests |-> Told'[q]]
      BY DEF Told
    <3> HIDE DEF a
    <3> QED
      BY <3>2, <3>3, <3>4
  <2>2. l \in InFlight => UNCHANGED Abstract!logVars
    <3>1. l \in InFlight => a = "none"
      OBVIOUS
    <3>2. Told = [Told EXCEPT ![r] = Told[r]]
      BY DEF Told
    <3> QED
      BY <1>1, <2>1, <3>1, <3>2 DEF Abstract!logVars
  <2>3. Abstract!Authors = {versions[n].by : n \in Numbers}
    BY LogIsSequence
  <2>4. l = "saved" => r \in Abstract!Authors
    <3>1. l = "saved" => \E n \in Numbers : VersionsBy(r)' = {n}
      BY <1>2 DEF AuthorsInv
    <3>2. VersionsBy(r)' = VersionsBy(r)
      BY DEF VersionsBy
    <3>3. l = "saved" => \E n \in Numbers : versions[n].by = r
      BY <3>1, <3>2 DEF VersionsBy
    <3> QED
      BY <2>3, <3>3
  <2>5. l \in Refusals => r \notin Abstract!Authors
    <3>1. l \in Refusals => VersionsBy(r)' = {}
      BY <1>2 DEF AuthorsInv
    <3>2. VersionsBy(r)' = VersionsBy(r)
      BY DEF VersionsBy
    <3>3. l \in Refusals => \A n \in Numbers : versions[n].by # r
      BY <3>1, <3>2 DEF VersionsBy
    <3> QED
      BY <2>3, <3>3
  <2>6. l \in Replies => Abstract!Answer(r)
    <3>1. ASSUME l \in Replies
          PROVE  /\ a \in Abstract!Answers \ {"none"}
                 /\ a = "saved" => r \in Abstract!Authors
                 /\ a = "refused" => r \notin Abstract!Authors
      BY <2>4, <2>5, <3>1 DEF Abstract!Answers
    <3> QED
      BY <1>1, <2>1, <3>1 DEF Abstract!Answer
  <2> QED
    BY <1>2, <2>2, <2>6
<1>3. ASSUME NEW r \in Requests, Arrivals(r)
      PROVE  /\ pc[r] = "idle"
             /\ \E l \in {"waiting", "loaded", "rename", "destroy"} : GoTo(r, l)
  BY <1>3 DEF Arrivals, CreateDocument, BeginAutosave, BeginSave,
              BeginRename, BeginDestroy, Arrive
<1>4. ASSUME NEW r \in Requests, Work(r)
      PROVE  pc[r] \in InFlight /\ \E l \in InFlight \cup Replies : GoTo(r, l)
  <2>1. CASE Autosave(r)
    BY <2>1 DEF Autosave
  <2>2. CASE LockDocument(r) \/ ReadMaxNumber(r) \/ RejectContent(r)
    BY <2>2 DEF LockDocument, ReadMaxNumber, RejectContent
  <2>3. CASE CommitVersion(r)
    BY <2>3 DEF CommitVersion
  <2>4. CASE Respond(r) \/ WriteRename(r) \/ WriteDestroy(r)
    BY <2>4 DEF Respond, WriteRename, WriteDestroy
  <2> QED
    BY <1>4, <2>1, <2>2, <2>3, <2>4 DEF Work
<1>5. ASSUME NEW r \in Requests, Crash(r)
      PROVE  pc[r] \in InFlight /\ GoTo(r, "failed")
  BY <1>5 DEF Crash
<1>6. CASE UNCHANGED vars
  BY <1>1, <1>6 DEF vars, Told, Abstract!logVars
<1>7. ASSUME NEW r \in Requests, Arrivals(r) \/ Work(r) \/ Crash(r)
      PROVE  Abstract!Answer(r) \/ UNCHANGED Abstract!logVars
  <2>1. \E l \in InFlight \cup Replies :
          pc[r] \in {"idle"} \cup InFlight /\ GoTo(r, l)
    BY <1>3, <1>4, <1>5, <1>7
  <2> QED
    BY <1>2, <2>1
<1> QED
  BY <1>6, <1>7 DEF Next

\* However its requests interleave and crash, the document is the append-only
\* log of RequestLog: the lock, the numbers and the stale loads are hidden.
THEOREM Refinement == Spec => ImplementsRequestLog
<1>1. IInv /\ IInv' /\ [Next]_vars => [Abstract!LogNext]_(Abstract!logVars)
  <2> SUFFICES ASSUME IInv, IInv', [Next]_vars
               PROVE  Abstract!LogNext \/ UNCHANGED Abstract!logVars
    OBVIOUS
  <2>1. CASE UNCHANGED versions /\ doc'.current = doc.current
    BY <2>1, RefinesOther DEF Abstract!LogNext
  <2>2. CASE ~(UNCHANGED versions /\ doc'.current = doc.current)
    BY <2>2, StepAppends, RefinesCommit DEF Abstract!LogNext
  <2> QED
    BY <2>1, <2>2
<1> QED
  BY <1>1, RefinesInit, Invariance, PTL
     DEF Spec, ImplementsRequestLog, Abstract!LogSpec
=============================================================================
