-------------------------- MODULE DocumentVersions --------------------------
(***************************************************************************)
(* One curriculum document, its immutable versions, and the API requests   *)
(* that race to change them.                                               *)
(*                                                                         *)
(* A request is a Puma thread working on one HTTP call.  It first loads    *)
(* the document (an ActiveRecord object whose attributes age from then     *)
(* on), decides, and then either runs create_version! under the row lock   *)
(* or issues one UPDATE or DELETE.  A step of the model is what a request  *)
(* does up to and including its next statement of the database, which      *)
(* isolates transactions at READ COMMITTED: what a transaction wrote is    *)
(* seen by the others when it commits, so INSERT, UPDATE and COMMIT of     *)
(* create_version! are one step.  A version is named by its number, which  *)
(* the unique index of (document, version_number) makes a key.  Documents  *)
(* that a migration made and then rolls back are left out: that deletion   *)
(* clears the pointer to the current version first.                        *)
(***************************************************************************)
EXTENDS Naturals, FiniteSets

(* A definition whose name carries a suffix (RenamedRow_WholeRow) is a       *)
(* plausible bug of the definition that follows it; no other definition     *)
(* uses it.                                                                 *)

CONSTANTS
  Requests,      \* the HTTP requests that arrive for the document
  Titles,        \* titles a user may give
  Contents,      \* contents a client may send (JSON objects)
  NoContent,     \* {}: the content of a document without a version
  ValidContents, \* contents that the schema and the presence check accept
  NoTitle,       \* a blank title parameter
  NoOne          \* the row lock is free

ASSUME ConstantsAssumption ==
  /\ NoOne \notin Requests
  /\ NoTitle \notin Titles
  /\ NoContent \in Contents
  /\ ValidContents \subseteq Contents \ {NoContent}

VARIABLES
  doc,      \* the committed row: its life, title and current version (0: NULL)
  versions, \* the committed rows of the version table, by version_number
  lock,     \* the holder of the row lock of with_lock
  pc,       \* where each request is, or what it was answered
  param,    \* the parameters of each request
  loaded,   \* the document as each request last loaded it
  number    \* the version_number a request computed under the lock

vars == <<doc, versions, lock, pc, param, loaded, number>>

InFlight == {"loaded", "rename", "destroy", "waiting", "locked", "numbered",
             "committed"}
Refusals == {"conflict", "unchanged", "invalid", "missing", "renamed",
             "destroyed"}
Replies  == Refusals \cup {"saved", "failed"}

Numbers  == DOMAIN versions
Rows     == [life : {"unborn", "live", "gone"}, title : Titles \cup {NoTitle},
             current : Nat]
Params   == [title : Titles \cup {NoTitle}, content : Contents, base : Nat]
Version  == [by : Requests, title : Titles, content : Contents]
NoParams == [title |-> NoTitle, content |-> NoContent, base |-> 0]

Init ==
  /\ doc = [life |-> "unborn", title |-> NoTitle, current |-> 0]
  /\ versions = [n \in {} |-> NoParams]
  /\ lock = NoOne
  /\ pc = [r \in Requests |-> "idle"]
  /\ param = [r \in Requests |-> NoParams]
  /\ loaded = [r \in Requests |-> doc]
  /\ number = [r \in Requests |-> 0]

GoTo(r, l) == pc' = [pc EXCEPT ![r] = l]

\* The title a request ends up with: its own, or that of the loaded document.
ResolvedTitle_Blank(r, title) == title
ResolvedTitle(r, title) == IF title = NoTitle THEN loaded[r].title ELSE title

\* document.current_version&.content || {}
LoadedContent(r) ==
  IF loaded[r].current \in Numbers THEN versions[loaded[r].current].content
                                   ELSE NoContent

-----------------------------------------------------------------------------
(* Arrival: the request finds the document, or creates it.                 *)

\* DocumentFactory.create!: the row is committed on its own, and then the
\* first version goes through create_version! like any other.
CreateDocument(r) ==
  /\ pc[r] = "idle" /\ doc.life = "unborn"
  /\ \E t \in Titles, c \in Contents :
       /\ doc' = [life |-> "live", title |-> t, current |-> 0]
       /\ param' = [param EXCEPT ![r] = [title |-> t, content |-> c, base |-> 0]]
       /\ loaded' = [loaded EXCEPT ![r] = doc']
  /\ GoTo(r, "waiting")
  /\ UNCHANGED <<versions, lock, number>>

\* Any other request loads the document.  A base is a version the client saw.
Arrive(r, next, ps) ==
  /\ pc[r] = "idle" /\ doc.life = "live"
  /\ \E p \in ps : param' = [param EXCEPT ![r] = p]
  /\ loaded' = [loaded EXCEPT ![r] = doc]
  /\ GoTo(r, next)
  /\ UNCHANGED <<doc, versions, lock, number>>

BeginAutosave(r) ==
  Arrive(r, "loaded", [title : Titles \cup {NoTitle}, content : Contents,
                       base : 0 .. doc.current])

\* POST .../versions: no base, and a blank title falls back to the loaded one.
BeginSave(r) ==
  Arrive(r, "waiting",
         {[title |-> IF t = NoTitle THEN doc.title ELSE t,
           content |-> c, base |-> 0] :
            t \in Titles \cup {NoTitle}, c \in Contents})

BeginRename(r) ==
  Arrive(r, "rename", [title : Titles, content : {NoContent}, base : {0}])

BeginDestroy(r) == Arrive(r, "destroy", {NoParams})

-----------------------------------------------------------------------------
(* SectionAutosaveService.save!, on the document as it was loaded.         *)

BaseIsStale(r) ==
  /\ param[r].base # 0 /\ loaded[r].current # 0
  /\ loaded[r].current # param[r].base

NothingChanged(r) ==
  /\ LoadedContent(r) = param[r].content
  /\ loaded[r].title = ResolvedTitle(r, param[r].title)

Autosave(r) ==
  /\ pc[r] = "loaded"
  /\ GoTo(r, IF BaseIsStale(r) THEN "conflict"
             ELSE IF NothingChanged(r) THEN "unchanged" ELSE "waiting")
  /\ param' = [param EXCEPT ![r].title = ResolvedTitle(r, @)]
  /\ UNCHANGED <<doc, versions, lock, loaded, number>>

-----------------------------------------------------------------------------
(* CurriculumDocument#create_version!                                      *)

LockIsFree == lock = NoOne

\* with_lock: SELECT ... FOR UPDATE, which also reloads the document.
LockDocument(r) ==
  /\ pc[r] = "waiting" /\ LockIsFree
  /\ IF doc.life = "gone"
       THEN GoTo(r, "missing") /\ UNCHANGED <<lock, loaded>>
       ELSE /\ lock' = r
            /\ loaded' = [loaded EXCEPT ![r] = doc]
            /\ GoTo(r, "locked")
  /\ UNCHANGED <<doc, versions, param, number>>

MaxNumber == IF Numbers = {} THEN 0
             ELSE CHOOSE m \in Numbers : \A n \in Numbers : n <= m

NextNumber_OffByOne == MaxNumber
NextNumber == MaxNumber + 1

ReadMaxNumber(r) ==
  /\ pc[r] = "locked"
  /\ number' = [number EXCEPT ![r] = NextNumber]
  /\ GoTo(r, "numbered")
  /\ UNCHANGED <<doc, versions, lock, param, loaded>>

Unlock_Leaked(r) == UNCHANGED lock
Unlock(r) == lock' = IF lock = r THEN NoOne ELSE lock

\* validate_content! or the model validation raises; the block rolls back.
RejectContent(r) ==
  /\ pc[r] = "numbered" /\ param[r].content \notin ValidContents
  /\ GoTo(r, "invalid") /\ Unlock(r)
  /\ UNCHANGED <<doc, versions, param, loaded, number>>

NewVersion_Reloaded(r) ==
  [by |-> r, title |-> param[r].title, content |-> LoadedContent(r)]
NewVersion(r) ==
  [by |-> r, title |-> param[r].title, content |-> param[r].content]

\* versions.create!, update!(current_version:, title:) and COMMIT; a number
\* that is taken violates the unique index and rolls the block back.
CommitVersion(r) ==
  /\ pc[r] = "numbered" /\ param[r].content \in ValidContents
  /\ IF number[r] \in Numbers
       THEN GoTo(r, "failed") /\ UNCHANGED <<doc, versions>>
       ELSE /\ versions' = [n \in Numbers \cup {number[r]} |->
                              IF n \in Numbers THEN versions[n] ELSE NewVersion(r)]
            /\ doc' = [doc EXCEPT !.current = number[r],
                                  !.title = param[r].title]
            /\ GoTo(r, "committed")
  /\ Unlock(r)
  /\ UNCHANGED <<param, loaded, number>>

Respond(r) ==
  /\ pc[r] = "committed" /\ GoTo(r, "saved")
  /\ UNCHANGED <<doc, versions, lock, param, loaded, number>>

-----------------------------------------------------------------------------
(* The requests that touch only the row of the document.                   *)

\* update writes the attributes that differ from the loaded ones, no others;
\* the UPDATE waits for the row lock.
RenamedRow_WholeRow(r) == [loaded[r] EXCEPT !.title = param[r].title]
RenamedRow(r) ==
  IF param[r].title = loaded[r].title \/ doc.life = "gone"
    THEN doc ELSE [doc EXCEPT !.title = param[r].title]

WriteRename(r) ==
  /\ pc[r] = "rename" /\ LockIsFree
  /\ doc' = RenamedRow(r)
  /\ GoTo(r, "renamed")
  /\ UNCHANGED <<versions, lock, param, loaded, number>>

\* destroy! deletes the versions first, and the foreign key of current_version
\* forbids that for the current one: only a document without a version goes.
WriteDestroy(r) ==
  /\ pc[r] = "destroy" /\ LockIsFree
  /\ IF Numbers = {} THEN doc' = [doc EXCEPT !.life = "gone"] /\ GoTo(r, "destroyed")
                     ELSE GoTo(r, "failed") /\ UNCHANGED doc
  /\ UNCHANGED <<versions, lock, param, loaded, number>>

\* The thread dies or loses its connection: the server rolls its transaction
\* back and frees its lock; the client learns nothing.
Crash(r) ==
  /\ pc[r] \in InFlight
  /\ GoTo(r, "failed") /\ Unlock(r)
  /\ UNCHANGED <<doc, versions, param, loaded, number>>

-----------------------------------------------------------------------------
Arrivals(r) == \/ CreateDocument(r) \/ BeginAutosave(r) \/ BeginSave(r)
               \/ BeginRename(r) \/ BeginDestroy(r)

Work(r) == \/ Autosave(r) \/ ReadMaxNumber(r) \/ RejectContent(r)
           \/ CommitVersion(r) \/ Respond(r) \/ LockDocument(r)
           \/ WriteRename(r) \/ WriteDestroy(r)

Next == \E r \in Requests : Arrivals(r) \/ Work(r) \/ Crash(r)

Spec == Init /\ [][Next]_vars

\* A thread that can take its next step takes it; one that waits for the row
\* lock gets it in its turn, for the database queues the waiters.
Fairness == \A r \in Requests : SF_vars(Work(r))

FairSpec == Spec /\ Fairness
-----------------------------------------------------------------------------
TypeOK ==
  /\ doc \in Rows
  /\ Numbers \subseteq Nat /\ versions \in [Numbers -> Version]
  /\ lock \in Requests \cup {NoOne}
  /\ pc \in [Requests -> {"idle"} \cup InFlight \cup Replies]
  /\ param \in [Requests -> Params]
  /\ loaded \in [Requests -> Rows]
  /\ number \in [Requests -> Nat]

\* The numbers are 1, 2, 3 ... without a gap and the current version is the
\* last one, whatever saves, renames, deletes and crashes interleave.
CurrentIsLatest == Numbers = 1 .. doc.current

\* No save ever fails on the unique index: between the lock and the commit
\* nobody else can take the number (curriculum_document.rb:36-55).
NoNumberCollision ==
  \A r \in Requests : pc[r] = "numbered" => number[r] \notin Numbers

\* A reply is true of the history: "saved" has exactly one version, with the
\* content that was sent; every other definite reply has none.
VersionsBy(r) == {n \in Numbers : versions[n].by = r}

RepliesAreTrue ==
  \A r \in Requests :
    /\ pc[r] = "saved" => \E n \in Numbers : /\ VersionsBy(r) = {n}
                                             /\ versions[n].content = param[r].content
    /\ pc[r] \in Refusals => VersionsBy(r) = {}

\* Versions are immutable and never go away, and the pointer to the current
\* one never moves back, also when a request writes a row it loaded long ago.
HistoryOnlyGrows ==
  [][/\ \A n \in Numbers : n \in DOMAIN versions' /\ versions'[n] = versions[n]
     /\ doc'.current >= doc.current]_vars

\* Every request that arrives is answered: nobody waits for a row lock forever.
EveryRequestIsAnswered ==
  \A r \in Requests : pc[r] # "idle" ~> pc[r] \in Replies

\* The concurrency policy of the collaboration service (session_service.rb:26)
\* names base_version_id on an autosave an optimistic lock: of two autosaves on
\* the same base, one is saved and the other learns of the conflict.
BaseIsAnOptimisticLock ==
  \A m, n \in Numbers :
    LET base(v) == param[versions[v].by].base
    IN  base(m) # 0 /\ base(m) = base(n) => m = n
-----------------------------------------------------------------------------
(* The abstract log that this store implements.                            *)
LogEntries == [title : Titles, content : Contents]

Log == [n \in 1 .. doc.current |->
          [by    |-> versions[n].by,
           entry |-> [title |-> versions[n].title, content |-> versions[n].content]]]

Told == [r \in Requests |-> IF pc[r] = "saved" THEN "saved"
                            ELSE IF pc[r] = "failed" THEN "unknown"
                            ELSE IF pc[r] \in Refusals THEN "refused" ELSE "none"]

Abstract == INSTANCE RequestLog
              WITH Entries <- LogEntries, log <- Log, answer <- Told

\* Whatever the requests do, the document behaves as that log.
ImplementsRequestLog == Abstract!LogSpec
=============================================================================
