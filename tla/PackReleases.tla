------------------------------ MODULE PackReleases ------------------------------
(***************************************************************************)
(* The releases of one curriculum pack of a tenant, the default version in *)
(* the settings of the tenant, and the two caches that readers go through: *)
(* the resolver's, and under it the pack store's.                          *)
(*                                                                         *)
(* The key of a cache entry holds a counter of the settings ("cache        *)
(* bust"), so that a change of the releases invalidates what is cached by  *)
(* counting on.  The settings are one JSON column: every request writes    *)
(* them as it loaded them, with its own changes.  No operation takes a     *)
(* lock or a transaction; a step is one statement of the database or one   *)
(* call of the cache.                                                      *)
(***************************************************************************)
EXTENDS Naturals, FiniteSets

(* A definition whose name carries a suffix (BustStore_Dropped) is a        *)
(* plausible bug of the definition that follows it; no other definition     *)
(* uses it.                                                                 *)

CONSTANTS
  Admins,    \* requests that change releases or settings, each arrives once
  Readers,   \* requests that resolve the profile or fetch a pack, likewise
  Versions,  \* profile_version
  First,     \* the version that is published and the default in the beginning
  Original,  \* the payload of the release there was in the beginning
  System,    \* a payload that the program itself brings
  Registry,  \* of each version, what is answered where the tenant has no release
  Nothing,   \* no version, no payload: the resolver then takes its fallback profile
  Absent     \* not in the cache

ASSUME ConstantsAssumption ==
  /\ Admins \cap Readers = {} /\ IsFiniteSet(Admins)
  /\ First \in Versions /\ Nothing \notin Versions /\ {Original, Nothing, Absent} \cap Admins = {}
  /\ Original # Nothing /\ Original # Absent /\ Nothing # Absent
  /\ System \notin {Nothing, Absent} /\ Registry \in [Versions -> {System, Nothing}]

VARIABLES
  release,   \* the committed releases
  settings,  \* the committed settings of the tenant
  store,     \* the cache of the pack store
  resolved,  \* the cache of the resolver
  pc,        \* where each actor is, or how it ended
  mine,      \* what each actor has in memory, until it ends
  available, \* history: versions of which a fetch could answer a pack
  orderly,   \* history: no two admins were at work at once, and none died
  torn       \* history: since the resolver's counter last went on a reader
             \* loaded the new one with the store's old one, or an import
             \* changed the default

vars == <<release, settings, store, resolved, pc, mine, available, orderly, torn>>

Actors   == Admins \cup Readers
Statuses == {"draft", "published", "deprecated", "frozen", "rolled_back"}
Eligible == {"published", "frozen"}
Payloads == Admins \cup {Original}             \* an import brings its own payload
Packs    == Payloads \cup {System}
Busts    == 0 .. Cardinality(Admins)
Settings == [default : Versions \cup {Nothing}, resolver : Busts, store : Busts]
Changes  == {"publish", "deprecate", "freeze", "rollback"}
AdminOps == Changes \cup {"import", "default"}
Busy     == AdminOps \cup {"scan", "clearing", "write", "target", "set", "bust_resolver",
                           "bust_store", "save", "resolve", "fetch", "read", "fill", "remember"}
Ended    == {"done", "failed", "dead"}

Memory == [op : AdminOps \cup {"resolve", "fetch", "none"},
           version : Versions \cup {Nothing}, to : Versions \cup {Nothing},
           settings : Settings,                             \* as it loaded and changed them
           loaded : [Versions -> Statuses \cup {"absent"}], \* the releases as it loaded them
           others : SUBSET Versions,                        \* published, to be deprecated
           answer : Packs \cup {Nothing}]                 \* what it fetched
Blank == [op |-> "none", version |-> Nothing, to |-> Nothing,
          settings |-> [default |-> Nothing, resolver |-> 0, store |-> 0],
          loaded |-> [v \in Versions |-> "absent"], others |-> {}, answer |-> Nothing]

\* fetch_uncached, of a release and the registry of the program.
Current(v) ==
  IF v = Nothing THEN Nothing
  ELSE IF release[v].status = "absent" THEN Registry[v]
  ELSE IF release[v].status \in Eligible THEN release[v].payload ELSE Nothing

Init ==
  /\ \E s \in {"absent", "draft"} :
       release = [v \in Versions |->
                    IF v = First THEN [status |-> "published", payload |-> Original]
                    ELSE [status |-> s, payload |-> IF s = "draft" THEN Original ELSE Nothing]]
  /\ settings = [Blank.settings EXCEPT !.default = First]
  /\ store = [k \in Versions \X Busts |-> Absent]
  /\ resolved = [b \in Busts |-> Absent]
  /\ pc = [a \in Actors |-> "idle"]
  /\ mine = [a \in Actors |-> Blank]
  /\ available = {v \in Versions : Current(v) # Nothing}
  /\ orderly = TRUE /\ torn = FALSE

\* The actor goes on at l with memory m.
Move(a, l, m) ==
  /\ pc' = [pc EXCEPT ![a] = l]
  /\ mine' = [mine EXCEPT ![a] = IF l \in Ended THEN Blank ELSE m]
GoTo(a, l) == Move(a, l, mine[a])

caches == <<store, resolved>>
releases == <<release, available>>

Release(v, s) ==
  /\ release' = [release EXCEPT ![v].status = s]
  /\ available' = IF s \in Eligible THEN available \cup {v} ELSE available

\* update! writes the status only when it differs from the loaded one.
SetStatus(a, v, s) == IF s = mine[a].loaded[v] THEN UNCHANGED releases ELSE Release(v, s)

\* The settings are changed in memory and written as a whole.
SaveSettings(a, row, l) ==
  /\ settings' = row
  /\ Move(a, l, [mine[a] EXCEPT !.settings = row])

-----------------------------------------------------------------------------
\* Every request loads its tenant first.
ArriveAdmin(a) ==
  /\ pc[a] = "idle"
  /\ \E op \in AdminOps, v, w \in Versions :
       /\ op # "rollback" => w = v
       /\ Move(a, IF op = "default" THEN "fetch" ELSE op,
               [Blank EXCEPT !.op = op, !.version = v, !.to = w, !.settings = settings])
  /\ orderly' = (orderly /\ \A b \in Admins \ {a} : pc[b] \notin Busy)
  /\ UNCHANGED <<releases, settings, caches, torn>>

ArriveReader(r) ==
  /\ pc[r] = "idle"
  /\ \/ /\ Move(r, "resolve", [Blank EXCEPT !.op = "resolve", !.version = settings.default,
                                            !.settings = settings])
        /\ torn' = (torn \/ \E a \in Admins : pc[a] = "bust_store")
     \/ \E v \in Versions :
          /\ Move(r, "fetch", [Blank EXCEPT !.op = "fetch", !.version = v, !.settings = settings])
          /\ UNCHANGED torn
  /\ UNCHANGED <<releases, settings, caches, orderly>>

-----------------------------------------------------------------------------
(* CurriculumProfileLifecycleService                                       *)

AsStored(a) == [v \in Versions |-> IF v \in {mine[a].version, mine[a].to}
                                     THEN release[v].status ELSE "absent"]

\* load_release!, of both releases for a roll back.
LoadRelease_Blank(a) ==
  /\ pc[a] \in Changes
  /\ Move(a, IF pc[a] = "publish" THEN "scan" ELSE "write", [mine[a] EXCEPT !.loaded = AsStored(a)])
  /\ UNCHANGED <<releases, settings, caches, orderly, torn>>
LoadRelease(a) ==
  /\ pc[a] \in Changes
  /\ Move(a, IF "absent" \in {release[mine[a].version].status, release[mine[a].to].status}
               THEN "failed"
             ELSE IF pc[a] = "publish" THEN "scan" ELSE "write",
          [mine[a] EXCEPT !.loaded = AsStored(a)])
  /\ UNCHANGED <<releases, settings, caches, orderly, torn>>

Scan(a) ==
  /\ pc[a] = "scan"
  /\ Move(a, "clearing", [mine[a] EXCEPT !.others =
            {v \in Versions \ {mine[a].version} : release[v].status = "published"}])
  /\ UNCHANGED <<releases, settings, caches, orderly, torn>>

DeprecateOther(a) ==
  /\ pc[a] = "clearing"
  /\ \E v \in mine[a].others : /\ Release(v, "deprecated")
                               /\ Move(a, "clearing", [mine[a] EXCEPT !.others = @ \ {v}])
  /\ UNCHANGED <<settings, caches, orderly, torn>>

Publish(a) ==
  /\ pc[a] = "clearing" /\ mine[a].others = {}
  /\ SetStatus(a, mine[a].version, "published") /\ GoTo(a, "set")
  /\ UNCHANGED <<settings, caches, orderly, torn>>

\* deprecate!, freeze!, and the first half of rollback!.
Write(a) ==
  /\ pc[a] = "write"
  /\ \/ /\ mine[a].op = "deprecate"
        /\ SetStatus(a, mine[a].version, "deprecated") /\ GoTo(a, "bust_resolver")
     \/ /\ mine[a].op = "freeze"
        /\ SetStatus(a, mine[a].version, "frozen") /\ GoTo(a, "bust_resolver")
     \/ /\ mine[a].op = "rollback"
        /\ SetStatus(a, mine[a].version, "rolled_back") /\ GoTo(a, "target")
  /\ UNCHANGED <<settings, caches, orderly, torn>>

RestoreTarget(a) ==
  /\ pc[a] = "target"
  /\ SetStatus(a, mine[a].to, "published") /\ GoTo(a, "set")
  /\ UNCHANGED <<settings, caches, orderly, torn>>

\* tenant.update! writes the settings if the request changes them.
SetDefault(a) ==
  /\ pc[a] = "set"
  /\ IF mine[a].settings.default = mine[a].to
       THEN GoTo(a, "bust_resolver") /\ UNCHANGED settings
       ELSE SaveSettings(a, [mine[a].settings EXCEPT !.default = mine[a].to], "bust_resolver")
  /\ UNCHANGED <<releases, caches, orderly, torn>>

BustResolver_NewDefaultOnly(a) ==
  /\ pc[a] = "bust_resolver"
  /\ IF mine[a].op \in {"deprecate", "freeze"}
       THEN GoTo(a, "bust_store") /\ UNCHANGED settings
       ELSE SaveSettings(a, [mine[a].settings EXCEPT !.resolver = @ + 1],
                         IF mine[a].op = "default" THEN "done" ELSE "bust_store")
  /\ torn' = FALSE
  /\ UNCHANGED <<releases, caches, orderly>>
\* Both invalidate_cache!, of the resolver first; a new default, which changes
\* no release, leaves out the second.
BustResolver(a) ==
  /\ pc[a] = "bust_resolver"
  /\ SaveSettings(a, [mine[a].settings EXCEPT !.resolver = @ + 1],
                  IF mine[a].op = "default" THEN "done" ELSE "bust_store")
  /\ torn' = FALSE
  /\ UNCHANGED <<releases, caches, orderly>>

BustStore_Dropped(a) ==
  /\ pc[a] = "bust_store" /\ GoTo(a, "done")
  /\ UNCHANGED <<releases, settings, caches, orderly, torn>>
BustStore(a) ==
  /\ pc[a] = "bust_store"
  /\ SaveSettings(a, [mine[a].settings EXCEPT !.store = @ + 1], "done")
  /\ UNCHANGED <<releases, caches, orderly, torn>>

\* import!: find_or_initialize_by, then save!, which fails if a rival import
\* created the release meanwhile; a release keeps its status.
LoadImport(a) ==
  /\ pc[a] = "import"
  /\ Move(a, "save", [mine[a] EXCEPT !.loaded = AsStored(a)])
  /\ UNCHANGED <<releases, settings, caches, orderly, torn>>

SaveImport(a) ==
  LET v == mine[a].version  new == mine[a].loaded[v] = "absent" IN
  /\ pc[a] = "save"
  /\ IF new /\ release[v].status # "absent"
       THEN GoTo(a, "failed") /\ UNCHANGED <<release, torn>>
       ELSE /\ release' = [release EXCEPT ![v].payload = a,
                                          ![v].status = IF new THEN "draft" ELSE @]
            /\ torn' = (torn \/ v = settings.default)
            /\ GoTo(a, "bust_store")
  /\ UNCHANGED <<available, settings, caches, orderly>>

-----------------------------------------------------------------------------
(* CurriculumProfileResolver.resolve and CurriculumPackStore.fetch         *)

Resolve(r) ==
  /\ pc[r] = "resolve"
  /\ GoTo(r, IF resolved[mine[r].settings.resolver] # Absent THEN "done"
             ELSE IF mine[r].version = Nothing THEN "remember" ELSE "fetch")
  /\ UNCHANGED <<releases, settings, caches, orderly, torn>>

\* What follows a fetch; a version that is to be the default must exist.
Accepted_Any(got) == TRUE
Accepted(got) == got # Nothing
Answered(a, got) ==
  Move(a, CASE mine[a].op = "resolve" -> "remember"
            [] mine[a].op = "fetch" -> "done"
            [] mine[a].op = "default" -> IF Accepted(got) THEN "set" ELSE "failed",
       [mine[a] EXCEPT !.answer = got])

Key(a) == <<mine[a].version, mine[a].settings.store>>

Fetch(a) ==
  /\ pc[a] = "fetch"
  /\ IF store[Key(a)] = Absent THEN GoTo(a, "read") ELSE Answered(a, store[Key(a)])
  /\ UNCHANGED <<releases, settings, caches, orderly, torn>>

Read(a) ==
  /\ pc[a] = "read"
  /\ Move(a, "fill", [mine[a] EXCEPT !.answer = Current(mine[a].version)])
  /\ UNCHANGED <<releases, settings, caches, orderly, torn>>

Fill(a) ==
  /\ pc[a] = "fill" /\ Answered(a, mine[a].answer)
  /\ store' = [store EXCEPT ![Key(a)] = mine[a].answer]
  /\ UNCHANGED <<releases, settings, resolved, orderly, torn>>

Remember(r) ==
  /\ pc[r] = "remember" /\ GoTo(r, "done")
  /\ resolved' = [resolved EXCEPT ![mine[r].settings.resolver] = mine[r].answer]
  /\ UNCHANGED <<releases, settings, store, orderly, torn>>

\* The time of an entry is up.
ExpirePack(k) ==
  /\ store[k] # Absent /\ store' = [store EXCEPT ![k] = Absent]
  /\ UNCHANGED <<releases, settings, resolved, pc, mine, orderly, torn>>

ExpireResolved(b) ==
  /\ resolved[b] # Absent /\ resolved' = [resolved EXCEPT ![b] = Absent]
  /\ UNCHANGED <<releases, settings, store, pc, mine, orderly, torn>>

\* A reader that dies is one that takes no further step.
Crash(a) ==
  /\ pc[a] \in Busy /\ GoTo(a, "dead") /\ orderly' = FALSE
  /\ UNCHANGED <<releases, settings, caches, torn>>

-----------------------------------------------------------------------------
AdminStep(a) ==
  \/ LoadRelease(a) \/ Scan(a) \/ DeprecateOther(a) \/ Publish(a) \/ Write(a)
  \/ RestoreTarget(a) \/ SetDefault(a) \/ BustResolver(a) \/ BustStore(a)
  \/ LoadImport(a) \/ SaveImport(a)
ReaderStep(a) == Resolve(a) \/ Fetch(a) \/ Read(a) \/ Fill(a) \/ Remember(a)
Step(a) == (a \in Admins /\ AdminStep(a)) \/ ReaderStep(a)

Next == \/ \E a \in Admins : ArriveAdmin(a)
        \/ \E r \in Readers : ArriveReader(r)
        \/ \E a \in Actors : Step(a)
        \/ \E a \in Admins : Crash(a)
        \/ \E k \in DOMAIN store : ExpirePack(k)
        \/ \E b \in Busts : ExpireResolved(b)

Spec == Init /\ [][Next]_vars
-----------------------------------------------------------------------------
Cached == Packs \cup {Nothing, Absent}

TypeOK ==
  /\ DOMAIN release = Versions
  /\ \A v \in Versions : \/ /\ release[v].status \in Statuses /\ release[v].payload \in Payloads
                         \/ release[v] = [status |-> "absent", payload |-> Nothing]
  /\ settings \in Settings
  /\ store \in [Versions \X Busts -> Cached] /\ resolved \in [Busts -> Cached]
  /\ pc \in [Actors -> {"idle"} \cup Busy \cup Ended]
  /\ mine \in [Actors -> Memory]
  /\ available \subseteq Versions /\ orderly \in BOOLEAN /\ torn \in BOOLEAN

\* As long as admins did not overlap or die, what the pack store has cached
\* under the present counter is what the releases say whenever no admin is at
\* work, however long a reader takes between reading a release and caching it:
\* the counter goes on after the releases, and a reader's key is older than
\* what it reads (curriculum_pack_store.rb:19-61,
\* curriculum_profile_lifecycle_service.rb:44-117).
AtRest == \A a \in Admins : pc[a] \notin Busy
OrderlyStoreIsCurrent ==
  orderly /\ AtRest => \A v \in Versions : store[<<v, settings.store>>] \in {Absent, Current(v)}

\* ... and the resolver, whose entries outlive those of the store that they were
\* made of, remembers under its present counter the pack of the present default:
\* no change of releases or default passes it by, however late a reader caches
\* what it resolved.  Two things do pass it by until its counter goes on once more
\* (torn): it goes on before the store's, so that a reader who loads its tenant in
\* between caches an old pack for new, and an import counts only the store's on
\* (curriculum_profile_resolver.rb:6-31, curriculum_profile_lifecycle_service.rb:62-63).
OrderlyResolverIsCurrent ==
  orderly /\ AtRest /\ ~ torn => resolved[settings.resolver] \in {Absent, Current(settings.default)}

\* The default of the tenant is never a version of which no pack was there to be
\* fetched before, neither a release that is published or frozen nor, where the
\* tenant has none, one of the program's: although requests write the settings as they
\* loaded them, check a version by the cache, and die between their statements
\* (curriculum_profile_lifecycle_service.rb:51-60, curriculum_settings_controller.rb:136-156).
DefaultWasAvailable == settings.default # Nothing => settings.default \in available
=============================================================================
