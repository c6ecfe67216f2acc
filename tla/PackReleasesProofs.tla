--------------------------- MODULE PackReleasesProofs ---------------------------
(***************************************************************************)
(* Theorems about PackReleases, for any number of admins, readers and      *)
(* versions.                                                               *)
(***************************************************************************)
EXTENDS PackReleases, FiniteSetTheorems, TLAPS

USE DEF Statuses, Eligible, Changes, AdminOps, Busy, Ended

Rows == [status : Statuses, payload : Payloads] \cup {[status |-> "absent", payload |-> Nothing]}

TypeInv ==
  /\ release \in [Versions -> Rows] /\ settings \in Settings
  /\ store \in [Versions \X Busts -> Cached] /\ resolved \in [Busts -> Cached]
  /\ pc \in [Actors -> {"idle"} \cup Busy \cup Ended] /\ mine \in [Actors -> Memory]
  /\ available \subseteq Versions /\ orderly \in BOOLEAN

\* No counter is ahead of the admins who may have counted: each does so once.
Finished == {a \in Admins : pc[a] \in Ended}
Counted  == {a \in Admins : pc[a] \in Ended \cup {"bust_store"}}
CountInv ==
  /\ settings.store <= Cardinality(Finished) /\ settings.resolver <= Cardinality(Counted)
  /\ \A a \in Actors : /\ mine[a].settings.store <= Cardinality(Finished)
                       /\ mine[a].settings.resolver <= Cardinality(Counted)

\* What an actor at l has in memory is true of the releases rel, of which those
\* in known were published or frozen once.
Holds(a, l, m, rel, known) ==
  l \in Busy =>
    /\ a \in Admins => m.version \in Versions /\ m.to \in Versions /\ m.op \in AdminOps
    /\ l \in {"fetch", "read", "fill"} =>
         /\ m.version \in Versions /\ m.op \in {"resolve", "fetch", "default"}
         /\ m.op = "default" => m.to = m.version
    /\ l \in {"publish", "scan", "clearing"} => m.op = "publish" /\ m.to = m.version
    /\ l = "target" => m.op = "rollback"
    /\ l = "resolve" => m.answer = Nothing
    /\ l \in {"resolve", "remember"} => m.op = "resolve"
    /\ l \in {"scan", "clearing", "write"} => m.loaded[m.version] # "absent"
    /\ l \in {"write", "target"} => m.loaded[m.to] # "absent"
    /\ \A v \in m.others : v \in Versions /\ rel[v].status # "absent"
    /\ \A v \in Versions : /\ m.loaded[v] # "absent" => rel[v].status # "absent"
                           /\ m.loaded[v] \in Eligible => v \in known
    /\ m.settings.default \in known \cup {Nothing}
    /\ l = "fill" /\ m.answer # Nothing => m.version \in known
    /\ l = "set" => m.to \in known
HoldsInv == \A a \in Actors : Holds(a, pc[a], mine[a], release, available)

\* Whatever is published, cached or the default was available once.
AvailableInv ==
  /\ settings.default \in available \cup {Nothing}
  /\ \A v \in Versions : release[v].status \in Eligible => v \in available
  /\ \A v \in Versions : release[v].status = "absent" /\ Registry[v] # Nothing => v \in available
  /\ \A v \in Versions, b \in Busts : store[<<v, b>>] \notin {Absent, Nothing} => v \in available

\* An admin has changed the releases, or may have, and not yet counted on.
DirtyAt(l, m) == \/ l \in {"clearing", "target", "bust_store"}
                 \/ l \in {"set", "bust_resolver"} /\ m.op # "default"
Clean == \A a \in Admins : ~ DirtyAt(pc[a], mine[a])

\* As long as admins come one after the other: the one at work knows the
\* settings, no reader's counter and no entry is ahead of them, and what is
\* cached, or about to be, under the present counter is current.
OrderInv ==
  orderly =>
    /\ \A a, b \in Admins : pc[a] \in Busy /\ pc[b] \in Busy => a = b
    /\ \A a \in Admins : pc[a] \in Busy => mine[a].settings = settings
    /\ \A a \in Actors : mine[a].settings.store <= settings.store
    /\ \A v \in Versions, b \in Busts : b > settings.store => store[<<v, b>>] = Absent
    /\ Clean =>
         /\ \A v \in Versions : store[<<v, settings.store>>] \in {Absent, Current(v)}
         /\ \A a \in Actors : pc[a] = "fill" /\ mine[a].settings.store = settings.store
                              => mine[a].answer = Current(mine[a].version)

IInv == TypeInv /\ CountInv /\ HoldsInv /\ AvailableInv /\ OrderInv

-----------------------------------------------------------------------------
LEMMA BustsFacts == Cardinality(Admins) \in Nat /\ Busts = 0 .. Cardinality(Admins) /\ 0 \in Busts
BY ConstantsAssumption, FS_CardinalityType DEF Busts

LEMMA BlankFacts ==
  Blank \in Memory /\ Blank.settings.store = 0 /\ Blank.settings.resolver = 0
  /\ Blank.settings.default = Nothing
BY BustsFacts DEF Blank, Memory, Settings

\* The one who moves, and the others.
LEMMA MoveFacts ==
  ASSUME TypeInv, NEW a \in Actors, NEW l \in Busy \cup Ended, NEW m \in Memory, Move(a, l, m)
  PROVE  /\ pc' \in [Actors -> {"idle"} \cup Busy \cup Ended] /\ mine' \in [Actors -> Memory]
         /\ pc'[a] = l /\ (l \in Busy => mine'[a] = m) /\ (l \in Ended => mine'[a] = Blank)
         /\ \A b \in Actors \ {a} : pc'[b] = pc[b] /\ mine'[b] = mine[b]
BY BlankFacts DEF Move, TypeInv

\* Nobody who has counted comes back.
LEMMA CountFacts ==
  ASSUME TypeInv, NEW a \in Actors, pc[a] \notin Ended,
         NEW l \in Busy \cup Ended, pc'[a] = l, \A b \in Actors \ {a} : pc'[b] = pc[b],
         pc[a] = "bust_store" => l \in Ended \cup {"bust_store"}
  PROVE  /\ Cardinality(Finished) \in Nat /\ Cardinality(Counted) \in Nat
         /\ Cardinality(Finished)' \in Nat /\ Cardinality(Counted)' \in Nat
         /\ Cardinality(Finished) <= Cardinality(Finished)'
         /\ Cardinality(Counted) <= Cardinality(Counted)'
         /\ a \in Admins /\ l \in Ended => Cardinality(Finished)' = Cardinality(Finished) + 1
         /\ a \in Admins /\ pc[a] # "bust_store" /\ l \in Ended \cup {"bust_store"}
            => Cardinality(Counted)' = Cardinality(Counted) + 1
         /\ Cardinality(Finished)' <= Cardinality(Admins)
         /\ Cardinality(Counted)' <= Cardinality(Admins)
<1>1. IsFiniteSet(Admins) /\ Admins \subseteq Actors
  BY ConstantsAssumption DEF Actors
<1>2. /\ Finished \subseteq Admins /\ Finished' \subseteq Admins /\ Finished \subseteq Finished'
      /\ a \in Admins /\ l \in Ended => Finished' = Finished \cup {a} /\ a \notin Finished
  BY <1>1 DEF Finished
<1>3. /\ Counted \subseteq Admins /\ Counted' \subseteq Admins /\ Counted \subseteq Counted'
      /\ a \in Admins /\ pc[a] # "bust_store" /\ l \in Ended \cup {"bust_store"}
         => Counted' = Counted \cup {a} /\ a \notin Counted
  BY <1>1 DEF Counted
<1>4. /\ IsFiniteSet(Finished) /\ IsFiniteSet(Finished')
      /\ IsFiniteSet(Counted) /\ IsFiniteSet(Counted')
  BY <1>1, <1>2, <1>3, FS_Subset
<1>5. Cardinality(Finished) \in Nat /\ Cardinality(Finished') \in Nat
      /\ Cardinality(Counted) \in Nat /\ Cardinality(Counted') \in Nat
  BY <1>4, FS_CardinalityType
<1>6. Cardinality(Finished) <= Cardinality(Finished') /\ Cardinality(Counted) <= Cardinality(Counted')
      /\ Cardinality(Finished') <= Cardinality(Admins) /\ Cardinality(Counted') <= Cardinality(Admins)
  BY <1>1, <1>2, <1>3, <1>4, FS_Subset
<1>7. a \in Admins /\ l \in Ended => Cardinality(Finished') = Cardinality(Finished) + 1
  BY <1>2, <1>4, FS_AddElement
<1>8. a \in Admins /\ pc[a] # "bust_store" /\ l \in Ended \cup {"bust_store"}
      => Cardinality(Counted') = Cardinality(Counted) + 1
  BY <1>3, <1>4, FS_AddElement
<1> QED
  BY <1>5, <1>6, <1>7, <1>8

\* What the others hold stays true as the releases and their history grow.
LEMMA OthersHold ==
  ASSUME TypeInv, HoldsInv, NEW a \in Actors,
         \A b \in Actors \ {a} : pc'[b] = pc[b] /\ mine'[b] = mine[b],
         available \subseteq available',
         \A v \in Versions : release[v].status # "absent" => release'[v].status # "absent",
         Holds(a, pc'[a], mine'[a], release', available')
  PROVE  HoldsInv'
<1> SUFFICES ASSUME NEW b \in Actors PROVE Holds(b, pc'[b], mine'[b], release', available')
  BY DEF HoldsInv
<1>1. CASE b = a
  BY <1>1
<1>2. CASE b # a
  BY <1>2 DEF HoldsInv, Holds
<1> QED
  BY <1>1, <1>2

\* One moves on and changes no row: it may fill an entry of a cache.
LEMMA QuietStep ==
  ASSUME IInv, NEW a \in Actors, NEW l \in Busy \cup Ended, NEW m \in Memory, Move(a, l, m),
         pc[a] \notin Ended, UNCHANGED <<release, available, settings>>,
         store' \in [Versions \X Busts -> Cached], resolved' \in [Busts -> Cached],
         \A v \in Versions, b \in Busts :
           \/ store'[<<v, b>>] = store[<<v, b>>]
           \/ pc[a] = "fill" /\ <<v, b>> = Key(a) /\ store'[<<v, b>>] = mine[a].answer,
         orderly' \in BOOLEAN, orderly' => orderly,
         orderly' /\ a \in Admins /\ l \in Busy =>
           m.settings = settings /\ \A b \in Admins \ {a} : pc[b] \notin Busy,
         m.settings \in {mine[a].settings, settings},
         Holds(a, l, m, release, available),
         pc[a] = "bust_store" => l \in Ended \cup {"bust_store"},
         orderly' /\ a \in Admins /\ DirtyAt(pc[a], mine[a]) => DirtyAt(l, m),
         l = "fill" => m.answer = Current(m.version)
  PROVE  IInv'
<1> USE DEF IInv
<1>1. /\ pc' \in [Actors -> {"idle"} \cup Busy \cup Ended] /\ mine' \in [Actors -> Memory]
      /\ pc'[a] = l /\ (l \in Busy => mine'[a] = m) /\ (l \in Ended => mine'[a] = Blank)
      /\ \A b \in Actors \ {a} : pc'[b] = pc[b] /\ mine'[b] = mine[b]
  BY MoveFacts
<1>2. release' = release /\ available' = available /\ settings' = settings
  OBVIOUS
<1>3. TypeInv'
  BY <1>1, <1>2 DEF TypeInv
<1>4. /\ settings.store \in Nat /\ settings.resolver \in Nat
      /\ \A b \in Actors : mine[b].settings.store \in Nat /\ mine[b].settings.resolver \in Nat
      /\ \A b \in Busts : b \in Nat
  BY BustsFacts DEF TypeInv, Memory, Settings
<1>5. /\ Cardinality(Finished) \in Nat /\ Cardinality(Counted) \in Nat
      /\ Cardinality(Finished)' \in Nat /\ Cardinality(Counted)' \in Nat
      /\ Cardinality(Finished) <= Cardinality(Finished)'
      /\ Cardinality(Counted) <= Cardinality(Counted)'
  BY <1>1, CountFacts
<1>6. CountInv'
  <2>1. \A b \in Actors \ {a} : mine'[b].settings.store <= Cardinality(Finished)'
                                /\ mine'[b].settings.resolver <= Cardinality(Counted)'
    BY <1>1, <1>4, <1>5 DEF CountInv
  <2>2. mine'[a].settings.store <= Cardinality(Finished)'
        /\ mine'[a].settings.resolver <= Cardinality(Counted)'
    <3>1. CASE l \in Ended
      BY <1>1, <1>5, <3>1, BlankFacts
    <3>2. CASE l \in Busy
      BY <1>1, <1>4, <1>5, <3>2 DEF CountInv
    <3> QED
      BY <3>1, <3>2
  <2>3. settings'.store <= Cardinality(Finished)' /\ settings'.resolver <= Cardinality(Counted)'
    BY <1>2, <1>4, <1>5 DEF CountInv
  <2> QED
    BY <2>1, <2>2, <2>3 DEF CountInv
<1>7. HoldsInv'
  <2>1. Holds(a, pc'[a], mine'[a], release', available')
    BY <1>1, <1>2 DEF Holds
  <2> QED
    BY <1>1, <1>2, <2>1, OthersHold
<1>8. AvailableInv'
  <2>1. ASSUME NEW v \in Versions, NEW b \in Busts, store'[<<v, b>>] \notin {Absent, Nothing}
        PROVE  v \in available'
    <3>1. CASE store'[<<v, b>>] = store[<<v, b>>]
      BY <1>2, <2>1, <3>1 DEF AvailableInv
    <3>2. CASE pc[a] = "fill" /\ <<v, b>> = Key(a) /\ store'[<<v, b>>] = mine[a].answer
      BY <1>2, <2>1, <3>2 DEF HoldsInv, Holds, Key
    <3> QED
      BY <3>1, <3>2
  <2> QED
    BY <1>2, <2>1 DEF AvailableInv
<1>9. OrderInv'
  <2> SUFFICES ASSUME orderly' PROVE OrderInv'
    BY DEF OrderInv
  <2>1. orderly
    OBVIOUS
  <2>2. Admins \subseteq Actors
    BY DEF Actors
  <2>3. \A b, c \in Admins : pc'[b] \in Busy /\ pc'[c] \in Busy => b = c
    BY <1>1, <2>1, <2>2 DEF OrderInv
  <2>4. \A b \in Admins : pc'[b] \in Busy => mine'[b].settings = settings'
    BY <1>1, <1>2, <2>1, <2>2 DEF OrderInv
  <2>5. \A b \in Actors : mine'[b].settings.store <= settings'.store
    BY <1>1, <1>2, <1>4, <2>1, BlankFacts DEF OrderInv
  <2>6. \A v \in Versions, b \in Busts : b > settings'.store => store'[<<v, b>>] = Absent
    <3> SUFFICES ASSUME NEW v \in Versions, NEW b \in Busts, b > settings.store
                 PROVE  store'[<<v, b>>] = Absent
      BY <1>2
    <3>1. ~ (<<v, b>> = Key(a))
      BY <1>4, <2>1 DEF OrderInv, Key
    <3> QED
      BY <2>1, <3>1 DEF OrderInv
  <2>7. ASSUME Clean' PROVE Clean
    BY <1>1, <2>2, <2>7 DEF Clean, DirtyAt
  <2>8. ASSUME Clean'
        PROVE  \A v \in Versions : store'[<<v, settings'.store>>] \in {Absent, Current(v)'}
    <3> SUFFICES ASSUME NEW v \in Versions
                 PROVE  store'[<<v, settings.store>>] \in {Absent, Current(v)}
      BY <1>2 DEF Current
    <3>1. settings.store \in Busts
      BY DEF TypeInv, Settings
    <3>2. CASE store'[<<v, settings.store>>] = store[<<v, settings.store>>]
      BY <2>1, <2>7, <2>8, <3>2 DEF OrderInv
    <3>3. CASE pc[a] = "fill" /\ <<v, settings.store>> = Key(a)
               /\ store'[<<v, settings.store>>] = mine[a].answer
      BY <2>1, <2>7, <2>8, <3>3 DEF OrderInv, Key
    <3> QED
      BY <3>1, <3>2, <3>3
  <2>9. ASSUME Clean', NEW b \in Actors, pc'[b] = "fill", mine'[b].settings.store = settings'.store
        PROVE  mine'[b].answer = Current(mine'[b].version)
    BY <1>1, <1>2, <2>1, <2>7, <2>9 DEF OrderInv
  <2>10. \A b \in Actors : pc'[b] = "fill" /\ mine'[b].settings.store = settings'.store
                           /\ Clean' => mine'[b].answer = Current(mine[b].version)'
    BY <1>2, <2>9 DEF Current
  <2> QED
    BY <2>3, <2>4, <2>5, <2>6, <2>8, <2>10 DEF OrderInv
<1> QED
  BY <1>3, <1>6, <1>7, <1>8, <1>9

\* An admin writes releases, and has to count on.
LEMMA WriteStep ==
  ASSUME IInv, NEW a \in Admins, NEW l \in Busy, NEW m \in Memory, Move(a, l, m),
         pc[a] \in Busy \ {"bust_store"}, m.settings = mine[a].settings,
         DirtyAt(l, m), l # "fill",
         release' \in [Versions -> Rows], available \subseteq available', available' \subseteq Versions,
         \A v \in Versions : release[v].status # "absent" => release'[v].status # "absent",
         \A v \in Versions : release'[v].status \in Eligible => v \in available',
         Holds(a, l, m, release', available'),
         UNCHANGED <<settings, caches, orderly>>
  PROVE  IInv'
<1> USE DEF IInv
<1>1. a \in Actors /\ Admins \subseteq Actors
  BY DEF Actors
<1>2. /\ pc' \in [Actors -> {"idle"} \cup Busy \cup Ended] /\ mine' \in [Actors -> Memory]
      /\ pc'[a] = l /\ mine'[a] = m
      /\ \A b \in Actors \ {a} : pc'[b] = pc[b] /\ mine'[b] = mine[b]
  BY <1>1, MoveFacts
<1>3. settings' = settings /\ store' = store /\ resolved' = resolved /\ orderly' = orderly
  BY DEF caches
<1>4. TypeInv'
  BY <1>2, <1>3 DEF TypeInv
<1>5. /\ settings.store \in Nat /\ settings.resolver \in Nat
      /\ \A b \in Actors : mine[b].settings.store \in Nat /\ mine[b].settings.resolver \in Nat
  BY BustsFacts DEF TypeInv, Memory, Settings
<1>6. /\ Cardinality(Finished) \in Nat /\ Cardinality(Counted) \in Nat
      /\ Cardinality(Finished)' \in Nat /\ Cardinality(Counted)' \in Nat
      /\ Cardinality(Finished) <= Cardinality(Finished)'
      /\ Cardinality(Counted) <= Cardinality(Counted)'
  BY <1>1, <1>2, CountFacts
<1>7. CountInv'
  <2>1. \A b \in Actors : mine'[b].settings = mine[b].settings
    BY <1>2
  <2>2. \A b \in Actors : mine'[b].settings.store <= Cardinality(Finished)'
                          /\ mine'[b].settings.resolver <= Cardinality(Counted)'
    BY <1>5, <1>6, <2>1 DEF CountInv
  <2>3. settings'.store <= Cardinality(Finished)' /\ settings'.resolver <= Cardinality(Counted)'
    BY <1>3, <1>5, <1>6 DEF CountInv
  <2> QED
    BY <2>2, <2>3 DEF CountInv
<1>8. HoldsInv'
  BY <1>1, <1>2, OthersHold
<1>9. AvailableInv'
  BY <1>3 DEF AvailableInv
<1>10. OrderInv'
  <2> SUFFICES ASSUME orderly' PROVE OrderInv'
    BY DEF OrderInv
  <2>1. ~ Clean'
    BY <1>2 DEF Clean, DirtyAt
  <2>2. \A b, c \in Admins : pc'[b] \in Busy /\ pc'[c] \in Busy => b = c
    BY <1>1, <1>2, <1>3 DEF OrderInv
  <2>3. \A b \in Admins : pc'[b] \in Busy => mine'[b].settings = settings'
    BY <1>1, <1>2, <1>3 DEF OrderInv
  <2>4. \A b \in Actors : mine'[b].settings.store <= settings'.store
    BY <1>1, <1>2, <1>3 DEF OrderInv
  <2>5. \A v \in Versions, b \in Busts : b > settings'.store => store'[<<v, b>>] = Absent
    BY <1>3 DEF OrderInv
  <2> QED
    BY <2>1, <2>2, <2>3, <2>4, <2>5 DEF OrderInv
<1> QED
  BY <1>4, <1>7, <1>8, <1>9, <1>10

\* The default is set, or the counter of the resolver goes on.
LEMMA SettingsStep ==
  ASSUME IInv, NEW a \in Admins, NEW row \in Settings, NEW l \in Busy \cup {"done"},
         SaveSettings(a, row, l), pc[a] \in Busy \ {"bust_store"}, l # "fill",
         row.store = mine[a].settings.store,
         \/ row.resolver = mine[a].settings.resolver
         \/ row.resolver = mine[a].settings.resolver + 1 /\ l \in {"done", "bust_store"},
         row.default \in available \cup {Nothing},
         Holds(a, l, [mine[a] EXCEPT !.settings = row], release, available),
         DirtyAt(pc[a], mine[a]) => DirtyAt(l, [mine[a] EXCEPT !.settings = row]),
         UNCHANGED <<release, available, caches, orderly>>
  PROVE  IInv'
<1> USE DEF IInv
<1> DEFINE m == [mine[a] EXCEPT !.settings = row]
<1>1. a \in Actors /\ Admins \subseteq Actors
  BY DEF Actors
<1>2. m \in Memory /\ m.settings = row
  <2>1. mine[a] \in Memory
    BY <1>1 DEF TypeInv
  <2> QED
    BY <2>1 DEF Memory
<1>3. Move(a, l, m) /\ settings' = row
  BY DEF SaveSettings
<1>4. Holds(a, l, m, release, available) /\ (DirtyAt(pc[a], mine[a]) => DirtyAt(l, m))
  OBVIOUS
<1> HIDE DEF m
<1>5. /\ pc' \in [Actors -> {"idle"} \cup Busy \cup Ended] /\ mine' \in [Actors -> Memory]
      /\ pc'[a] = l /\ (l \in Busy => mine'[a] = m) /\ (l \in Ended => mine'[a] = Blank)
      /\ \A b \in Actors \ {a} : pc'[b] = pc[b] /\ mine'[b] = mine[b]
  BY <1>1, <1>2, <1>3, MoveFacts
<1>6. /\ release' = release /\ available' = available /\ store' = store /\ resolved' = resolved
      /\ orderly' = orderly
  BY DEF caches
<1>7. TypeInv'
  BY <1>3, <1>5, <1>6 DEF TypeInv
<1>8. /\ settings.store \in Nat /\ settings.resolver \in Nat /\ row.store \in Nat /\ row.resolver \in Nat
      /\ \A b \in Actors : mine[b].settings.store \in Nat /\ mine[b].settings.resolver \in Nat
  BY BustsFacts DEF TypeInv, Memory, Settings
<1>9. /\ Cardinality(Finished) \in Nat /\ Cardinality(Counted) \in Nat
      /\ Cardinality(Finished)' \in Nat /\ Cardinality(Counted)' \in Nat
      /\ Cardinality(Finished) <= Cardinality(Finished)'
      /\ Cardinality(Counted) <= Cardinality(Counted)'
      /\ l \in {"done", "bust_store"} => Cardinality(Counted)' = Cardinality(Counted) + 1
  BY <1>1, <1>5, CountFacts
<1>10. CountInv'
  <2>1. row.store <= Cardinality(Finished)' /\ row.resolver <= Cardinality(Counted)'
    BY <1>1, <1>8, <1>9 DEF CountInv
  <2>2. \A b \in Actors \ {a} : mine'[b].settings.store <= Cardinality(Finished)'
                                /\ mine'[b].settings.resolver <= Cardinality(Counted)'
    BY <1>5, <1>8, <1>9 DEF CountInv
  <2>3. mine'[a].settings.store <= Cardinality(Finished)'
        /\ mine'[a].settings.resolver <= Cardinality(Counted)'
    <3>1. CASE l \in Ended
      BY <1>5, <1>9, <3>1, BlankFacts
    <3>2. CASE l \in Busy
      BY <1>2, <1>5, <2>1, <3>2
    <3> QED
      BY <3>1, <3>2
  <2> QED
    BY <1>3, <2>1, <2>2, <2>3 DEF CountInv
<1>11. HoldsInv'
  <2>1. Holds(a, pc'[a], mine'[a], release', available')
    BY <1>4, <1>5, <1>6 DEF Holds
  <2> QED
    BY <1>1, <1>5, <1>6, <2>1, OthersHold
<1>12. AvailableInv'
  BY <1>3, <1>6 DEF AvailableInv
<1>13. OrderInv'
  <2> SUFFICES ASSUME orderly' PROVE OrderInv'
    BY DEF OrderInv
  <2>1. orderly /\ row.store = settings.store /\ settings'.store = settings.store
    BY <1>3, <1>6 DEF OrderInv
  <2>2. \A b, c \in Admins : pc'[b] \in Busy /\ pc'[c] \in Busy => b = c
    BY <1>1, <1>5, <2>1 DEF OrderInv
  <2>3. \A b \in Admins : pc'[b] \in Busy => mine'[b].settings = settings'
    BY <1>1, <1>2, <1>3, <1>5, <2>1 DEF OrderInv
  <2>4. \A b \in Actors : mine'[b].settings.store <= settings'.store
    BY <1>2, <1>5, <1>8, <2>1, BlankFacts DEF OrderInv
  <2>5. \A v \in Versions, b \in Busts : b > settings'.store => store'[<<v, b>>] = Absent
    BY <1>6, <2>1 DEF OrderInv
  <2>6. ASSUME Clean' PROVE Clean
    BY <1>1, <1>4, <1>5, <2>6 DEF Clean, DirtyAt
  <2>7. Clean' => \A v \in Versions : store'[<<v, settings'.store>>] \in {Absent, Current(v)'}
    BY <1>6, <2>1, <2>6 DEF OrderInv, Current
  <2>8. ASSUME Clean', NEW b \in Actors, pc'[b] = "fill", mine'[b].settings.store = settings'.store
        PROVE  mine'[b].answer = Current(mine[b].version)'
    <3>1. b # a
      BY <1>5, <2>8
    <3>2. mine[b].answer = Current(mine[b].version)
      BY <1>5, <2>1, <2>6, <2>8, <3>1 DEF OrderInv
    <3> QED
      BY <1>5, <1>6, <3>1, <3>2 DEF Current
  <2> QED
    BY <2>2, <2>3, <2>4, <2>5, <2>7, <2>8 DEF OrderInv
<1> QED
  BY <1>7, <1>10, <1>11, <1>12, <1>13

\* The counter of the store goes on: nothing is cached under it yet.
LEMMA BustStoreStep ==
  ASSUME IInv, NEW a \in Admins, BustStore(a)
  PROVE  IInv'
<1> USE DEF IInv
<1> DEFINE row == [mine[a].settings EXCEPT !.store = @ + 1]
           m == [mine[a] EXCEPT !.settings = row]
<1>1. a \in Actors /\ Admins \subseteq Actors /\ pc[a] = "bust_store"
  BY DEF Actors, BustStore
<1>2. mine[a] \in Memory /\ mine[a].settings \in Settings
  BY <1>1 DEF TypeInv, Memory
<1>3. /\ settings.store \in Nat /\ settings.resolver \in Nat
      /\ \A b \in Actors : mine[b].settings.store \in Nat /\ mine[b].settings.resolver \in Nat
  BY BustsFacts DEF TypeInv, Memory, Settings
<1>4. Move(a, "done", m) /\ settings' = row /\ pc' = [pc EXCEPT ![a] = "done"]
  BY DEF BustStore, SaveSettings, Move
<1>5. /\ release' = release /\ available' = available /\ store' = store /\ resolved' = resolved
      /\ orderly' = orderly
  BY DEF BustStore, releases, caches
<1>6. pc'[a] = "done" /\ \A b \in Actors \ {a} : pc'[b] = pc[b]
  BY <1>1, <1>4 DEF TypeInv
<1>7. /\ Cardinality(Finished) \in Nat /\ Cardinality(Counted) \in Nat
      /\ Cardinality(Finished)' \in Nat /\ Cardinality(Counted)' \in Nat
      /\ Cardinality(Counted) <= Cardinality(Counted)'
      /\ Cardinality(Finished)' = Cardinality(Finished) + 1
      /\ Cardinality(Finished)' <= Cardinality(Admins)
  BY <1>1, <1>6, CountFacts
<1>8. /\ row.store = mine[a].settings.store + 1 /\ row.resolver = mine[a].settings.resolver
      /\ row.default = mine[a].settings.default
  BY <1>2 DEF Settings
<1>9. row \in Settings
  <2>1. row.store <= Cardinality(Finished)'
    BY <1>1, <1>3, <1>7, <1>8 DEF CountInv
  <2>2. row.store \in Nat
    BY <1>1, <1>3, <1>8
  <2>3. row.store <= Cardinality(Admins)
    BY <1>7, <2>1, <2>2, BustsFacts
  <2>4. row.store \in Busts
    BY <2>2, <2>3, BustsFacts
  <2> QED
    BY <1>2, <1>8, <2>4 DEF Settings
<1> HIDE DEF row
<1>10. m \in Memory
  BY <1>2, <1>9 DEF Memory
<1> HIDE DEF m
<1>11. /\ pc' \in [Actors -> {"idle"} \cup Busy \cup Ended] /\ mine' \in [Actors -> Memory]
       /\ mine'[a] = Blank /\ \A b \in Actors \ {a} : mine'[b] = mine[b]
  BY <1>1, <1>4, <1>10, MoveFacts
<1>12. TypeInv'
  BY <1>4, <1>5, <1>9, <1>11 DEF TypeInv
<1>13. CountInv'
  <2>1. row.store <= Cardinality(Finished)' /\ row.resolver <= Cardinality(Counted)'
    BY <1>1, <1>3, <1>7, <1>8 DEF CountInv
  <2>2. \A b \in Actors \ {a} : mine'[b].settings.store <= Cardinality(Finished)'
                                /\ mine'[b].settings.resolver <= Cardinality(Counted)'
    BY <1>3, <1>7, <1>11 DEF CountInv
  <2>3. mine'[a].settings.store <= Cardinality(Finished)'
        /\ mine'[a].settings.resolver <= Cardinality(Counted)'
    BY <1>7, <1>11, BlankFacts
  <2> QED
    BY <1>4, <2>1, <2>2, <2>3 DEF CountInv
<1>14. HoldsInv'
  <2>1. Holds(a, pc'[a], mine'[a], release', available')
    BY <1>6 DEF Holds
  <2> QED
    BY <1>1, <1>5, <1>6, <1>11, <2>1, OthersHold
<1>15. AvailableInv'
  <2>1. row.default \in available \cup {Nothing}
    BY <1>1, <1>8 DEF HoldsInv, Holds
  <2> QED
    BY <1>4, <1>5, <2>1 DEF AvailableInv
<1>16. OrderInv'
  <2> SUFFICES ASSUME orderly' PROVE OrderInv'
    BY DEF OrderInv
  <2>1. orderly /\ row.store = settings.store + 1 /\ settings'.store = settings.store + 1
    BY <1>1, <1>4, <1>5, <1>8 DEF OrderInv
  <2>2. \A b \in Admins : pc'[b] \notin Busy
    BY <1>1, <1>6, <2>1 DEF OrderInv
  <2>3. \A b \in Actors : mine'[b].settings.store < settings'.store
    BY <1>3, <1>11, <2>1, BlankFacts DEF OrderInv
  <2>4. settings'.store \in Busts /\ settings'.store > settings.store
    BY <1>3, <1>4, <1>9, <2>1 DEF Settings
  <2>5. \A v \in Versions : store'[<<v, settings'.store>>] = Absent
    BY <1>5, <2>1, <2>4 DEF OrderInv
  <2>6. \A v \in Versions, b \in Busts : b > settings'.store => store'[<<v, b>>] = Absent
    BY <1>3, <1>5, <2>1, BustsFacts DEF OrderInv
  <2>7. \A b \in Actors : mine'[b].settings.store <= settings'.store /\ mine'[b].settings.store # settings'.store
    BY <1>3, <1>11, <2>1, BlankFacts DEF OrderInv
  <2> QED
    BY <2>2, <2>5, <2>6, <2>7 DEF OrderInv
<1> QED
  BY <1>12, <1>13, <1>14, <1>15, <1>16

\* An entry that is dropped.
LEMMA ExpireStep ==
  ASSUME IInv, store' \in [Versions \X Busts -> Cached], resolved' \in [Busts -> Cached],
         \A v \in Versions, b \in Busts : store'[<<v, b>>] \in {store[<<v, b>>], Absent},
         UNCHANGED <<releases, settings, pc, mine, orderly>>
  PROVE  IInv'
<1> USE DEF IInv
<1>1. /\ release' = release /\ available' = available /\ settings' = settings /\ pc' = pc /\ mine' = mine
      /\ orderly' = orderly
  BY DEF releases
<1>2. TypeInv' /\ CountInv' /\ HoldsInv'
  BY <1>1 DEF TypeInv, CountInv, Finished, Counted, HoldsInv
<1>3. AvailableInv'
  BY <1>1 DEF AvailableInv
<1>4. OrderInv'
  <2>1. settings.store \in Busts
    BY DEF TypeInv, Settings
  <2> QED
    BY <1>1, <2>1 DEF OrderInv, Clean, Current
<1> QED
  BY <1>2, <1>3, <1>4

LEMMA InitIInv == Init => IInv
<1> SUFFICES ASSUME Init PROVE IInv
  OBVIOUS
<1>1. /\ settings \in Settings /\ settings.store = 0 /\ settings.resolver = 0
      /\ settings.default = First
  BY BustsFacts, ConstantsAssumption DEF Init, Settings, Blank
<1>2. release \in [Versions -> Rows]
  BY DEF Init, Rows, Payloads
<1>3. TypeInv
  BY <1>1, <1>2, BlankFacts, ConstantsAssumption DEF Init, TypeInv, Cached
<1>4. CountInv
  <2>1. Finished = {} /\ Counted = {}
    BY DEF Init, Finished, Counted, Actors
  <2> QED
    BY <1>1, <2>1, BlankFacts, FS_EmptySet DEF Init, CountInv
<1>5. HoldsInv
  BY DEF Init, HoldsInv, Holds
<1>6. AvailableInv
  <2>1. /\ available = {v \in Versions : Current(v) # Nothing} /\ settings.default = First
        /\ \A v \in Versions, b \in Busts : store[<<v, b>>] = Absent
        /\ release[First] = [status |-> "published", payload |-> Original]
        /\ \A v \in Versions \ {First} : release[v].status \in {"absent", "draft"}
    BY <1>1, ConstantsAssumption DEF Init
  <2>2. First \in available
    BY <2>1, ConstantsAssumption DEF Current
  <2>3. \A v \in Versions : release[v].status = "absent" /\ Registry[v] # Nothing => v \in available
    BY <2>1, ConstantsAssumption DEF Current
  <2>4. \A v \in Versions : release[v].status \in Eligible => v \in available
    BY <2>1, <2>2
  <2> QED
    BY <2>1, <2>2, <2>3, <2>4 DEF AvailableInv
<1>7. OrderInv
  <2>1. \A v \in Versions, b \in Busts : store[<<v, b>>] = Absent
    BY DEF Init
  <2>2. \A a \in Actors : pc[a] = "idle" /\ mine[a] = Blank
    BY DEF Init
  <2> QED
    BY <1>1, <2>1, <2>2, BlankFacts, BustsFacts DEF OrderInv, Actors
<1> QED
  BY <1>3, <1>4, <1>5, <1>6, <1>7 DEF IInv

\* What is known of the one who acts.
LEMMA ActorFacts ==
  ASSUME IInv, NEW a \in Actors, pc[a] \in Busy
  PROVE  /\ mine[a] \in Memory /\ mine[a].settings \in Settings
         /\ Holds(a, pc[a], mine[a], release, available)
         /\ \A v \in Versions : /\ release[v] \in Rows
                                /\ release[v].status \in Statuses \cup {"absent"}
         /\ orderly /\ a \in Admins =>
              mine[a].settings = settings /\ \A b \in Admins \ {a} : pc[b] \notin Busy
BY DEF IInv, TypeInv, HoldsInv, OrderInv, Rows, Memory

\* A step that changes only what the actor holds.
LEMMA QuietMove ==
  ASSUME IInv, NEW a \in Actors, NEW l \in Busy \cup Ended, NEW m \in Memory, Move(a, l, m),
         pc[a] \in Busy \ {"bust_store"}, m.settings = mine[a].settings,
         UNCHANGED <<releases, settings, caches, orderly>>,
         Holds(a, l, m, release, available),
         a \in Admins /\ DirtyAt(pc[a], mine[a]) => DirtyAt(l, m),
         l = "fill" => m.answer = Current(m.version)
  PROVE  IInv'
<1>1. /\ release' = release /\ available' = available /\ settings' = settings /\ store' = store
      /\ resolved' = resolved /\ orderly' = orderly
  BY DEF releases, caches
<1>2. TypeInv
  BY DEF IInv
<1> QED
  BY <1>1, <1>2, ActorFacts, QuietStep DEF TypeInv

LEMMA ArriveAdminStep ==
  ASSUME IInv, NEW a \in Admins, ArriveAdmin(a)
  PROVE  IInv'
<1>1. PICK op \in AdminOps, v \in Versions, w \in Versions :
        /\ op # "rollback" => w = v
        /\ Move(a, IF op = "default" THEN "fetch" ELSE op,
                [Blank EXCEPT !.op = op, !.version = v, !.to = w, !.settings = settings])
  BY DEF ArriveAdmin
<1> DEFINE l == IF op = "default" THEN "fetch" ELSE op
           m == [Blank EXCEPT !.op = op, !.version = v, !.to = w, !.settings = settings]
<1>2. /\ pc[a] = "idle" /\ orderly' = (orderly /\ \A b \in Admins \ {a} : pc[b] \notin Busy)
      /\ release' = release /\ available' = available /\ settings' = settings
      /\ store' = store /\ resolved' = resolved
  BY DEF ArriveAdmin, releases, caches
<1>3. a \in Actors /\ TypeInv /\ settings \in Settings
  BY DEF IInv, TypeInv, Actors
<1>4. /\ m \in Memory /\ m.settings = settings /\ m.op = op /\ m.version = v /\ m.to = w
      /\ (\A u \in Versions : m.loaded[u] = "absent") /\ m.others = {}
  BY <1>3, BlankFacts DEF Memory, Blank
<1>5. l \in Busy /\ Move(a, l, m)
      /\ (l = "fetch" => op = "default") /\ (l # "fetch" => op = l) /\ l \notin {"resolve", "fill", "set"}
      /\ l \notin {"scan", "clearing", "write", "target", "read"} 
  BY <1>1
<1> HIDE DEF l, m
<1>6. settings.default \in available \cup {Nothing}
  BY DEF IInv, AvailableInv
<1>7. Holds(a, l, m, release, available)
  BY <1>1, <1>4, <1>5, <1>6 DEF Holds
<1>8. ~ DirtyAt(pc[a], mine[a])
  BY <1>2 DEF DirtyAt
<1> QED
  BY <1>2, <1>3, <1>4, <1>5, <1>7, <1>8, QuietStep DEF TypeInv

LEMMA ArriveReaderStep ==
  ASSUME IInv, NEW r \in Readers, ArriveReader(r)
  PROVE  IInv'
<1>1. PICK l \in {"resolve", "fetch"}, v \in Versions \cup {Nothing} :
        /\ l = "fetch" => v \in Versions
        /\ Move(r, l, [Blank EXCEPT !.op = l, !.version = v, !.settings = settings])
  BY DEF ArriveReader, IInv, TypeInv, Settings
<1> DEFINE m == [Blank EXCEPT !.op = l, !.version = v, !.settings = settings]
<1>2. /\ pc[r] = "idle" /\ orderly' = orderly
      /\ release' = release /\ available' = available /\ settings' = settings
      /\ store' = store /\ resolved' = resolved
  BY DEF ArriveReader, releases, caches
<1>3. r \in Actors /\ r \notin Admins /\ TypeInv /\ settings \in Settings
  BY ConstantsAssumption DEF IInv, TypeInv, Actors
<1>4. /\ m \in Memory /\ m.settings = settings /\ m.op = l /\ m.version = v
      /\ (\A u \in Versions : m.loaded[u] = "absent") /\ m.others = {} /\ m.answer = Nothing
  BY <1>3, BlankFacts DEF Memory, Blank
<1> HIDE DEF m
<1>5. settings.default \in available \cup {Nothing}
  BY DEF IInv, AvailableInv
<1>6. Holds(r, l, m, release, available)
  BY <1>1, <1>3, <1>4, <1>5 DEF Holds
<1>7. Move(r, l, m)
  BY <1>1 DEF m
<1> QED
  BY <1>2, <1>3, <1>4, <1>6, <1>7, QuietStep DEF TypeInv

\* What is loaded of the releases is true of them.
LEMMA LoadFacts ==
  ASSUME IInv, NEW a \in Admins, pc[a] \in Busy
  PROVE  /\ [mine[a] EXCEPT !.loaded = AsStored(a)] \in Memory
         /\ \A v \in Versions :
              /\ AsStored(a)[v] # "absent" => release[v].status # "absent"
              /\ AsStored(a)[v] \in Eligible => v \in available
<1>1. a \in Actors
  BY DEF Actors
<1>2. mine[a] \in Memory /\ \A v \in Versions : release[v].status \in Statuses \cup {"absent"}
  BY <1>1, ActorFacts
<1>3. AsStored(a) \in [Versions -> Statuses \cup {"absent"}]
  BY <1>2 DEF AsStored
<1>4. \A v \in Versions : AsStored(a)[v] \in {release[v].status, "absent"}
  BY DEF AsStored
<1> QED
  BY <1>2, <1>3, <1>4 DEF Memory, IInv, AvailableInv

LEMMA LoadStep ==
  ASSUME IInv, NEW a \in Admins, LoadRelease(a) \/ LoadImport(a)
  PROVE  IInv'
<1> DEFINE m == [mine[a] EXCEPT !.loaded = AsStored(a)]
<1>1. a \in Actors /\ pc[a] \in Changes \cup {"import"} /\ UNCHANGED <<releases, settings, caches, orderly>>
  BY DEF Actors, LoadRelease, LoadImport
<1>2. mine[a] \in Memory /\ Holds(a, pc[a], mine[a], release, available)
  BY <1>1, ActorFacts
<1>3. PICK l \in {"failed", "scan", "write", "save"} :
        /\ Move(a, l, m) /\ (l = "scan" <=> (pc[a] = "publish" /\ l # "failed"))
        /\ l \in {"scan", "write"} => release[mine[a].version].status # "absent"
                                      /\ release[mine[a].to].status # "absent"
  BY <1>1 DEF LoadRelease, LoadImport
<1>4. /\ m \in Memory /\ m.settings = mine[a].settings /\ m.op = mine[a].op
      /\ m.version = mine[a].version /\ m.to = mine[a].to /\ m.loaded = AsStored(a)
      /\ m.others = mine[a].others
  BY <1>1, <1>2, LoadFacts DEF Memory
<1>5. mine[a].version \in Versions /\ mine[a].to \in Versions
  BY <1>1, <1>2 DEF Holds
<1>6. /\ AsStored(a)[mine[a].version] = release[mine[a].version].status
      /\ AsStored(a)[mine[a].to] = release[mine[a].to].status
  BY <1>5 DEF AsStored
<1> HIDE DEF m
<1>7. \A v \in Versions : /\ m.loaded[v] # "absent" => release[v].status # "absent"
                          /\ m.loaded[v] \in Eligible => v \in available
  BY <1>1, <1>4, LoadFacts
<1>8. Holds(a, l, m, release, available)
  BY <1>1, <1>2, <1>3, <1>4, <1>5, <1>6, <1>7 DEF Holds
<1>9. ~ DirtyAt(pc[a], mine[a])
  BY <1>1 DEF DirtyAt
<1> QED
  BY <1>1, <1>3, <1>4, <1>8, <1>9, QuietMove

LEMMA ScanStep ==
  ASSUME IInv, NEW a \in Admins, Scan(a)
  PROVE  IInv'
<1> DEFINE others == {v \in Versions \ {mine[a].version} : release[v].status = "published"}
           m == [mine[a] EXCEPT !.others = others]
<1>1. a \in Actors /\ pc[a] = "scan" /\ UNCHANGED <<releases, settings, caches, orderly>>
      /\ Move(a, "clearing", m)
  BY DEF Actors, Scan
<1>2. mine[a] \in Memory /\ Holds(a, pc[a], mine[a], release, available)
  BY <1>1, ActorFacts
<1>3. /\ m \in Memory /\ m.settings = mine[a].settings /\ m.op = mine[a].op
      /\ m.version = mine[a].version /\ m.to = mine[a].to /\ m.loaded = mine[a].loaded
      /\ \A v \in m.others : v \in Versions /\ release[v].status # "absent"
  BY <1>2 DEF Memory
<1> HIDE DEF m
<1>4. Holds(a, "clearing", m, release, available)
  BY <1>1, <1>2, <1>3 DEF Holds
<1> QED
  BY <1>1, <1>3, <1>4, QuietMove DEF DirtyAt

\* A release that exists is given a status.
LEMMA ReleaseFacts ==
  ASSUME IInv, NEW v \in Versions, NEW s \in Statuses, release[v].status # "absent", Release(v, s)
  PROVE  /\ release' \in [Versions -> Rows]
         /\ available \subseteq available' /\ available' \subseteq Versions
         /\ \A u \in Versions : release[u].status # "absent" => release'[u].status # "absent"
         /\ \A u \in Versions : release'[u].status \in Eligible => u \in available'
         /\ s \in Eligible => v \in available'
<1>1. release \in [Versions -> Rows] /\ available \subseteq Versions
      /\ \A u \in Versions : release[u].status \in Eligible => u \in available
  BY DEF IInv, TypeInv, AvailableInv
<1>2. [release[v] EXCEPT !.status = s] \in Rows /\ [release[v] EXCEPT !.status = s].status = s
  BY <1>1 DEF Rows
<1>3. release' = [release EXCEPT ![v] = [release[v] EXCEPT !.status = s]]
  BY <1>1 DEF Release
<1>4. /\ release' \in [Versions -> Rows] /\ release'[v].status = s
      /\ \A u \in Versions \ {v} : release'[u] = release[u]
  BY <1>1, <1>2, <1>3
<1>5. available' = IF s \in Eligible THEN available \cup {v} ELSE available
  BY DEF Release
<1> QED
  BY <1>1, <1>4, <1>5

LEMMA SetStatusFacts ==
  ASSUME IInv, NEW a \in Admins, pc[a] \in Busy, NEW v \in Versions, NEW s \in Statuses,
         mine[a].loaded[v] # "absent", SetStatus(a, v, s)
  PROVE  /\ release' \in [Versions -> Rows]
         /\ available \subseteq available' /\ available' \subseteq Versions
         /\ \A u \in Versions : release[u].status # "absent" => release'[u].status # "absent"
         /\ \A u \in Versions : release'[u].status \in Eligible => u \in available'
         /\ s \in Eligible => v \in available'
<1>1. a \in Actors /\ Holds(a, pc[a], mine[a], release, available)
  BY ActorFacts DEF Actors
<1>2. release[v].status # "absent" /\ (mine[a].loaded[v] \in Eligible => v \in available)
  BY <1>1 DEF Holds
<1>3. CASE s = mine[a].loaded[v]
  <2>1. release' = release /\ available' = available
    BY <1>3 DEF SetStatus, releases
  <2> QED
    BY <1>2, <1>3, <2>1 DEF IInv, TypeInv, AvailableInv
<1>4. CASE s # mine[a].loaded[v]
  BY <1>2, <1>4, ReleaseFacts DEF SetStatus
<1> QED
  BY <1>3, <1>4

LEMMA DeprecateStep ==
  ASSUME IInv, NEW a \in Admins, DeprecateOther(a)
  PROVE  IInv'
<1>1. PICK v \in mine[a].others :
        Release(v, "deprecated") /\ Move(a, "clearing", [mine[a] EXCEPT !.others = @ \ {v}])
  BY DEF DeprecateOther
<1> DEFINE m == [mine[a] EXCEPT !.others = @ \ {v}]
<1>2. a \in Actors /\ pc[a] = "clearing" /\ UNCHANGED <<settings, caches, orderly>>
  BY DEF Actors, DeprecateOther
<1>3. mine[a] \in Memory /\ Holds(a, pc[a], mine[a], release, available)
  BY <1>2, ActorFacts
<1>4. /\ m \in Memory /\ m.settings = mine[a].settings /\ m.op = mine[a].op
      /\ m.version = mine[a].version /\ m.to = mine[a].to /\ m.loaded = mine[a].loaded
      /\ m.others \subseteq mine[a].others
  BY <1>3 DEF Memory
<1>5. Move(a, "clearing", m)
  BY <1>1
<1> HIDE DEF m
<1>6. v \in Versions /\ release[v].status # "absent"
  BY <1>1, <1>2, <1>3 DEF Holds
<1>7. /\ release' \in [Versions -> Rows]
      /\ available \subseteq available' /\ available' \subseteq Versions
      /\ \A u \in Versions : release[u].status # "absent" => release'[u].status # "absent"
      /\ \A u \in Versions : release'[u].status \in Eligible => u \in available'
  BY <1>1, <1>6, ReleaseFacts
<1>8. Holds(a, "clearing", m, release', available')
  BY <1>2, <1>3, <1>4, <1>7 DEF Holds
<1> QED
  BY <1>2, <1>4, <1>5, <1>7, <1>8, WriteStep DEF DirtyAt

LEMMA StatusStep ==
  ASSUME IInv, NEW a \in Admins, Publish(a) \/ Write(a) \/ RestoreTarget(a)
  PROVE  IInv'
<1>1. a \in Actors /\ pc[a] \in {"clearing", "write", "target"} /\ UNCHANGED <<settings, caches, orderly>>
  BY DEF Actors, Publish, Write, RestoreTarget
<1>2. mine[a] \in Memory /\ Holds(a, pc[a], mine[a], release, available)
  BY <1>1, ActorFacts
<1>3. PICK v \in {mine[a].version, mine[a].to}, s \in Statuses, l \in {"set", "bust_resolver", "target"} :
        /\ SetStatus(a, v, s) /\ Move(a, l, mine[a])
        /\ mine[a].loaded[v] # "absent"
        /\ l = "set" => v = mine[a].to /\ s = "published"
        /\ l \in {"set", "bust_resolver"} => mine[a].op # "default"
        /\ l = "target" => mine[a].op = "rollback" /\ mine[a].loaded[mine[a].to] # "absent"
  <2>1. CASE Publish(a)
    <3>1. /\ SetStatus(a, mine[a].version, "published") /\ Move(a, "set", mine[a])
          /\ mine[a].op = "publish" /\ mine[a].to = mine[a].version
          /\ mine[a].loaded[mine[a].version] # "absent"
      BY <1>2, <2>1 DEF Publish, GoTo, Holds
    <3> QED
      BY <3>1
  <2>2. CASE RestoreTarget(a)
    <3>1. /\ SetStatus(a, mine[a].to, "published") /\ Move(a, "set", mine[a])
          /\ mine[a].op = "rollback" /\ mine[a].loaded[mine[a].to] # "absent"
      BY <1>2, <2>2 DEF RestoreTarget, GoTo, Holds
    <3> QED
      BY <3>1
  <2>3. CASE Write(a)
    <3>1. /\ mine[a].loaded[mine[a].version] # "absent"
          /\ mine[a].loaded[mine[a].to] # "absent"
      BY <1>2, <2>3 DEF Write, Holds
    <3>2. PICK s \in {"deprecated", "frozen", "rolled_back"}, l \in {"bust_resolver", "target"} :
            /\ SetStatus(a, mine[a].version, s) /\ Move(a, l, mine[a])
            /\ mine[a].op # "default" /\ (l = "target" => mine[a].op = "rollback")
      BY <2>3 DEF Write, GoTo
    <3> QED
      BY <3>1, <3>2
  <2> QED
    BY <2>1, <2>2, <2>3
<1>4. v \in Versions
  BY <1>1, <1>2, <1>3 DEF Holds
<1>5. /\ release' \in [Versions -> Rows]
      /\ available \subseteq available' /\ available' \subseteq Versions
      /\ \A u \in Versions : release[u].status # "absent" => release'[u].status # "absent"
      /\ \A u \in Versions : release'[u].status \in Eligible => u \in available'
      /\ s \in Eligible => v \in available'
  BY <1>1, <1>3, <1>4, SetStatusFacts
<1>6. Holds(a, l, mine[a], release', available')
  BY <1>1, <1>2, <1>3, <1>5 DEF Holds
<1> QED
  BY <1>1, <1>2, <1>3, <1>5, <1>6, WriteStep DEF DirtyAt

\* A row with both its fields written.
LEMMA WholeRow ==
  ASSUME NEW row \in Rows, NEW p, NEW s
  PROVE  [row EXCEPT !.payload = p, !.status = s] = [status |-> s, payload |-> p]
<1> DEFINE paid == [row EXCEPT !.payload = p]
<1>1. paid = [status |-> row.status, payload |-> p]
  BY DEF Rows
<1> HIDE DEF paid
<1>2. [paid EXCEPT !.status = s] = [status |-> s, payload |-> p]
  BY <1>1
<1> QED
  BY <1>2 DEF paid

LEMMA SaveImportStep ==
  ASSUME IInv, NEW a \in Admins, SaveImport(a)
  PROVE  IInv'
<1> DEFINE v == mine[a].version
           new == mine[a].loaded[v] = "absent"
<1>1. a \in Actors /\ pc[a] = "save" /\ UNCHANGED <<available, settings, caches, orderly>>
  BY DEF Actors, SaveImport
<1>2. mine[a] \in Memory /\ Holds(a, pc[a], mine[a], release, available)
  BY <1>1, ActorFacts
<1>3. v \in Versions /\ (~ new => release[v].status # "absent")
  BY <1>1, <1>2 DEF Holds
<1>4. CASE new /\ release[v].status # "absent"
  <2>1. Move(a, "failed", mine[a]) /\ release' = release
    BY <1>4 DEF SaveImport, GoTo
  <2>2. Holds(a, "failed", mine[a], release, available) /\ ~ DirtyAt(pc[a], mine[a])
    BY <1>1 DEF Holds, DirtyAt
  <2> QED
    BY <1>1, <1>2, <2>1, <2>2, QuietMove DEF releases
<1>5. CASE ~ (new /\ release[v].status # "absent")
  <2>1. /\ Move(a, "bust_store", mine[a])
        /\ release' = [release EXCEPT ![v].payload = a,
                                      ![v].status = IF new THEN "draft" ELSE @]
    BY <1>5 DEF SaveImport, GoTo
  <2> DEFINE x == [release[v] EXCEPT !.payload = a, !.status = IF new THEN "draft" ELSE @]
  <2>2. release \in [Versions -> Rows] /\ \A u \in Versions : release[u].status \in Eligible => u \in available
    BY DEF IInv, TypeInv, AvailableInv
  <2>3. release' = [release EXCEPT ![v] = x]
    BY <1>3, <2>1, <2>2
  <2>4. /\ x \in Rows /\ x.status # "absent"
        /\ x.status \in Eligible => release[v].status \in Eligible
    <3>1. release[v] \in Rows
      BY <1>3, <2>2
    <3>2. a \in Payloads
      BY DEF Payloads
    <3>3. CASE new
      <4>1. x = [status |-> "draft", payload |-> a]
        BY <3>1, <3>3, WholeRow
      <4> QED
        BY <3>2, <4>1 DEF Rows
    <3>4. CASE ~ new
      <4>1. release[v].status \in Statuses
        BY <1>3, <3>1, <3>4 DEF Rows
      <4>2. x = [status |-> release[v].status, payload |-> a]
        BY <3>1, <3>4, WholeRow
      <4> QED
        BY <3>2, <4>1, <4>2 DEF Rows
    <3> QED
      BY <3>3, <3>4
  <2> HIDE DEF x
  <2>5. /\ release' \in [Versions -> Rows] /\ release'[v] = x
        /\ \A u \in Versions \ {v} : release'[u] = release[u]
    BY <1>3, <2>2, <2>3, <2>4
  <2>6. /\ \A u \in Versions : release[u].status # "absent" => release'[u].status # "absent"
        /\ \A u \in Versions : release'[u].status \in Eligible => u \in available
    BY <2>2, <2>4, <2>5
  <2>7. available' = available /\ available \subseteq Versions
    BY <1>1 DEF IInv, TypeInv
  <2>8. Holds(a, "bust_store", mine[a], release', available')
    BY <1>1, <1>2, <2>6, <2>7 DEF Holds
  <2> QED
    BY <1>1, <1>2, <2>1, <2>5, <2>6, <2>7, <2>8, WriteStep DEF DirtyAt
<1> QED
  BY <1>4, <1>5

LEMMA SetDefaultStep ==
  ASSUME IInv, NEW a \in Admins, SetDefault(a)
  PROVE  IInv'
<1>1. a \in Actors /\ pc[a] = "set" /\ UNCHANGED <<releases, caches, orderly>>
  BY DEF Actors, SetDefault
<1>2. /\ mine[a] \in Memory /\ mine[a].settings \in Settings
      /\ Holds(a, pc[a], mine[a], release, available)
  BY <1>1, ActorFacts
<1>3. mine[a].to \in Versions /\ mine[a].to \in available
  BY <1>1, <1>2 DEF Holds
<1>4. CASE mine[a].settings.default = mine[a].to
  <2>1. Move(a, "bust_resolver", mine[a]) /\ settings' = settings
    BY <1>4 DEF SetDefault, GoTo
  <2>2. Holds(a, "bust_resolver", mine[a], release, available)
    BY <1>1, <1>2 DEF Holds
  <2> QED
    BY <1>1, <1>2, <2>1, <2>2, QuietMove DEF DirtyAt
<1>5. CASE mine[a].settings.default # mine[a].to
  <2> DEFINE row == [mine[a].settings EXCEPT !.default = mine[a].to]
             m == [mine[a] EXCEPT !.settings = row]
  <2>1. SaveSettings(a, row, "bust_resolver")
    BY <1>5 DEF SetDefault
  <2>2. /\ row \in Settings /\ row.default = mine[a].to
        /\ row.store = mine[a].settings.store /\ row.resolver = mine[a].settings.resolver
    BY <1>2, <1>3 DEF Settings
  <2> HIDE DEF row
  <2>3. /\ m.settings = row /\ m.op = mine[a].op /\ m.version = mine[a].version
        /\ m.to = mine[a].to /\ m.loaded = mine[a].loaded /\ m.others = mine[a].others
    BY <1>2 DEF Memory
  <2> HIDE DEF m
  <2>4. Holds(a, "bust_resolver", m, release, available)
    BY <1>1, <1>2, <1>3, <2>2, <2>3 DEF Holds
  <2>5. DirtyAt(pc[a], mine[a]) => DirtyAt("bust_resolver", m)
    BY <1>1, <2>3 DEF DirtyAt
  <2>6. UNCHANGED <<release, available, caches, orderly>>
    BY <1>1 DEF releases
  <2> QED
    BY <1>1, <1>3, <2>1, <2>2, <2>4, <2>5, <2>6, SettingsStep DEF m
<1> QED
  BY <1>4, <1>5

LEMMA BustResolverStep ==
  ASSUME IInv, NEW a \in Admins, BustResolver(a)
  PROVE  IInv'
<1> DEFINE row == [mine[a].settings EXCEPT !.resolver = @ + 1]
           m == [mine[a] EXCEPT !.settings = row]
           l == IF mine[a].op = "default" THEN "done" ELSE "bust_store"
<1>1. a \in Actors /\ pc[a] = "bust_resolver" /\ UNCHANGED <<releases, caches, orderly>>
      /\ SaveSettings(a, row, l)
  BY DEF Actors, BustResolver
<1>2. /\ mine[a] \in Memory /\ mine[a].settings \in Settings
      /\ Holds(a, pc[a], mine[a], release, available)
  BY <1>1, ActorFacts
<1>3. l \in {"done", "bust_store"} /\ (l = "done" => mine[a].op = "default")
  OBVIOUS
<1> HIDE DEF l
<1>4. pc'[a] = l /\ \A b \in Actors \ {a} : pc'[b] = pc[b]
  BY <1>1 DEF SaveSettings, Move, IInv, TypeInv
<1>5. /\ Cardinality(Counted) \in Nat /\ Cardinality(Counted)' = Cardinality(Counted) + 1
      /\ Cardinality(Counted)' <= Cardinality(Admins)
  BY <1>1, <1>3, <1>4, CountFacts DEF IInv
<1>6. mine[a].settings.resolver \in Nat /\ mine[a].settings.resolver <= Cardinality(Counted)
  BY <1>1, <1>2, BustsFacts DEF IInv, CountInv, Settings
<1>7. mine[a].settings.resolver + 1 \in Busts
  BY <1>5, <1>6, BustsFacts
<1>8. /\ row \in Settings /\ row.default = mine[a].settings.default
      /\ row.store = mine[a].settings.store /\ row.resolver = mine[a].settings.resolver + 1
  BY <1>2, <1>7 DEF Settings
<1> HIDE DEF row
<1>9. /\ m.settings = row /\ m.op = mine[a].op /\ m.version = mine[a].version
      /\ m.to = mine[a].to /\ m.loaded = mine[a].loaded /\ m.others = mine[a].others
  BY <1>2 DEF Memory
<1>10. row.default \in available \cup {Nothing}
  BY <1>1, <1>2, <1>8 DEF Holds
<1> HIDE DEF m
<1>11. Holds(a, l, m, release, available)
  BY <1>1, <1>2, <1>3, <1>9, <1>10 DEF Holds
<1>12. DirtyAt(pc[a], mine[a]) => DirtyAt(l, m)
  BY <1>1, <1>3, <1>9 DEF DirtyAt
<1>13. UNCHANGED <<release, available, caches, orderly>>
  BY <1>1 DEF releases
<1> QED
  BY <1>1, <1>3, <1>8, <1>10, <1>11, <1>12, <1>13, SettingsStep DEF m

\* The answer of a fetch, from the cache or from the releases.
LEMMA AnsweredFacts ==
  ASSUME IInv, NEW a \in Actors, pc[a] \in {"fetch", "fill"}, NEW got \in Packs \cup {Nothing},
         Answered(a, got), got # Nothing => mine[a].version \in available
  PROVE  \E l \in {"remember", "done", "set", "failed"}, m \in Memory :
           /\ Move(a, l, m) /\ Holds(a, l, m, release, available)
           /\ m.settings = mine[a].settings
<1> DEFINE m == [mine[a] EXCEPT !.answer = got]
<1>1. mine[a] \in Memory /\ Holds(a, pc[a], mine[a], release, available)
  BY ActorFacts
<1>2. /\ m \in Memory /\ m.settings = mine[a].settings /\ m.op = mine[a].op
      /\ m.version = mine[a].version /\ m.to = mine[a].to /\ m.loaded = mine[a].loaded
      /\ m.others = mine[a].others
  BY <1>1 DEF Memory
<1>3. mine[a].op \in {"resolve", "fetch", "default"}
      /\ (mine[a].op = "default" => mine[a].to = mine[a].version)
  BY <1>1 DEF Holds
<1>4. PICK l \in {"remember", "done", "set", "failed"} :
        /\ Move(a, l, m) /\ (l = "set" => mine[a].op = "default" /\ got # Nothing)
        /\ l = "remember" => mine[a].op = "resolve"
  BY <1>3 DEF Answered, Accepted
<1> HIDE DEF m
<1>5. Holds(a, l, m, release, available)
  BY <1>1, <1>2, <1>3, <1>4 DEF Holds
<1> QED
  BY <1>2, <1>4, <1>5

LEMMA ResolveStep ==
  ASSUME IInv, NEW a \in Actors, Resolve(a)
  PROVE  IInv'
<1>1. pc[a] = "resolve" /\ UNCHANGED <<releases, settings, caches, orderly>>
  BY DEF Resolve
<1>2. mine[a] \in Memory /\ Holds(a, pc[a], mine[a], release, available)
  BY <1>1, ActorFacts
<1>3. PICK l \in {"done", "remember", "fetch"} :
        Move(a, l, mine[a]) /\ (l = "fetch" => mine[a].version # Nothing)
  BY DEF Resolve, GoTo
<1>4. Holds(a, l, mine[a], release, available)
  BY <1>1, <1>2, <1>3 DEF Holds, Memory
<1> QED
  BY <1>1, <1>2, <1>3, <1>4, QuietMove DEF DirtyAt

LEMMA FetchStep ==
  ASSUME IInv, NEW a \in Actors, Fetch(a)
  PROVE  IInv'
<1>1. pc[a] = "fetch" /\ UNCHANGED <<releases, settings, caches, orderly>>
  BY DEF Fetch
<1>2. /\ mine[a] \in Memory /\ mine[a].settings \in Settings
      /\ Holds(a, pc[a], mine[a], release, available)
  BY <1>1, ActorFacts
<1>3. mine[a].version \in Versions /\ mine[a].settings.store \in Busts
  BY <1>1, <1>2 DEF Holds, Settings
<1>4. CASE store[Key(a)] = Absent
  <2>1. Move(a, "read", mine[a])
    BY <1>4 DEF Fetch, GoTo
  <2>2. Holds(a, "read", mine[a], release, available)
    BY <1>1, <1>2 DEF Holds
  <2> QED
    BY <1>1, <1>2, <2>1, <2>2, QuietMove DEF DirtyAt
<1>5. CASE store[Key(a)] # Absent
  <2>1. Answered(a, store[Key(a)])
    BY <1>5 DEF Fetch
  <2>2. store[Key(a)] \in Packs \cup {Nothing}
        /\ (store[Key(a)] # Nothing => mine[a].version \in available)
    BY <1>3, <1>5 DEF Key, IInv, TypeInv, AvailableInv, Cached
  <2>3. PICK l \in {"remember", "done", "set", "failed"}, m \in Memory :
          /\ Move(a, l, m) /\ Holds(a, l, m, release, available)
          /\ m.settings = mine[a].settings
    BY <1>1, <2>1, <2>2, AnsweredFacts
  <2> QED
    BY <1>1, <2>3, QuietMove DEF DirtyAt
<1> QED
  BY <1>4, <1>5

LEMMA ReadStep ==
  ASSUME IInv, NEW a \in Actors, Read(a)
  PROVE  IInv'
<1> DEFINE got == Current(mine[a].version)
           m == [mine[a] EXCEPT !.answer = got]
<1>1. pc[a] = "read" /\ UNCHANGED <<releases, settings, caches, orderly>> /\ Move(a, "fill", m)
  BY DEF Read
<1>2. /\ mine[a] \in Memory /\ Holds(a, pc[a], mine[a], release, available)
      /\ \A v \in Versions : release[v] \in Rows
  BY <1>1, ActorFacts
<1>3. mine[a].version \in Versions
  BY <1>1, <1>2 DEF Holds
<1>4. got \in Packs \cup {Nothing} /\ (got # Nothing => mine[a].version \in available)
  BY <1>2, <1>3, ConstantsAssumption DEF Current, Rows, Packs, IInv, AvailableInv
<1>5. /\ m \in Memory /\ m.settings = mine[a].settings /\ m.op = mine[a].op
      /\ m.version = mine[a].version /\ m.to = mine[a].to /\ m.loaded = mine[a].loaded
      /\ m.others = mine[a].others /\ m.answer = got
  BY <1>2, <1>4 DEF Memory
<1>6. m.answer = Current(m.version)
  BY <1>5
<1> HIDE DEF m, got
<1>7. Holds(a, "fill", m, release, available)
  BY <1>1, <1>2, <1>4, <1>5 DEF Holds
<1> QED
  BY <1>1, <1>5, <1>6, <1>7, QuietMove DEF DirtyAt

LEMMA FillStep ==
  ASSUME IInv, NEW a \in Actors, Fill(a)
  PROVE  IInv'
<1>1. /\ pc[a] = "fill" /\ Answered(a, mine[a].answer)
      /\ store' = [store EXCEPT ![Key(a)] = mine[a].answer]
      /\ release' = release /\ available' = available /\ settings' = settings
      /\ resolved' = resolved /\ orderly' = orderly
  BY DEF Fill, releases
<1>2. /\ mine[a] \in Memory /\ mine[a].settings \in Settings
      /\ Holds(a, pc[a], mine[a], release, available)
      /\ orderly /\ a \in Admins =>
           mine[a].settings = settings /\ \A b \in Admins \ {a} : pc[b] \notin Busy
  BY <1>1, ActorFacts
<1>3. mine[a].answer \in Packs \cup {Nothing}
      /\ (mine[a].answer # Nothing => mine[a].version \in available)
  BY <1>1, <1>2 DEF Holds, Memory
<1>4. PICK l \in {"remember", "done", "set", "failed"}, m \in Memory :
        /\ Move(a, l, m) /\ Holds(a, l, m, release, available)
        /\ m.settings = mine[a].settings
  BY <1>1, <1>3, AnsweredFacts
<1>5. TypeInv
  BY DEF IInv
<1>6. store' \in [Versions \X Busts -> Cached] /\ resolved' \in [Busts -> Cached]
  BY <1>1, <1>3, <1>5 DEF TypeInv, Cached
<1>7. \A v \in Versions, b \in Busts :
        \/ store'[<<v, b>>] = store[<<v, b>>]
        \/ pc[a] = "fill" /\ <<v, b>> = Key(a) /\ store'[<<v, b>>] = mine[a].answer
  BY <1>1, <1>5 DEF TypeInv
<1>8. ~ DirtyAt(pc[a], mine[a]) /\ orderly' \in BOOLEAN
  BY <1>1, <1>5 DEF DirtyAt, TypeInv
<1> QED
  BY <1>1, <1>2, <1>4, <1>6, <1>7, <1>8, QuietStep

LEMMA RememberStep ==
  ASSUME IInv, NEW a \in Actors, Remember(a)
  PROVE  IInv'
<1>1. /\ pc[a] = "remember" /\ Move(a, "done", mine[a])
      /\ resolved' = [resolved EXCEPT ![mine[a].settings.resolver] = mine[a].answer]
      /\ release' = release /\ available' = available /\ settings' = settings
      /\ store' = store /\ orderly' = orderly
  BY DEF Remember, releases, GoTo
<1>2. mine[a] \in Memory
  BY <1>1, ActorFacts
<1>3. TypeInv
  BY DEF IInv
<1>4. store' \in [Versions \X Busts -> Cached] /\ resolved' \in [Busts -> Cached]
  <2>1. mine[a].answer \in Cached
    BY <1>2 DEF Memory, Cached
  <2> QED
    BY <1>1, <1>3, <2>1 DEF TypeInv
<1>5. Holds(a, "done", mine[a], release, available)
  BY DEF Holds
<1>6. ~ DirtyAt(pc[a], mine[a]) /\ orderly' \in BOOLEAN
  BY <1>1, <1>3 DEF DirtyAt, TypeInv
<1> QED
  BY <1>1, <1>2, <1>4, <1>5, <1>6, QuietStep

LEMMA CrashStep ==
  ASSUME IInv, NEW a \in Admins, Crash(a)
  PROVE  IInv'
<1>1. /\ a \in Actors /\ pc[a] \in Busy /\ Move(a, "dead", mine[a]) /\ orderly' = FALSE
      /\ release' = release /\ available' = available /\ settings' = settings
      /\ store' = store /\ resolved' = resolved
  BY DEF Actors, Crash, releases, caches, GoTo
<1>2. mine[a] \in Memory
  BY <1>1, ActorFacts
<1>3. TypeInv
  BY DEF IInv
<1>4. Holds(a, "dead", mine[a], release, available)
  BY DEF Holds
<1> QED
  BY <1>1, <1>2, <1>3, <1>4, QuietStep DEF TypeInv

LEMMA ExpiryStep ==
  ASSUME IInv, \/ \E k \in DOMAIN store : ExpirePack(k)
               \/ \E b \in Busts : ExpireResolved(b)
  PROVE  IInv'
<1>1. store \in [Versions \X Busts -> Cached] /\ resolved \in [Busts -> Cached]
  BY DEF IInv, TypeInv
<1>2. CASE \E k \in DOMAIN store : ExpirePack(k)
  <2>1. PICK k \in DOMAIN store : ExpirePack(k)
    BY <1>2
  <2>2. store' = [store EXCEPT ![k] = Absent] /\ resolved' = resolved
        /\ UNCHANGED <<releases, settings, pc, mine, orderly>>
    BY <2>1 DEF ExpirePack
  <2> QED
    BY <1>1, <2>2, ExpireStep DEF Cached
<1>3. CASE \E b \in Busts : ExpireResolved(b)
  <2>1. PICK b \in Busts : ExpireResolved(b)
    BY <1>3
  <2>2. resolved' = [resolved EXCEPT ![b] = Absent] /\ store' = store
        /\ UNCHANGED <<releases, settings, pc, mine, orderly>>
    BY <2>1 DEF ExpireResolved
  <2> QED
    BY <1>1, <2>2, ExpireStep DEF Cached
<1> QED
  BY <1>2, <1>3

LEMMA StutterStep == IInv /\ UNCHANGED vars => IInv'
<1> SUFFICES ASSUME IInv, UNCHANGED vars PROVE IInv'
  OBVIOUS
<1>1. TypeInv' /\ CountInv' /\ HoldsInv' /\ AvailableInv'
  BY DEF vars, IInv, TypeInv, CountInv, Finished, Counted, HoldsInv, AvailableInv
<1>2. OrderInv'
  BY DEF vars, IInv, OrderInv, Clean, Current
<1> QED
  BY <1>1, <1>2 DEF IInv

LEMMA IInvStep == IInv /\ [Next]_vars => IInv'
<1> SUFFICES ASSUME IInv, [Next]_vars PROVE IInv'
  OBVIOUS
<1>1. CASE UNCHANGED vars
  BY <1>1, StutterStep
<1>2. ASSUME NEW a \in Admins, ArriveAdmin(a) PROVE IInv'
  BY <1>2, ArriveAdminStep
<1>3. ASSUME NEW r \in Readers, ArriveReader(r) PROVE IInv'
  BY <1>3, ArriveReaderStep
<1>4. ASSUME NEW a \in Actors, ReaderStep(a) PROVE IInv'
  BY <1>4, ResolveStep, FetchStep, ReadStep, FillStep, RememberStep DEF ReaderStep
<1>5. ASSUME NEW a \in Admins, AdminStep(a) PROVE IInv'
  BY <1>5, LoadStep, ScanStep, DeprecateStep, StatusStep, SetDefaultStep, BustResolverStep,
     BustStoreStep, SaveImportStep DEF AdminStep
<1>6. ASSUME NEW a \in Actors, Step(a) PROVE IInv'
  BY <1>4, <1>5, <1>6 DEF Step
<1>7. ASSUME NEW a \in Admins, Crash(a) PROVE IInv'
  BY <1>7, CrashStep
<1>8. CASE \/ \E k \in DOMAIN store : ExpirePack(k)
           \/ \E b \in Busts : ExpireResolved(b)
  BY <1>8, ExpiryStep
<1> QED
  BY <1>1, <1>2, <1>3, <1>6, <1>7, <1>8 DEF Next

-----------------------------------------------------------------------------
(* The cache of the resolver                                               *)

\* An admin has changed the releases or the default, or may have, and has not
\* yet counted on the resolver.
Late == {"clearing", "target", "set", "bust_resolver"}
Counting == \A a \in Admins : pc[a] \notin Late

\* A reader at l with memory m, who knows the resolver's present counter, resolves
\* the present default, and what it finds or is going to find is its present pack.
ReaderInv(l, m) ==
  /\ m.version = settings.default
  /\ l = "remember" => m.answer = Current(settings.default)
  /\ settings.default # Nothing =>
       /\ store[<<settings.default, m.settings.store>>] \in {Absent, Current(settings.default)}
       /\ \A a \in Actors : pc[a] = "fill" /\ Key(a) = <<settings.default, m.settings.store>>
                            => mine[a].answer = Current(settings.default)

ResolverInv ==
  /\ torn \in BOOLEAN
  /\ orderly =>
       /\ \A a \in Actors : mine[a].settings.resolver <= settings.resolver
       /\ \A b \in Busts : b > settings.resolver => resolved[b] = Absent
       /\ ~ torn /\ Counting =>
            /\ resolved[settings.resolver] \in {Absent, Current(settings.default)}
            /\ \A a \in Actors :
                 mine[a].op = "resolve" /\ mine[a].settings.resolver = settings.resolver
                 => ReaderInv(pc[a], mine[a])

\* One moves on and changes no row: it may fill an entry of a cache.
LEMMA ResolverQuiet ==
  ASSUME IInv, ResolverInv, NEW a \in Actors, NEW l \in Busy \cup Ended, NEW m \in Memory,
         Move(a, l, m), UNCHANGED <<release, settings>>,
         torn' \in BOOLEAN, torn => torn', orderly' => orderly,
         a \in Admins /\ pc[a] \in Late => l \in Late,
         l \in Busy => m.settings \in {mine[a].settings, settings},
         \A v \in Versions, b \in Busts :
           \/ store'[<<v, b>>] = store[<<v, b>>]
           \/ pc[a] = "fill" /\ <<v, b>> = Key(a) /\ store'[<<v, b>>] = mine[a].answer,
         \A b \in Busts :
           \/ resolved'[b] = resolved[b]
           \/ /\ pc[a] = "remember" /\ b = mine[a].settings.resolver
              /\ resolved'[b] = mine[a].answer,
         l = "fill" => m.answer = Current(m.version),
         orderly /\ ~ torn' /\ Counting /\ l \in Busy /\ m.op = "resolve"
           /\ m.settings.resolver = settings.resolver => ReaderInv(l, m)
  PROVE  ResolverInv'
<1>1. /\ pc' \in [Actors -> {"idle"} \cup Busy \cup Ended] /\ mine' \in [Actors -> Memory]
      /\ pc'[a] = l /\ (l \in Busy => mine'[a] = m) /\ (l \in Ended => mine'[a] = Blank)
      /\ \A b \in Actors \ {a} : pc'[b] = pc[b] /\ mine'[b] = mine[b]
  BY MoveFacts DEF IInv
<1>2. /\ settings.resolver \in Busts /\ settings.default \in Versions \cup {Nothing}
      /\ \A b \in Actors : /\ mine[b].settings.resolver \in Nat
                           /\ mine'[b].settings.resolver \in Nat /\ mine'[b].settings.store \in Busts
      /\ \A b \in Busts : b \in Nat
  BY <1>1, BustsFacts DEF IInv, TypeInv, Memory, Settings
<1>3. release' = release /\ settings' = settings /\ \A v : Current(v)' = Current(v)
  BY DEF Current
<1> SUFFICES ASSUME orderly' PROVE ResolverInv'
  BY DEF ResolverInv
<1>4. /\ \A b \in Actors : mine[b].settings.resolver <= settings.resolver
      /\ \A b \in Busts : b > settings.resolver => resolved[b] = Absent
  BY DEF ResolverInv
<1>5. \A b \in Actors : mine'[b].settings.resolver <= settings'.resolver
  BY <1>1, <1>2, <1>3, <1>4, BlankFacts
<1>6. \A b \in Busts : b > settings'.resolver => resolved'[b] = Absent
  BY <1>2, <1>3, <1>4
<1>7. ASSUME ~ torn', Counting'
      PROVE  /\ resolved'[settings'.resolver] \in {Absent, Current(settings.default)'}
             /\ \A b \in Actors :
                  mine'[b].op = "resolve" /\ mine'[b].settings.resolver = settings'.resolver
                  => ReaderInv(pc[b], mine[b])'
  <2>1. ~ torn /\ Counting
    BY <1>1, <1>7 DEF Counting, Actors, ResolverInv
  <2>2. /\ resolved[settings.resolver] \in {Absent, Current(settings.default)}
        /\ \A b \in Actors :
             mine[b].op = "resolve" /\ mine[b].settings.resolver = settings.resolver
             => ReaderInv(pc[b], mine[b])
    BY <2>1 DEF ResolverInv
  <2>3. ASSUME pc[a] = "remember", settings.resolver = mine[a].settings.resolver
        PROVE  mine[a].answer = Current(settings.default)
    <3>1. mine[a].op = "resolve"
      BY <2>3 DEF IInv, HoldsInv, Holds
    <3> QED
      BY <2>2, <2>3, <3>1 DEF ReaderInv
  <2>4. resolved'[settings'.resolver] \in {Absent, Current(settings.default)'}
    BY <1>2, <1>3, <2>2, <2>3
  <2>5. ASSUME NEW b \in Actors, mine'[b].op = "resolve",
               mine'[b].settings.resolver = settings'.resolver
        PROVE  ReaderInv(pc[b], mine[b])'
    <3> DEFINE key == <<settings.default, mine'[b].settings.store>>
    <3>1. ReaderInv(pc'[b], mine'[b])
      <4>1. CASE b # a
        BY <1>1, <1>3, <2>2, <2>5, <4>1
      <4>2. CASE b = a
        <5>1. l \in Busy /\ mine'[a] = m
          BY <1>1, <2>5, <4>2 DEF Blank
        <5> QED
          BY <1>1, <1>3, <1>7, <2>1, <2>5, <4>2, <5>1
      <4> QED
        BY <4>1, <4>2
    <3>2. ASSUME settings.default # Nothing
          PROVE  /\ store'[key] \in {Absent, Current(settings.default)}
                 /\ \A c \in Actors : pc'[c] = "fill" /\ Key(c)' = key
                                      => mine'[c].answer = Current(settings.default)
      <4>1. settings.default \in Versions /\ mine'[b].settings.store \in Busts
        BY <1>2, <3>2
      <4>2. /\ store[key] \in {Absent, Current(settings.default)}
            /\ \A c \in Actors : pc[c] = "fill" /\ Key(c) = key
                                 => mine[c].answer = Current(settings.default)
        BY <3>1, <3>2 DEF ReaderInv
      <4>3. store'[key] \in {Absent, Current(settings.default)}
        BY <4>1, <4>2
      <4>4. ASSUME NEW c \in Actors, pc'[c] = "fill", Key(c)' = key
            PROVE  mine'[c].answer = Current(settings.default)
        <5>1. CASE c # a
          BY <1>1, <4>2, <4>4, <5>1 DEF Key
        <5>2. CASE c = a
          <6>1. l = "fill" /\ mine'[a] = m /\ m.version = settings.default
            BY <1>1, <4>4, <5>2 DEF Key
          <6> QED
            BY <5>2, <6>1
        <5> QED
          BY <5>1, <5>2
      <4> QED
        BY <4>3, <4>4
    <3> QED
      BY <1>3, <3>1, <3>2 DEF ReaderInv
  <2> QED
    BY <2>4, <2>5
<1> QED
  BY <1>5, <1>6, <1>7 DEF ResolverInv

\* ... in the middle of its work.
LEMMA ResolverMove ==
  ASSUME IInv, ResolverInv, NEW a \in Actors, NEW l \in Busy \cup Ended, NEW m \in Memory,
         Move(a, l, m), pc[a] \in Busy, m.settings = mine[a].settings, m.version = mine[a].version,
         m.op = mine[a].op,
         UNCHANGED <<releases, settings, caches, orderly, torn>>,
         a \in Admins /\ pc[a] \in Late => l \in Late,
         l = "fill" => m.answer = Current(m.version),
         l = "remember" => \/ mine[a].version = Nothing /\ m.answer = Nothing
                           \/ /\ pc[a] = "fetch" /\ m.answer = store[Key(a)]
                              /\ m.answer # Absent /\ m.version \in Versions
  PROVE  ResolverInv'
<1>1. /\ release' = release /\ settings' = settings /\ store' = store
      /\ resolved' = resolved /\ orderly' = orderly /\ torn' = torn /\ torn \in BOOLEAN
  BY DEF releases, caches, ResolverInv
<1>2. ASSUME orderly, ~ torn, Counting, m.op = "resolve", m.settings.resolver = settings.resolver
      PROVE  ReaderInv(l, m)
  <2>1. ReaderInv(pc[a], mine[a])
    BY <1>2 DEF ResolverInv
  <2>2. l = "remember" => m.answer = Current(settings.default)
    <3>1. ASSUME l = "remember", pc[a] = "fetch", m.answer = store[Key(a)], m.answer # Absent,
                 m.version \in Versions
          PROVE  m.answer = Current(settings.default)
      BY <2>1, <3>1, ConstantsAssumption DEF ReaderInv, Key
    <3>2. ASSUME mine[a].version = Nothing, m.answer = Nothing
          PROVE  m.answer = Current(settings.default)
      BY <2>1, <3>2 DEF ReaderInv, Current
    <3> QED
      BY <3>1, <3>2
  <2> QED
    BY <2>1, <2>2 DEF ReaderInv
<1> QED
  BY <1>1, <1>2, ResolverQuiet

LEMMA ResolverArriveAdmin ==
  ASSUME IInv, ResolverInv, NEW a \in Admins, ArriveAdmin(a)
  PROVE  ResolverInv'
<1>1. PICK op \in AdminOps, v \in Versions, w \in Versions :
        Move(a, IF op = "default" THEN "fetch" ELSE op,
             [Blank EXCEPT !.op = op, !.version = v, !.to = w, !.settings = settings])
  BY DEF ArriveAdmin
<1> DEFINE l == IF op = "default" THEN "fetch" ELSE op
           m == [Blank EXCEPT !.op = op, !.version = v, !.to = w, !.settings = settings]
<1>2. /\ pc[a] = "idle" /\ (orderly' => orderly) /\ release' = release /\ settings' = settings
      /\ store' = store /\ resolved' = resolved /\ torn' = torn /\ torn \in BOOLEAN
  BY DEF ArriveAdmin, releases, caches, ResolverInv
<1>3. a \in Actors /\ settings \in Settings
  BY DEF IInv, TypeInv, Actors
<1>4. m \in Memory /\ m.settings = settings /\ m.op = op
  BY <1>3, BlankFacts DEF Memory, Blank
<1>5. l \in Busy \ {"fill"} /\ op # "resolve" /\ Move(a, l, m)
  BY <1>1
<1> HIDE DEF l, m
<1> QED
  BY <1>2, <1>3, <1>4, <1>5, ResolverQuiet DEF Late

\* A reader who arrives between the two invalidations is what makes it torn: any
\* other finds the store current under the counters that it loads.
LEMMA ResolverArriveReader ==
  ASSUME IInv, ResolverInv, NEW r \in Readers, ArriveReader(r)
  PROVE  ResolverInv'
<1>1. PICK l \in {"resolve", "fetch"}, v \in Versions \cup {Nothing} :
        /\ l = "resolve" => /\ v = settings.default
                            /\ torn' = (torn \/ \E a \in Admins : pc[a] = "bust_store")
        /\ l = "fetch" => torn' = torn
        /\ Move(r, l, [Blank EXCEPT !.op = l, !.version = v, !.settings = settings])
  BY DEF ArriveReader, IInv, TypeInv, Settings
<1> DEFINE m == [Blank EXCEPT !.op = l, !.version = v, !.settings = settings]
<1>2. /\ pc[r] = "idle" /\ orderly' = orderly /\ release' = release /\ settings' = settings
      /\ store' = store /\ resolved' = resolved /\ torn \in BOOLEAN
  BY DEF ArriveReader, releases, caches, ResolverInv
<1>3. r \in Actors /\ settings \in Settings
  BY DEF IInv, TypeInv, Actors
<1>4. m \in Memory /\ m.settings = settings /\ m.op = l /\ m.version = v
  BY <1>3, BlankFacts DEF Memory, Blank
<1>5. Move(r, l, m)
  BY <1>1
<1> HIDE DEF m
<1>6. ASSUME orderly, ~ torn', Counting, l = "resolve"
      PROVE  ReaderInv(l, m)
  <2>1. Clean
    BY <1>1, <1>6 DEF Clean, DirtyAt, Counting, Late
  <2>2. /\ \A u \in Versions : store[<<u, settings.store>>] \in {Absent, Current(u)}
        /\ \A a \in Actors : pc[a] = "fill" /\ mine[a].settings.store = settings.store
                             => mine[a].answer = Current(mine[a].version)
    BY <1>6, <2>1 DEF IInv, OrderInv
  <2>3. settings.default \in Versions \cup {Nothing}
    BY <1>3 DEF Settings
  <2> QED
    BY <1>1, <1>4, <1>6, <2>2, <2>3 DEF ReaderInv, Key
<1>7. torn' \in BOOLEAN /\ (torn => torn')
  <2>1. CASE l = "resolve"
    BY <1>1, <1>2, <2>1, Zenon
  <2>2. CASE l = "fetch"
    BY <1>1, <1>2, <2>2
  <2> QED
    BY <2>1, <2>2
<1>8. orderly /\ ~ torn' /\ Counting /\ m.op = "resolve" => ReaderInv(l, m)
  BY <1>4, <1>6
<1> QED
  BY <1>1, <1>2, <1>3, <1>4, <1>5, <1>7, <1>8, ResolverQuiet DEF Late

LEMMA ResolverLoad ==
  ASSUME IInv, ResolverInv, NEW a \in Admins, LoadRelease(a) \/ LoadImport(a) \/ Scan(a)
  PROVE  ResolverInv'
<1>1. /\ a \in Actors /\ pc[a] \in Busy \ Late
      /\ UNCHANGED <<releases, settings, caches, orderly, torn>>
  BY DEF Actors, LoadRelease, LoadImport, Scan, Late
<1>2. mine[a] \in Memory
  BY <1>1, ActorFacts
<1>3. CASE LoadRelease(a) \/ LoadImport(a)
  <2> DEFINE m == [mine[a] EXCEPT !.loaded = AsStored(a)]
  <2>1. PICK l \in {"failed", "scan", "write", "save"} : Move(a, l, m)
    BY <1>3 DEF LoadRelease, LoadImport
  <2>2. m \in Memory /\ m.settings = mine[a].settings /\ m.version = mine[a].version /\ m.op = mine[a].op
    BY <1>1, <1>2, LoadFacts DEF Memory
  <2> HIDE DEF m
  <2> QED
    BY <1>1, <2>1, <2>2, ResolverMove
<1>4. CASE Scan(a)
  <2> DEFINE m == [mine[a] EXCEPT !.others =
                     {v \in Versions \ {mine[a].version} : release[v].status = "published"}]
  <2>1. Move(a, "clearing", m)
    BY <1>4 DEF Scan
  <2>2. m \in Memory /\ m.settings = mine[a].settings /\ m.version = mine[a].version /\ m.op = mine[a].op
    BY <1>2 DEF Memory
  <2> HIDE DEF m
  <2> QED
    BY <1>1, <2>1, <2>2, ResolverMove
<1> QED
  BY <1>3, <1>4

\* An admin writes releases: while it is late nothing is promised, and an import
\* of another version than the default changes nothing of it.
LEMMA ResolverWrite ==
  ASSUME IInv, ResolverInv, NEW a \in Admins, NEW l \in Busy, NEW m \in Memory, Move(a, l, m),
         m.settings = mine[a].settings, m.op = mine[a].op, m.version = mine[a].version,
         l \notin {"fill", "remember"}, pc[a] \in Busy,
         UNCHANGED <<settings, caches, orderly>>, torn' \in BOOLEAN, torn => torn',
         \/ l \in Late
         \/ /\ pc[a] \notin Late
            /\ torn' \/ Current(settings.default)' = Current(settings.default)
  PROVE  ResolverInv'
<1>1. a \in Actors /\ settings' = settings /\ store' = store /\ resolved' = resolved /\ orderly' = orderly
  BY DEF Actors, caches
<1>2. /\ pc'[a] = l /\ mine'[a] = m
      /\ \A b \in Actors \ {a} : pc'[b] = pc[b] /\ mine'[b] = mine[b]
  BY <1>1, MoveFacts DEF IInv
<1> SUFFICES ASSUME orderly PROVE ResolverInv'
  BY <1>1 DEF ResolverInv
<1>3. /\ \A b \in Actors : mine'[b].settings.resolver <= settings'.resolver
      /\ \A b \in Busts : b > settings'.resolver => resolved'[b] = Absent
  BY <1>1, <1>2 DEF ResolverInv
<1>4. ASSUME ~ torn', Counting'
      PROVE  /\ resolved'[settings'.resolver] \in {Absent, Current(settings.default)'}
             /\ \A b \in Actors :
                  mine'[b].op = "resolve" /\ mine'[b].settings.resolver = settings'.resolver
                  => ReaderInv(pc[b], mine[b])'
  <2>1. l \notin Late
    BY <1>2, <1>4 DEF Counting
  <2>2. ~ torn /\ Counting /\ Current(settings.default)' = Current(settings.default)
    BY <1>1, <1>2, <1>4, <2>1 DEF Counting, Actors, ResolverInv
  <2>3. /\ resolved[settings.resolver] \in {Absent, Current(settings.default)}
        /\ \A b \in Actors :
             mine[b].op = "resolve" /\ mine[b].settings.resolver = settings.resolver
             => ReaderInv(pc[b], mine[b])
    BY <2>2 DEF ResolverInv
  <2>4. ASSUME NEW b \in Actors, mine'[b].op = "resolve",
               mine'[b].settings.resolver = settings'.resolver
        PROVE  ReaderInv(pc[b], mine[b])'
    <3>1. ReaderInv(pc[b], mine[b])
      BY <1>1, <1>2, <2>3, <2>4
    <3>2. /\ mine'[b].version = settings.default
          /\ mine'[b].settings.store = mine[b].settings.store
          /\ pc'[b] = "remember" => mine'[b].answer = Current(settings.default)
      BY <1>2, <3>1 DEF ReaderInv
    <3>3. ASSUME NEW c \in Actors, pc'[c] = "fill"
          PROVE  pc[c] = "fill" /\ Key(c)' = Key(c) /\ mine'[c].answer = mine[c].answer
      BY <1>2, <3>3 DEF Key
    <3> QED
      BY <1>1, <2>2, <3>1, <3>2, <3>3 DEF ReaderInv
  <2> QED
    BY <1>1, <2>2, <2>3, <2>4
<1> QED
  BY <1>3, <1>4 DEF ResolverInv

LEMMA ResolverStatus ==
  ASSUME IInv, ResolverInv, NEW a \in Admins,
         DeprecateOther(a) \/ Publish(a) \/ Write(a) \/ RestoreTarget(a)
  PROVE  ResolverInv'
<1>1. /\ a \in Actors /\ pc[a] \in Busy /\ torn \in BOOLEAN
      /\ UNCHANGED <<settings, caches, orderly, torn>>
  BY DEF Actors, DeprecateOther, Publish, Write, RestoreTarget, ResolverInv
<1>2. mine[a] \in Memory
  BY <1>1, ActorFacts
<1>3. CASE DeprecateOther(a)
  <2>1. PICK v \in mine[a].others : Move(a, "clearing", [mine[a] EXCEPT !.others = @ \ {v}])
    BY <1>3 DEF DeprecateOther
  <2> DEFINE m == [mine[a] EXCEPT !.others = @ \ {v}]
  <2>2. m \in Memory /\ m.settings = mine[a].settings /\ m.version = mine[a].version /\ m.op = mine[a].op
    BY <1>2 DEF Memory
  <2>3. Move(a, "clearing", m)
    BY <2>1
  <2> HIDE DEF m
  <2> QED
    BY <1>1, <2>2, <2>3, ResolverWrite DEF Late
<1>4. CASE Publish(a) \/ Write(a) \/ RestoreTarget(a)
  <2>1. PICK l \in {"set", "bust_resolver", "target"} : Move(a, l, mine[a])
    BY <1>4 DEF Publish, Write, RestoreTarget, GoTo
  <2> QED
    BY <1>1, <1>2, <2>1, ResolverWrite DEF Late
<1> QED
  BY <1>3, <1>4

LEMMA ResolverImport ==
  ASSUME IInv, ResolverInv, NEW a \in Admins, SaveImport(a)
  PROVE  ResolverInv'
<1> DEFINE v == mine[a].version
           new == mine[a].loaded[v] = "absent"
<1>1. a \in Actors /\ pc[a] = "save" /\ UNCHANGED <<available, settings, caches, orderly>>
      /\ torn \in BOOLEAN
  BY DEF Actors, SaveImport, ResolverInv
<1>2. mine[a] \in Memory /\ release \in [Versions -> Rows]
  BY <1>1, ActorFacts DEF IInv, TypeInv
<1>3. CASE new /\ release[v].status # "absent"
  <2>1. Move(a, "failed", mine[a]) /\ release' = release /\ torn' = torn
    BY <1>3 DEF SaveImport, GoTo
  <2> QED
    BY <1>1, <1>2, <2>1, ResolverMove DEF releases, Late
<1>4. CASE ~ (new /\ release[v].status # "absent")
  <2>1. /\ Move(a, "bust_store", mine[a])
        /\ release' = [release EXCEPT ![v].payload = a,
                                      ![v].status = IF new THEN "draft" ELSE @]
        /\ torn' = (torn \/ v = settings.default)
    BY <1>4 DEF SaveImport, GoTo
  <2>2. torn' \/ Current(settings.default)' = Current(settings.default)
    <3> SUFFICES ASSUME v # settings.default
                 PROVE  Current(settings.default)' = Current(settings.default)
      BY <2>1
    <3>1. \A u \in Versions \ {v} : release'[u] = release[u]
      BY <1>2, <2>1
    <3>2. settings' = settings /\ settings.default \in Versions \cup {Nothing}
      BY <1>1 DEF IInv, TypeInv, Settings
    <3> QED
      BY <3>1, <3>2 DEF Current
  <2> QED
    BY <1>1, <1>2, <2>1, <2>2, ResolverWrite DEF Late
<1> QED
  BY <1>3, <1>4

\* The settings are written: the resolver's counter goes on, and then nothing is
\* cached under it and no reader knows it, or it stays and the admin is late.
LEMMA ResolverSettings ==
  ASSUME IInv, ResolverInv, NEW a \in Admins, SetDefault(a) \/ BustResolver(a)
  PROVE  ResolverInv'
<1>1. /\ a \in Actors /\ pc[a] \in Late /\ torn \in BOOLEAN /\ Admins \subseteq Actors
      /\ release' = release /\ store' = store /\ resolved' = resolved /\ orderly' = orderly
  BY DEF Actors, SetDefault, BustResolver, Late, releases, caches, ResolverInv
<1>2. /\ mine[a] \in Memory /\ mine[a].settings \in Settings /\ mine[a].op \in AdminOps
      /\ orderly => mine[a].settings = settings
  BY <1>1, ActorFacts DEF Late, Holds
<1> SUFFICES ASSUME orderly PROVE ResolverInv'
  BY <1>1 DEF SetDefault, BustResolver, ResolverInv
<1>3. /\ settings.resolver \in Nat /\ \A b \in Busts : b \in Nat
      /\ \A b \in Actors : /\ mine[b].settings.resolver \in Nat
                           /\ mine[b].settings.resolver <= settings.resolver
      /\ \A b \in Busts : b > settings.resolver => resolved[b] = Absent
  BY <1>2, BustsFacts DEF IInv, TypeInv, Memory, Settings, ResolverInv
<1>4. CASE SetDefault(a)
  <2>1. torn' = torn
    BY <1>4 DEF SetDefault
  <2>2. PICK m \in Memory :
          /\ Move(a, "bust_resolver", m) /\ m.settings = settings'
          /\ settings'.resolver = settings.resolver
    <3>1. CASE mine[a].settings.default = mine[a].to
      BY <1>2, <1>4, <3>1 DEF SetDefault, GoTo
    <3>2. CASE mine[a].settings.default # mine[a].to
      <4> DEFINE row == [mine[a].settings EXCEPT !.default = mine[a].to]
                 m == [mine[a] EXCEPT !.settings = row]
      <4>1. settings' = row /\ Move(a, "bust_resolver", m)
        BY <1>4, <3>2 DEF SetDefault, SaveSettings
      <4>2. row \in Settings /\ row.resolver = settings.resolver
        BY <1>2 DEF Settings, Memory
      <4> HIDE DEF row
      <4>3. m \in Memory /\ m.settings = row
        BY <1>2, <4>2 DEF Memory
      <4> HIDE DEF m
      <4> QED
        BY <4>1, <4>2, <4>3
    <3> QED
      BY <3>1, <3>2
  <2>3. /\ pc'[a] = "bust_resolver" /\ mine'[a] = m
        /\ \A b \in Actors \ {a} : mine'[b] = mine[b]
    BY <1>1, <2>2, MoveFacts DEF IInv
  <2>4. ~ Counting'
    BY <2>3 DEF Counting, Late
  <2>5. \A b \in Actors : mine'[b].settings.resolver <= settings'.resolver
    BY <1>3, <2>2, <2>3
  <2>6. \A b \in Busts : b > settings'.resolver => resolved'[b] = Absent
    BY <1>1, <1>3, <2>2
  <2> QED
    BY <1>1, <2>1, <2>4, <2>5, <2>6 DEF ResolverInv
<1>5. CASE BustResolver(a)
  <2> DEFINE row == [mine[a].settings EXCEPT !.resolver = @ + 1]
             m == [mine[a] EXCEPT !.settings = row]
             l == IF mine[a].op = "default" THEN "done" ELSE "bust_store"
  <2>1. settings' = row /\ Move(a, l, m) /\ torn' = FALSE /\ l \in {"done", "bust_store"}
    BY <1>5 DEF BustResolver, SaveSettings
  <2>2. row.resolver = settings.resolver + 1 /\ row \in [default : Versions \cup {Nothing},
                                                         resolver : Nat, store : Busts]
    BY <1>2, <1>3 DEF Settings
  <2>3. m.settings = row /\ m.op = mine[a].op
    BY <1>2 DEF Memory
  <2> HIDE DEF m, row, l
  <2>4. IInv'
    BY <1>5, BustResolverStep
  <2>5. /\ settings'.resolver \in Busts /\ settings'.resolver = settings.resolver + 1
    BY <2>1, <2>2, <2>4 DEF IInv, TypeInv, Settings
  <2>6. /\ mine' = [mine EXCEPT ![a] = IF l \in Ended THEN Blank ELSE m]
        /\ mine \in [Actors -> Memory]
    BY <2>1 DEF Move, IInv, TypeInv
  <2>7. \A b \in Actors \ {a} : mine'[b] = mine[b]
    BY <2>6
  <2>8. mine'[a] \in {Blank, m}
    BY <1>1, <2>6
  <2>9. /\ mine'[a].settings.resolver <= settings'.resolver /\ mine'[a].op # "resolve"
    BY <1>2, <1>3, <2>1, <2>3, <2>5, <2>8, BlankFacts DEF Blank
  <2>10. \A b \in Actors : mine'[b].settings.resolver <= settings'.resolver
    BY <1>3, <2>5, <2>7, <2>9
  <2>11. \A b \in Actors : mine'[b].op = "resolve" => mine'[b].settings.resolver # settings'.resolver
    BY <1>3, <2>5, <2>7, <2>9
  <2>12. /\ resolved'[settings'.resolver] = Absent
         /\ \A b \in Busts : b > settings'.resolver => resolved'[b] = Absent
    BY <1>1, <1>3, <2>5
  <2> QED
    BY <2>1, <2>10, <2>11, <2>12 DEF ResolverInv
<1> QED
  BY <1>4, <1>5

LEMMA ResolverBustStore ==
  ASSUME IInv, ResolverInv, NEW a \in Admins, BustStore(a)
  PROVE  ResolverInv'
<1> DEFINE row == [mine[a].settings EXCEPT !.store = @ + 1]
           m == [mine[a] EXCEPT !.settings = row]
<1>1. /\ a \in Actors /\ pc[a] = "bust_store" /\ torn \in BOOLEAN
      /\ release' = release /\ store' = store /\ resolved' = resolved /\ orderly' = orderly
      /\ torn' = torn /\ settings' = row /\ Move(a, "done", m)
  BY DEF Actors, BustStore, releases, caches, SaveSettings, ResolverInv
<1> SUFFICES ASSUME orderly PROVE ResolverInv'
  BY <1>1 DEF ResolverInv
<1>2. mine[a].settings \in Settings /\ mine[a].settings = settings
  BY <1>1, ActorFacts
<1>3. settings'.default = settings.default /\ settings'.resolver = settings.resolver
  BY <1>1, <1>2 DEF Settings
<1> HIDE DEF m, row
<1>4. /\ pc' = [pc EXCEPT ![a] = "done"] /\ mine' = [mine EXCEPT ![a] = Blank]
      /\ pc \in [Actors -> {"idle"} \cup Busy \cup Ended] /\ mine \in [Actors -> Memory]
  BY <1>1 DEF Move, IInv, TypeInv
<1>5. /\ pc'[a] = "done" /\ mine'[a] = Blank
      /\ \A b \in Actors \ {a} : pc'[b] = pc[b] /\ mine'[b] = mine[b]
  BY <1>1, <1>4
<1>6. /\ settings.resolver \in Nat
      /\ \A b \in Actors : mine'[b].settings.resolver <= settings'.resolver
  BY <1>2, <1>3, <1>5, BlankFacts, BustsFacts DEF Settings, ResolverInv
<1>7. \A b \in Busts : b > settings'.resolver => resolved'[b] = Absent
  BY <1>1, <1>3 DEF ResolverInv
<1>8. ASSUME ~ torn', Counting'
      PROVE  /\ resolved'[settings'.resolver] \in {Absent, Current(settings.default)'}
             /\ \A b \in Actors :
                  mine'[b].op = "resolve" /\ mine'[b].settings.resolver = settings'.resolver
                  => ReaderInv(pc[b], mine[b])'
  <2>1. ~ torn /\ Counting /\ Current(settings.default)' = Current(settings.default)
    BY <1>1, <1>3, <1>5, <1>8 DEF Counting, Late, Current, Actors
  <2>2. /\ resolved[settings.resolver] \in {Absent, Current(settings.default)}
        /\ \A b \in Actors :
             mine[b].op = "resolve" /\ mine[b].settings.resolver = settings.resolver
             => ReaderInv(pc[b], mine[b])
    BY <2>1 DEF ResolverInv
  <2>3. ASSUME NEW b \in Actors, mine'[b].op = "resolve",
               mine'[b].settings.resolver = settings'.resolver
        PROVE  ReaderInv(pc[b], mine[b])'
    <3>1. b # a
      BY <1>5, <2>3 DEF Blank
    <3>2. ReaderInv(pc[b], mine[b]) /\ pc'[b] = pc[b] /\ mine'[b] = mine[b]
      BY <1>3, <1>5, <2>2, <2>3, <3>1
    <3>3. ASSUME NEW c \in Actors, pc'[c] = "fill"
          PROVE  pc[c] = "fill" /\ Key(c)' = Key(c) /\ mine'[c].answer = mine[c].answer
      BY <1>5, <3>3 DEF Key
    <3> QED
      BY <1>1, <1>3, <2>1, <3>2, <3>3 DEF ReaderInv
  <2> QED
    BY <1>1, <1>3, <2>1, <2>2, <2>3
<1> QED
  BY <1>1, <1>6, <1>7, <1>8 DEF ResolverInv

\* A reader, or an admin who checks a version.
LEMMA ResolverRead ==
  ASSUME IInv, ResolverInv, NEW a \in Actors, Resolve(a) \/ Fetch(a) \/ Read(a)
  PROVE  ResolverInv'
<1>1. /\ pc[a] \in {"resolve", "fetch", "read"}
      /\ UNCHANGED <<releases, settings, caches, orderly, torn>>
  BY DEF Resolve, Fetch, Read
<1>2. mine[a] \in Memory /\ Holds(a, pc[a], mine[a], release, available) /\ pc[a] \notin Late
      /\ mine[a].settings.store \in Busts
  BY <1>1, ActorFacts DEF Late, Settings
<1>3. CASE Resolve(a)
  <2>1. PICK l \in {"done", "remember", "fetch"} :
          Move(a, l, mine[a]) /\ (l = "remember" => mine[a].version = Nothing)
    BY <1>3 DEF Resolve, GoTo
  <2>2. mine[a].answer = Nothing
    BY <1>2, <1>3 DEF Resolve, Holds
  <2> QED
    BY <1>1, <1>2, <2>1, <2>2, ResolverMove
<1>4. CASE Fetch(a)
  <2>1. CASE store[Key(a)] = Absent
    <3>1. Move(a, "read", mine[a])
      BY <1>4, <2>1 DEF Fetch, GoTo
    <3> QED
      BY <1>1, <1>2, <3>1, ResolverMove
  <2>2. CASE store[Key(a)] # Absent
    <3> DEFINE m == [mine[a] EXCEPT !.answer = store[Key(a)]]
    <3>1. pc[a] = "fetch" /\ mine[a].version \in Versions
          /\ mine[a].op \in {"resolve", "fetch", "default"}
      BY <1>2, <1>4 DEF Fetch, Holds
    <3>2. PICK l \in {"remember", "done", "set", "failed"} : Move(a, l, m)
      BY <1>4, <2>2, <3>1 DEF Fetch, Answered
    <3>3. store[Key(a)] \in Packs \cup {Nothing}
      BY <1>2, <2>2, <3>1 DEF Key, IInv, TypeInv, Cached
    <3>4. /\ m \in Memory /\ m.settings = mine[a].settings /\ m.version = mine[a].version
          /\ m.op = mine[a].op /\ m.answer = store[Key(a)]
      BY <1>2, <3>3 DEF Memory
    <3> HIDE DEF m
    <3> QED
      BY <1>1, <1>2, <2>2, <3>1, <3>2, <3>4, ResolverMove
  <2> QED
    BY <2>1, <2>2
<1>5. CASE Read(a)
  <2> DEFINE got == Current(mine[a].version)
             m == [mine[a] EXCEPT !.answer = got]
  <2>1. Move(a, "fill", m)
    BY <1>5 DEF Read
  <2>2. got \in Packs \cup {Nothing}
    <3>1. mine[a].version \in Versions /\ release[mine[a].version] \in Rows
      BY <1>2, <1>5 DEF Read, Holds, IInv, TypeInv
    <3> QED
      BY <3>1, ConstantsAssumption DEF Current, Rows, Packs
  <2>3. /\ m \in Memory /\ m.settings = mine[a].settings /\ m.version = mine[a].version
        /\ m.op = mine[a].op /\ m.answer = got
    BY <1>2, <2>2 DEF Memory
  <2>4. m.answer = Current(m.version)
    BY <2>3
  <2> HIDE DEF m, got
  <2> QED
    BY <1>1, <1>2, <2>1, <2>3, <2>4, ResolverMove
<1> QED
  BY <1>3, <1>4, <1>5

\* An entry of a cache is written.
LEMMA ResolverCached ==
  ASSUME IInv, ResolverInv, NEW a \in Actors, Fill(a) \/ Remember(a)
  PROVE  ResolverInv'
<1>1. /\ pc[a] \in {"fill", "remember"} \ Late /\ release' = release /\ settings' = settings
      /\ orderly' = orderly /\ torn' = torn /\ torn \in BOOLEAN
  BY DEF Fill, Remember, releases, Late, ResolverInv
<1>2. mine[a] \in Memory /\ Holds(a, pc[a], mine[a], release, available)
      /\ store \in [Versions \X Busts -> Cached] /\ resolved \in [Busts -> Cached]
  BY <1>1, ActorFacts DEF IInv, TypeInv
<1>3. CASE Fill(a)
  <2> DEFINE m == [mine[a] EXCEPT !.answer = mine[a].answer]
  <2>1. pc[a] = "fill" /\ resolved' = resolved
        /\ store' = [store EXCEPT ![Key(a)] = mine[a].answer] /\ Answered(a, mine[a].answer)
    BY <1>3 DEF Fill
  <2>2. /\ m \in Memory /\ m.settings = mine[a].settings /\ m.version = mine[a].version
        /\ m.op = mine[a].op /\ m.answer = mine[a].answer
    BY <1>2 DEF Memory
  <2>3. PICK l \in {"remember", "done", "set", "failed"} : Move(a, l, m)
    BY <1>2, <2>1 DEF Answered, Holds
  <2>4. /\ mine[a].version \in Versions
        /\ \A v \in Versions, b \in Busts :
             \/ store'[<<v, b>>] = store[<<v, b>>]
             \/ pc[a] = "fill" /\ <<v, b>> = Key(a) /\ store'[<<v, b>>] = mine[a].answer
    BY <1>2, <2>1 DEF Holds
  <2> HIDE DEF m
  <2>5. ASSUME orderly, ~ torn, Counting, m.op = "resolve", m.settings.resolver = settings.resolver
        PROVE  ReaderInv(l, m)
    <3>1. ReaderInv(pc[a], mine[a])
      BY <2>2, <2>5 DEF ResolverInv
    <3>2. mine[a].answer = Current(settings.default)
      BY <2>1, <2>4, <3>1, ConstantsAssumption DEF ReaderInv, Key
    <3> QED
      BY <2>2, <3>1, <3>2 DEF ReaderInv
  <2> QED
    BY <1>1, <2>1, <2>2, <2>3, <2>4, <2>5, ResolverQuiet
<1>4. CASE Remember(a)
  <2>1. /\ pc[a] = "remember" /\ Move(a, "done", mine[a]) /\ store' = store
        /\ resolved' = [resolved EXCEPT ![mine[a].settings.resolver] = mine[a].answer]
    BY <1>4 DEF Remember, GoTo
  <2>2. \A b \in Busts : \/ resolved'[b] = resolved[b]
                         \/ /\ b = mine[a].settings.resolver /\ resolved'[b] = mine[a].answer
    BY <1>2, <2>1
  <2> QED
    BY <1>1, <1>2, <2>1, <2>2, ResolverQuiet
<1> QED
  BY <1>3, <1>4

LEMMA ResolverExpiry ==
  ASSUME IInv, ResolverInv, \/ \E k \in DOMAIN store : ExpirePack(k)
                            \/ \E b \in Busts : ExpireResolved(b)
  PROVE  ResolverInv'
<1>1. /\ store \in [Versions \X Busts -> Cached] /\ resolved \in [Busts -> Cached]
      /\ settings \in Settings /\ mine \in [Actors -> Memory]
  BY DEF IInv, TypeInv
<1>2. /\ release' = release /\ settings' = settings /\ pc' = pc /\ mine' = mine
      /\ orderly' = orderly /\ torn' = torn
  BY DEF ExpirePack, ExpireResolved, releases
<1>3. /\ \A b \in Busts : resolved'[b] \in {Absent, resolved[b]}
      /\ \A v \in Versions, b \in Busts : store'[<<v, b>>] \in {Absent, store[<<v, b>>]}
  <2>1. CASE \E k \in DOMAIN store : ExpirePack(k)
    BY <1>1, <2>1 DEF ExpirePack
  <2>2. CASE \E b \in Busts : ExpireResolved(b)
    BY <1>1, <2>2 DEF ExpireResolved
  <2> QED
    BY <2>1, <2>2
<1>4. ASSUME NEW a \in Actors, ReaderInv(pc[a], mine[a])
      PROVE  ReaderInv(pc[a], mine[a])'
  <2>1. mine[a].settings.store \in Busts /\ settings.default \in Versions \cup {Nothing}
    BY <1>1 DEF Memory, Settings
  <2> QED
    BY <1>2, <1>3, <1>4, <2>1 DEF ReaderInv, Key, Current
<1>5. settings.resolver \in Busts
  BY <1>1 DEF Settings
<1> QED
  BY <1>2, <1>3, <1>4, <1>5 DEF ResolverInv, Counting, Current

LEMMA ResolverStep == IInv /\ ResolverInv /\ [Next]_vars => ResolverInv'
<1> SUFFICES ASSUME IInv, ResolverInv, [Next]_vars PROVE ResolverInv'
  OBVIOUS
<1>1. CASE UNCHANGED vars
  BY <1>1 DEF vars, ResolverInv, ReaderInv, Counting, Key, Current
<1>2. ASSUME NEW a \in Admins, ArriveAdmin(a) PROVE ResolverInv'
  BY <1>2, ResolverArriveAdmin
<1>3. ASSUME NEW r \in Readers, ArriveReader(r) PROVE ResolverInv'
  BY <1>3, ResolverArriveReader
<1>4. ASSUME NEW a \in Actors, ReaderStep(a) PROVE ResolverInv'
  BY <1>4, ResolverRead, ResolverCached DEF ReaderStep
<1>5. ASSUME NEW a \in Admins, AdminStep(a) PROVE ResolverInv'
  BY <1>5, ResolverLoad, ResolverStatus, ResolverSettings, ResolverBustStore, ResolverImport
  DEF AdminStep
<1>6. ASSUME NEW a \in Actors, Step(a) PROVE ResolverInv'
  BY <1>4, <1>5, <1>6 DEF Step
<1>7. ASSUME NEW a \in Admins, Crash(a) PROVE ResolverInv'
  BY <1>7 DEF Crash, ResolverInv
<1>8. CASE \/ \E k \in DOMAIN store : ExpirePack(k)
           \/ \E b \in Busts : ExpireResolved(b)
  BY <1>8, ResolverExpiry
<1> QED
  BY <1>1, <1>2, <1>3, <1>6, <1>7, <1>8 DEF Next

LEMMA InitResolver == Init => ResolverInv
<1> SUFFICES ASSUME Init PROVE ResolverInv
  OBVIOUS
<1>1. settings.resolver = 0 /\ 0 \in Busts /\ (\A b \in Busts : resolved[b] = Absent) /\ torn = FALSE
  BY BustsFacts, BlankFacts DEF Init, Blank
<1>2. \A a \in Actors : mine[a] = Blank /\ Blank.op # "resolve"
  BY DEF Init, Blank
<1>3. /\ \A a \in Actors : mine[a].settings.resolver <= settings.resolver
      /\ \A a \in Actors : mine[a].op # "resolve"
  BY <1>1, <1>2, BlankFacts
<1> QED
  BY <1>1, <1>3 DEF ResolverInv

-----------------------------------------------------------------------------
\* The inductive invariant holds of every behaviour, for any number of requests
\* that change releases, readers, versions and expiries
\* (curriculum_profile_lifecycle_service.rb, curriculum_pack_store.rb,
\* curriculum_profile_resolver.rb).
THEOREM Invariance == Spec => [](IInv /\ ResolverInv)
<1>1. IInv /\ ResolverInv /\ [Next]_vars => (IInv /\ ResolverInv)'
  BY IInvStep, ResolverStep
<1> QED
  BY InitIInv, InitResolver, <1>1, PTL DEF Spec

\* The releases, the settings, the caches and what each request holds stay of
\* their type; in particular no counter of the settings passes the number of
\* admins (curriculum_pack_store.rb:55-62, curriculum_profile_resolver.rb:25-31).
THEOREM TypeCorrect == Spec => []TypeOK
<1>1. IInv /\ ResolverInv => TypeOK
  BY DEF IInv, TypeInv, TypeOK, Rows, ResolverInv
<1> QED
  BY Invariance, <1>1, PTL

\* No interleaving and no death of requests, no stale copy of the settings and
\* no stale cache entry makes a version the default of the tenant of which no pack
\* could be fetched before, from a release or from the program's registry
\* (curriculum_profile_lifecycle_service.rb:51-60, curriculum_settings_controller.rb:136-156).
THEOREM DefaultAlwaysAvailable == Spec => []DefaultWasAvailable
<1>1. IInv => DefaultWasAvailable
  BY DEF IInv, AvailableInv, DefaultWasAvailable
<1> QED
  BY Invariance, <1>1, PTL

\* When admins come one after the other and finish, what is cached under the
\* present counter is what the releases say, whatever the readers do meanwhile
\* (curriculum_pack_store.rb:19-61, curriculum_profile_lifecycle_service.rb:44-117).
THEOREM StoreIsCurrentInOrder == Spec => []OrderlyStoreIsCurrent
<1>1. IInv => OrderlyStoreIsCurrent
  BY DEF IInv, OrderInv, OrderlyStoreIsCurrent, AtRest, Clean, DirtyAt
<1> QED
  BY Invariance, <1>1, PTL

\* ... and what the resolver remembers under its present counter is the pack of the
\* present default, although it has it from a cache below, unless a reader loaded
\* its tenant between the two invalidations or an import changed the default
\* (curriculum_profile_resolver.rb:6-31, curriculum_profile_lifecycle_service.rb:62-63).
THEOREM ResolverIsCurrentInOrder == Spec => []OrderlyResolverIsCurrent
<1>1. IInv /\ ResolverInv => OrderlyResolverIsCurrent
  BY DEF ResolverInv, OrderlyResolverIsCurrent, AtRest, Counting, Late
<1> QED
  BY Invariance, <1>1, PTL
=============================================================================
