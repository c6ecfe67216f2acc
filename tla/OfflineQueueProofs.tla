--------------------------- MODULE OfflineQueueProofs ---------------------------
(***************************************************************************)
(* Theorems about OfflineQueue, for any number of mutations and tabs.      *)
(***************************************************************************)
EXTENDS OfflineQueue, TLAPS

\* What a flush that reads the queue as it is has yet to send, and what it keeps.
FlushInv(f) ==
  /\ ToSet(snapshot[f]) \subseteq ToSet(queue) /\ ToSet(remaining[f]) \subseteq ToSet(queue)
  /\ ToSet(snapshot[f]) \cap ToSet(remaining[f]) = {}
  /\ IsInjective(snapshot[f]) /\ IsInjective(remaining[f])
  \* it is done with what was refused or applied, and keeps or has the rest
  /\ \A m \in ToSet(queue) : \/ m \in forsaken \/ applied[m] # 0
                             \/ m \in ToSet(snapshot[f]) \cup ToSet(remaining[f])
  /\ \A m \in ToSet(snapshot[f]) : m \in unsure \/ applied[m] = 0
  /\ ToSet(remaining[f]) \subseteq unsure \cap passed
  \* it has the rest in the order in which it was queued
  /\ \A m, n \in Mutations :
       Precedes(order, m, n) /\ n \in ToSet(snapshot[f])
       => m \in passed \/ m \in ToSet(log) \/ Precedes(snapshot[f], m, n)

\* A mutation is queued once.
UserInv ==
  \A m \in Mutations :
    /\ user[m] = "new" => applied[m] = 0 /\ m \notin ToSet(queue)
    /\ m \in ToSet(order) => user[m] = "queued"

\* The queue between two flushes.
QueueInv ==
  /\ IsInjective(queue)
  /\ Running = {} => \A m \in ToSet(queue) : m \in unsure \/ applied[m] = 0
  /\ \A m, n \in Mutations :
       Precedes(order, m, n) /\ n \in ToSet(queue)
       => m \in passed \/ m \in ToSet(log) \/ Precedes(queue, m, n)

\* As long as the queue is not written while a flush is under way.
Calm ==
  /\ \A f, g \in Running : f = g
  /\ \A f \in Running : FlushInv(f)
  /\ UserInv /\ QueueInv /\ forsaken \subseteq passed

\* The server applied what it logged.
LogInv == \A m \in Mutations : m \in ToSet(log) <=> applied[m] # 0

IInv == /\ TypeOK /\ LogInv /\ (~ raced => Calm)
        /\ OrderlyFlushLosesNothing /\ OrderlyFlushSendsOnce /\ OrderlyFlushKeepsTheOrder

-----------------------------------------------------------------------------
LEMMA EmptyFacts ==
  /\ ToSet(<<>>) = {} /\ IsInjective(<<>>)
  /\ \A x, y : ~ Precedes(<<>>, x, y)
BY DEF ToSet, IsInjective, Precedes

LEMMA PrecedesFacts ==
  ASSUME NEW s, NEW x, NEW y, Precedes(s, x, y)
  PROVE  x \in ToSet(s) /\ y \in ToSet(s)
BY DEF ToSet, Precedes

LEMMA AppendFacts ==
  ASSUME NEW S, NEW s \in Seq(S), NEW e \in S
  PROVE  /\ Append(s, e) \in Seq(S) /\ ToSet(Append(s, e)) = ToSet(s) \cup {e}
         /\ IsInjective(s) /\ e \notin ToSet(s) => IsInjective(Append(s, e))
         /\ \A x, y : Precedes(Append(s, e), x, y)
                      <=> Precedes(s, x, y) \/ (x \in ToSet(s) /\ y = e)
<1> DEFINE t == Append(s, e)
<1>1. /\ t \in Seq(S) /\ Len(s) \in Nat /\ DOMAIN s = 1..Len(s) /\ DOMAIN t = 1..(Len(s) + 1)
      /\ \A i \in 1..Len(s) : t[i] = s[i]
      /\ t[Len(s) + 1] = e
  OBVIOUS
<1> HIDE DEF t
<1>2. ToSet(t) = ToSet(s) \cup {e}
  BY <1>1 DEF ToSet
<1>3. IsInjective(s) /\ e \notin ToSet(s) => IsInjective(t)
  BY <1>1 DEF ToSet, IsInjective
<1>4. ASSUME NEW x, NEW y, Precedes(s, x, y)
      PROVE  Precedes(t, x, y)
  BY <1>1, <1>4 DEF Precedes
<1>5. ASSUME NEW x \in ToSet(s)
      PROVE  Precedes(t, x, e)
  <2>1. PICK i \in 1..Len(s) : s[i] = x
    BY <1>1 DEF ToSet
  <2>2. i \in DOMAIN t /\ Len(s) + 1 \in DOMAIN t /\ i < Len(s) + 1 /\ t[i] = x
    BY <1>1, <2>1
  <2> QED
    BY <1>1, <2>2 DEF Precedes
<1>6. ASSUME NEW x, NEW y, Precedes(t, x, y)
      PROVE  Precedes(s, x, y) \/ (x \in ToSet(s) /\ y = e)
  <2>1. PICK i \in 1..(Len(s) + 1), k \in 1..(Len(s) + 1) : i < k /\ t[i] = x /\ t[k] = y
    BY <1>1, <1>6 DEF Precedes
  <2>2. i \in 1..Len(s) /\ x \in ToSet(s)
    BY <1>1, <2>1 DEF ToSet
  <2>3. CASE k = Len(s) + 1
    BY <1>1, <2>1, <2>2, <2>3
  <2>4. CASE k # Len(s) + 1
    <3>1. k \in 1..Len(s)
      BY <1>1, <2>4
    <3> QED
      BY <1>1, <2>1, <2>2, <3>1 DEF Precedes
  <2> QED
    BY <2>3, <2>4
<1> QED
  BY <1>1, <1>2, <1>3, <1>4, <1>5, <1>6 DEF t

LEMMA TailFacts ==
  ASSUME NEW S, NEW s \in Seq(S), s # <<>>
  PROVE  /\ Head(s) \in S /\ Tail(s) \in Seq(S) /\ ToSet(s) = {Head(s)} \cup ToSet(Tail(s))
         /\ IsInjective(s) => /\ IsInjective(Tail(s)) /\ Head(s) \notin ToSet(Tail(s))
                              /\ \A x : ~ Precedes(s, x, Head(s))
         /\ \A x, y : Precedes(s, x, y) => x = Head(s) \/ Precedes(Tail(s), x, y)
<1> DEFINE h == Head(s)
           t == Tail(s)
<1>1. /\ Len(s) \in Nat \ {0} /\ DOMAIN s = 1..Len(s) /\ h = s[1] /\ h \in S /\ t \in Seq(S)
      /\ DOMAIN t = 1..(Len(s) - 1) /\ \A i \in 1..(Len(s) - 1) : t[i] = s[i + 1]
  OBVIOUS
<1> HIDE DEF h, t
<1>2. \A i \in 2..Len(s) : i - 1 \in 1..(Len(s) - 1) /\ t[i - 1] = s[i]
  BY <1>1
<1>3. ToSet(s) = {h} \cup ToSet(t)
  <2>1. ASSUME NEW i \in 1..Len(s) PROVE s[i] \in {h} \cup ToSet(t)
    <3>1. CASE i = 1
      BY <1>1, <3>1
    <3>2. CASE i # 1
      BY <1>1, <1>2, <3>2 DEF ToSet
    <3> QED
      BY <3>1, <3>2
  <2>2. ASSUME NEW i \in 1..(Len(s) - 1) PROVE t[i] \in ToSet(s)
    BY <1>1 DEF ToSet
  <2> QED
    <3>1. \A e \in ToSet(s) : \E i \in 1..Len(s) : e = s[i]
      BY <1>1 DEF ToSet
    <3>2. \A e \in ToSet(t) : \E i \in 1..(Len(s) - 1) : e = t[i]
      BY <1>1 DEF ToSet
    <3>3. h \in ToSet(s)
      BY <1>1 DEF ToSet
    <3> QED
      BY <2>1, <2>2, <3>1, <3>2, <3>3
<1>4. ASSUME IsInjective(s)
      PROVE  IsInjective(t) /\ h \notin ToSet(t) /\ \A x : ~ Precedes(s, x, h)
  <2>1. IsInjective(t)
    <3> SUFFICES ASSUME NEW i \in 1..(Len(s) - 1), NEW k \in 1..(Len(s) - 1), t[i] = t[k]
                 PROVE  i = k
      BY <1>1 DEF IsInjective
    <3>1. i + 1 \in DOMAIN s /\ k + 1 \in DOMAIN s /\ s[i + 1] = s[k + 1]
      BY <1>1
    <3>2. i + 1 = k + 1
      BY <1>4, <3>1 DEF IsInjective
    <3> QED
      BY <3>2
  <2>2. h \notin ToSet(t)
    <3> SUFFICES ASSUME NEW i \in 1..(Len(s) - 1), t[i] = h PROVE FALSE
      BY <1>1 DEF ToSet
    <3>1. i + 1 \in DOMAIN s /\ 1 \in DOMAIN s /\ s[i + 1] = s[1] /\ i + 1 # 1
      BY <1>1
    <3> QED
      BY <1>4, <3>1 DEF IsInjective
  <2>3. \A x : ~ Precedes(s, x, h)
    BY <1>1, <1>4 DEF IsInjective, Precedes
  <2> QED
    BY <2>1, <2>2, <2>3
<1>5. ASSUME NEW x, NEW y, Precedes(s, x, y)
      PROVE  x = h \/ Precedes(t, x, y)
  <2>1. PICK i \in 1..Len(s), k \in 1..Len(s) : i < k /\ s[i] = x /\ s[k] = y
    BY <1>1, <1>5 DEF Precedes
  <2>2. CASE i = 1
    BY <1>1, <2>1, <2>2
  <2>3. CASE i # 1
    <3>1. i \in 2..Len(s) /\ k \in 2..Len(s) /\ i - 1 < k - 1
      BY <1>1, <2>1, <2>3
    <3> QED
      BY <1>1, <1>2, <2>1, <3>1 DEF Precedes
  <2> QED
    BY <2>2, <2>3
<1> QED
  BY <1>1, <1>3, <1>4, <1>5 DEF h, t

LEMMA ElementFacts ==
  ASSUME NEW S, NEW s \in Seq(S)
  PROVE  ToSet(s) \subseteq S
BY DEF ToSet

-----------------------------------------------------------------------------
\* The mutations that the server applies in a step: none, or one.
Serves(M) == \/ M = {} /\ UNCHANGED serverVars
             \/ \E m \in Mutations : M = {m} /\ Apply(m)

LEMMA ServerFacts ==
  ASSUME TypeOK, LogInv, NEW M, Serves(M)
  PROVE  /\ applied' \in [Mutations -> 0..2] /\ log' \in Seq(Mutations) /\ LogInv'
         /\ M \subseteq Mutations /\ ToSet(log') = ToSet(log) \cup M
         /\ \A m \in Mutations \ M : applied'[m] = applied[m]
         /\ \A m \in M : applied'[m] # 0 /\ (applied[m] = 0 => applied'[m] = 1)
         /\ \A x, y : Precedes(log, x, y) => Precedes(log', x, y)
         /\ \A x \in ToSet(log), m \in M : m \notin ToSet(log) => Precedes(log', x, m)
<1>1. applied \in [Mutations -> 0..2] /\ log \in Seq(Mutations)
  BY DEF TypeOK
<1>2. CASE M = {} /\ UNCHANGED serverVars
  BY <1>1, <1>2 DEF serverVars, LogInv
<1>3. ASSUME NEW m \in Mutations, M = {m}, Apply(m)
      PROVE  /\ applied' \in [Mutations -> 0..2] /\ log' \in Seq(Mutations) /\ LogInv'
             /\ ToSet(log') = ToSet(log) \cup M
             /\ \A n \in Mutations \ M : applied'[n] = applied[n]
             /\ applied'[m] # 0 /\ (applied[m] = 0 => applied'[m] = 1)
             /\ \A x, y : Precedes(log, x, y) => Precedes(log', x, y)
             /\ \A x \in ToSet(log) : m \notin ToSet(log) => Precedes(log', x, m)
  <2>1. applied' = [applied EXCEPT ![m] = IF @ = 0 THEN 1 ELSE 2]
    BY <1>3 DEF Apply
  <2>2. /\ applied' \in [Mutations -> 0..2] /\ applied'[m] # 0 /\ (applied[m] = 0 => applied'[m] = 1)
        /\ \A n \in Mutations \ {m} : applied'[n] = applied[n]
    BY <1>1, <2>1
  <2>3. /\ log' \in Seq(Mutations) /\ ToSet(log') = ToSet(log) \cup {m}
        /\ \A x, y : Precedes(log, x, y) => Precedes(log', x, y)
        /\ \A x \in ToSet(log) : m \notin ToSet(log) => Precedes(log', x, m)
    <3>1. CASE m \in ToSet(log)
      BY <1>1, <1>3, <3>1 DEF Apply
    <3>2. CASE m \notin ToSet(log)
      <4>1. log' = Append(log, m)
        BY <1>3, <3>2 DEF Apply
      <4> QED
        BY <1>1, <4>1, AppendFacts
    <3> QED
      BY <3>1, <3>2
  <2>4. LogInv'
    BY <2>2, <2>3 DEF LogInv
  <2> QED
    BY <1>3, <2>2, <2>3, <2>4
<1> QED
  BY <1>2, <1>3 DEF Serves

\* What a step adds to the histories fits what the three properties say of them.
LEMMA HistoryStep ==
  ASSUME IInv, NEW M, Serves(M), ~ raced' => ~ raced,
         unsure \subseteq unsure', passed \subseteq passed',
         ~ raced' => early \subseteq early',
         ~ raced' => \A m \in Mutations \ forsaken' :
                       user'[m] = "queued" => applied'[m] # 0 \/ m \in ToSet(queue'),
         ~ raced' => \A m \in M : m \in unsure' \/ applied[m] = 0,
         ~ raced' => \A m, n \in Mutations :
                       Precedes(order', m, n)
                       => Precedes(order, m, n) \/ n \in early' \/ n \notin ToSet(log'),
         ~ raced' => \A m \in Mutations, n \in M :
                       Precedes(order, m, n) => m \in passed' \/ m \in ToSet(log)
  PROVE  OrderlyFlushLosesNothing' /\ OrderlyFlushSendsOnce' /\ OrderlyFlushKeepsTheOrder'
<1> USE DEF IInv
<1>1. /\ applied' \in [Mutations -> 0..2] /\ LogInv'
      /\ M \subseteq Mutations /\ ToSet(log') = ToSet(log) \cup M
      /\ \A m \in Mutations \ M : applied'[m] = applied[m]
      /\ \A m \in M : applied'[m] # 0 /\ (applied[m] = 0 => applied'[m] = 1)
      /\ \A x, y : Precedes(log, x, y) => Precedes(log', x, y)
      /\ \A x \in ToSet(log), m \in M : m \notin ToSet(log) => Precedes(log', x, m)
  BY ServerFacts
<1>2. OrderlyFlushLosesNothing'
  <2>1. \A m \in Mutations : applied'[m] # 0 => applied'[m] > 0
    BY <1>1
  <2> QED
    BY <2>1 DEF OrderlyFlushLosesNothing, Recoverable
<1>3. OrderlyFlushSendsOnce'
  <2> SUFFICES ASSUME ~ raced', NEW m \in Mutations \ unsure' PROVE applied'[m] <= 1
    BY DEF OrderlyFlushSendsOnce
  <2>1. CASE m \in M
    BY <1>1, <2>1
  <2>2. CASE m \notin M
    BY <1>1, <2>2 DEF OrderlyFlushSendsOnce
  <2> QED
    BY <2>1, <2>2
<1>4. OrderlyFlushKeepsTheOrder'
  <2> SUFFICES ASSUME ~ raced', NEW m \in Mutations, NEW n \in Mutations,
                      Precedes(order', m, n), n \in ToSet(log'), ~ Precedes(log', m, n),
                      m \notin passed', n \notin early'
               PROVE  FALSE
    BY DEF OrderlyFlushKeepsTheOrder
  <2>1. Precedes(order, m, n) /\ ~ Precedes(log, m, n) /\ m \notin passed /\ n \notin early
    BY <1>1
  <2>2. CASE n \in ToSet(log)
    BY <2>1, <2>2 DEF OrderlyFlushKeepsTheOrder
  <2>3. CASE n \notin ToSet(log)
    <3>1. n \in M
      BY <1>1, <2>3
    <3>2. m \in ToSet(log)
      BY <2>1, <3>1
    <3> QED
      BY <1>1, <2>3, <3>1, <3>2
  <2> QED
    BY <2>2, <2>3
<1> QED
  BY <1>2, <1>3, <1>4

\* Nothing happens to the queue, its flushes and the server.
LEMMA IdleStep ==
  ASSUME IInv, TypeOK', UNCHANGED <<queue, user, pc, snapshot, remaining, serverVars, unsure,
                                    passed, order, raced>>,
         ~ raced => UNCHANGED <<forsaken, early>>
  PROVE  IInv'
<1>1. /\ UNCHANGED <<queue, user, pc, snapshot, remaining, applied, log, unsure, passed, order,
                     raced>>
      /\ ~ raced => forsaken' = forsaken /\ early' = early
  BY DEF serverVars
<1>2. LogInv'
  BY <1>1 DEF IInv, LogInv
<1>3. ~ raced /\ Calm => Calm'
  BY <1>1 DEF Calm, Running, FlushInv, UserInv, QueueInv
<1>4. OrderlyFlushLosesNothing' /\ OrderlyFlushSendsOnce' /\ OrderlyFlushKeepsTheOrder'
  BY <1>1 DEF IInv, OrderlyFlushLosesNothing, Recoverable, OrderlyFlushSendsOnce,
              OrderlyFlushKeepsTheOrder
<1> QED
  BY <1>1, <1>2, <1>3, <1>4 DEF IInv

-----------------------------------------------------------------------------
\* The user makes a mutation that ends at once.
LEMMA EndStep ==
  ASSUME IInv, NEW m \in Mutations, NEW M, user[m] = "new", Serves(M), M \subseteq {m},
         End(m),
         unsure' = unsure \/ unsure' = unsure \cup {m},
         UNCHANGED <<online, flushVars, passed>>
  PROVE  IInv'
<1>1. UNCHANGED <<queue, online, due, pc, snapshot, remaining, passed, forsaken, early, order,
                  raced>> /\ user' = [user EXCEPT ![m] = "ended"]
  BY DEF flushVars, End
<1>2. /\ TypeOK /\ LogInv /\ (~ raced => Calm)
      /\ user' \in [Mutations -> {"new", "queued", "ended"}] /\ user'[m] = "ended"
      /\ \A n \in Mutations \ {m} : user'[n] = user[n]
      /\ unsure \subseteq unsure' /\ unsure' \subseteq Mutations
      /\ ToSet(queue) \subseteq Mutations
      /\ \A f \in Flushes : ToSet(snapshot[f]) \subseteq Mutations
  BY <1>1, ElementFacts DEF IInv, TypeOK
<1>3. /\ applied' \in [Mutations -> 0..2] /\ log' \in Seq(Mutations) /\ LogInv'
      /\ M \subseteq Mutations /\ ToSet(log') = ToSet(log) \cup M
      /\ \A n \in Mutations \ M : applied'[n] = applied[n]
      /\ \A n \in M : applied'[n] # 0
  BY <1>2, ServerFacts
<1>4. TypeOK'
  BY <1>1, <1>2, <1>3 DEF TypeOK
<1>5. ASSUME ~ raced
      PROVE  /\ applied[m] = 0 /\ m \notin ToSet(queue) /\ m \notin ToSet(order)
  BY <1>2, <1>5 DEF Calm, UserInv
<1>6. ~ raced' => Calm'
  <2> SUFFICES ASSUME ~ raced PROVE Calm'
    BY <1>1
  <2>1. UserInv'
    BY <1>1, <1>2, <1>3, <1>5 DEF Calm, UserInv
  <2>2. QueueInv'
    BY <1>1, <1>2, <1>3, <1>5 DEF Calm, QueueInv, Running
  <2>3. ASSUME NEW f \in Running
        PROVE  FlushInv(f)'
    <3>1. FlushInv(f) /\ f \in Flushes /\ m \notin ToSet(snapshot[f])
      BY <1>2, <1>5 DEF Calm, FlushInv, Running
    <3> QED
      BY <1>1, <1>2, <1>3, <1>5, <3>1 DEF FlushInv
  <2> QED
    BY <1>1, <1>2, <2>1, <2>2, <2>3 DEF Calm, Running
<1>7. OrderlyFlushLosesNothing' /\ OrderlyFlushSendsOnce' /\ OrderlyFlushKeepsTheOrder'
  <2>1. ~ raced' => \A n \in Mutations \ forsaken' :
                      user'[n] = "queued" => applied'[n] # 0 \/ n \in ToSet(queue')
    BY <1>1, <1>2, <1>3 DEF IInv, OrderlyFlushLosesNothing, Recoverable
  <2>2. ~ raced' => \A n \in M : n \in unsure' \/ applied[n] = 0
    BY <1>1, <1>5
  <2>3. \A k, n \in Mutations : Precedes(order', k, n)
          => Precedes(order, k, n) \/ n \in early' \/ n \notin ToSet(log')
    BY <1>1
  <2>4. ~ raced' => \A k \in Mutations, n \in M :
                      Precedes(order, k, n)
                      => k \in passed' \/ k \in ToSet(log)
    BY <1>1, <1>5, PrecedesFacts
  <2> QED
    BY <1>1, <1>2, <2>1, <2>2, <2>3, <2>4, HistoryStep
<1> QED
  BY <1>3, <1>4, <1>6, <1>7 DEF IInv

\* The user makes a mutation that is queued, after it was sent perhaps.
LEMMA QueueStep ==
  ASSUME IInv, NEW m \in Mutations, NEW M, user[m] = "new", Serves(M), M \subseteq {m},
         Enqueue(m), unsure' \in {unsure, unsure \cup {m}}, M \subseteq unsure',
         UNCHANGED <<online, flushVars, passed>>
  PROVE  IInv'
<1>1. /\ UNCHANGED <<online, due, pc, snapshot, remaining, passed>>
      /\ queue' = Append(queue, m) /\ user' = [user EXCEPT ![m] = "queued"]
      /\ order' = Append(order, m) /\ raced' = (raced \/ Running # {})
      /\ early' = IF raced' THEN {} ELSE IF applied'[m] > 0 THEN early \cup {m} ELSE early
      /\ forsaken' = IF raced' THEN {} ELSE forsaken
  BY DEF flushVars, Enqueue, Recorded
<1>2. /\ TypeOK /\ LogInv /\ (~ raced => Calm)
      /\ user' \in [Mutations -> {"new", "queued", "ended"}] /\ user'[m] = "queued"
      /\ \A n \in Mutations \ {m} : user'[n] = user[n]
      /\ unsure \subseteq unsure' /\ unsure' \subseteq Mutations
      /\ queue \in Seq(Mutations) /\ order \in Seq(Mutations) /\ raced' \in BOOLEAN
      /\ early' \subseteq Mutations /\ forsaken' \subseteq Mutations
  BY <1>1 DEF IInv, TypeOK
<1>3. /\ applied' \in [Mutations -> 0..2] /\ log' \in Seq(Mutations) /\ LogInv'
      /\ M \subseteq Mutations /\ ToSet(log') = ToSet(log) \cup M
      /\ \A n \in Mutations \ M : applied'[n] = applied[n]
      /\ \A n \in M : applied'[n] # 0
  BY <1>2, ServerFacts
<1>4. /\ queue' \in Seq(Mutations) /\ ToSet(queue') = ToSet(queue) \cup {m}
      /\ IsInjective(queue) /\ m \notin ToSet(queue) => IsInjective(queue')
      /\ \A x, y : Precedes(queue', x, y) <=> Precedes(queue, x, y) \/ (x \in ToSet(queue) /\ y = m)
      /\ ToSet(queue) \subseteq Mutations
  BY <1>1, <1>2, AppendFacts, ElementFacts
<1>5. /\ order' \in Seq(Mutations) /\ ToSet(order') = ToSet(order) \cup {m}
      /\ \A x, y : Precedes(order', x, y) <=> Precedes(order, x, y) \/ (x \in ToSet(order) /\ y = m)
  BY <1>1, <1>2, AppendFacts
<1>6. TypeOK'
  BY <1>1, <1>2, <1>3, <1>4, <1>5 DEF TypeOK
<1>7. ASSUME ~ raced'
      PROVE  /\ ~ raced /\ Calm /\ Running = {}
             /\ applied[m] = 0 /\ m \notin ToSet(queue) /\ m \notin ToSet(order)
  BY <1>1, <1>2, <1>7 DEF Calm, UserInv
<1>8. ASSUME ~ raced', NEW n \in ToSet(order), n \notin passed
      PROVE  n \in ToSet(log) \/ n \in ToSet(queue)
  <2>1. n \in Mutations /\ user[n] = "queued"
    BY <1>2, <1>7, <1>8, ElementFacts DEF Calm, UserInv
  <2>2. applied[n] > 0 \/ n \in ToSet(queue)
    BY <1>7, <1>8, <2>1 DEF IInv, Calm, OrderlyFlushLosesNothing, Recoverable
  <2>3. applied[n] > 0 => applied[n] # 0
    BY <1>2, <2>1 DEF TypeOK
  <2> QED
    BY <1>2, <2>1, <2>2, <2>3 DEF LogInv
<1>9. ~ raced' => Calm'
  <2> SUFFICES ASSUME ~ raced' PROVE Calm'
    OBVIOUS
  <2>1. UserInv'
    BY <1>2, <1>3, <1>4, <1>5, <1>7 DEF Calm, UserInv
  <2>2. IsInjective(queue')
    BY <1>4, <1>7 DEF Calm, QueueInv
  <2>3. \A n \in ToSet(queue') : n \in unsure' \/ applied'[n] = 0
    BY <1>2, <1>3, <1>4, <1>7 DEF Calm, QueueInv
  <2>4. ASSUME NEW k \in Mutations, NEW n \in Mutations,
               Precedes(order', k, n), n \in ToSet(queue')
        PROVE  k \in passed' \/ k \in ToSet(log') \/ Precedes(queue', k, n)
    <3>1. CASE k \in ToSet(order) /\ n = m
      BY <1>1, <1>3, <1>4, <1>8, <3>1
    <3>2. CASE Precedes(order, k, n)
      <4>1. n \in ToSet(queue)
        BY <1>4, <1>7, <2>4, <3>2, PrecedesFacts
      <4> QED
        BY <1>1, <1>3, <1>4, <1>7, <3>2, <4>1 DEF Calm, QueueInv
    <3> QED
      BY <1>5, <2>4, <3>1, <3>2
  <2>5. Running' = {} /\ forsaken' \subseteq passed'
    BY <1>1, <1>7 DEF Running, Calm
  <2> QED
    BY <2>1, <2>2, <2>3, <2>4, <2>5 DEF Calm, QueueInv
<1>10. OrderlyFlushLosesNothing' /\ OrderlyFlushSendsOnce' /\ OrderlyFlushKeepsTheOrder'
  <2>1. ~ raced' => \A n \in Mutations \ forsaken' :
                      user'[n] = "queued" => applied'[n] # 0 \/ n \in ToSet(queue')
    <3> SUFFICES ASSUME ~ raced', NEW n \in Mutations \ forsaken', user'[n] = "queued", n # m
                 PROVE  applied'[n] # 0 \/ n \in ToSet(queue')
      BY <1>4
    <3>1. applied[n] > 0 \/ n \in ToSet(queue)
      BY <1>1, <1>2, <1>7 DEF IInv, OrderlyFlushLosesNothing, Recoverable
    <3>2. applied[n] > 0 => applied[n] # 0
      BY <1>2 DEF TypeOK
    <3> QED
      BY <1>3, <1>4, <3>1, <3>2
  <2>2. ~ raced' => \A n \in M : n \in unsure' \/ applied[n] = 0
    OBVIOUS
  <2>3. ~ raced' => \A k, n \in Mutations :
                      Precedes(order', k, n)
                      => Precedes(order, k, n) \/ n \in early' \/ n \notin ToSet(log')
    <3>0. SUFFICES ASSUME ~ raced', m \notin early' PROVE m \notin ToSet(log')
      BY <1>5
    <3>1. applied'[m] = 0
      <4>1. applied'[m] \in 0..2
        BY <1>3
      <4> QED
        BY <1>1, <3>0, <4>1
    <3> QED
      BY <1>3, <3>1 DEF LogInv
  <2>4. ~ raced' => \A k \in Mutations, n \in M :
                      Precedes(order, k, n)
                      => k \in passed' \/ k \in ToSet(log)
    BY <1>7, PrecedesFacts
  <2>5. ~ raced' => early \subseteq early'
    BY <1>1
  <2> QED
    BY <1>1, <1>2, <1>7, <2>5, <2>1, <2>2, <2>3, <2>4, HistoryStep
<1> QED
  BY <1>3, <1>6, <1>9, <1>10 DEF IInv

-----------------------------------------------------------------------------
\* A flush reads the queue.
LEMMA StartStep ==
  ASSUME IInv, NEW f \in Flushes, Flush(f)
  PROVE  IInv'
<1>1. /\ pc[f] = "idle" /\ due' = due \ {f}
      /\ UNCHANGED <<queue, user, online, remaining, serverVars, unsure, passed, order>>
      /\ early' = (IF raced' THEN {} ELSE early) /\ forsaken' = (IF raced' THEN {} ELSE forsaken)
  BY DEF Flush, Recorded
<1>2. TypeOK /\ (~ raced => Calm)
  BY DEF IInv
<1>3. CASE queue = <<>>
  <2>1. UNCHANGED <<pc, snapshot, raced>>
    BY <1>3 DEF Flush
  <2>2. TypeOK'
    BY <1>1, <1>2, <2>1 DEF TypeOK, serverVars
  <2> QED
    BY <1>1, <2>1, <2>2, IdleStep
<1>4. CASE queue # <<>>
  <2>1. /\ pc' = [pc EXCEPT ![f] = "sending"] /\ snapshot' = [snapshot EXCEPT ![f] = queue]
        /\ raced' = (raced \/ Running # {})
        /\ ~ raced' => forsaken' = forsaken /\ early' = early
        /\ UNCHANGED <<queue, user, online, remaining, applied, log, unsure, passed, order>>
    BY <1>1, <1>4 DEF Flush, serverVars
  <2>2. /\ pc' \in [Flushes -> {"idle", "sending", "closed"}] /\ pc'[f] = "sending"
        /\ \A g \in Flushes \ {f} : pc'[g] = pc[g]
        /\ snapshot' \in [Flushes -> Seq(Mutations)] /\ snapshot'[f] = queue
        /\ \A g \in Flushes \ {f} : snapshot'[g] = snapshot[g]
        /\ remaining'[f] = <<>>
    BY <1>1, <1>2, <2>1 DEF TypeOK
  <2>3. TypeOK'
    BY <1>1, <1>2, <2>1, <2>2 DEF TypeOK
  <2>4. LogInv'
    BY <2>1 DEF IInv, LogInv
  <2>5. ~ raced' => Calm'
    <3> SUFFICES ASSUME ~ raced' PROVE Calm'
      OBVIOUS
    <3>1. Calm /\ Running = {} /\ Running' = {f}
      BY <1>2, <2>1, <2>2 DEF Running
    <3>2. UserInv'
      BY <2>1, <3>1 DEF Calm, UserInv
    <3>3. QueueInv'
      BY <2>1, <3>1 DEF Calm, QueueInv
    <3>4. FlushInv(f)'
      BY <2>1, <2>2, <3>1, EmptyFacts DEF Calm, QueueInv, FlushInv
    <3> QED
      BY <2>1, <3>1, <3>2, <3>3, <3>4 DEF Calm
  <2>6. OrderlyFlushLosesNothing' /\ OrderlyFlushSendsOnce' /\ OrderlyFlushKeepsTheOrder'
    BY <2>1 DEF IInv, OrderlyFlushLosesNothing, Recoverable, OrderlyFlushSendsOnce,
                OrderlyFlushKeepsTheOrder
  <2> QED
    BY <2>3, <2>4, <2>5, <2>6 DEF IInv
<1> QED
  BY <1>3, <1>4

\* A flush has an answer for the item it sent, and goes on with the next.
LEMMA PassStep ==
  ASSUME IInv, NEW f \in Flushes, Sending(f), NEW h, h = Head(snapshot[f]),
         NEW M, Serves(M), M \subseteq {h}, Pass(f),
         unsure' \in {unsure, unsure \cup {h}}, passed' \in {passed, passed \cup {h}},
         forsaken' \in SUBSET Mutations,
         ~ raced => forsaken' \in {forsaken, forsaken \cup {h}} /\ forsaken' \subseteq passed',
         \/ M = {h} /\ remaining' = remaining
         \/ (~ raced => h \in forsaken') /\ remaining' = remaining
         \/ h \in unsure' /\ h \in passed' /\ remaining' = [remaining EXCEPT ![f] = Append(@, h)],
         UNCHANGED <<queue, user, online, due, pc, early, order, raced>>
  PROVE  IInv'
<1> DEFINE s == snapshot[f]
           t == Tail(s)
           r == remaining[f]
<1>1. TypeOK /\ LogInv /\ (~ raced => Calm) /\ f \in Running
  BY DEF IInv, Sending, Running
<1>2. s \in Seq(Mutations) /\ s # <<>> /\ r \in Seq(Mutations)
  BY <1>1 DEF TypeOK, Sending
<1>3. /\ h \in Mutations /\ t \in Seq(Mutations) /\ ToSet(s) = {h} \cup ToSet(t)
      /\ IsInjective(s) => IsInjective(t) /\ h \notin ToSet(t) /\ \A x : ~ Precedes(s, x, h)
      /\ \A x, y : Precedes(s, x, y) => x = h \/ Precedes(t, x, y)
  BY <1>2, TailFacts
<1>4. /\ applied' \in [Mutations -> 0..2] /\ log' \in Seq(Mutations) /\ LogInv'
      /\ ToSet(log') = ToSet(log) \cup M
      /\ \A n \in Mutations \ M : applied'[n] = applied[n]
      /\ \A n \in M : applied'[n] # 0
  BY <1>1, ServerFacts
<1>5. /\ snapshot' \in [Flushes -> Seq(Mutations)] /\ snapshot'[f] = t
      /\ \A g \in Flushes \ {f} : snapshot'[g] = snapshot[g]
  BY <1>1, <1>3 DEF TypeOK, Pass
<1>6. /\ remaining' \in [Flushes -> Seq(Mutations)]
      /\ \A g \in Flushes \ {f} : remaining'[g] = remaining[g]
      /\ \/ remaining'[f] = r /\ (M = {h} \/ (~ raced => h \in forsaken'))
         \/ h \in unsure' /\ h \in passed' /\ remaining'[f] = Append(r, h)
  <2>1. remaining \in [Flushes -> Seq(Mutations)] /\ Append(r, h) \in Seq(Mutations)
    BY <1>1, <1>2, <1>3, AppendFacts DEF TypeOK
  <2> DEFINE a == Append(r, h)
  <2> HIDE DEF a
  <2>2. CASE remaining' = remaining /\ (M = {h} \/ (~ raced => h \in forsaken'))
    BY <2>1, <2>2 DEF a
  <2>3. CASE h \in unsure' /\ h \in passed' /\ remaining' = [remaining EXCEPT ![f] = Append(@, h)]
    <3>1. remaining' = [remaining EXCEPT ![f] = a] /\ a \in Seq(Mutations)
      BY <2>1, <2>3 DEF a
    <3>2. /\ remaining' \in [Flushes -> Seq(Mutations)] /\ remaining'[f] = a
          /\ \A g \in Flushes \ {f} : remaining'[g] = remaining[g]
      BY <2>1, <3>1
    <3> QED
      BY <2>3, <3>2 DEF a
  <2> QED
    BY <2>2, <2>3
<1>7. TypeOK'
  <2>1. unsure' \subseteq Mutations /\ passed' \subseteq Mutations
    BY <1>1, <1>3 DEF TypeOK
  <2>2. \A g \in Flushes : pc[g] # "sending" => snapshot'[g] = <<>> /\ remaining'[g] = <<>>
    BY <1>1, <1>5, <1>6 DEF TypeOK, Sending
  <2> QED
    BY <1>1, <1>4, <1>5, <1>6, <2>1, <2>2 DEF TypeOK
<1> HIDE DEF s, t, r
<1>8. ASSUME ~ raced
      PROVE  /\ Calm /\ FlushInv(f) /\ ToSet(queue) \subseteq Mutations
             /\ IsInjective(t) /\ h \notin ToSet(t) /\ \A x : ~ Precedes(s, x, h)
             /\ h \in ToSet(queue) /\ h \notin ToSet(r)
             /\ h \in unsure \/ applied[h] = 0
    BY <1>1, <1>3, <1>8, ElementFacts DEF Calm, FlushInv, s, r, TypeOK
<1>9. ~ raced' => Calm'
  <2> SUFFICES ASSUME ~ raced PROVE Calm'
    OBVIOUS
  <2>1. Running' = Running /\ \A g \in Running : g = f
    BY <1>1, <1>8 DEF Calm, Running
  <2>2. UserInv'
    BY <1>1, <1>3, <1>4, <1>8 DEF Calm, UserInv
  <2>3. QueueInv'
    <3>1. ~ (Running' = {})
      BY <1>1, <2>1
    <3>2. IsInjective(queue')
      BY <1>8 DEF Calm, QueueInv
    <3>3. \A m, n \in Mutations :
            Precedes(order', m, n) /\ n \in ToSet(queue')
            => m \in passed' \/ m \in ToSet(log') \/ Precedes(queue', m, n)
      BY <1>4, <1>8 DEF Calm, QueueInv
    <3> QED
      BY <3>1, <3>2, <3>3 DEF QueueInv
  <2>4. FlushInv(f)'
    <3>1. /\ ToSet(remaining'[f]) \subseteq ToSet(r) \cup {h} /\ IsInjective(remaining'[f])
          /\ ToSet(remaining'[f]) \subseteq unsure' \cap passed'
          /\ ToSet(r) \subseteq ToSet(remaining'[f])
          /\ h \in ToSet(remaining'[f]) \/ M = {h} \/ h \in forsaken'
      <4>1. IsInjective(r) /\ ToSet(r) \subseteq unsure \cap passed /\ r \in Seq(Mutations)
        BY <1>2, <1>8 DEF FlushInv, r
      <4>2. ToSet(Append(r, h)) = ToSet(r) \cup {h} /\ IsInjective(Append(r, h))
        BY <1>3, <1>8, <4>1, AppendFacts
      <4> QED
        BY <1>6, <4>1, <4>2
    <3>2. /\ ToSet(t) \subseteq ToSet(queue) /\ ToSet(remaining'[f]) \subseteq ToSet(queue)
          /\ ToSet(t) \cap ToSet(remaining'[f]) = {}
      BY <1>3, <1>8, <3>1 DEF FlushInv, s, r
    <3>3. \A m \in ToSet(queue) : \/ m \in forsaken' \/ applied'[m] # 0
                                  \/ m \in ToSet(t) \cup ToSet(remaining'[f])
      BY <1>3, <1>4, <1>8, <3>1 DEF FlushInv, s, r
    <3>4. \A m \in ToSet(t) : m \in unsure' \/ applied'[m] = 0
      BY <1>3, <1>4, <1>8 DEF FlushInv, s
    <3>5. ASSUME NEW m \in Mutations, NEW n \in Mutations, Precedes(order, m, n), n \in ToSet(t)
          PROVE  m \in passed' \/ m \in ToSet(log') \/ Precedes(t, m, n)
      <4>1. m \in passed \/ m \in ToSet(log) \/ Precedes(s, m, n)
        BY <1>3, <1>8, <3>5 DEF FlushInv, s
      <4> QED
        BY <1>3, <1>4, <4>1
    <3> QED
      BY <1>5, <1>8, <3>1, <3>2, <3>3, <3>4, <3>5 DEF FlushInv
  <2> QED
    BY <2>1, <2>2, <2>3, <2>4 DEF Calm
<1>10. OrderlyFlushLosesNothing' /\ OrderlyFlushSendsOnce' /\ OrderlyFlushKeepsTheOrder'
  <2>1. ~ raced' => \A n \in Mutations \ forsaken' :
                      user'[n] = "queued" => applied'[n] # 0 \/ n \in ToSet(queue')
    <3> SUFFICES ASSUME ~ raced', NEW n \in Mutations \ forsaken', user'[n] = "queued"
                 PROVE  applied'[n] # 0 \/ n \in ToSet(queue')
      OBVIOUS
    <3>1. applied[n] > 0 \/ n \in ToSet(queue)
      BY DEF IInv, OrderlyFlushLosesNothing, Recoverable
    <3>2. applied[n] > 0 => applied[n] # 0
      BY <1>1 DEF TypeOK
    <3> QED
      BY <1>4, <3>1, <3>2
  <2>2. ~ raced' => \A n \in M : n \in unsure' \/ applied[n] = 0
    BY <1>8
  <2>3. ~ raced' => \A k, n \in Mutations :
                      Precedes(order', k, n)
                      => Precedes(order, k, n) \/ n \in early' \/ n \notin ToSet(log')
    OBVIOUS
  <2>4. ~ raced' => \A k \in Mutations, n \in M :
                      Precedes(order, k, n)
                      => k \in passed' \/ k \in ToSet(log)
    <3> SUFFICES ASSUME ~ raced', NEW k \in Mutations, h \in M, Precedes(order, k, h)
                 PROVE  k \in passed' \/ k \in ToSet(log)
      OBVIOUS
    <3>1. k \in passed \/ k \in ToSet(log) \/ Precedes(s, k, h)
      BY <1>3, <1>8 DEF FlushInv, s
    <3> QED
      BY <1>8, <3>1
  <2> QED
    BY <2>1, <2>2, <2>3, <2>4, HistoryStep
<1> QED
  BY <1>4, <1>7, <1>9, <1>10 DEF IInv

\* A flush ends: what it leaves in the queue.
LEMMA StopStep ==
  ASSUME IInv, NEW f \in Running, NEW l \in {"idle", "closed"}, NEW M, Serves(M),
         pc' = [pc EXCEPT ![f] = l], snapshot' = [snapshot EXCEPT ![f] = <<>>],
         remaining' = [remaining EXCEPT ![f] = <<>>], due' \subseteq due,
         queue' \in Seq(Mutations), unsure \subseteq unsure', unsure' \subseteq Mutations,
         forsaken' \in SUBSET Mutations,
         ~ raced =>
           /\ ToSet(queue') \subseteq ToSet(queue) /\ IsInjective(queue')
           /\ forsaken \subseteq forsaken' /\ forsaken' \subseteq passed
           /\ \A m \in Mutations, n \in M :
                Precedes(order, m, n) => m \in passed \/ m \in ToSet(log)
           /\ \A m \in ToSet(queue) : m \in ToSet(queue') \/ m \in forsaken' \/ applied'[m] # 0
           /\ \A m \in ToSet(queue') : m \in unsure' \/ applied'[m] = 0
           /\ M \subseteq unsure'
           /\ \A m, n \in Mutations :
                Precedes(order, m, n) /\ n \in ToSet(queue')
                => m \in passed \/ m \in ToSet(log') \/ Precedes(queue', m, n),
         M \subseteq ToSet(queue) \/ raced,
         UNCHANGED <<user, online, passed, early, order, raced>>
  PROVE  IInv'
<1>1. TypeOK /\ LogInv /\ (~ raced => Calm) /\ f \in Flushes /\ pc[f] = "sending"
  BY DEF IInv, Running
<1>2. /\ pc' \in [Flushes -> {"idle", "sending", "closed"}] /\ pc'[f] = l
      /\ \A g \in Flushes \ {f} : pc'[g] = pc[g] /\ snapshot'[g] = snapshot[g]
                                  /\ remaining'[g] = remaining[g]
      /\ snapshot' \in [Flushes -> Seq(Mutations)] /\ remaining' \in [Flushes -> Seq(Mutations)]
      /\ snapshot'[f] = <<>> /\ remaining'[f] = <<>>
  BY <1>1 DEF TypeOK
<1>3. /\ applied' \in [Mutations -> 0..2] /\ log' \in Seq(Mutations) /\ LogInv'
      /\ M \subseteq Mutations /\ ToSet(log') = ToSet(log) \cup M
      /\ \A n \in Mutations \ M : applied'[n] = applied[n]
      /\ \A n \in M : applied'[n] # 0
  BY <1>1, ServerFacts
<1>4. TypeOK'
  BY <1>1, <1>2, <1>3 DEF TypeOK
<1>5. ~ raced' => Calm'
  <2> SUFFICES ASSUME ~ raced PROVE Calm'
    OBVIOUS
  <2>1. Running' = {}
    BY <1>1, <1>2 DEF Calm, Running
  <2>2. UserInv'
    BY <1>1, <1>3 DEF Calm, UserInv
  <2>3. QueueInv'
    BY <2>1 DEF QueueInv
  <2> QED
    BY <2>1, <2>2, <2>3 DEF Calm
<1>6. OrderlyFlushLosesNothing' /\ OrderlyFlushSendsOnce' /\ OrderlyFlushKeepsTheOrder'
  <2>1. ~ raced' => \A n \in Mutations \ forsaken' :
                      user'[n] = "queued" => applied'[n] # 0 \/ n \in ToSet(queue')
    <3> SUFFICES ASSUME ~ raced', NEW n \in Mutations \ forsaken', user'[n] = "queued"
                 PROVE  applied'[n] # 0 \/ n \in ToSet(queue')
      OBVIOUS
    <3>1. applied[n] > 0 \/ n \in ToSet(queue)
      BY DEF IInv, OrderlyFlushLosesNothing, Recoverable
    <3>2. applied[n] > 0 => applied[n] # 0
      BY <1>1 DEF TypeOK
    <3> QED
      BY <1>3, <3>1, <3>2
  <2>2. ~ raced' => \A n \in M : n \in unsure' \/ applied[n] = 0
    OBVIOUS
  <2>3. ~ raced' => \A k, n \in Mutations :
                      Precedes(order', k, n)
                      => Precedes(order, k, n) \/ n \in early' \/ n \notin ToSet(log')
    OBVIOUS
  <2>4. ~ raced' => \A k \in Mutations, n \in M :
                      Precedes(order, k, n)
                      => k \in passed' \/ k \in ToSet(log)
    OBVIOUS
  <2> QED
    BY <2>1, <2>2, <2>3, <2>4, HistoryStep
<1> QED
  BY <1>3, <1>4, <1>5, <1>6 DEF IInv

-----------------------------------------------------------------------------
LEMMA UserStep ==
  ASSUME IInv, NEW m \in Mutations, User(m)
  PROVE  IInv'
<1>1. user[m] = "new"
  BY DEF User, QueueAtOnce, SendDirectly, FailDirectly, RefuseDirectly
<1>2. CASE QueueAtOnce(m)
  <2>1. Serves({}) /\ Enqueue(m) /\ unsure' = unsure /\ UNCHANGED <<online, flushVars, passed>>
    BY <1>2 DEF QueueAtOnce, Serves
  <2> QED
    BY <1>1, <2>1, QueueStep
<1>3. CASE SendDirectly(m)
  <2>1. Serves({m}) /\ End(m) /\ unsure' = unsure /\ UNCHANGED <<online, flushVars, passed>>
    BY <1>3 DEF SendDirectly, Serves
  <2> QED
    BY <1>1, <2>1, EndStep
<1>4. CASE FailDirectly(m)
  <2>1. PICK M \in SUBSET {m} : Serves(M)
    BY <1>4 DEF FailDirectly, MaybeApply, Serves
  <2>2. unsure' = unsure \cup {m} /\ UNCHANGED <<online, flushVars, passed>>
    BY <1>4 DEF FailDirectly, MaybeApply
  <2>3. CASE Enqueue(m)
    BY <1>1, <2>1, <2>2, <2>3, QueueStep
  <2>4. CASE End(m)
    BY <1>1, <2>1, <2>2, <2>4, EndStep
  <2> QED
    BY <1>4, <2>3, <2>4 DEF FailDirectly
<1>5. CASE RefuseDirectly(m)
  <2>1. Serves({}) /\ unsure' = unsure /\ UNCHANGED <<online, flushVars, passed>>
    BY <1>5 DEF RefuseDirectly, Serves
  <2>2. CASE Enqueue(m)
    BY <1>1, <2>1, <2>2, QueueStep
  <2>3. CASE End(m)
    BY <1>1, <2>1, <2>3, EndStep
  <2> QED
    BY <1>5, <2>2, <2>3 DEF RefuseDirectly
<1> QED
  BY <1>2, <1>3, <1>4, <1>5 DEF User

LEMMA AnswerStep ==
  ASSUME IInv, NEW f \in Flushes, Deliver(f) \/ Refuse(f) \/ ServerError(f)
  PROVE  IInv'
<1> DEFINE h == Head(snapshot[f])
<1>1. /\ Sending(f) /\ Pass(f)
      /\ UNCHANGED <<queue, user, online, due, pc, early, order, raced>>
  BY DEF Deliver, Refuse, ServerError, stepVars
<1>2. h \in Mutations
  BY <1>1, TailFacts DEF IInv, TypeOK, Sending
<1>0. forsaken \in SUBSET Mutations /\ (~ raced => forsaken \subseteq passed)
  BY DEF IInv, TypeOK, Calm
<1>3. CASE Deliver(f)
  <2>1. Serves({h}) /\ UNCHANGED <<remaining, unsure, passed, forsaken>>
    BY <1>2, <1>3 DEF Deliver, Serves, stepVars
  <2> QED
    BY <1>0, <1>1, <2>1, PassStep
<1>4. CASE Refuse(f)
  <2>1. /\ Serves({}) /\ passed' = passed \cup {h} /\ UNCHANGED <<remaining, unsure>>
        /\ forsaken' = IF raced THEN {} ELSE forsaken \cup {h}
    BY <1>1, <1>4 DEF Refuse, Serves, Recorded
  <2>2. /\ forsaken' \in SUBSET Mutations
        /\ ~ raced => /\ forsaken' \in {forsaken, forsaken \cup {h}}
                      /\ forsaken' \subseteq passed' /\ h \in forsaken'
    BY <1>0, <1>2, <2>1
  <2> QED
    BY <1>1, <2>1, <2>2, PassStep
<1>5. CASE ServerError(f)
  <2>1. /\ unsure' = unsure \cup {h} /\ passed' = passed \cup {h} /\ forsaken' = forsaken
        /\ remaining' = [remaining EXCEPT ![f] = Append(@, h)]
    BY <1>5 DEF ServerError, MaybeApply
  <2>2. PICK M \in SUBSET {h} : Serves(M)
    BY <1>2, <1>5 DEF ServerError, MaybeApply, Serves
  <2> QED
    BY <1>0, <1>1, <2>1, <2>2, PassStep
<1> QED
  BY <1>3, <1>4, <1>5

LEMMA FailureStep ==
  ASSUME IInv, NEW f \in Flushes, NetworkFailure(f)
  PROVE  IInv'
<1> DEFINE s == snapshot[f]
           h == Head(s)
<1>1. /\ Sending(f) /\ f \in Running /\ queue' = s /\ Stop(f) /\ unsure' = unsure \cup {h}
      /\ UNCHANGED <<user, online, due, passed, early, order, raced>>
      /\ forsaken' = IF raced THEN {} ELSE forsaken \cup ToSet(remaining[f])
  BY DEF NetworkFailure, Sending, Running, Unsent, MaybeApply, Recorded
<1>2. TypeOK /\ LogInv /\ (~ raced => Calm) /\ s \in Seq(Mutations) /\ s # <<>>
  BY <1>1 DEF IInv, TypeOK, Sending
<1>3. /\ h \in Mutations /\ ToSet(s) = {h} \cup ToSet(Tail(s))
      /\ IsInjective(s) => \A x : ~ Precedes(s, x, h)
  BY <1>2, TailFacts
<1>4. PICK M \in SUBSET {h} : Serves(M)
  <2>1. Apply(h) \/ UNCHANGED serverVars
    BY DEF NetworkFailure, MaybeApply
  <2> HIDE DEF h
  <2>2. CASE Apply(h)
    <3>1. Serves({h})
      BY <1>3, <2>2 DEF Serves
    <3> QED
      BY <3>1
  <2>3. CASE UNCHANGED serverVars
    <3>1. Serves({})
      BY <2>3 DEF Serves
    <3> QED
      BY <3>1
  <2> QED
    BY <2>1, <2>2, <2>3
<1>5. /\ ToSet(log') = ToSet(log) \cup M /\ M \subseteq Mutations
      /\ \A n \in Mutations \ M : applied'[n] = applied[n]
      /\ \A n \in M : applied'[n] # 0
  BY <1>2, <1>4, ServerFacts
<1> HIDE DEF h, s
<1>6. ASSUME ~ raced
      PROVE  /\ ToSet(queue') \subseteq ToSet(queue) /\ IsInjective(queue')
             /\ forsaken \subseteq forsaken' /\ forsaken' \subseteq passed
             /\ \A m \in Mutations, n \in M :
                  Precedes(order, m, n) => m \in passed \/ m \in ToSet(log)
             /\ \A m \in ToSet(queue) : m \in ToSet(queue') \/ m \in forsaken' \/ applied'[m] # 0
             /\ \A m \in ToSet(queue') : m \in unsure' \/ applied'[m] = 0
             /\ \A m, n \in Mutations :
                  Precedes(order, m, n) /\ n \in ToSet(queue')
                  => m \in passed \/ m \in ToSet(log') \/ Precedes(queue', m, n)
             /\ h \in ToSet(queue)
  <2>1. FlushInv(f) /\ ToSet(queue) \subseteq Mutations
    BY <1>1, <1>2, <1>6, ElementFacts DEF Calm, TypeOK
  <2>2. ToSet(s) \subseteq ToSet(queue) /\ IsInjective(s)
    BY <2>1 DEF FlushInv, s
  <2>3. \A m \in ToSet(queue) : m \in ToSet(s) \/ m \in forsaken' \/ applied'[m] # 0
    BY <1>1, <1>5, <1>6, <2>1 DEF FlushInv, s
  <2>4. \A m \in ToSet(s) : m \in unsure' \/ applied'[m] = 0
    BY <1>1, <1>5, <2>1, <2>2 DEF FlushInv, s
  <2>5. \A m, n \in Mutations :
          Precedes(order, m, n) /\ n \in ToSet(s)
          => m \in passed \/ m \in ToSet(log') \/ Precedes(s, m, n)
    BY <1>5, <2>1 DEF FlushInv, s
  <2>6. forsaken \subseteq forsaken' /\ forsaken' \subseteq passed
    BY <1>1, <1>2, <1>6, <2>1 DEF Calm, FlushInv
  <2>7. \A m \in Mutations : Precedes(order, m, h) => m \in passed \/ m \in ToSet(log)
    <3>1. h \in ToSet(s) /\ \A x : ~ Precedes(s, x, h)
      BY <1>3, <2>2
    <3> QED
      BY <1>3, <2>1, <3>1 DEF FlushInv, s
  <2>8. \A m \in Mutations, n \in M : Precedes(order, m, n) => m \in passed \/ m \in ToSet(log)
    BY <1>4, <2>7
  <2>9. h \in ToSet(s)
    BY <1>3
  <2>10. IsInjective(queue') /\ ToSet(queue') \subseteq ToSet(queue) /\ h \in ToSet(queue)
    BY <1>1, <2>2, <2>9
  <2> QED
    BY <1>1, <2>3, <2>4, <2>5, <2>6, <2>8, <2>10
<1>0. forsaken' \in SUBSET Mutations
  BY <1>1, <1>2, ElementFacts DEF TypeOK
<1>7. /\ queue' \in Seq(Mutations) /\ unsure \subseteq unsure' /\ unsure' \subseteq Mutations
      /\ M \subseteq unsure' /\ due' \subseteq due /\ (M \subseteq ToSet(queue) \/ raced)
  BY <1>1, <1>2, <1>3, <1>6 DEF TypeOK
<1>8. /\ pc' = [pc EXCEPT ![f] = "idle"] /\ snapshot' = [snapshot EXCEPT ![f] = <<>>]
      /\ remaining' = [remaining EXCEPT ![f] = <<>>]
  BY <1>1 DEF Stop
<1> QED
  BY <1>0, <1>1, <1>4, <1>6, <1>7, <1>8, StopStep

LEMMA FinishStep ==
  ASSUME IInv, NEW f \in Flushes, Finish(f)
  PROVE  IInv'
<1>1. /\ f \in Running /\ snapshot[f] = <<>> /\ queue' = remaining[f] /\ Serves({})
      /\ UNCHANGED <<user, online, due, passed, forsaken, early, order, raced, unsure, applied, log>>
  BY DEF Finish, Running, Kept, Serves, serverVars, stepVars
<1>2. TypeOK /\ LogInv /\ (~ raced => Calm) /\ remaining[f] \in Seq(Mutations)
  BY <1>1 DEF IInv, TypeOK
<1>3. ASSUME ~ raced
      PROVE  /\ ToSet(queue') \subseteq ToSet(queue) /\ IsInjective(queue')
             /\ forsaken \subseteq forsaken' /\ forsaken' \subseteq passed
             /\ \A m \in ToSet(queue) : m \in ToSet(queue') \/ m \in forsaken' \/ applied'[m] # 0
             /\ \A m \in ToSet(queue') : m \in unsure' \/ applied'[m] = 0
             /\ \A m, n \in Mutations :
                  Precedes(order, m, n) /\ n \in ToSet(queue')
                  => m \in passed \/ m \in ToSet(log') \/ Precedes(queue', m, n)
  <2>1. FlushInv(f) /\ QueueInv
    BY <1>1, <1>2, <1>3 DEF Calm
  <2>2. \A m \in ToSet(queue) :
          m \in ToSet(queue') \/ m \in forsaken' \/ applied[m] # 0
    BY <1>1, <2>1, EmptyFacts DEF FlushInv
  <2>4. forsaken \subseteq forsaken' /\ forsaken' \subseteq passed
        /\ ToSet(queue') \subseteq passed
    BY <1>1, <1>2, <1>3, <2>1 DEF Calm, FlushInv
  <2>3. ASSUME NEW m \in Mutations, NEW n \in Mutations, Precedes(order, m, n), n \in ToSet(queue')
        PROVE  m \in passed \/ m \in ToSet(log')
    <3>1. n \in ToSet(queue)
      BY <1>1, <2>1, <2>3 DEF FlushInv
    <3>2. m \in passed \/ m \in ToSet(log) \/ m \in ToSet(queue)
      BY <2>1, <2>3, <3>1, PrecedesFacts DEF QueueInv
    <3> QED
      BY <1>1, <1>2, <2>2, <2>4, <3>2 DEF LogInv
  <2> QED
    BY <1>1, <2>1, <2>2, <2>3, <2>4 DEF FlushInv
<1>4. /\ pc' = [pc EXCEPT ![f] = "idle"] /\ snapshot' = [snapshot EXCEPT ![f] = <<>>]
      /\ remaining' = [remaining EXCEPT ![f] = <<>>]
  BY DEF Finish, Stop
<1>5. unsure' \subseteq Mutations /\ forsaken' \in SUBSET Mutations
  BY <1>1, <1>2 DEF TypeOK
<1> QED
  BY <1>1, <1>2, <1>3, <1>4, <1>5, StopStep

LEMMA CloseStep ==
  ASSUME IInv, NEW f \in Flushes, Close(f)
  PROVE  IInv'
<1> DEFINE s == snapshot[f]
           kept == IF Sending(f) THEN ToSet(Tail(s)) ELSE {}
<1>1. /\ f \in Running /\ pc' = [pc EXCEPT ![f] = "closed"] /\ due' \subseteq due
      /\ snapshot' = [snapshot EXCEPT ![f] = <<>>] /\ remaining' = [remaining EXCEPT ![f] = <<>>]
      /\ unsure' = unsure \cup (ToSet(queue) \ kept)
      /\ UNCHANGED <<queue, user, online, passed, forsaken, early, order, raced>>
  BY DEF Close, Running, stepVars
<1>2. TypeOK /\ LogInv /\ (~ raced => Calm) /\ s \in Seq(Mutations)
  BY <1>1 DEF IInv, TypeOK
<1>3. Sending(f) => /\ Head(s) \in Mutations /\ ToSet(s) = {Head(s)} \cup ToSet(Tail(s))
                    /\ IsInjective(s) => /\ Head(s) \notin ToSet(Tail(s))
                                         /\ \A x : ~ Precedes(s, x, Head(s))
  BY <1>2, TailFacts DEF Sending
<1>4. PICK M \in SUBSET Mutations : Serves(M) /\ (M = {} \/ (Sending(f) /\ M = {Head(s)}))
  <2>1. CASE Sending(f) /\ Apply(Head(s))
    BY <1>3, <2>1 DEF Serves
  <2>2. CASE UNCHANGED serverVars
    <3>1. Serves({}) /\ {} \in SUBSET Mutations
      BY <2>2 DEF Serves
    <3> QED
      BY <3>1
  <2> QED
    BY <2>1, <2>2 DEF Close
<1>5. /\ ToSet(log') = ToSet(log) \cup M
      /\ \A n \in Mutations \ M : applied'[n] = applied[n]
      /\ \A n \in M : applied'[n] # 0
  BY <1>2, <1>4, ServerFacts
<1>6. ToSet(queue) \subseteq Mutations /\ queue' \in Seq(Mutations)
  BY <1>1, <1>2, ElementFacts DEF TypeOK
<1> HIDE DEF s
<1>7. ASSUME ~ raced
      PROVE  /\ IsInjective(queue') /\ M \subseteq unsure' /\ M \subseteq ToSet(queue)
             /\ forsaken \subseteq forsaken' /\ forsaken' \subseteq passed
             /\ \A m \in Mutations, n \in M :
                  Precedes(order, m, n) => m \in passed \/ m \in ToSet(log)
             /\ \A m \in ToSet(queue') : m \in unsure' \/ applied'[m] = 0
             /\ \A m, n \in Mutations :
                  Precedes(order, m, n) /\ n \in ToSet(queue')
                  => m \in passed \/ m \in ToSet(log') \/ Precedes(queue', m, n)
  <2>1. FlushInv(f) /\ QueueInv
    BY <1>1, <1>2, <1>7 DEF Calm
  <2>2. ToSet(s) \subseteq ToSet(queue) /\ IsInjective(s)
        /\ \A m \in ToSet(s) : m \in unsure \/ applied[m] = 0
    BY <2>1 DEF FlushInv, s
  <2>3. M \cap kept = {} /\ M \subseteq ToSet(queue) /\ kept \subseteq ToSet(s)
    BY <1>3, <1>4, <2>2
  <2> HIDE DEF kept
  <2>4. \A m \in ToSet(queue) : m \in unsure' \/ applied'[m] = 0
    BY <1>1, <1>5, <1>6, <2>2, <2>3
  <2>5. \A m, n \in Mutations :
          Precedes(order, m, n) /\ n \in ToSet(queue)
          => m \in passed \/ m \in ToSet(log') \/ Precedes(queue, m, n)
    BY <1>5, <2>1 DEF QueueInv
  <2>6. IsInjective(queue)
    BY <2>1 DEF QueueInv
  <2>7. forsaken \subseteq forsaken' /\ forsaken' \subseteq passed
    BY <1>1, <1>2, <1>7 DEF Calm
  <2>8. \A m \in Mutations, n \in M : Precedes(order, m, n) => m \in passed \/ m \in ToSet(log)
    BY <1>3, <1>4, <2>1, <2>2 DEF FlushInv, s
  <2> QED
    BY <1>1, <2>3, <2>4, <2>5, <2>6, <2>7, <2>8
<1> HIDE DEF kept
<1>8. unsure \subseteq unsure' /\ unsure' \subseteq Mutations /\ forsaken' \in SUBSET Mutations
      /\ (M \subseteq ToSet(queue) \/ raced)
  BY <1>1, <1>2, <1>6, <1>7 DEF TypeOK
<1> QED
  BY <1>1, <1>4, <1>6, <1>7, <1>8, StopStep

-----------------------------------------------------------------------------
LEMMA InitInv == Init => IInv
<1> SUFFICES ASSUME Init PROVE IInv
  OBVIOUS
<1>1. TypeOK
  <2>1. /\ queue = <<>> /\ order = <<>> /\ log = <<>> /\ unsure = {} /\ passed = {} /\ due = {}
        /\ forsaken = {} /\ early = {}
        /\ online \in BOOLEAN /\ raced = FALSE
        /\ user = [m \in Mutations |-> "new"] /\ applied = [m \in Mutations |-> 0]
        /\ pc = [f \in Flushes |-> "idle"]
        /\ snapshot = [f \in Flushes |-> <<>>] /\ remaining = [f \in Flushes |-> <<>>]
    BY DEF Init
  <2>2. <<>> \in Seq(Mutations) /\ 0 \in 0..2
    OBVIOUS
  <2>3. snapshot \in [Flushes -> Seq(Mutations)] /\ remaining \in [Flushes -> Seq(Mutations)]
    BY <2>1, <2>2
  <2> QED
    BY <2>1, <2>2, <2>3 DEF TypeOK
<1>2. Running = {} /\ forsaken \subseteq passed
  BY DEF Init, Running
<1>3. LogInv /\ UserInv /\ QueueInv
  BY EmptyFacts DEF Init, LogInv, UserInv, QueueInv
<1>4. OrderlyFlushLosesNothing /\ OrderlyFlushSendsOnce /\ OrderlyFlushKeepsTheOrder
  BY EmptyFacts DEF Init, OrderlyFlushLosesNothing, Recoverable, OrderlyFlushSendsOnce,
                    OrderlyFlushKeepsTheOrder
<1> QED
  BY <1>1, <1>2, <1>3, <1>4 DEF IInv, Calm

LEMMA NextInv ==
  ASSUME IInv, [Next]_vars
  PROVE  IInv'
<1>1. CASE UNCHANGED vars
  <2>1. UNCHANGED <<queue, user, online, due, pc, snapshot, remaining, applied, log, unsure,
                    passed, forsaken, early, order, raced>>
    BY <1>1 DEF vars
  <2>2. TypeOK'
    BY <2>1 DEF IInv, TypeOK
  <2> QED
    BY <2>1, <2>2, IdleStep DEF serverVars
<1>2. CASE GoOffline \/ GoOnline
  <2>1. /\ UNCHANGED <<queue, user, pc, snapshot, remaining, serverVars, unsure, passed, forsaken,
                       early, order, raced>>
        /\ online' \in BOOLEAN /\ due' \subseteq Flushes
    BY <1>2 DEF GoOffline, GoOnline, flushVars, stepVars, IInv, TypeOK
  <2>2. TypeOK'
    BY <2>1 DEF IInv, TypeOK, serverVars
  <2> QED
    BY <2>1, <2>2, IdleStep
<1>3. ASSUME NEW f \in Flushes, FlushStep(f)
      PROVE  IInv'
  BY <1>3, AnswerStep, FailureStep, FinishStep DEF FlushStep
<1> QED
  BY <1>1, <1>2, <1>3, UserStep, StartStep, CloseStep DEF Next

LEMMA Invariance == Spec => []IInv
<1>1. IInv /\ [Next]_vars => IInv'
  BY NextInv
<1> QED
  BY InitInv, <1>1, PTL DEF Spec

\* Every variable keeps its type, and a tab that is not flushing holds nothing
\* of the queue.
THEOREM OfflineQueueType == Spec => []TypeOK
<1>1. IInv => TypeOK
  BY DEF IInv
<1> QED
  BY Invariance, <1>1, PTL

\* As long as the queue is not written while a flush is under way, any number of
\* tabs that are closed and connections that are lost lose nothing of it.
THEOREM FlushLosesNothing == Spec => []OrderlyFlushLosesNothing
<1>1. IInv => OrderlyFlushLosesNothing
  BY DEF IInv
<1> QED
  BY Invariance, <1>1, PTL

\* ... and what the client was sure of is applied at most once.
THEOREM FlushSendsOnce == Spec => []OrderlyFlushSendsOnce
<1>1. IInv => OrderlyFlushSendsOnce
  BY DEF IInv
<1> QED
  BY Invariance, <1>1, PTL

\* ... in the order in which it was queued.
THEOREM FlushKeepsTheOrder == Spec => []OrderlyFlushKeepsTheOrder
<1>1. IInv => OrderlyFlushKeepsTheOrder
  BY DEF IInv
<1> QED
  BY Invariance, <1>1, PTL
=============================================================================
