------------------------------ MODULE OfflineQueue ------------------------------
(***************************************************************************)
(* The offline mutation queue of the web client: mutations that could not  *)
(* be sent wait in local storage, and a flush sends them in order.         *)
(*                                                                         *)
(* Every tab of the browser shares the local storage, and every tab starts *)
(* a flush when the connection returns; a button of the editor starts one  *)
(* too.  JavaScript runs to the next await without interruption, so a step *)
(* of a flush is one request with what follows it up to the next request.  *)
(***************************************************************************)
EXTENDS Naturals, Sequences, SequencesExt

(* A definition whose name carries a suffix (Unsent_ToTheBack) is a         *)
(* plausible bug of the definition that follows it; no other definition     *)
(* uses it.                                                                 *)

CONSTANTS
  Mutations,   \* what the user does, each once
  Flushes      \* tabs that may flush the queue at the same time

VARIABLES
  queue,      \* the array in local storage
  user,       \* whether each mutation was queued when the user made it
  online,     \* navigator.onLine
  due,        \* flushes that the return of the connection asks for
  pc,         \* whether each tab is flushing the queue, or was closed
  snapshot,   \* the array each flush read, from the item it has to send next
  remaining,  \* the items each flush keeps for later
  applied,    \* history: how often the server applied each mutation, 2 for more
  unsure,     \* history: mutations whose delivery the client was not sure of
  passed,     \* history: mutations that a flush stepped over, for a 4xx or a 5xx
  forsaken,   \* history: those of them that the flush then did not keep
  early,      \* history: mutations the server applied before they were queued
  order,      \* history: the mutations in the order they were queued
  log,        \* history: the mutations in the order the server first applied them
  raced       \* history: the queue was written while a flush was under way

vars == <<queue, user, online, due, pc, snapshot, remaining, applied, unsure,
          passed, forsaken, early, order, log, raced>>
stepVars == <<passed, forsaken, early>>
flushVars == <<due, pc, snapshot, remaining>>
serverVars == <<applied, log>>

Init ==
  /\ queue = <<>> /\ user = [m \in Mutations |-> "new"]
  /\ online \in BOOLEAN
  /\ due = {} /\ pc = [f \in Flushes |-> "idle"]
  /\ snapshot = [f \in Flushes |-> <<>>] /\ remaining = [f \in Flushes |-> <<>>]
  /\ applied = [m \in Mutations |-> 0] /\ unsure = {}
  /\ passed = {} /\ forsaken = {} /\ early = {} /\ order = <<>> /\ log = <<>> /\ raced = FALSE

Running == {f \in Flushes : pc[f] = "sending"}

Apply(m) == /\ applied' = [applied EXCEPT ![m] = IF @ = 0 THEN 1 ELSE 2]
            /\ log' = IF m \in ToSet(log) THEN log ELSE Append(log, m)

\* The answer is lost or says 5xx: the server may have done it all the same.
MaybeApply(m) == /\ unsure' = unsure \cup {m}
                 /\ (online /\ Apply(m)) \/ UNCHANGED serverVars

\* What is recorded only until the first race.
Recorded(h) == IF raced' THEN {} ELSE h

-----------------------------------------------------------------------------
(* The user                                                                *)

\* enqueueMutation reads, extends and writes the array without an await.
Enqueue(m) ==
  /\ queue' = Append(queue, m) /\ user' = [user EXCEPT ![m] = "queued"]
  /\ order' = Append(order, m)
  /\ raced' = (raced \/ Running # {})
  /\ early' = Recorded(IF applied'[m] > 0 THEN early \cup {m} ELSE early)
  /\ forsaken' = Recorded(forsaken)

\* The browser knows that it is offline.
QueueAtOnce(m) ==
  /\ user[m] = "new" /\ ~ online
  /\ UNCHANGED <<online, serverVars, flushVars, unsure, passed>> /\ Enqueue(m)

End(m) == /\ user' = [user EXCEPT ![m] = "ended"]
          /\ UNCHANGED <<queue, order, raced, early, forsaken>>

SendDirectly(m) ==
  /\ user[m] = "new" /\ online
  /\ Apply(m) /\ End(m)
  /\ UNCHANGED <<online, flushVars, unsure, passed>>

\* A request that fails is queued, or the user is shown the error; so is one
\* that is refused, which some sheets queue nevertheless.
FailDirectly(m) ==
  /\ user[m] = "new"
  /\ MaybeApply(m) /\ UNCHANGED <<online, flushVars, passed>>
  /\ Enqueue(m) \/ End(m)

RefuseDirectly(m) ==
  /\ user[m] = "new" /\ online
  /\ UNCHANGED <<online, serverVars, flushVars, unsure, passed>>
  /\ Enqueue(m) \/ End(m)

-----------------------------------------------------------------------------
(* The connection and the flushes it asks for                              *)

GoOffline ==
  /\ online /\ online' = FALSE
  /\ UNCHANGED <<queue, user, serverVars, flushVars, unsure, stepVars, order, raced>>

GoOnline ==
  /\ ~ online /\ online' = TRUE /\ due' = {f \in Flushes : pc[f] # "closed"}
  /\ UNCHANGED <<queue, user, pc, snapshot, remaining, serverVars, unsure, stepVars,
                 order, raced>>

Flush(f) ==
  /\ pc[f] = "idle" /\ online
  /\ due' = due \ {f}
  /\ IF queue = <<>>
       THEN UNCHANGED <<pc, snapshot, raced>>
       ELSE /\ pc' = [pc EXCEPT ![f] = "sending"]
            /\ snapshot' = [snapshot EXCEPT ![f] = queue]
            /\ raced' = (raced \/ Running # {})
  /\ early' = Recorded(early) /\ forsaken' = Recorded(forsaken)
  /\ UNCHANGED <<queue, user, online, remaining, serverVars, unsure, passed, order>>

Sending(f) == pc[f] = "sending" /\ snapshot[f] # <<>>
Pass(f) == snapshot' = [snapshot EXCEPT ![f] = Tail(@)]

Deliver(f) ==
  /\ Sending(f) /\ online
  /\ Apply(Head(snapshot[f])) /\ Pass(f)
  /\ UNCHANGED <<queue, user, online, due, pc, remaining, unsure, stepVars, order,
                 raced>>

Delivers(f, m) == Deliver(f) /\ m = Head(snapshot[f])

\* A 4xx drops the item.
Refuse(f) ==
  /\ Sending(f) /\ online /\ Pass(f)
  /\ UNCHANGED <<queue, user, online, due, pc, remaining, serverVars, unsure, early,
                 order, raced>>
  /\ passed' = passed \cup {Head(snapshot[f])}
  /\ forsaken' = Recorded(forsaken \cup {Head(snapshot[f])})

\* Any answer but these keeps the item for later and goes on with the next.
ServerError(f) ==
  /\ Sending(f) /\ online
  /\ MaybeApply(Head(snapshot[f])) /\ Pass(f)
  /\ passed' = passed \cup {Head(snapshot[f])}
  /\ remaining' = [remaining EXCEPT ![f] = Append(@, Head(snapshot[f]))]
  /\ UNCHANGED <<queue, user, online, due, pc, forsaken, early, order, raced>>

Stop_KeepsRemaining(f) ==
  /\ pc' = [pc EXCEPT ![f] = "idle"] /\ snapshot' = [snapshot EXCEPT ![f] = <<>>]
  /\ UNCHANGED remaining
Stop(f) ==
  /\ pc' = [pc EXCEPT ![f] = "idle"]
  /\ snapshot' = [snapshot EXCEPT ![f] = <<>>]
  /\ remaining' = [remaining EXCEPT ![f] = <<>>]

\* What a network failure writes back: the item that failed and those after it,
\* without those that got a 5xx before.
Unsent_ToTheBack(f) == Append(Tail(snapshot[f]), Head(snapshot[f]))
Unsent(f) == snapshot[f]

NetworkFailure(f) ==
  /\ Sending(f)
  /\ MaybeApply(Head(snapshot[f]))
  /\ queue' = Unsent(f) /\ Stop(f)
  /\ UNCHANGED <<user, online, due, passed, early, order, raced>>
  /\ forsaken' = Recorded(forsaken \cup ToSet(remaining[f]))

Kept_Everything(f) == queue
Kept_Nothing(f) == <<>>
Kept(f) == remaining[f]

Finish(f) ==
  /\ pc[f] = "sending" /\ snapshot[f] = <<>>
  /\ queue' = Kept(f) /\ Stop(f)
  /\ UNCHANGED <<user, online, due, serverVars, unsure, stepVars, order, raced>>

\* The tab is closed for good, perhaps during a request, before the flush wrote
\* the queue: what it sent is still there, for the flush of another tab.
Close(f) ==
  /\ pc[f] = "sending" /\ pc' = [pc EXCEPT ![f] = "closed"]
  /\ snapshot' = [snapshot EXCEPT ![f] = <<>>]
  /\ remaining' = [remaining EXCEPT ![f] = <<>>]
  /\ unsure' = unsure \cup (ToSet(queue) \ IF Sending(f) THEN ToSet(Tail(snapshot[f])) ELSE {})
  /\ (Sending(f) /\ online /\ Apply(Head(snapshot[f]))) \/ UNCHANGED serverVars
  /\ due' = due \ {f}
  /\ UNCHANGED <<queue, user, online, stepVars, order, raced>>

-----------------------------------------------------------------------------
User(m) == QueueAtOnce(m) \/ SendDirectly(m) \/ FailDirectly(m) \/ RefuseDirectly(m)
FlushStep(f) == Deliver(f) \/ Refuse(f) \/ ServerError(f) \/ NetworkFailure(f) \/ Finish(f)

Next == \/ \E m \in Mutations : User(m)
        \/ GoOffline \/ GoOnline
        \/ \E f \in Flushes : Flush(f) \/ FlushStep(f) \/ Close(f)

Spec == Init /\ [][Next]_vars

\* Of the effects that the event "online" triggers in open tabs, some run before the
\* connection is lost once more, at least now and then, and every request ends,
\* by an answer or an error.  Nothing is assumed of the user, of the connection
\* and of what the server answers.
FairSpec ==
  /\ Spec
  /\ SF_vars(\E f \in due : Flush(f)) /\ \A f \in Flushes : WF_vars(FlushStep(f))
-----------------------------------------------------------------------------
TypeOK ==
  /\ queue \in Seq(Mutations)
  /\ user \in [Mutations -> {"new", "queued", "ended"}]
  /\ online \in BOOLEAN /\ raced \in BOOLEAN
  /\ due \subseteq Flushes /\ pc \in [Flushes -> {"idle", "sending", "closed"}]
  /\ snapshot \in [Flushes -> Seq(Mutations)] /\ remaining \in [Flushes -> Seq(Mutations)]
  /\ \A f \in Flushes : pc[f] # "sending" => snapshot[f] = <<>> /\ remaining[f] = <<>>
  /\ applied \in [Mutations -> 0..2]
  /\ unsure \subseteq Mutations /\ passed \subseteq Mutations
  /\ forsaken \subseteq Mutations /\ early \subseteq Mutations
  /\ order \in Seq(Mutations) /\ log \in Seq(Mutations)

\* A queued mutation that did not reach the server is still in local storage.
Recoverable(m) == user[m] = "queued" => applied[m] > 0 \/ m \in ToSet(queue)

\* As long as the queue is not written while a flush is under way, closed tabs
\* and lost connections lose nothing that was queued, except an item that got a
\* 4xx, or a 5xx in a flush that then lost its connection: one that got a 5xx in
\* a flush that went through is kept (offlineMutationQueue.ts:133-149).
OrderlyFlushLosesNothing ==
  ~ raced => \A m \in Mutations \ forsaken : Recoverable(m)

\* ... and the server applies a mutation twice only when a request for it
\* failed or the tab was closed before its delivery was noted.
OrderlyFlushSendsOnce ==
  ~ raced => \A m \in Mutations \ unsure : applied[m] <= 1

Precedes(seq, m, n) == \E i, k \in DOMAIN seq : i < k /\ seq[i] = m /\ seq[k] = n

\* ... and in the order in which they were queued: only a 5xx, which a flush
\* steps over, or a refusal lets a later mutation overtake an earlier one,
\* unless the server did the later one before it was queued
\* (offlineMutationQueue.ts:118-147).
OrderlyFlushKeepsTheOrder ==
  ~ raced => \A m, n \in Mutations :
    /\ Precedes(order, m, n) /\ n \in ToSet(log) /\ ~ Precedes(log, m, n)
    => m \in passed \/ n \in early

\* The connection is lost and returns again and again, and a mutation that is sent
\* again and again while it is there is accepted in the end.
Environment ==
  /\ []<>~online /\ []<>online
  /\ \A m \in Mutations : SF_vars(\E f \in Flushes : Delivers(f, m))

\* As long as some tab stays open, in such an environment no queued mutation stays
\* queued: every return of the connection starts a flush that begins with what the
\* last one, of whichever tab, could not send.  On a connection that stays there
\* is no such promise, for nothing else starts a flush but the user
\* (SwrProvider.tsx:17-24, offlineMutationQueue.ts:142-149, DocumentEditor.tsx:461).
QueueDrains ==
  Environment =>
    \A m \in Mutations :
      m \in ToSet(queue) ~> m \notin ToSet(queue) \/ \A f \in Flushes : pc[f] = "closed"

\* "offline queues are explicit and recoverable"
\* (docs/ib/phase8/mobile-offline-and-search-hardening.md:53): what the server
\* did not answer with an error is not lost, raced or not.
QueueIsRecoverable == \A m \in Mutations \ passed : Recoverable(m)
=============================================================================
