------------------------------- MODULE Shell -------------------------------
(***************************************************************************)
(* What a user sees of the offline queue: the count on the sync island, its *)
(* "Sync Complete", the digest card, and the flushes these and the rest of  *)
(* the shell start (frontend components/SyncIsland, ReconnectDigest and     *)
(* CommandPalette, hooks/useSyncQueue, app/dashboard; flushSyncQueue and    *)
(* the event listeners of lib/api.ts).                                      *)
(*                                                                         *)
(* SyncQueue says what becomes of a record; here a flush deals with each    *)
(* record it found in one step.  A count is read and shown in one step: the *)
(* reads of one page are answered in order.  One tab: what another tab does *)
(* to the queue is not seen here.                                           *)
(***************************************************************************)
EXTENDS Integers, FiniteSets

CONSTANTS
  Records,       \* what may be queued
  Flushes, None,
  MaxChecks,     \* bound: counts asked for and not yet read
  MaxQueued      \* bound: how often something is queued

VARIABLES
  queue,     \* the stored records
  online,    \* navigator.onLine
  manual,    \* the offline switch of the settings page
  flush,     \* the flushes under way
  checks,    \* checkQueue calls under way
  island,    \* the sync island
  digest,    \* the stored reconnect digest, which the card shows
  queued,    \* how often something was queued, of MaxQueued
  untold     \* history: the last count failed, or the queue was changed since
             \* by a step that tells nobody

vars == <<queue, online, manual, flush, checks, island, digest, queued, untold>>

\* syncQueue itself, for the "online" event and the offline switch; or
\* flushSyncQueue, for the boot, the palette, a login and an import ("call"),
\* and for a tap on the island.
Origins == {"event", "call", "tap"}

\* syncQueue is called, has read the queue, or has returned to flushSyncQueue.
\* since is history: what was queued since the queue was read, kept while
\* nothing of the flush has failed.
Flush == [by : Origins, step : {"called", "sending", "returned"},
          todo : SUBSET Records, before : Nat, failed : BOOLEAN,
          since : SUBSET Records]
Digest == [failed : BOOLEAN, since : SUBSET Records]

\* The island: pendingCount, prevPending, syncComplete, isFlushing.
Island == [count : Nat, prev : Nat, complete : BOOLEAN, flushing : BOOLEAN]

ASSUME ShellAssumption ==
  /\ IsFiniteSet(Records) /\ None \notin Flush
  /\ MaxChecks \in Nat \ {0} /\ MaxQueued \in Nat

Busy == {f \in Flushes : flush[f] # None}

TypeOK ==
  /\ queue \subseteq Records
  /\ online \in BOOLEAN /\ manual \in BOOLEAN
  /\ flush \in [Flushes -> {None} \cup Flush]
  /\ checks \in 0 .. MaxChecks
  /\ island \in Island
  /\ digest \in {None} \cup Digest
  /\ queued \in 0 .. MaxQueued
  /\ untold \in BOOLEAN
  /\ island.flushing = (\E f \in Busy : flush[f].by = "tap")

Init ==
  /\ queue \in SUBSET Records
  /\ online \in BOOLEAN /\ manual = FALSE
  /\ flush = [f \in Flushes |-> None]
  /\ checks = 1
  /\ island = [count |-> 0, prev |-> 0, complete |-> FALSE, flushing |-> FALSE]
  /\ digest = None
  /\ queued = 0 /\ untold = FALSE

-----------------------------------------------------------------------------
(* The count.                                                              *)

\* getSyncQueueCount: how many are queued, or 0 when the store cannot be read.
Counts == {Cardinality(queue), 0}

\* A count is asked for.  Bound: while MaxChecks are unread another one would
\* read the same.
Ask == checks' = IF checks < MaxChecks THEN checks + 1 ELSE checks

\* The effect of the island, run when the count or the connection it knows of
\* changes.
Settle(i, count, off) ==
  IF i.prev > 0 /\ count = 0 /\ ~off
    THEN [i EXCEPT !.count = count, !.complete = TRUE]
    ELSE [i EXCEPT !.count = count, !.prev = count]

CheckQueue(n) ==
  /\ checks > 0 /\ n \in Counts
  /\ checks' = checks - 1
  /\ island' = IF n = island.count THEN island ELSE Settle(island, n, ~online)
  /\ untold' = (n # Cardinality(queue))
  /\ UNCHANGED <<queue, online, manual, flush, digest, queued>>

\* The page is looked at again.
Visible ==
  /\ Ask
  /\ UNCHANGED <<queue, online, manual, flush, island, digest, queued, untold>>

\* Three seconds are over, if no cleanup of the effect has stopped the timer.
TimerEnds ==
  /\ island.complete
  /\ island' = [island EXCEPT !.complete = FALSE]
  /\ UNCHANGED <<queue, online, manual, flush, checks, digest, queued, untold>>

-----------------------------------------------------------------------------
(* Flushes.                                                                *)

\* syncQueue is called, by flushSyncQueue when n are counted.
Called(by, n) ==
  [by |-> by, step |-> "called", todo |-> {}, before |-> n, failed |-> FALSE,
   since |-> {}]

\* flushSyncQueue with n counted: over at once, and nobody told, if none are.
Flushed(f, by, n) ==
  flush' = IF n = 0 THEN flush ELSE [flush EXCEPT ![f] = Called(by, n)]

\* At the boot only while online, and not while the offline switch is set: the
\* palette and a login ask for neither.
Call(f, n) ==
  /\ flush[f] = None /\ n \in Counts
  /\ Flushed(f, "call", n)
  /\ UNCHANGED <<queue, online, manual, checks, island, digest, queued, untold>>

\* A tap on the island, when it shows, waits for the connection and for the
\* last tap.
Tap(f, n) ==
  /\ flush[f] = None /\ online /\ ~island.flushing
  /\ island.count > 0 \/ island.complete
  /\ n \in Counts
  /\ Flushed(f, "tap", n)
  /\ island' = [island EXCEPT !.flushing = (n # 0)]
  /\ UNCHANGED <<queue, online, manual, checks, digest, queued, untold>>

\* What is queued, or put back, is later than what a flush or a digest has read.
Later(rs, fs) ==
  [f \in Flushes |->
     IF fs[f] = None \/ fs[f].step # "sending" \/ fs[f].failed THEN fs[f]
     ELSE [fs[f] EXCEPT !.since = @ \cup rs]]

Noted(rs) ==
  digest' = IF digest = None \/ digest.failed THEN digest
            ELSE [digest EXCEPT !.since = @ \cup rs]

\* Some records of a file are added to the queue.
Added(rs) ==
  /\ queued < MaxQueued
  /\ rs # {} /\ rs \cap queue = {}
  /\ queue' = queue \cup rs
  /\ Noted(rs)
  /\ queued' = queued + 1

\* A file is read on the dashboard, and what it holds is flushed at once: unless
\* the count of flushSyncQueue fails.
Import(f, rs, n) ==
  /\ flush[f] = None /\ Added(rs)
  /\ n \in {Cardinality(queue \cup rs), 0}
  /\ flush' = [Later(rs, flush) EXCEPT
                 ![f] = IF n = 0 THEN None ELSE Called("call", n)]
  /\ untold' = (untold \/ n = 0)
  /\ UNCHANGED <<online, manual, checks, island>>

\* A record of the file cannot be added: the import rejects, those before it
\* stay, and there is no flush.
ImportFails(rs) ==
  /\ Added(rs)
  /\ flush' = Later(rs, flush)
  /\ untold' = TRUE
  /\ UNCHANGED <<online, manual, checks, island>>

\* The browser is online again: the listener of api.ts flushes, the hook reads,
\* the island runs its effect.
Online(f) ==
  /\ ~online /\ flush[f] = None
  /\ online' = TRUE
  /\ flush' = IF manual THEN flush ELSE [flush EXCEPT ![f] = Called("event", 0)]
  /\ Ask
  /\ island' = Settle(island, island.count, FALSE)
  /\ UNCHANGED <<queue, manual, digest, queued, untold>>

Offline ==
  /\ online
  /\ online' = FALSE
  /\ island' = Settle(island, island.count, TRUE)
  /\ UNCHANGED <<queue, manual, flush, checks, digest, queued, untold>>

\* setManualOffline.
Switch(f) ==
  /\ flush[f] = None
  /\ manual' = ~manual
  /\ flush' = IF manual /\ online
                THEN [flush EXCEPT ![f] = Called("event", 0)] ELSE flush
  /\ UNCHANGED <<queue, online, checks, island, digest, queued, untold>>

\* syncQueue returns: to flushSyncQueue, if that has called it.
Return(f) ==
  flush' = [flush EXCEPT
    ![f] = IF @.by = "event" THEN None
           ELSE [Called(@.by, @.before) EXCEPT !.step = "returned"]]

At(f, step) == f \in Busy /\ flush[f].step = step

\* syncQueue reads the queue; it returns if nothing is there or that fails.
Begin(f, ok) ==
  /\ At(f, "called")
  /\ IF ok /\ queue # {}
       THEN flush' = [flush EXCEPT ![f].step = "sending", ![f].todo = queue]
       ELSE Return(f)
  /\ UNCHANGED <<queue, online, manual, checks, island, digest, queued, untold>>

\* A record of a flush is delivered, or turned away for good (ok is FALSE):
\* either way it goes.
Removes(f, r, ok) ==
  /\ At(f, "sending") /\ r \in flush[f].todo
  /\ queue' = queue \ {r}
  /\ flush' = [flush EXCEPT ![f].todo = @ \ {r},
                            ![f].failed = @ \/ ~ok,
                            ![f].since = IF ok THEN @ ELSE {}]
  /\ untold' = (untold \/ (flush[f].by = "event" /\ r \in queue))
  /\ UNCHANGED <<online, manual, checks, island, digest, queued>>

\* Mutant: records that stay are not counted.
Kept_Uncounted(f, r) == [flush EXCEPT ![f].todo = @ \ {r}]

\* Retries are used up: the record stays ...
Kept(f, r) == [flush EXCEPT ![f].todo = @ \ {r}, ![f].failed = TRUE,
                            ![f].since = {}]

\* ... or comes back, if another flush has removed it meanwhile: it is put.
Keeps(f, r) ==
  /\ At(f, "sending") /\ r \in flush[f].todo
  /\ queue' = queue \cup {r}
  /\ flush' = Later({r} \ queue, Kept(f, r))
  /\ Noted({r} \ queue)
  /\ untold' = (untold \/ (flush[f].by = "event" /\ r \notin queue))
  /\ UNCHANGED <<online, manual, checks, island, queued>>

\* All records are dealt with (tells), or the server wants a login or a consent
\* first, or the store fails (~tells): then no digest is left.
EndFlush(f, tells) ==
  /\ At(f, "sending") /\ (tells <=> flush[f].todo = {})
  /\ digest' = IF tells THEN [failed |-> flush[f].failed, since |-> flush[f].since]
               ELSE digest
  /\ Return(f)
  /\ UNCHANGED <<queue, online, manual, checks, island, queued, untold>>

\* Mutant: the end of a flush is not announced.
Told_Silently == UNCHANGED checks

\* log:queue-changed, dispatched by flushSyncQueue and not by syncQueue.
Told == Ask

\* The answer of flushSyncQueue: something went, and nothing is left.
AllSynced(f, n) == flush[f].before - n > 0 /\ n = 0

\* Mutant: only a tap that got everything through ends the syncing.
AfterTap_NoFinally(i, all) ==
  IF all THEN [i EXCEPT !.flushing = FALSE, !.complete = TRUE] ELSE i

AfterTap(i, all) == [i EXCEPT !.flushing = FALSE, !.complete = @ \/ all]

\* flushSyncQueue counts what is left, n, tells and answers.
Answered(f, n) ==
  /\ At(f, "returned") /\ n \in Counts
  /\ flush' = [flush EXCEPT ![f] = None]
  /\ Told
  /\ island' = IF flush[f].by # "tap" THEN island
               ELSE AfterTap(island, AllSynced(f, n))
  /\ UNCHANGED <<queue, online, manual, digest, queued, untold>>

-----------------------------------------------------------------------------
(* The rest of the page.                                                   *)

\* queueRequest of a new record, offline or after a call failed.
Enqueue(r) ==
  /\ r \notin queue /\ queued < MaxQueued
  /\ queue' = queue \cup {r}
  /\ queued' = queued + 1
  /\ flush' = Later({r}, flush)
  /\ Noted({r})
  /\ Ask
  /\ UNCHANGED <<online, manual, island, untold>>

\* The digest is dismissed.
Dismiss ==
  /\ digest # None
  /\ digest' = None
  /\ UNCHANGED <<queue, online, manual, flush, checks, island, queued, untold>>

\* A flush goes on: the store and the requests answer, or fail.
FlushStep(f) ==
  \/ \E ok \in BOOLEAN : Begin(f, ok)
  \/ \E r \in Records, ok \in BOOLEAN : Removes(f, r, ok)
  \/ \E r \in Records : Keeps(f, r)
  \/ \E tells \in BOOLEAN : EndFlush(f, tells)
  \/ \E n \in 0 .. Cardinality(Records) : Answered(f, n)

Next ==
  \/ \E n \in 0 .. Cardinality(Records) : CheckQueue(n)
  \/ Visible \/ TimerEnds \/ Offline \/ Dismiss
  \/ \E f \in Flushes, n \in 0 .. Cardinality(Records) : Call(f, n) \/ Tap(f, n)
  \/ \E f \in Flushes, rs \in SUBSET Records, n \in 0 .. Cardinality(Records) :
       Import(f, rs, n)
  \/ \E rs \in SUBSET Records : ImportFails(rs)
  \/ \E f \in Flushes : Online(f) \/ Switch(f)
  \/ \E f \in Flushes : FlushStep(f)
  \/ \E r \in Records : Enqueue(r)

Spec == Init /\ [][Next]_vars

-----------------------------------------------------------------------------
(* Properties.                                                             *)

(* The island counts what is queued once nothing is under way, whoever      *)
(* queued, imported or flushed, however flushes, imports and counts         *)
(* overlapped.  Three things are untold: the flush of an "online" event or  *)
(* of the switch, an import that fails half-way or is not counted, and a    *)
(* count that cannot be read, which shows 0 (useSyncQueue, flushSyncQueue). *)
BadgeShowsQueue ==
  Busy = {} /\ checks = 0 /\ ~untold => island.count = Cardinality(queue)

(* "There is no fake all-synced state": a digest without failures leaves in *)
(* the queue only what came after its flush had begun, however flushes and  *)
(* calls overlapped (syncQueue, ReconnectDigest).                           *)
NoFakeAllSynced ==
  digest # None /\ ~digest.failed => queue \subseteq digest.since
=============================================================================
