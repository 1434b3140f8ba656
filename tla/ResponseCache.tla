--------------------------- MODULE ResponseCache ---------------------------
(***************************************************************************)
(* The cached answers of GETs and the pages that show them while changing  *)
(* what they show (frontend lib/api.ts: fetchWithCache, getFromCache,      *)
(* invalidateRelatedCache; the catalogue, dashboard, support, inbox,       *)
(* parent, class and gradebook pages; the announcement and join forms).    *)
(*                                                                         *)
(* One read is followed, any of them: reads have nothing in common but the *)
(* mutations, and one that does not change the read at most drops it from  *)
(* the cache, as one that does may.  A version of the read is the set of   *)
(* the user's mutations that it takes account of; what others change       *)
(* meanwhile is left out.  The order in which queued mutations are         *)
(* replayed, and by how many flushes, is SyncQueue's.                      *)
(***************************************************************************)
EXTENDS FiniteSets, Naturals

CONSTANTS
  Muts,        \* mutations the user makes, each once
  Gets, Idle,  \* GETs of the read that may be under way at once
  Explored,    \* bound: the reads, each with the kinds of its mutations
  None

VARIABLES
  read,      \* the read that is followed
  kind,      \* what each mutation is
  online,    \* isAppOnline
  done,      \* the mutations the server has carried out
  cache,     \* the cached version of the read, or None
  aged,      \* whether that is older than CACHE_TTL_MS
  page,      \* the page that shows the read: loading, and the version shown
  gets,      \* the GETs under way
  calls,     \* how far the call of each mutation is
  queue,     \* the mutations queued
  replay,    \* the record a flush is at, and how far it is with it
  gaps,      \* history: mutations that were invalidated for and are not cached
  live,      \* history: mutations answered live on the page that is open
  blurred,   \* history: the page's GETs overlapped, or one failed
  dropped    \* history: queued mutations the server turned down

vars == <<read, kind, online, done, cache, aged, page, gets, calls, queue,
          replay, gaps, live, blurred, dropped>>

-----------------------------------------------------------------------------
(* Reads and mutations.                                                    *)

Reads == {"/dashboard", "/learning-journey", "/chart-data", "/assignments",
          "/parents/children", "/support/my-issues", "/support/inbox",
          "/courses", "/admin/classes", "/students/note", "/announcements",
          "/admin/dashboard", "/admin/audit-log"}

\* "class": a class is created, or learners are enrolled in one by the admin;
\* "join": the learner joins a class by its code.
Kinds == {"complete", "submit", "opt-in", "issue", "resolve", "enroll", "class",
          "join", "note", "announce"}

\* The reads of the same user whose answer a mutation changes.  An admin may do
\* what a learner or a moderator may, and reads the log of it; only an admin has
\* both, and no admin has children.
Changes(k) ==
  CASE k = "complete" -> {"/dashboard", "/learning-journey", "/chart-data",
                          "/admin/dashboard"}
    [] k = "submit"   -> {"/assignments"}
    [] k = "opt-in"   -> {"/parents/children"}
    [] k \in {"issue", "resolve"} ->
         {"/support/my-issues", "/support/inbox", "/admin/audit-log"}
    [] k = "enroll"   -> {"/courses"}
    [] k = "class"    -> {"/admin/classes", "/admin/audit-log"}
    [] k = "join"     -> {"/assignments", "/admin/audit-log"}
    [] k = "note"     -> {"/students/note", "/admin/audit-log"}
    [] k = "announce" -> {"/announcements", "/admin/audit-log"}

\* Mutant: the table as it was before the parents' children were added.
Related_NoChildren(k) ==
  CASE k = "complete" -> {"/dashboard", "/learning-journey", "/chart-data"}
    [] k \in {"issue", "resolve"} -> {"/support/my-issues", "/support/inbox"}
    [] k = "opt-in" -> {}
    [] OTHER -> Reads

\* The cached reads dropped after a mutation; for most, all of them.  A flushed
\* or imported completion drops the same as a live one.
Related(k) ==
  CASE k = "complete" -> {"/dashboard", "/learning-journey", "/chart-data"}
    [] k = "opt-in"   -> {"/parents/children"}
    [] k \in {"issue", "resolve"} -> {"/support/my-issues", "/support/inbox"}
    [] OTHER          -> Reads

\* What the page of the mutation does with the answer: it loads its read again,
\* or changes what it shows in place.
Reloads(k) == CASE k = "submit" -> {"/assignments"}
                [] k = "issue"  -> {"/support/my-issues"}
                [] k = "class"  -> {"/admin/classes"}
                [] OTHER        -> {}
Edits(k) == CASE k = "enroll"  -> {"/courses"}
              [] k = "opt-in"  -> {"/parents/children"}
              [] k = "resolve" -> {"/support/inbox"}
              [] k = "note"    -> {"/students/note"}
              [] OTHER         -> {}

Busy == {g \in Gets : gets[g] # Idle}
Get == [step : {"sent", "answered", "failed"}, got : SUBSET Muts,
        here : BOOLEAN]
Call == [step : {"new", "sent", "handled", "queueing", "page", "over"},
         here : BOOLEAN]
Closed == [on |-> FALSE, loading |-> FALSE, shows |-> {}]
NoReplay == [of |-> None, step |-> "none"]

ASSUME CacheAssumption ==
  /\ Idle \notin Get /\ None \notin Muts /\ \A S \in SUBSET Muts : S # None
  /\ \A e \in Explored :
       /\ e.read \in Reads /\ DOMAIN e.kind \subseteq Muts
       /\ \A m \in DOMAIN e.kind :
            e.kind[m] \in Kinds /\ e.read \in Changes(e.kind[m])

TypeOK ==
  /\ \E e \in Explored : read = e.read /\ kind = e.kind
  /\ online \in BOOLEAN /\ aged \in BOOLEAN
  /\ done \subseteq Muts
  /\ cache = None \/ cache \subseteq done
  /\ page \in [on : BOOLEAN, loading : BOOLEAN, shows : SUBSET Muts]
  /\ gets \in [Gets -> Get \cup {Idle}]
  /\ calls \in [Muts -> Call]
  /\ queue \subseteq Muts
  /\ replay \in [of : Muts \cup {None},
                  step : {"none", "sent", "handled", "removed"}]
  /\ gaps \cup live \cup dropped \subseteq Muts /\ blurred \in BOOLEAN
  /\ page.loading => \E g \in Busy : gets[g].here

Init ==
  /\ \E e \in Explored : read = e.read /\ kind = e.kind
  /\ online \in BOOLEAN
  /\ done = {} /\ cache \in {None, {}} /\ aged = FALSE
  /\ page = Closed
  /\ gets = [g \in Gets |-> Idle]
  /\ calls = [m \in Muts |-> [step |-> "new", here |-> FALSE]]
  /\ queue = {} /\ replay = NoReplay
  /\ gaps = {} /\ live = {} /\ blurred = FALSE /\ dropped = {}

-----------------------------------------------------------------------------
(* Reading.                                                                *)

Fixed == <<read, kind>>
Env == <<Fixed, online>>
Queue == <<queue, replay, dropped>>
Server == <<done, calls, Queue>>
Cache == <<cache, aged, gaps>>
Page == <<page, gets, live, blurred>>

\* A GET begins: offline it goes straight to the cache.
Ask(g, here) ==
  /\ gets[g] = Idle
  /\ gets' = [gets EXCEPT ![g] = [step |-> IF online THEN "sent" ELSE "failed",
                                  got |-> {}, here |-> here]]

Mount(g) ==
  /\ ~page.on
  /\ Ask(g, TRUE)
  /\ page' = [on |-> TRUE, loading |-> TRUE, shows |-> {}]
  /\ live' = {} /\ blurred' = FALSE
  /\ UNCHANGED <<Env, Server, Cache>>

\* The page is left; what it has under way goes on.
Leave ==
  /\ page.on
  /\ page' = Closed
  /\ gets' = [g \in Gets |-> IF gets[g] = Idle THEN Idle
                             ELSE [gets[g] EXCEPT !.here = FALSE]]
  /\ calls' = [m \in Muts |-> [calls[m] EXCEPT !.here = FALSE]]
  /\ UNCHANGED <<Env, done, Queue, Cache, live, blurred>>

\* The server answers, or nobody does (no network, a 5xx, a lost answer).
Answered(g) ==
  /\ gets[g] # Idle /\ gets[g].step = "sent"
  /\ gets' = [gets EXCEPT ![g].step = "answered", ![g].got = done]
  /\ UNCHANGED <<Env, Server, Cache, page, live, blurred>>

Unanswered(g) ==
  /\ gets[g] # Idle /\ gets[g].step \in {"sent", "answered"}
  /\ gets' = [gets EXCEPT ![g].step = "failed", ![g].got = {}]
  /\ UNCHANGED <<Env, Server, Cache, page, live, blurred>>

\* Mutant: the page goes on loading.
Ends_Loading(g, v) ==
  /\ gets' = [gets EXCEPT ![g] = Idle]
  /\ page' = IF gets[g].here THEN [page EXCEPT !.shows = v] ELSE page

\* What becomes of the page when its GET ends: it shows v, or what it showed.
Ends(g, v) ==
  /\ gets' = [gets EXCEPT ![g] = Idle]
  /\ page' = IF gets[g].here THEN [page EXCEPT !.loading = FALSE, !.shows = v]
             ELSE page

\* Mutations whose call or record is still to be settled.
Unsettled ==
  {m \in Muts : calls[m].step \in {"sent", "handled", "queueing"}}
    \cup queue \cup {replay.of}

\* The answer is cached and shown, as old as it may be by now.
Cached(g) ==
  /\ gets[g] # Idle /\ gets[g].step = "answered"
  /\ cache' = gets[g].got /\ aged' = FALSE
  /\ gaps' = (done \ gets[g].got) \ Unsettled
  /\ Ends(g, gets[g].got)
  /\ blurred' = (blurred \/ \E h \in Busy \ {g} : gets[h].here)
  /\ UNCHANGED <<Env, Server, live>>

\* What a page shows after an error: for some reads nothing, for the others what
\* it did.
AfterError ==
  IF read \in {"/admin/classes", "/support/inbox", "/admin/audit-log",
               "/parents/children", "/students/note"}
    THEN {} ELSE page.shows

Drop == cache' = None /\ aged' = FALSE /\ gaps' = {}

\* getFromCache: nothing there, or what is there is over its time and the
\* application online, is an error, as is a 4xx.
FromCache(g) ==
  /\ gets[g] # Idle /\ gets[g].step = "failed"
  /\ IF aged /\ online THEN Drop ELSE UNCHANGED Cache
  /\ Ends(g, IF cache = None \/ (aged /\ online) THEN AfterError ELSE cache)
  /\ blurred' = (blurred \/ gets[g].here)
  /\ UNCHANGED <<Env, Server, live>>

GetRefused(g) ==
  /\ gets[g] # Idle /\ gets[g].step = "sent"
  /\ Ends(g, AfterError)
  /\ blurred' = (blurred \/ gets[g].here)
  /\ UNCHANGED <<Env, Server, Cache, live>>

Age ==
  /\ cache # None /\ ~aged
  /\ aged' = TRUE
  /\ UNCHANGED <<Env, Server, cache, gaps, Page>>

SetOnline ==
  /\ online' = ~online
  /\ UNCHANGED <<Fixed, Server, Cache, Page>>

-----------------------------------------------------------------------------
(* Mutations.                                                              *)

Step(m, s) == calls' = [calls EXCEPT ![m].step = s]

\* On the page itself, unless it needs the entry to be loaded first; elsewhere
\* at any time, other tabs included.
Act(m) ==
  LET own == read \in Reloads(kind[m]) \cup Edits(kind[m]) IN
  /\ m \in DOMAIN kind /\ calls[m].step = "new"
  /\ own => page.on /\ (kind[m] \in {"issue", "class"} \/ ~page.loading)
  /\ calls' = [calls EXCEPT ![m] =
       [step |-> IF online THEN "sent" ELSE "queueing", here |-> own]]
  /\ UNCHANGED <<Env, done, Queue, Cache, Page>>

Handled(m) ==
  /\ calls[m].step = "sent"
  /\ done' = done \cup {m}
  /\ Step(m, "handled")
  /\ UNCHANGED <<Env, Queue, Cache, Page>>

\* Mutant: the page goes on as if nothing were wrong.
TurnedDown_Shown(m) ==
  /\ calls[m].step = "sent"
  /\ Step(m, "page")
  /\ UNCHANGED <<Env, done, Queue, Cache, Page>>

\* A 4xx: an error, and the page stays as it is.
TurnedDown(m) ==
  /\ calls[m].step = "sent"
  /\ Step(m, "over")
  /\ UNCHANGED <<Env, done, Queue, Cache, Page>>

\* The request or its answer is lost, or a 5xx: to the queue.
Lost(m) ==
  /\ calls[m].step \in {"sent", "handled"}
  /\ Step(m, "queueing")
  /\ UNCHANGED <<Env, done, Queue, Cache, Page>>

\* invalidateRelatedCache for m.
Invalidate(m) == IF read \in Related(kind[m]) THEN Drop ELSE UNCHANGED Cache

Invalidated(m) ==
  /\ calls[m].step = "handled"
  /\ Invalidate(m)
  /\ Step(m, "page")
  /\ live' = IF calls[m].here THEN live \cup {m} ELSE live
  /\ UNCHANGED <<Env, done, Queue, page, gets, blurred>>

Enqueued(m) ==
  /\ calls[m].step = "queueing"
  /\ queue' = queue \cup {m}
  /\ Step(m, "page")
  /\ UNCHANGED <<Env, done, replay, dropped, Cache, Page>>

\* Mutant: nothing is loaded again.
Again_Not(m) == {}

\* The reads loaded again once m is answered or queued.
Again(m) == Reloads(kind[m])

\* The page, answered or told that the call is queued.
Follow(m, g) ==
  /\ calls[m].step = "page"
  /\ Step(m, "over")
  /\ IF read \in Again(m)
       THEN /\ Ask(g, calls[m].here)
            /\ blurred' = (blurred \/ \E h \in Busy : gets[h].here)
       ELSE UNCHANGED <<gets, blurred>>
  /\ page' = IF calls[m].here /\ read \in Edits(kind[m])
               THEN [page EXCEPT !.shows = @ \cup {m}] ELSE page
  /\ UNCHANGED <<Env, done, Queue, Cache, live>>

-----------------------------------------------------------------------------
(* Replays.                                                                *)

StartReplay(m) ==
  /\ online /\ replay = NoReplay /\ m \in queue
  /\ replay' = [of |-> m, step |-> "sent"]
  /\ UNCHANGED <<Env, done, calls, queue, dropped, Cache, Page>>

\* A 2xx, or a 409 for what the server has.
ReplayHandled ==
  /\ replay.step = "sent"
  /\ done' = done \cup {replay.of}
  /\ replay' = [replay EXCEPT !.step = "handled"]
  /\ UNCHANGED <<Env, calls, queue, dropped, Cache, Page>>

ReplayRemoved ==
  /\ replay.step = "handled"
  /\ queue' = queue \ {replay.of}
  /\ replay' = [replay EXCEPT !.step = "removed"]
  /\ UNCHANGED <<Env, done, calls, dropped, Cache, Page>>

ReplayInvalidated ==
  /\ replay.step = "removed"
  /\ Invalidate(replay.of)
  /\ replay' = NoReplay
  /\ UNCHANGED <<Env, done, calls, queue, dropped, Page>>

\* Any other 4xx: the record goes, though an earlier try may have been handled.
ReplayRefused ==
  /\ replay.step = "sent"
  /\ queue' = queue \ {replay.of}
  /\ dropped' = dropped \cup {replay.of}
  /\ gaps' = IF cache = None THEN gaps
             ELSE gaps \cup (({replay.of} \cap done) \ cache)
  /\ replay' = NoReplay
  /\ UNCHANGED <<Env, done, calls, cache, aged, Page>>

\* No answer, or one that stops the flush: the record stays.
ReplayFailed ==
  /\ replay.step \in {"sent", "handled"}
  /\ replay' = NoReplay
  /\ UNCHANGED <<Env, done, calls, queue, dropped, Cache, Page>>

\* The browser is closed: requests sent may still be handled, and are in S.
Close(S) ==
  /\ \A m \in S : calls[m].step = "sent" \/ replay = [of |-> m, step |-> "sent"]
  /\ done' = done \cup S
  /\ gets' = [g \in Gets |-> Idle]
  /\ page' = Closed
  /\ calls' = [m \in Muts |-> IF calls[m].step = "new" THEN calls[m]
                              ELSE [step |-> "over", here |-> FALSE]]
  /\ replay' = NoReplay
  /\ gaps' = IF cache = None THEN {}
             ELSE (done' \ cache) \ queue
  /\ UNCHANGED <<Env, cache, aged, queue, live, blurred, dropped>>

Next ==
  \/ \E g \in Gets : Mount(g) \/ Answered(g) \/ Unanswered(g) \/ Cached(g)
  \/ \E g \in Gets : FromCache(g) \/ GetRefused(g)
  \/ Leave \/ Age \/ SetOnline
  \/ \E m \in Muts : Act(m) \/ Handled(m) \/ TurnedDown(m) \/ Lost(m)
  \/ \E m \in Muts : Invalidated(m) \/ Enqueued(m) \/ StartReplay(m)
  \/ \E m \in Muts, g \in Gets : Follow(m, g)
  \/ ReplayHandled \/ ReplayRemoved \/ ReplayInvalidated
  \/ ReplayRefused \/ ReplayFailed
  \/ \E S \in SUBSET Muts : Close(S)

Spec == Init /\ [][Next]_vars

-----------------------------------------------------------------------------
(* Properties.                                                             *)

\* The reads that a mutation changes and invalidateRelatedCache forgets: an admin
\* sees the audit log without what support requests write to it, and the console
\* without the admin's own completions, until they are loaded again.
Forgotten(k) == CASE k \in {"issue", "resolve"} -> {"/admin/audit-log"}
                  [] k = "complete"             -> {"/admin/dashboard"}
                  [] OTHER                      -> {}

Unminded == {m \in DOMAIN kind : read \in Forgotten(kind[m])}

(* What is cached takes account of every mutation of the user that is       *)
(* settled, live or replayed, but for the two reads that the code forgets   *)
(* and the gaps that a GET answered before it, a closed browser or a        *)
(* refused replay leave (invalidateRelatedCache against what the handler of *)
(* each mutation changes).                                                  *)
CacheKeepsUp ==
  cache # None => done \ cache \subseteq Unsettled \cup gaps \cup Unminded

(* A page shows what its user has just changed on it, whether it loads its  *)
(* read again or edits it in place, unless GETs of the page overlapped or   *)
(* one failed (handleSubmit, submitEscalation, resolve, toggleOptIn,        *)
(* toggleEnrollment, handleCreateClass, saveNote).                          *)
OwnWorkShown ==
  page.on /\ ~blurred /\ (\A g \in Busy : ~gets[g].here) =>
    \A m \in live :
      calls[m].step = "over" => m \in page.shows

(* "A 4xx must NOT flip the toggle.  Only success or an honest queued       *)
(* intent updates the UI": what a page shows is with the server or queued,  *)
(* or was until the server turned it down (toggleEnrollment, toggleOptIn,   *)
(* resolve).                                                                *)
ShownIsBacked == page.shows \subseteq done \cup queue \cup dropped
=============================================================================
