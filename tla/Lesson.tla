------------------------------- MODULE Lesson -------------------------------
(***************************************************************************)
(* A learner working through lessons: the journey and lesson pages, the    *)
(* quiz viewer, the poster landing page, the review schedule and the card  *)
(* that lists what is due (frontend app/learning, app/qr, components/      *)
(* MicroModuleViewer and ReviewQueueCard, lib/spacedRepetition and         *)
(* reviewStore).  One learner, one tab; answers of the server arrive when  *)
(* the learner may be on another page.                                     *)
(*                                                                         *)
(* The queue and its replay are SyncQueue's, best-score and streak         *)
(* CompletionEngine's: here a completion is accepted, queued or refused.   *)
(***************************************************************************)
EXTENDS Integers, Sequences, FiniteSets

CONSTANTS
  Activities,
  Course,       \* the modules of each: "text", "quiz", "keyless" (no answer)
  Calls, Idle,  \* calls of handleComplete that may be under way at once
  Unset,        \* no review state; no journey loaded
  MaxAnswers,   \* bound: first tries counted in one attempt
  Visits,       \* bound: visits to a poster
  MaxDay        \* bound: the last day explored

Blank == ""     \* the key of a state scheduled from nothing

VARIABLES
  page,      \* what is on screen: where, and the attempt or poster it shows
  calls,     \* the handleComplete calls under way
  server,    \* each activity's status, and how many poster scans it counted
  queued,    \* the completion of each activity in the offline queue
  schedule,  \* the review-schedule store
  journey,   \* the statuses last loaded by the journey page
  card,      \* the review card: its due items, once read
  visits,    \* poster pages opened so far
  today,     \* the UTC day
  accepted   \* history: what the server or the queue took, and when

vars == <<page, calls, server, queued, schedule, journey, card, visits, today,
          accepted>>

-----------------------------------------------------------------------------
(* The SM-2 schedule.  Ease is in hundredths, days are UTC days.           *)

DefaultEase == 250
MinEase == 130

AtLeast(x, y) == IF x >= y THEN x ELSE y

\* Math.round of 5 * correct / total; an attempt without a quiz is perfect.
Quality(correct, total) ==
  IF total = 0 THEN 5 ELSE (10 * correct + total) \div (2 * total)

Fresh == [key |-> Blank, ease |-> DefaultEase, interval |-> 1, rep |-> 0,
          last |-> 0, due |-> 0]

Eased(ease, q) == AtLeast(MinEase, ease + 10 - (5 - q) * (8 + (5 - q) * 2))

\* Mutant: a lapse is asked for again at once.
ScheduleReview_SameDay(prev, q, day) ==
  LET p == IF prev = Unset THEN Fresh ELSE prev
      n == IF q < 3 THEN 0 ELSE 1
  IN [p EXCEPT !.interval = n, !.last = day, !.due = day + n]

ScheduleReview(prev, q, day) ==
  LET p == IF prev = Unset THEN Fresh ELSE prev
      n == IF q < 3 THEN 1
           ELSE CASE p.rep = 0 -> 1
                  [] p.rep = 1 -> 6
                  [] OTHER -> AtLeast(1, (p.interval * p.ease + 50) \div 100)
  IN [p EXCEPT !.interval = n, !.last = day, !.due = day + n,
               !.rep = IF q < 3 THEN 0 ELSE @ + 1,
               !.ease = IF q < 3 THEN @ ELSE Eased(@, q)]

IsDue(state, day) == state.due <= day

-----------------------------------------------------------------------------
(* Pages.                                                                  *)

Nowhere == [at |-> "journey", act |-> Unset, i |-> 0, tried |-> FALSE,
            locked |-> FALSE, correct |-> 0, total |-> 0, back |-> FALSE,
            scan |-> "none", known |-> FALSE, visit |-> 0]

\* A lesson opens on its first module with nothing answered.
Open(a) == [Nowhere EXCEPT !.at = "loading", !.act = a]

Module == Course[page.act][page.i]
Quizzes(a) == {i \in DOMAIN Course[a] : Course[a][i] # "text"}
HasQuiz == Module # "text"

\* Mutant: the last module is not known as such.
IsLast_OffByOne == page.i = Len(Course[page.act]) + 1

IsLast == page.i = Len(Course[page.act])

\* handleComplete ends at the journey wherever the learner is by then.
ToJourney == page' = Nowhere

Statuses == {"not-started", "needs-practice", "completed"}

\* What a completion makes of a status: needs practice below 0.7.
Reached(status, p) ==
  IF status = "completed" \/ p.total = 0 \/ 10 * p.correct >= 7 * p.total
    THEN "completed" ELSE "needs-practice"

Take(p) == server' = [server EXCEPT ![p.act] = Reached(@, p)]

\* The queue keeps the better of two completions (mergeQueuedBody).
Better(old, new) ==
  IF old = Unset \/ new.correct * old.total >= old.correct * new.total
    THEN new ELSE old

Fact(call) == [act |-> call.p.act, day |-> call.day,
               pass |-> Quality(call.p.correct, call.p.total) >= 3]

Reports == [act : Activities, correct : 0 .. MaxAnswers, total : 0 .. MaxAnswers]
Review == [key : Activities \cup {Blank}, ease : Nat, interval : Nat, rep : Nat,
           last : 0 .. MaxDay, due : Nat]
Call == [p : Reports, day : 0 .. MaxDay, back : BOOLEAN,
         prev : {Unset} \cup Review, step : {"sent", "read", "save", "saved"}]
Page == [at : {"journey", "loading", "error", "empty", "lesson", "poster",
               "dashboard"},
         act : Activities \cup {Unset}, i : Nat, tried : BOOLEAN,
         locked : BOOLEAN, correct : 0 .. MaxAnswers,
         total : 0 .. MaxAnswers, back : BOOLEAN,
         scan : {"none", "recording", "recorded", "offline", "failed"},
         known : BOOLEAN, visit : 0 .. Visits]

ASSUME LessonAssumption ==
  /\ Blank \notin Activities
  /\ Course \in [Activities -> Seq({"text", "quiz", "keyless"})]
  /\ MaxAnswers \in Nat /\ Visits \in Nat /\ MaxDay \in Nat
  /\ Unset \notin Review /\ Idle \notin Call

TypeOK ==
  /\ page \in Page
  /\ page.at = "lesson" => page.i \in DOMAIN Course[page.act]
  /\ calls \in [Calls -> Call \cup {Idle}]
  /\ server \in [Activities -> Statuses]
  /\ queued \in [Activities -> Reports \cup {Unset}]
  /\ schedule \in [Activities \cup {Blank} -> {Unset} \cup Review]
  /\ journey = Unset \/ journey \in [Activities -> Statuses]
  /\ card \in [step : {"off", "titles", "shown"},
               items : SUBSET (Activities \cup {Blank})]
  /\ visits \in [1 .. Visits -> {"none", "sent", "counted", "started"}]
  /\ today \in 0 .. MaxDay
  /\ accepted \subseteq [act : Activities, day : 0 .. MaxDay, pass : BOOLEAN]

NoCard == [step |-> "off", items |-> {}]

Init ==
  /\ page = Nowhere
  /\ calls = [c \in Calls |-> Idle]
  /\ server = [a \in Activities |-> "not-started"]
  /\ queued = [a \in Activities |-> Unset]
  /\ schedule = [k \in Activities \cup {Blank} |-> Unset]
  /\ journey = Unset
  /\ card = NoCard
  /\ visits = [v \in 1 .. Visits |-> "none"]
  /\ today = 0
  /\ accepted = {}

-----------------------------------------------------------------------------
(* The journey page and the lesson page.                                   *)

\* fetchWithCache('/learning-journey'): fresh, or what an earlier load cached.
LoadJourney ==
  /\ page.at = "journey"
  /\ journey' = server
  /\ UNCHANGED <<page, calls, server, queued, schedule, card, visits, today,
                 accepted>>

\* Any card of the journey leads to its lesson, whatever its status.
OpenLesson(a) ==
  /\ page.at = "journey" /\ journey # Unset
  /\ page' = Open(a)
  /\ UNCHANGED <<calls, server, queued, schedule, journey, card, visits, today,
                 accepted>>

\* The modules arrive, none exist, or there is neither network nor cache.
LoadLesson(ok) ==
  /\ page.at = "loading"
  /\ page' = CASE ~ok -> [page EXCEPT !.at = "error"]
               [] ok /\ Course[page.act] = <<>> -> [page EXCEPT !.at = "empty"]
               [] OTHER -> [page EXCEPT !.at = "lesson", !.i = 1]
  /\ UNCHANGED <<calls, server, queued, schedule, journey, card, visits, today,
                 accepted>>

\* "Try Again" reloads the page.
Reload ==
  /\ page.at = "error"
  /\ page' = Open(page.act)
  /\ UNCHANGED <<calls, server, queued, schedule, journey, card, visits, today,
                 accepted>>

\* Back to the journey, on any page; the dashboard shows the review card.
Leave(to) ==
  /\ page.at # to
  /\ page' = [Nowhere EXCEPT !.at = to]
  /\ card' = NoCard
  /\ UNCHANGED <<calls, server, queued, schedule, journey, visits, today,
                 accepted>>

-----------------------------------------------------------------------------
(* The quiz viewer.                                                        *)

\* Mutant: every try counts, not the first one.
FirstTry_Every == TRUE

FirstTry == ~page.tried

\* An option is clicked: the first try counts, the right one locks the module.
\* No option is right when the module names no answer.
Answer(right) ==
  /\ page.at = "lesson" /\ HasQuiz /\ ~page.locked
  /\ Module = "keyless" => ~right
  /\ FirstTry => page.total < MaxAnswers
  /\ page' = [page EXCEPT
       !.tried = TRUE, !.locked = right,
       !.total = IF FirstTry THEN @ + 1 ELSE @,
       !.correct = IF FirstTry /\ right THEN @ + 1 ELSE @]
  /\ UNCHANGED <<calls, server, queued, schedule, journey, card, visits, today,
                 accepted>>

CanNext == ~(HasQuiz /\ ~page.locked)

\* Another module: its answers start afresh, the counts go on.
Turn(j) == [page EXCEPT !.i = j, !.tried = FALSE, !.locked = FALSE]

NextModule ==
  /\ page.at = "lesson" /\ CanNext /\ ~IsLast
  /\ page' = Turn(page.i + 1)
  /\ UNCHANGED <<calls, server, queued, schedule, journey, card, visits, today,
                 accepted>>

Previous ==
  /\ page.at = "lesson" /\ page.i > 1
  /\ page' = [Turn(page.i - 1) EXCEPT !.back = TRUE]
  /\ UNCHANGED <<calls, server, queued, schedule, journey, card, visits, today,
                 accepted>>

\* "Complete" on the last module.  The page stays: it may be clicked again.
Finish(c) ==
  /\ page.at = "lesson" /\ CanNext /\ IsLast /\ calls[c] = Idle
  /\ calls' = [calls EXCEPT ![c] =
       [p |-> [act |-> page.act, correct |-> page.correct,
               total |-> page.total],
        day |-> today, back |-> page.back, prev |-> Unset, step |-> "sent"]]
  /\ UNCHANGED <<page, server, queued, schedule, journey, card, visits, today,
                 accepted>>

-----------------------------------------------------------------------------
(* handleComplete: the POST, then the review schedule.                     *)

InCall(c, step) == calls[c] # Idle /\ calls[c].step = step

\* A 2xx.  The body says accuracy and status but has no field "ok", so the
\* page reads it as not recorded, says so, and leaves the schedule alone.
Accepted(c) ==
  /\ InCall(c, "sent")
  /\ Take(calls[c].p)
  /\ accepted' = accepted \cup {Fact(calls[c])}
  /\ calls' = [calls EXCEPT ![c] = Idle]
  /\ ToJourney
  /\ card' = NoCard
  /\ UNCHANGED <<queued, schedule, journey, visits, today>>

\* No network, a 5xx or a lost answer: queued, and known to be.
Queued(c) ==
  /\ InCall(c, "sent")
  /\ queued' = [queued EXCEPT ![calls[c].p.act] = Better(@, calls[c].p)]
  /\ accepted' = accepted \cup {Fact(calls[c])}
  /\ calls' = [calls EXCEPT ![c].step = "read"]
  /\ UNCHANGED <<page, server, schedule, journey, card, visits, today>>

\* Mutant: a refusal is taken for a recorded completion.
Refused_Recorded(c) ==
  /\ InCall(c, "sent")
  /\ calls' = [calls EXCEPT ![c].step = "read"]
  /\ UNCHANGED <<page, server, queued, schedule, journey, card, visits, today,
                 accepted>>

\* A 4xx, or the queue cannot be written.
Refused(c) ==
  /\ InCall(c, "sent")
  /\ calls' = [calls EXCEPT ![c] = Idle]
  /\ ToJourney
  /\ card' = NoCard
  /\ UNCHANGED <<server, queued, schedule, journey, visits, today, accepted>>

\* getReviewState, in a transaction of its own ...
ReadReview(c) ==
  /\ InCall(c, "read")
  /\ calls' = [calls EXCEPT ![c].step = "save",
                            ![c].prev = schedule[calls[c].p.act]]
  /\ UNCHANGED <<page, server, queued, schedule, journey, card, visits, today,
                 accepted>>

\* ... and saveReviewState: the key is that of the state read, blank if none.
SaveReview(c) ==
  /\ InCall(c, "save")
  /\ LET p == calls[c].p
         new == ScheduleReview(calls[c].prev, Quality(p.correct, p.total),
                               calls[c].day)
     IN schedule' = [schedule EXCEPT ![new.key] = new]
  /\ calls' = [calls EXCEPT ![c].step = "saved"]
  /\ UNCHANGED <<page, server, queued, journey, card, visits, today, accepted>>

\* Once the put has resolved: to the journey, from whichever page is shown.
Scheduled(c) ==
  /\ InCall(c, "saved")
  /\ calls' = [calls EXCEPT ![c] = Idle]
  /\ ToJourney
  /\ card' = NoCard
  /\ UNCHANGED <<server, queued, schedule, journey, visits, today, accepted>>

\* The store cannot be read or written: handleComplete rejects where it is.
ReviewFails(c) ==
  /\ InCall(c, "read") \/ InCall(c, "save")
  /\ calls' = [calls EXCEPT ![c] = Idle]
  /\ UNCHANGED <<page, server, queued, schedule, journey, card, visits, today,
                 accepted>>

\* The queue delivers a completion (SyncQueue says when and how often).
Deliver(a) ==
  /\ queued[a] # Unset
  /\ queued' = [queued EXCEPT ![a] = Unset]
  /\ Take(queued[a])
  /\ UNCHANGED <<page, calls, schedule, journey, card, visits, today, accepted>>

-----------------------------------------------------------------------------
(* The review card of the dashboard.                                       *)

\* getAllReviewStates, as of now; nothing due is shown at once.
ReadCard ==
  /\ page.at = "dashboard" /\ card.step = "off"
  /\ LET due == {k \in DOMAIN schedule :
                   schedule[k] # Unset /\ IsDue(schedule[k], today)}
     IN card' = [step |-> IF due = {} THEN "shown" ELSE "titles",
                 items |-> due]
  /\ UNCHANGED <<page, calls, server, queued, schedule, journey, visits, today,
                 accepted>>

\* The titles come with the journey; without them the items are shown raw.
ShowCard ==
  /\ card.step = "titles"
  /\ card' = [card EXCEPT !.step = "shown"]
  /\ UNCHANGED <<page, calls, server, queued, schedule, journey, visits, today,
                 accepted>>

-----------------------------------------------------------------------------
(* The poster page.                                                        *)

\* A poster names an activity: record the scan, and cache its lesson.
OpenPoster(a, v) ==
  /\ page.at = "journey" /\ visits[v] = "none"
  /\ page' = [Nowhere EXCEPT !.at = "poster", !.act = a,
                             !.scan = "recording", !.visit = v]
  /\ visits' = [visits EXCEPT ![v] = "sent"]
  /\ UNCHANGED <<calls, server, queued, schedule, journey, card, today, accepted>>

\* Mutant: the page does not wait for the answer to say so.
Shown_Early(outcome) == "recorded"

\* What the page says of the outcome of its POST.
Shown(outcome) == CASE outcome \in {"ok", "garbled"} -> "recorded"
                    [] outcome = "refused" -> "failed"
                    [] outcome \in {"unreached", "lost"} -> "offline"

Outcomes == {"ok", "garbled", "refused", "unreached", "lost"}

\* The answer: counted unless refused or never reached; whoever left the page
\* does not see it.  After a garbled answer the scan's id is not known.
ScanAnswered(v, outcome) ==
  /\ visits[v] = "sent"
  /\ visits' = [visits EXCEPT ![v] =
                  IF outcome \in {"ok", "garbled", "lost"} THEN "counted"
                  ELSE "none"]
  /\ page' = IF page.at = "poster" /\ page.visit = v
               THEN [page EXCEPT !.scan = Shown(outcome),
                                 !.known = outcome = "ok"]
               ELSE page
  /\ UNCHANGED <<calls, server, queued, schedule, journey, card, today, accepted>>

\* "Start the lesson": marks the scan if its id is known, and goes there.
MarkStarted ==
  /\ page.at = "poster" /\ page.scan # "recording"
  /\ visits' = IF page.known
                 THEN [visits EXCEPT ![page.visit] = "started"] ELSE visits
  /\ page' = Open(page.act)
  /\ UNCHANGED <<calls, server, queued, schedule, journey, card, today, accepted>>

NextDay ==
  /\ today < MaxDay
  /\ today' = today + 1
  /\ UNCHANGED <<page, calls, server, queued, schedule, journey, card, visits,
                 accepted>>

Next ==
  \/ LoadJourney \/ Reload \/ NextModule \/ Previous
  \/ \E a \in Activities : OpenLesson(a)
  \/ \E ok \in BOOLEAN : LoadLesson(ok)
  \/ \E to \in {"journey", "dashboard"} : Leave(to)
  \/ \E right \in BOOLEAN : Answer(right)
  \/ \E c \in Calls : Finish(c)
  \/ \E c \in Calls : Accepted(c) \/ Queued(c) \/ Refused(c)
  \/ \E c \in Calls : ReadReview(c) \/ SaveReview(c) \/ Scheduled(c)
  \/ \E c \in Calls : ReviewFails(c)
  \/ \E a \in Activities : Deliver(a)
  \/ ReadCard \/ ShowCard
  \/ \E a \in Activities, v \in 1 .. Visits : OpenPoster(a, v)
  \/ \E v \in 1 .. Visits, outcome \in Outcomes : ScanAnswered(v, outcome)
  \/ MarkStarted \/ NextDay

Spec == Init /\ [][Next]_vars

-----------------------------------------------------------------------------
(* Properties.                                                             *)

(* What a completion reports is the whole lesson: every knowledge check was *)
(* answered and counted, by a first try of a visit to it; exactly once if   *)
(* the learner never went back, at least once if she did (statsRef and      *)
(* firstTryRef across modules).                                             *)
ReportIsWhole ==
  \A c \in Calls : calls[c] # Idle =>
    LET p == calls[c].p
        n == Cardinality(Quizzes(p.act))
    IN /\ p.correct <= p.total /\ n <= p.total
       /\ ~calls[c].back => p.total = n

(* "The review schedule advances ONLY when the completion is on a real      *)
(* server path": every scheduled review goes back to a completion of that   *)
(* day which the server or the queue took, and of that quality              *)
(* (handleComplete).                                                        *)
ScheduleBacked ==
  \A k \in DOMAIN schedule : schedule[k] # Unset =>
    \E p \in accepted :
      /\ p.day = schedule[k].last
      /\ p.pass <=> schedule[k].rep > 0

(* Nothing is left listed that was done on the same day.  What the card     *)
(* lists was last reviewed, as the store has it, on an earlier day; only    *)
(* when a call saves a review under the open card is it otherwise, until    *)
(* that call, or one beside it, takes the learner to the journey (isDue     *)
(* against dueDate, over calls that overlap with each other and the card).  *)
NotAskedTwiceADay ==
  \A k \in card.items :
    /\ schedule[k] # Unset
    /\ schedule[k].last < today \/ \E c \in Calls : InCall(c, "saved")

(* A poster page that says its scan is counted is right, also when a late   *)
(* answer of an earlier visit comes in (QRLanding, scanIdRef).              *)
RecordedMeansCounted ==
  page.scan = "recorded" => visits[page.visit] = "counted"
=============================================================================
