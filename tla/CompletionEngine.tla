-------------------------- MODULE CompletionEngine --------------------------
(***************************************************************************)
(* How the server records completed activities (backend/internal/          *)
(* repository/completion_engine.go, completion_repo.go, sync_repo.go, and  *)
(* learner_service.go GetDashboardData, which writes the same progress     *)
(* row).  The database is SQLite behind a pool of one connection, so a     *)
(* transaction excludes every other statement; the two statements of a     *)
(* dashboard request are not a transaction.  A statement of a transaction  *)
(* that fails is taken to fail the transaction (BulkAbort): an error takes *)
(* the context or the connection with it, so what follows fails too.       *)
(*                                                                         *)
(* Left out because nothing below depends on them: elapsed seconds, the    *)
(* score and duration of a daily row (100 per completion, seconds), texts. *)
(***************************************************************************)
EXTENDS Integers, FiniteSets

CONSTANTS
  Learners, NoLearner,
  None,           \* no progress row; no first completion
  Activities,     \* every activity that may ever be published
  Dashboards,     \* concurrent GET /dashboard requests
  Scale,          \* accuracies a quiz can have; score is accuracy * 100
  NoQuiz,         \* an attempt without knowledge checks (total_count = 0)
  Threshold,      \* NeedsPracticeAccuracyThreshold
  Day,            \* one day, in units of time
  PastWindow,     \* how far back a client's clock is believed (14 days)
  FutureWindow,   \* and how far ahead (1 day)
  Stamps,         \* completed_at_unix_ms as clients report it
  NoStamp,        \* not reported
  Zones,          \* offsets of the learners' time zones
  ScoreStep, ScoreCap,  \* overall score: + 2.5 while below 95
  Seeds,          \* what the database may hold about a learner at first
  StartTime, EndTime    \* bound: the instants explored

Accuracies == Scale \cup {NoQuiz}
Attempts == [acc : Accuracies, stamp : Stamps, zone : Zones]

VARIABLES
  db,         \* what is committed about each learner
  published,  \* the activities table
  tx,         \* the open bulk transaction, if any: its learner and its view
  dash,       \* what a dashboard request has read and is about to write
  now         \* the server's clock

vars == <<db, published, tx, dash, now>>

-----------------------------------------------------------------------------
(* Rows, and how a completion changes them.                                *)

\* Statuses: StatusCompleted and StatusNeedsPractice are what the engine
\* writes; "Completed" and "In progress" are what older rows and seedData hold.
Statuses == {"absent", "In progress", "Completed", "completed",
             "needs-practice"}
Row == [status : Statuses, accuracy : Nat, score : Nat, attempts : Nat]
NoRow == [status |-> "absent", accuracy |-> 0, score |-> 0, attempts |-> 0]

\* last is LastActivityDate: empty when zero, else the instant a day began.
Progress == [total : Nat, completed : Nat, streak : Nat, overall : Nat,
             last : SUBSET Int]
NewProgress(n) ==
  [total |-> n, completed |-> 0, streak |-> 0, overall |-> 0, last |-> {}]

\* Per day, the completions counted and the sum their mean is taken of; a day
\* with no row counts 0.
Daily == [attempts : Nat, sum : Nat]

First == [acc : Accuracies, day : Int]

ASSUME EngineAssumption ==
  /\ NoLearner \notin Learners
  /\ IsFiniteSet(Activities)
  /\ Scale \subseteq Nat /\ NoQuiz \notin Scale
  /\ Threshold \in Nat /\ Threshold > 0
  /\ Day \in Nat \ {0} /\ PastWindow \in Nat /\ FutureWindow \in Nat
  /\ Stamps \subseteq Int /\ NoStamp \in Int /\ Zones \subseteq Int
  /\ ScoreStep \in Nat /\ ScoreCap \in Nat
  /\ StartTime \in Int /\ EndTime \in Int /\ StartTime <= EndTime
  /\ None \notin Progress /\ None \notin First

HasQuiz(acc) == acc # NoQuiz

\* Mutant: the sentinel of an attempt without a quiz is used as a number.
Accuracy_Sentinel(acc) == IF HasQuiz(acc) THEN acc ELSE -1

Accuracy(acc) == IF HasQuiz(acc) THEN acc ELSE 0

\* AttemptStats.CompletedAt: the client's clock, within the window.
CompletedAt(stamp, t) ==
  IF stamp = NoStamp THEN t
  ELSE IF stamp < t - PastWindow THEN t - PastWindow
  ELSE IF stamp > t + FutureWindow THEN t + FutureWindow
  ELSE stamp

\* The instant at which the local day of t began.
LocalDay(t, zone) == ((t + zone) \div Day) * Day - zone

AlreadyCompleted(row) == row.status \in {"completed", "needs-practice"}

Dates == {LocalDay(CompletedAt(stamp, t), zone) :
            stamp \in Stamps, t \in StartTime .. EndTime, zone \in Zones}

\* What is held about one learner.  notes counts the observation and guidance
\* pairs per activity.  The rest is history: tried is what was applied to each
\* activity, first the first completion of each, reset whether a dashboard
\* request overwrote the progress row.
LearnerData ==
  [rows : [Activities -> Row], progress : Progress \cup {None},
   daily : [Dates -> Daily], notes : [Activities -> Nat],
   tried : [Activities -> SUBSET Accuracies],
   first : [Activities -> First \cup {None}], reset : BOOLEAN]

Blank ==
  [rows |-> [a \in Activities |-> NoRow], progress |-> None,
   daily |-> [t \in Dates |-> [attempts |-> 0, sum |-> 0]],
   notes |-> [a \in Activities |-> 0],
   tried |-> [a \in Activities |-> {}],
   first |-> [a \in Activities |-> None], reset |-> FALSE]

\* Mutant: the streak goes on however long the gap.
NextStreak_NoGap(p, today) ==
  IF p.last = {today} THEN p.streak
  ELSE p.streak + 1

\* The streak switch of applyCompletion.
NextStreak(p, today) ==
  IF p.last = {today} THEN p.streak
  ELSE IF p.last = {today - Day} THEN p.streak + 1
  ELSE 1

\* Mutant: the completed counter is not clamped to the topics there are.
NextProgress_Unclamped(p, today) ==
  [p EXCEPT !.completed = @ + 1,
            !.streak = NextStreak(p, today),
            !.last = {today},
            !.overall = IF @ < ScoreCap THEN @ + ScoreStep ELSE @]

NextProgress(p, today) ==
  [p EXCEPT !.completed = IF @ + 1 > p.total THEN p.total ELSE @ + 1,
            !.streak = NextStreak(p, today),
            !.last = {today},
            !.overall = IF @ < ScoreCap THEN @ + ScoreStep ELSE @]

\* Quiz-less attempts add 0 to the sum and 1 to the count, like any other.
NextDaily(daily, today, acc) ==
  [daily EXCEPT ![today] = [attempts |-> @.attempts + 1,
                            sum |-> @.sum + Accuracy(acc)]]

\* A first completion, of n published activities, at t.
FirstCompletion(d, a, s, n, t) ==
  LET today == LocalDay(CompletedAt(s.stamp, t), s.zone)
      p == IF d.progress = None THEN NewProgress(n) ELSE d.progress
  IN [d EXCEPT
       !.rows[a] = [status |-> IF HasQuiz(s.acc) /\ s.acc < Threshold
                                 THEN "needs-practice" ELSE "completed",
                    accuracy |-> Accuracy(s.acc), score |-> Accuracy(s.acc),
                    attempts |-> 1],
       !.progress = NextProgress(p, today),
       !.daily = NextDaily(@, today, s.acc),
       !.notes[a] = @ + 1,
       !.tried[a] = {s.acc},
       !.first[a] = [acc |-> s.acc, day |-> today]]

\* Mutant: an attempt as good as the best counts as better.
Improves_OrEqual(row, acc) == HasQuiz(acc) /\ acc >= row.accuracy

\* Mutant: any re-attempt replaces the row.
Improves_Always(row, acc) == HasQuiz(acc)

Improves(row, acc) == HasQuiz(acc) /\ acc > row.accuracy

\* Mutant: the needs-practice flag is never cleared.
BetterAttempt_KeepsFlag(d, a, s) ==
  [d EXCEPT
    !.rows[a] = [status |-> @.status, accuracy |-> s.acc, score |-> s.acc,
                 attempts |-> @.attempts + 1],
    !.notes[a] = @ + 1,
    !.tried[a] = @ \cup {s.acc}]

\* An improving re-attempt, and a replay that changes nothing recorded here.
BetterAttempt(d, a, s) ==
  [d EXCEPT
    !.rows[a] = [status |-> IF s.acc >= Threshold THEN "completed"
                            ELSE @.status,
                 accuracy |-> s.acc, score |-> s.acc,
                 attempts |-> @.attempts + 1],
    !.notes[a] = @ + 1,
    !.tried[a] = @ \cup {s.acc}]

Replay(d, a, s) == [d EXCEPT !.tried[a] = @ \cup {s.acc}]

ApplyCompletion(d, a, s, n, t) ==
  IF ~AlreadyCompleted(d.rows[a]) THEN FirstCompletion(d, a, s, n, t)
  ELSE IF Improves(d.rows[a], s.acc) THEN BetterAttempt(d, a, s)
  ELSE Replay(d, a, s)

-----------------------------------------------------------------------------
(* The server.                                                             *)

NoTx == [learner |-> NoLearner, view |-> Blank]
NoRead == [learner |-> NoLearner, total |-> 0]

TypeOK ==
  /\ db \in [Learners -> LearnerData]
  /\ published \subseteq Activities
  /\ tx \in [learner : Learners \cup {NoLearner}, view : LearnerData]
  /\ dash \in [Dashboards -> [learner : Learners \cup {NoLearner}, total : Nat]]
  /\ now \in Int

Init ==
  /\ db \in [Learners -> Seeds]
  /\ published \in SUBSET Activities
  /\ tx = NoTx
  /\ dash = [r \in Dashboards |-> NoRead]
  /\ now = StartTime

\* The one connection of the pool is free.
Free == tx.learner = NoLearner

\* POST /activities/:id/complete: CompleteActivityTx, one transaction.
Complete(l, a, s) ==
  /\ Free /\ a \in published
  /\ db' = [db EXCEPT ![l] =
              ApplyCompletion(@, a, s, Cardinality(published), now)]
  /\ UNCHANGED <<published, tx, dash, now>>

\* POST /sync/bulk: the items of a .logsync file, in one transaction.
BulkBegin(l) ==
  /\ Free
  /\ tx' = [learner |-> l, view |-> db[l]]
  /\ UNCHANGED <<db, published, dash, now>>

\* An item for an unknown activity, or of another shape, changes nothing.
BulkItem(a, s) ==
  /\ ~Free /\ a \in published
  /\ tx' = [tx EXCEPT !.view =
              ApplyCompletion(@, a, s, Cardinality(published), now)]
  /\ UNCHANGED <<db, published, dash, now>>

BulkCommit ==
  /\ ~Free
  /\ db' = [db EXCEPT ![tx.learner] = tx.view]
  /\ tx' = NoTx
  /\ UNCHANGED <<published, dash, now>>

\* A write fails, or the process stops: the transaction is rolled back.
BulkAbort ==
  /\ ~Free
  /\ tx' = NoTx
  /\ UNCHANGED <<db, published, dash, now>>

\* GET /dashboard: FindProgress finds no row, or fails, which is taken for the
\* same ...
DashboardMisses(r, l) ==
  /\ Free /\ dash[r] = NoRead
  /\ dash' = [dash EXCEPT ![r] =
                [learner |-> l, total |-> Cardinality(published)]]
  /\ UNCHANGED <<db, published, tx, now>>

\* ... and SaveProgress writes an empty one, over whatever is there by then,
DashboardSaves(r) ==
  /\ Free /\ dash[r] # NoRead
  /\ db' = [db EXCEPT
       ![dash[r].learner].progress = NewProgress(dash[r].total),
       ![dash[r].learner].reset =
         @ \/ db[dash[r].learner].progress # None]
  /\ dash' = [dash EXCEPT ![r] = NoRead]
  /\ UNCHANGED <<published, tx, now>>

\* or fails as well, and the request with it.
DashboardFails(r) ==
  /\ dash[r] # NoRead
  /\ dash' = [dash EXCEPT ![r] = NoRead]
  /\ UNCHANGED <<db, published, tx, now>>

\* POST /admin/activities, POST /oer/import.
Publish(a) ==
  /\ Free /\ a \notin published
  /\ published' = published \cup {a}
  /\ UNCHANGED <<db, tx, dash, now>>

Tick ==
  /\ now < EndTime
  /\ now' = now + 1
  /\ UNCHANGED <<db, published, tx, dash>>

Next ==
  \/ \E l \in Learners, a \in Activities, s \in Attempts : Complete(l, a, s)
  \/ \E l \in Learners : BulkBegin(l)
  \/ \E a \in Activities, s \in Attempts : BulkItem(a, s)
  \/ BulkCommit \/ BulkAbort
  \/ \E r \in Dashboards, l \in Learners : DashboardMisses(r, l)
  \/ \E r \in Dashboards : DashboardSaves(r) \/ DashboardFails(r)
  \/ \E a \in Activities : Publish(a)
  \/ Tick

Spec == Init /\ [][Next]_vars

-----------------------------------------------------------------------------
(* Properties.                                                             *)

\* The activities a learner has completed, as this system counted them.
Done(d) == {a \in Activities : d.tried[a] # {}}

(* Best-score semantics: the row holds the best accuracy of everything ever *)
(* applied to the activity, in whatever order attempts, replays and bulk    *)
(* uploads arrive, and each attempt it counts has one pair of notes         *)
(* (applyCompletion).                                                       *)
BestAttemptKept ==
  \A l \in Learners : \A a \in Done(db[l]) :
    LET row == db[l].rows[a]
        got == {Accuracy(acc) : acc \in db[l].tried[a]}
    IN /\ row.accuracy \in got /\ \A x \in got : x <= row.accuracy
       /\ row.score = row.accuracy
       /\ row.attempts = db[l].notes[a]

\* What a client or a teacher can see of a learner.
Visible(d) == [rows |-> d.rows, progress |-> d.progress, daily |-> d.daily,
               notes |-> d.notes]

(* Replaying anything that was ever applied, by a queue or a bulk upload    *)
(* that did not see the first answer, changes nothing a client can see.     *)
ReplayIsIdempotent ==
  \A l \in Learners : \A a \in Done(db[l]) : \A s \in Attempts :
    s.acc \in db[l].tried[a] =>
      Visible(ApplyCompletion(db[l], a, s, Cardinality(published), now))
        = Visible(db[l])

(* Each activity counts once, on the day of its first completion, however   *)
(* often it is replayed and whatever fails half way; the progress row       *)
(* counts the same activities, up to the topics it knows of, unless a       *)
(* dashboard request has overwritten it.                                    *)
CountedOnce ==
  \A l \in Learners :
    LET d == db[l] IN
    /\ \A t \in Dates :
         d.daily[t].attempts =
           Cardinality({a \in Done(d) : d.first[a].day = t})
    /\ ~d.reset =>
         IF d.progress = None THEN Done(d) = {}
         ELSE LET n == Cardinality(Done(d)) IN
              d.progress.completed =
                IF n <= d.progress.total THEN n ELSE d.progress.total

(* The needs-practice flag: raised by a first completion below the          *)
(* threshold, cleared by the first attempt that reaches it, and not before. *)
FlagFollowsBest ==
  \A l \in Learners : \A a \in Done(db[l]) :
    db[l].rows[a].status =
      IF HasQuiz(db[l].first[a].acc) /\ db[l].rows[a].accuracy < Threshold
        THEN "needs-practice" ELSE "completed"

\* The local days on which a learner completed something for the first time.
ActiveDays(d) == {d.first[a].day : a \in Done(d)}

(* Every day of a streak was earned: as many days in a row as it says, up   *)
(* to the last activity, have a first completion each -- however late and   *)
(* in whatever order completions arrive, by whatever clocks and zones they  *)
(* are dated, and whatever uploads and dashboard requests come between      *)
(* (the date-aware streak of applyCompletion).  The converse is not so: one *)
(* completion dated before the last active day starts the streak again.     *)
StreakEarned ==
  \A l \in Learners :
    LET d == db[l] IN
    d.progress # None =>
      \A last \in d.progress.last : \A i \in 0 .. d.progress.streak - 1 :
        last - i * Day \in ActiveDays(d)

\* The best scores that the rows show, of activities completed here.
BestShown ==
  [l \in Learners |-> [a \in Activities |->
     IF db[l].tried[a] = {} THEN -1 ELSE db[l].rows[a].accuracy]]

Ledger == INSTANCE ScoreLedger WITH
  best <- BestShown, Scores <- {Accuracy(acc) : acc \in Accuracies}

(* The engine implements the ledger: a live completion and the commit of a  *)
(* bulk upload each record one batch of one learner, and nothing else that  *)
(* the server does, dashboard requests and rollbacks included, changes a    *)
(* best score (CompleteActivityTx, SyncBulk).                               *)
KeepsLedger == Ledger!Spec
=============================================================================
