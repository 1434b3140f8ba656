-------------------------- MODULE CompletionProofs --------------------------
(***************************************************************************)
(* Proofs about CompletionEngine, for every set of learners, activities,   *)
(* dashboards, clocks and zones.  The invariant is a property of what is   *)
(* held about one learner: it is kept by one completion, hence by the      *)
(* committed data and by the view of an open bulk transaction alike.  The  *)
(* database may hold rows at first, of unfinished or older work, as        *)
(* seedData's demo learner has them.                                       *)
(***************************************************************************)
EXTENDS CompletionEngine, FiniteSetTheorems, TLAPS

\* A learner of whom nothing was recorded here, whatever her rows say of
\* unfinished or older work and her progress row of its total.
Unrecorded(d) ==
  /\ d \in LearnerData
  /\ \A a \in Activities :
       d.tried[a] = {} /\ d.notes[a] = 0 /\ ~AlreadyCompleted(d.rows[a])
  /\ \A t \in Dates : d.daily[t].attempts = 0

CountsDone(d) ==
  IF d.progress = None THEN Done(d) = {}
  ELSE LET n == Cardinality(Done(d)) IN
       d.progress.completed =
         IF n <= d.progress.total THEN n ELSE d.progress.total

\* Every day that the streak counts had a first completion.
Earned(d) ==
  d.progress # None =>
    \A last \in d.progress.last : \A i \in 0 .. d.progress.streak - 1 :
      last - i * Day \in ActiveDays(d)

\* What the database holds at first: no progress row that counts more than was
\* recorded here, or none that knows of an active day.
SeedsCounted == \A d \in Seeds : ~d.reset => CountsDone(d)
SeedsIdle == \A d \in Seeds : d.progress = None \/ d.progress.last = {}

\* Rows: what the engine has not touched is as it was; what it has, holds the
\* best of what was tried, and the flag of the first attempt until cleared.
RowConsistent(d, a) ==
  IF d.tried[a] = {}
    THEN /\ ~AlreadyCompleted(d.rows[a]) /\ d.notes[a] = 0
    ELSE /\ d.first[a] \in First /\ d.first[a].day \in Dates
         /\ d.first[a].acc \in d.tried[a]
         /\ \E acc \in d.tried[a] : d.rows[a].accuracy = Accuracy(acc)
         /\ \A acc \in d.tried[a] : Accuracy(acc) <= d.rows[a].accuracy
         /\ d.rows[a].score = d.rows[a].accuracy
         /\ d.rows[a].attempts = d.notes[a]
         /\ d.rows[a].status =
              IF HasQuiz(d.first[a].acc) /\ d.rows[a].accuracy < Threshold
                THEN "needs-practice" ELSE "completed"

\* The activities that count on day t.
On(d, t) == {a \in Done(d) : d.first[a].day = t}

ProgressConsistent(d) == SeedsCounted /\ ~d.reset => CountsDone(d)
StreakConsistent(d) == SeedsIdle => Earned(d)

Consistent(d) ==
  /\ \A a \in Activities : RowConsistent(d, a)
  /\ \A t \in Dates : d.daily[t].attempts = Cardinality(On(d, t))
  /\ ProgressConsistent(d)
  /\ StreakConsistent(d)

\* Rows only get better.
NoWorse(d, e) ==
  \A a \in Activities : d.tried[a] # {} =>
    e.tried[a] # {} /\ e.rows[a].score >= d.rows[a].score

LEMMA AccuracyType ==
  ASSUME NEW acc \in Accuracies
  PROVE  Accuracy(acc) \in Nat
  BY EngineAssumption DEF Accuracy, HasQuiz, Accuracies

LEMMA LocalDayType ==
  ASSUME NEW stamp \in Int, NEW t \in Int, NEW zone \in Int
  PROVE  LocalDay(CompletedAt(stamp, t), zone) \in Int
  <1>1. CompletedAt(stamp, t) \in Int
    BY EngineAssumption DEF CompletedAt
  <1>2. ((CompletedAt(stamp, t) + zone) \div Day) \in Int
    BY <1>1, EngineAssumption
  <1> QED BY <1>2, EngineAssumption DEF LocalDay

(* A completion lands on one of the days explored.                         *)
LEMMA DayType ==
  ASSUME NEW s \in Attempts, NEW t \in StartTime .. EndTime
  PROVE  /\ LocalDay(CompletedAt(s.stamp, t), s.zone) \in Dates
         /\ LocalDay(CompletedAt(s.stamp, t), s.zone) \in Int
  <1>1. s.stamp \in Stamps /\ s.zone \in Zones
    BY DEF Attempts
  <1>2. LocalDay(CompletedAt(s.stamp, t), s.zone) \in Dates
    BY <1>1 DEF Dates
  <1>3. Stamps \subseteq Int /\ Zones \subseteq Int
        /\ StartTime \in Int /\ EndTime \in Int
    BY EngineAssumption
  <1>4. s.stamp \in Int
    BY <1>1, <1>3
  <1>5. s.zone \in Int
    BY <1>1, <1>3
  <1>6. t \in Int
    BY <1>3
  <1>7. LocalDay(CompletedAt(s.stamp, t), s.zone) \in Int
    BY <1>4, <1>5, <1>6, LocalDayType
  <1> QED BY <1>2, <1>7

LEMMA DoneFinite ==
  ASSUME NEW d
  PROVE  IsFiniteSet(Done(d)) /\ \A t : IsFiniteSet(On(d, t))
  <1>1. Done(d) \subseteq Activities /\ \A t : On(d, t) \subseteq Activities
    BY DEF Done, On
  <1> QED BY <1>1, FS_Subset, EngineAssumption

LEMMA BlankUnrecorded == Unrecorded(Blank)
  <1>1. Blank \in LearnerData
    BY EngineAssumption
       DEF Blank, LearnerData, NoRow, Row, Statuses, Daily
  <1>2. \A a \in Activities : Blank.rows[a].status = "absent"
    BY DEF Blank, NoRow
  <1>3. \A a \in Activities : Blank.tried[a] = {} /\ Blank.notes[a] = 0
    BY DEF Blank
  <1>4. \A t \in Dates : Blank.daily[t].attempts = 0
    BY DEF Blank
  <1> QED BY <1>1, <1>2, <1>3, <1>4 DEF Unrecorded, AlreadyCompleted

(* What is there at first is consistent.                                   *)
LEMMA UnrecordedConsistent ==
  ASSUME NEW d, Unrecorded(d), SeedsCounted /\ ~d.reset => CountsDone(d),
         SeedsIdle => d.progress = None \/ d.progress.last = {}
  PROVE  d \in LearnerData /\ Consistent(d)
  <1>1. \A a \in Activities : RowConsistent(d, a)
    BY DEF RowConsistent, Unrecorded
  <1>2. Done(d) = {} /\ \A t : On(d, t) = {}
    BY DEF Done, On, Unrecorded
  <1>3. \A t \in Dates : d.daily[t].attempts = Cardinality(On(d, t))
    BY <1>2, FS_EmptySet DEF Unrecorded
  <1>4. StreakConsistent(d)
    BY DEF StreakConsistent, Earned
  <1> QED BY <1>1, <1>3, <1>4 DEF Consistent, ProgressConsistent, Unrecorded

LEMMA BlankConsistent == Blank \in LearnerData /\ Consistent(Blank)
  <1>1. Blank.progress = None
    BY DEF Blank
  <1>2. CountsDone(Blank)
    BY DEF Blank, CountsDone, Done
  <1> QED BY <1>1, <1>2, BlankUnrecorded, UnrecordedConsistent

LEMMA NextProgressType ==
  ASSUME NEW p \in Progress, NEW today \in Int
  PROVE  NextProgress(p, today) \in Progress
  <1>1. p.streak \in Nat /\ p.completed \in Nat /\ p.total \in Nat
        /\ p.overall \in Nat
    BY DEF Progress
  <1>2. NextStreak(p, today) \in Nat
    BY <1>1 DEF NextStreak
  <1>3. ScoreStep \in Nat /\ ScoreCap \in Nat
    BY EngineAssumption
  <1>4. (IF p.overall < ScoreCap THEN p.overall + ScoreStep ELSE p.overall)
          \in Nat
    BY <1>1, <1>3
  <1>5. (IF p.completed + 1 > p.total THEN p.total ELSE p.completed + 1)
          \in Nat
    BY <1>1
  <1> QED BY <1>2, <1>4, <1>5 DEF NextProgress, Progress

(* One completion keeps the types of what is held about a learner.         *)
LEMMA FirstType ==
  ASSUME NEW d \in LearnerData, NEW a \in Activities, NEW s \in Attempts,
         NEW n \in Nat, NEW t \in StartTime .. EndTime
  PROVE  FirstCompletion(d, a, s, n, t) \in LearnerData
  <1> DEFINE e == FirstCompletion(d, a, s, n, t)
             today == LocalDay(CompletedAt(s.stamp, t), s.zone)
             p == IF d.progress = None THEN NewProgress(n) ELSE d.progress
             row == [status |-> IF HasQuiz(s.acc) /\ s.acc < Threshold
                                  THEN "needs-practice" ELSE "completed",
                     accuracy |-> Accuracy(s.acc),
                     score |-> Accuracy(s.acc), attempts |-> 1]
  <1>1. today \in Dates /\ today \in Int
    BY DayType
  <1>2. s.acc \in Accuracies /\ Accuracy(s.acc) \in Nat
    BY AccuracyType DEF Attempts
  <1>3. /\ e.rows = [d.rows EXCEPT ![a] = row]
        /\ e.progress = NextProgress(p, today)
        /\ e.daily = NextDaily(d.daily, today, s.acc)
        /\ e.notes = [d.notes EXCEPT ![a] = @ + 1]
        /\ e.tried = [d.tried EXCEPT ![a] = {s.acc}]
        /\ e.first = [d.first EXCEPT ![a] = [acc |-> s.acc, day |-> today]]
        /\ e.reset = d.reset
    BY DEF FirstCompletion, LearnerData
  <1>4. p \in Progress
    BY DEF LearnerData, NewProgress, Progress
  <1>5. e.progress \in Progress
    BY <1>1, <1>3, <1>4, NextProgressType
  <1>6. row \in Row
    BY <1>2 DEF Row, Statuses
  <1>7. e.daily \in [Dates -> Daily]
    BY <1>1, <1>2, <1>3 DEF NextDaily, LearnerData, Daily
  <1>8. [acc |-> s.acc, day |-> today] \in First
    BY <1>1, <1>2 DEF First
  <1>9. e.rows \in [Activities -> Row] /\ e.notes \in [Activities -> Nat]
    BY <1>3, <1>6 DEF LearnerData
  <1>10. /\ e.tried \in [Activities -> SUBSET Accuracies]
         /\ e.first \in [Activities -> First \cup {None}]
         /\ e.reset \in BOOLEAN
    BY <1>2, <1>3, <1>8 DEF LearnerData
  <1> QED BY <1>5, <1>7, <1>9, <1>10 DEF LearnerData, FirstCompletion

LEMMA BetterType ==
  ASSUME NEW d \in LearnerData, NEW a \in Activities, NEW s \in Attempts,
         Improves(d.rows[a], s.acc)
  PROVE  BetterAttempt(d, a, s) \in LearnerData
  <1> DEFINE e == BetterAttempt(d, a, s)
             row == [status |-> IF s.acc >= Threshold THEN "completed"
                                ELSE d.rows[a].status,
                     accuracy |-> s.acc, score |-> s.acc,
                     attempts |-> d.rows[a].attempts + 1]
  <1>1. s.acc \in Accuracies /\ s.acc \in Nat
    BY AccuracyType DEF Attempts, Improves, Accuracy
  <1>2. d.rows[a].status \in Statuses /\ d.rows[a].attempts \in Nat
    BY DEF LearnerData, Row
  <1>3. /\ e.rows = [d.rows EXCEPT ![a] = row]
        /\ e.notes = [d.notes EXCEPT ![a] = @ + 1]
        /\ e.tried = [d.tried EXCEPT ![a] = @ \cup {s.acc}]
        /\ e.first = d.first /\ e.reset = d.reset
        /\ e.daily = d.daily /\ e.progress = d.progress
    BY DEF BetterAttempt, LearnerData
  <1>4. row.status \in Statuses
    BY <1>2 DEF Statuses
  <1>5. row \in Row
    BY <1>1, <1>2, <1>4 DEF Row
  <1>6. e.rows \in [Activities -> Row] /\ e.notes \in [Activities -> Nat]
    BY <1>3, <1>5 DEF LearnerData
  <1>7. e.tried \in [Activities -> SUBSET Accuracies]
    BY <1>1, <1>3 DEF LearnerData
  <1> QED BY <1>3, <1>6, <1>7 DEF LearnerData, BetterAttempt

LEMMA ReplayType ==
  ASSUME NEW d \in LearnerData, NEW a \in Activities, NEW s \in Attempts
  PROVE  Replay(d, a, s) \in LearnerData
  <1> DEFINE e == Replay(d, a, s)
  <1>1. s.acc \in Accuracies
    BY DEF Attempts
  <1>2. /\ e.rows = d.rows /\ e.notes = d.notes
        /\ e.tried = [d.tried EXCEPT ![a] = @ \cup {s.acc}]
        /\ e.first = d.first /\ e.reset = d.reset
        /\ e.daily = d.daily /\ e.progress = d.progress
    BY DEF Replay, LearnerData
  <1>3. e.tried \in [Activities -> SUBSET Accuracies]
    BY <1>1, <1>2 DEF LearnerData
  <1> QED BY <1>2, <1>3 DEF LearnerData, Replay

LEMMA CompletionType ==
  ASSUME NEW d \in LearnerData, NEW a \in Activities, NEW s \in Attempts,
         NEW n \in Nat, NEW t \in StartTime .. EndTime
  PROVE  ApplyCompletion(d, a, s, n, t) \in LearnerData
  BY FirstType, BetterType, ReplayType DEF ApplyCompletion

(* A first completion keeps what is held about a learner consistent.       *)
LEMMA FirstStep ==
  ASSUME NEW d \in LearnerData, Consistent(d), NEW a \in Activities,
         NEW s \in Attempts, NEW n \in Nat, NEW t \in StartTime .. EndTime,
         ~AlreadyCompleted(d.rows[a])
  PROVE  LET e == FirstCompletion(d, a, s, n, t) IN
         e \in LearnerData /\ Consistent(e) /\ NoWorse(d, e)
  <1> DEFINE e == FirstCompletion(d, a, s, n, t)
             today == LocalDay(CompletedAt(s.stamp, t), s.zone)
             p == IF d.progress = None THEN NewProgress(n) ELSE d.progress
             row == [status |-> IF HasQuiz(s.acc) /\ s.acc < Threshold
                                  THEN "needs-practice" ELSE "completed",
                     accuracy |-> Accuracy(s.acc),
                     score |-> Accuracy(s.acc), attempts |-> 1]
  <1>1. today \in Dates /\ today \in Int
    BY DayType
  <1>2. s.acc \in Accuracies /\ Accuracy(s.acc) \in Nat
    BY AccuracyType DEF Attempts
  <1>3. d.tried[a] = {} /\ d.notes[a] = 0
    BY DEF Consistent, RowConsistent, AlreadyCompleted
  <1>4. /\ e.rows = [d.rows EXCEPT ![a] = row]
        /\ e.progress = NextProgress(p, today)
        /\ e.daily = NextDaily(d.daily, today, s.acc)
        /\ e.notes = [d.notes EXCEPT ![a] = @ + 1]
        /\ e.tried = [d.tried EXCEPT ![a] = {s.acc}]
        /\ e.first = [d.first EXCEPT ![a] = [acc |-> s.acc, day |-> today]]
        /\ e.reset = d.reset
    BY DEF FirstCompletion, LearnerData
  <1>5. p \in Progress
    BY DEF LearnerData, NewProgress, Progress
  <1>6. e.progress \in Progress
    BY <1>1, <1>4, <1>5, NextProgressType
  <1>7. e \in LearnerData
    BY FirstType
  <1>8. ASSUME NEW b \in Activities PROVE RowConsistent(e, b)
    <2>1. CASE b = a
      <3>1. /\ e.tried[a] = {s.acc} /\ e.rows[a] = row /\ e.notes[a] = 1
            /\ e.first[a] = [acc |-> s.acc, day |-> today]
        BY <1>3, <1>4 DEF LearnerData
      <3>2. HasQuiz(s.acc) => Accuracy(s.acc) = s.acc
        BY DEF Accuracy
      <3> QED BY <1>1, <1>2, <2>1, <3>1, <3>2 DEF RowConsistent, First
    <2>2. CASE b # a
      <3>1. /\ e.tried[b] = d.tried[b] /\ e.rows[b] = d.rows[b]
            /\ e.notes[b] = d.notes[b] /\ e.first[b] = d.first[b]
        BY <1>4, <2>2 DEF LearnerData
      <3>2. RowConsistent(d, b)
        BY DEF Consistent
      <3> QED BY <3>1, <3>2 DEF RowConsistent
    <2> QED BY <2>1, <2>2
  <1>9. Done(e) = Done(d) \cup {a} /\ a \notin Done(d)
    BY <1>3, <1>4 DEF Done, LearnerData
  <1>10. Cardinality(Done(e)) = Cardinality(Done(d)) + 1
         /\ Cardinality(Done(d)) \in Nat
    BY <1>9, DoneFinite, FS_AddElement, FS_CardinalityType
  <1>11. ASSUME NEW u \in Dates
         PROVE  e.daily[u].attempts = Cardinality(On(e, u))
    <2>1. d.daily[u].attempts = Cardinality(On(d, u)) /\ a \notin On(d, u)
      BY <1>9 DEF Consistent, On
    <2>2. CASE u = today
      <3>1. On(e, u) = On(d, u) \cup {a}
        BY <1>4, <1>9, <2>2 DEF On, LearnerData, Done
      <3>2. Cardinality(On(e, u)) = Cardinality(On(d, u)) + 1
        BY <2>1, <3>1, DoneFinite, FS_AddElement
      <3> QED BY <1>1, <1>4, <2>1, <2>2, <3>2 DEF NextDaily, LearnerData
    <2>3. CASE u # today
      <3>1. On(e, u) = On(d, u)
        BY <1>4, <1>9, <2>3 DEF On, LearnerData, Done
      <3> QED BY <1>1, <1>4, <2>1, <2>3, <3>1 DEF NextDaily, LearnerData
    <2> QED BY <2>2, <2>3
  <1>12. ProgressConsistent(e)
    <2> SUFFICES ASSUME SeedsCounted, ~d.reset
                 PROVE  LET m == Cardinality(Done(e)) IN
                        e.progress.completed =
                          IF m <= e.progress.total THEN m ELSE e.progress.total
      BY <1>4, <1>6, EngineAssumption DEF ProgressConsistent, CountsDone
    <2>1. p.completed = IF Cardinality(Done(d)) <= p.total
                          THEN Cardinality(Done(d)) ELSE p.total
      <3>1. CASE d.progress = None
        <4>1. Done(d) = {}
          BY <3>1 DEF Consistent, ProgressConsistent, CountsDone
        <4> QED BY <3>1, <4>1, FS_EmptySet DEF NewProgress
      <3>2. CASE d.progress # None
        BY <3>2 DEF Consistent, ProgressConsistent, CountsDone
      <3> QED BY <3>1, <3>2
    <2>2. /\ e.progress.total = p.total
          /\ e.progress.completed =
               IF p.completed + 1 > p.total THEN p.total ELSE p.completed + 1
      BY <1>4, <1>5 DEF NextProgress, Progress
    <2>3. p.total \in Nat /\ p.completed \in Nat
      BY <1>5 DEF Progress
    <2> QED BY <1>10, <2>1, <2>2, <2>3
  <1>13. NoWorse(d, e)
    BY <1>3, <1>4 DEF NoWorse, LearnerData, Row
  <1>14. StreakConsistent(e)
    <2> DEFINE streak == NextStreak(p, today)
    <2> SUFFICES ASSUME SeedsIdle, NEW i \in 0 .. streak - 1
                 PROVE  today - i * Day \in ActiveDays(d) \cup {today}
      <3>1. e.progress.last = {today} /\ e.progress.streak = streak
        BY <1>4, <1>5, <1>6 DEF NextProgress, Progress
      <3>2. ActiveDays(e) = ActiveDays(d) \cup {today}
        <4>1. e.first[a].day = today
          BY <1>4 DEF LearnerData
        <4>2. \A b \in Done(d) : e.first[b] = d.first[b]
          BY <1>4, <1>9 DEF LearnerData, Done
        <4> HIDE DEF e, today
        <4> QED BY <1>9, <4>1, <4>2 DEF ActiveDays
      <3> QED BY <3>1, <3>2 DEF StreakConsistent, Earned
    <2>1. Day \in Nat /\ p.streak \in Nat
      BY <1>5, EngineAssumption DEF Progress
    <2>2. ASSUME NEW last \in p.last, NEW j \in 0 .. p.streak - 1
          PROVE  last - j * Day \in ActiveDays(d)
      <3>1. d.progress # None /\ p = d.progress
        BY <2>2 DEF NewProgress
      <3> QED BY <2>2, <3>1 DEF Consistent, StreakConsistent, Earned
    <2>3. CASE i = 0
      BY <1>1, <2>1, <2>3
    <2>4. CASE p.last = {today}
      BY <2>2, <2>4 DEF NextStreak
    <2>5. CASE p.last # {today} /\ p.last = {today - Day} /\ i # 0
      <3>1. streak = p.streak + 1
        BY <2>5 DEF NextStreak
      <3> HIDE DEF streak, today, p
      <3>2. i - 1 \in 0 .. p.streak - 1
        BY <2>1, <2>5, <3>1
      <3>3. (today - Day) - (i - 1) * Day \in ActiveDays(d)
        BY <2>2, <2>5, <3>2
      <3>4. (today - Day) - (i - 1) * Day = today - i * Day
        BY <1>1, <2>1
      <3> QED BY <3>3, <3>4
    <2>6. CASE p.last # {today} /\ p.last # {today - Day}
      BY <2>3, <2>6 DEF NextStreak
    <2> QED BY <2>3, <2>4, <2>5, <2>6
  <1> QED BY <1>7, <1>8, <1>11, <1>12, <1>13, <1>14 DEF Consistent

(* An improving re-attempt changes one row, and counts nothing again.      *)
LEMMA BetterStep ==
  ASSUME NEW d \in LearnerData, Consistent(d), NEW a \in Activities,
         NEW s \in Attempts, AlreadyCompleted(d.rows[a]),
         Improves(d.rows[a], s.acc)
  PROVE  LET e == BetterAttempt(d, a, s) IN
         e \in LearnerData /\ Consistent(e) /\ NoWorse(d, e)
  <1> DEFINE e == BetterAttempt(d, a, s)
             row == [status |-> IF s.acc >= Threshold THEN "completed"
                                ELSE d.rows[a].status,
                     accuracy |-> s.acc, score |-> s.acc,
                     attempts |-> d.rows[a].attempts + 1]
  <1>1. /\ s.acc \in Accuracies /\ HasQuiz(s.acc) /\ s.acc \in Nat
        /\ Accuracy(s.acc) = s.acc /\ s.acc > d.rows[a].accuracy
    BY AccuracyType DEF Attempts, Improves, Accuracy
  <1>2. d.rows[a] \in Row /\ d.rows[a].accuracy \in Nat
        /\ d.rows[a].attempts \in Nat
    BY DEF LearnerData, Row
  <1>3. d.tried[a] # {}
    BY DEF Consistent, RowConsistent
  <1>4. /\ e.rows = [d.rows EXCEPT ![a] = row]
        /\ e.notes = [d.notes EXCEPT ![a] = @ + 1]
        /\ e.tried = [d.tried EXCEPT ![a] = @ \cup {s.acc}]
        /\ e.first = d.first /\ e.reset = d.reset
        /\ e.daily = d.daily /\ e.progress = d.progress
    BY DEF BetterAttempt, LearnerData
  <1>5. e \in LearnerData
    BY BetterType
  <1>6. ASSUME NEW b \in Activities PROVE RowConsistent(e, b)
    <2>1. RowConsistent(d, b)
      BY DEF Consistent
    <2>2. CASE b = a
      <3>1. /\ e.tried[a] = d.tried[a] \cup {s.acc} /\ e.rows[a] = row
            /\ e.notes[a] = d.notes[a] + 1 /\ e.first[a] = d.first[a]
        BY <1>4 DEF LearnerData
      <3>2. \A acc \in d.tried[a] : Accuracy(acc) <= d.rows[a].accuracy
        BY <1>3, <2>1, <2>2 DEF RowConsistent
      <3>3. \A acc \in d.tried[a] : acc \in Accuracies /\ Accuracy(acc) \in Nat
        BY AccuracyType DEF LearnerData
      <3>4. \A acc \in e.tried[a] : Accuracy(acc) <= e.rows[a].accuracy
        BY <1>1, <1>2, <3>1, <3>2, <3>3
      <3>5. \E acc \in e.tried[a] : e.rows[a].accuracy = Accuracy(acc)
        BY <1>1, <3>1
      <3>6. e.rows[a].status =
              IF HasQuiz(e.first[a].acc) /\ e.rows[a].accuracy < Threshold
                THEN "needs-practice" ELSE "completed"
        <4>1. d.rows[a].status =
                IF HasQuiz(d.first[a].acc) /\ d.rows[a].accuracy < Threshold
                  THEN "needs-practice" ELSE "completed"
          BY <1>3, <2>1, <2>2 DEF RowConsistent
        <4>2. Threshold \in Nat
          BY EngineAssumption
        <4> QED BY <1>1, <1>2, <3>1, <4>1, <4>2
      <3> QED BY <1>3, <2>1, <2>2, <3>1, <3>4, <3>5, <3>6 DEF RowConsistent
    <2>3. CASE b # a
      <3>1. /\ e.tried[b] = d.tried[b] /\ e.rows[b] = d.rows[b]
            /\ e.notes[b] = d.notes[b] /\ e.first[b] = d.first[b]
        BY <1>4, <2>3 DEF LearnerData
      <3> QED BY <2>1, <3>1 DEF RowConsistent
    <2> QED BY <2>2, <2>3
  <1>7. Done(e) = Done(d) /\ \A t : On(e, t) = On(d, t)
    BY <1>3, <1>4 DEF Done, On, LearnerData
  <1>8. ProgressConsistent(e)
    BY <1>4, <1>7 DEF Consistent, ProgressConsistent, CountsDone
  <1>9. NoWorse(d, e)
    <2> SUFFICES ASSUME NEW b \in Activities, d.tried[b] # {}
                 PROVE  e.tried[b] # {} /\ e.rows[b].score >= d.rows[b].score
      BY DEF NoWorse
    <2>1. CASE b = a
      <3>1. d.rows[a].score = d.rows[a].accuracy
        BY <1>3 DEF Consistent, RowConsistent
      <3> QED BY <1>1, <1>2, <1>4, <2>1, <3>1 DEF LearnerData
    <2>2. CASE b # a
      BY <1>4, <2>2 DEF LearnerData, Row
    <2> QED BY <2>1, <2>2
  <1>10. StreakConsistent(e)
    <2>1. ActiveDays(e) = ActiveDays(d)
      BY <1>4, <1>7 DEF ActiveDays
    <2> QED BY <1>4, <2>1 DEF Consistent, StreakConsistent, Earned
  <1> QED BY <1>4, <1>5, <1>6, <1>7, <1>8, <1>9, <1>10 DEF Consistent

(* A replay changes the history and nothing else.                          *)
LEMMA ReplayStep ==
  ASSUME NEW d \in LearnerData, Consistent(d), NEW a \in Activities,
         NEW s \in Attempts, AlreadyCompleted(d.rows[a]),
         ~Improves(d.rows[a], s.acc)
  PROVE  LET e == Replay(d, a, s) IN
         e \in LearnerData /\ Consistent(e) /\ NoWorse(d, e)
  <1> DEFINE e == Replay(d, a, s)
  <1>1. s.acc \in Accuracies /\ Accuracy(s.acc) \in Nat
    BY AccuracyType DEF Attempts
  <1>2. d.rows[a].accuracy \in Nat
    BY DEF LearnerData, Row
  <1>3. Accuracy(s.acc) <= d.rows[a].accuracy
    BY <1>1, <1>2 DEF Improves, Accuracy
  <1>4. d.tried[a] # {}
    BY DEF Consistent, RowConsistent
  <1>5. /\ e.rows = d.rows /\ e.notes = d.notes
        /\ e.tried = [d.tried EXCEPT ![a] = @ \cup {s.acc}]
        /\ e.first = d.first /\ e.reset = d.reset
        /\ e.daily = d.daily /\ e.progress = d.progress
    BY DEF Replay, LearnerData
  <1>6. e \in LearnerData
    BY ReplayType
  <1>7. ASSUME NEW b \in Activities PROVE RowConsistent(e, b)
    <2>1. RowConsistent(d, b)
      BY DEF Consistent
    <2>2. CASE b = a
      <3>1. e.tried[a] = d.tried[a] \cup {s.acc}
        BY <1>5 DEF LearnerData
      <3> QED BY <1>3, <1>4, <1>5, <2>1, <2>2, <3>1 DEF RowConsistent
    <2>3. CASE b # a
      <3>1. e.tried[b] = d.tried[b]
        BY <1>5, <2>3 DEF LearnerData
      <3> QED BY <1>5, <2>1, <3>1 DEF RowConsistent
    <2> QED BY <2>2, <2>3
  <1>8. Done(e) = Done(d) /\ \A t : On(e, t) = On(d, t)
    BY <1>4, <1>5 DEF Done, On, LearnerData
  <1>9. ProgressConsistent(e)
    BY <1>5, <1>8 DEF Consistent, ProgressConsistent, CountsDone
  <1>10. NoWorse(d, e)
    BY <1>5 DEF NoWorse, LearnerData, Row
  <1>11. StreakConsistent(e)
    <2>1. ActiveDays(e) = ActiveDays(d)
      BY <1>5, <1>8 DEF ActiveDays
    <2> QED BY <1>5, <2>1 DEF Consistent, StreakConsistent, Earned
  <1> QED BY <1>5, <1>6, <1>7, <1>8, <1>9, <1>10, <1>11 DEF Consistent

LEMMA CompletionStep ==
  ASSUME NEW d \in LearnerData, Consistent(d), NEW a \in Activities,
         NEW s \in Attempts, NEW n \in Nat, NEW t \in StartTime .. EndTime
  PROVE  LET e == ApplyCompletion(d, a, s, n, t) IN
         e \in LearnerData /\ Consistent(e) /\ NoWorse(d, e)
  BY FirstStep, BetterStep, ReplayStep DEF ApplyCompletion

-----------------------------------------------------------------------------
(* The invariant of the server.                                            *)

Inv ==
  /\ TypeOK
  /\ \A l \in Learners : Consistent(db[l])
  /\ Consistent(tx.view)
  /\ tx.learner # NoLearner => NoWorse(db[tx.learner], tx.view)
  /\ now \in StartTime .. EndTime

LEMMA PublishedFinite ==
  ASSUME TypeOK
  PROVE  Cardinality(published) \in Nat
  BY EngineAssumption, FS_Subset, FS_CardinalityType DEF TypeOK

LEMMA NoWorseReflexive ==
  ASSUME NEW d \in LearnerData
  PROVE  NoWorse(d, d)
  BY DEF NoWorse, LearnerData, Row

LEMMA InitInv ==
  ASSUME \A d \in Seeds : Unrecorded(d), Init
  PROVE  Inv
  <1>1. \A d \in Seeds : d \in LearnerData /\ Consistent(d)
    BY UnrecordedConsistent DEF SeedsCounted, SeedsIdle
  <1>2. db \in [Learners -> Seeds]
    BY DEF Init
  <1>3. \A l \in Learners : db[l] \in LearnerData /\ Consistent(db[l])
    BY <1>1, <1>2
  <1>4. TypeOK
    BY <1>2, <1>3, BlankConsistent, EngineAssumption
       DEF Init, TypeOK, NoTx, NoRead
  <1>5. Consistent(tx.view) /\ tx.learner = NoLearner
    BY BlankConsistent DEF Init, NoTx
  <1>6. now \in StartTime .. EndTime
    BY EngineAssumption DEF Init
  <1> QED BY <1>3, <1>4, <1>5, <1>6 DEF Inv

\* What each step does to the data of every learner.
Forward ==
  \A l \in Learners : NoWorse(db[l], db'[l])

LEMMA CompleteStep ==
  ASSUME Inv, NEW l \in Learners, NEW a \in Activities, NEW s \in Attempts,
         Complete(l, a, s)
  PROVE  Inv' /\ Forward
  <1> DEFINE e == ApplyCompletion(db[l], a, s, Cardinality(published), now)
  <1>1. e \in LearnerData /\ Consistent(e) /\ NoWorse(db[l], e)
    BY CompletionStep, PublishedFinite DEF Inv, TypeOK
  <1>2. /\ db' = [db EXCEPT ![l] = e] /\ tx.learner = NoLearner
        /\ UNCHANGED <<published, tx, dash, now>>
    BY DEF Complete, Free
  <1> HIDE DEF e
  <1>3. \A k \in Learners : db'[k] = IF k = l THEN e ELSE db[k]
    BY <1>2 DEF Inv, TypeOK
  <1>4. TypeOK'
    BY <1>1, <1>2 DEF Inv, TypeOK
  <1>5. \A k \in Learners : Consistent(db'[k])
    BY <1>1, <1>3 DEF Inv
  <1>6. Forward
    BY <1>1, <1>3, NoWorseReflexive DEF Forward, Inv, TypeOK
  <1> QED BY <1>2, <1>4, <1>5, <1>6 DEF Inv

LEMMA BulkItemStep ==
  ASSUME Inv, NEW a \in Activities, NEW s \in Attempts, BulkItem(a, s)
  PROVE  Inv' /\ Forward
  <1> DEFINE d == tx.view
             e == ApplyCompletion(d, a, s, Cardinality(published), now)
  <1>1. d \in LearnerData /\ Consistent(d)
        /\ tx.learner \in Learners /\ NoWorse(db[tx.learner], d)
    BY DEF BulkItem, Free, Inv, TypeOK
  <1>2. e \in LearnerData /\ Consistent(e) /\ NoWorse(d, e)
    BY <1>1, CompletionStep, PublishedFinite DEF Inv, TypeOK
  <1>3. /\ tx' = [tx EXCEPT !.view = e]
        /\ UNCHANGED <<db, published, dash, now>>
    BY DEF BulkItem
  <1> HIDE DEF e
  <1>4. tx'.learner = tx.learner /\ tx'.view = e
    BY <1>3 DEF Inv, TypeOK
  <1>5. NoWorse(db[tx.learner], e)
    <2> DEFINE c == db[tx.learner]
    <2>1. c \in LearnerData
      BY <1>1 DEF Inv, TypeOK
    <2> SUFFICES ASSUME NEW b \in Activities, c.tried[b] # {}
                 PROVE  e.tried[b] # {} /\ e.rows[b].score >= c.rows[b].score
      BY DEF NoWorse
    <2>2. d.tried[b] # {} /\ d.rows[b].score >= c.rows[b].score
      BY <1>1 DEF NoWorse
    <2>3. e.tried[b] # {} /\ e.rows[b].score >= d.rows[b].score
      BY <1>2, <2>2 DEF NoWorse
    <2>4. /\ c.rows[b].score \in Nat /\ d.rows[b].score \in Nat
          /\ e.rows[b].score \in Nat
      BY <1>1, <1>2, <2>1 DEF LearnerData, Row
    <2> QED BY <2>2, <2>3, <2>4
  <1>6. TypeOK'
    BY <1>2, <1>3 DEF Inv, TypeOK
  <1>7. Forward
    BY <1>3, NoWorseReflexive DEF Forward, Inv, TypeOK
  <1> QED BY <1>2, <1>3, <1>4, <1>5, <1>6, <1>7 DEF Inv

LEMMA BulkEndStep ==
  ASSUME Inv, BulkCommit \/ BulkAbort \/ \E l \in Learners : BulkBegin(l)
  PROVE  Inv' /\ Forward
  <1>1. NoTx.learner = NoLearner /\ Consistent(NoTx.view)
        /\ NoTx.view \in LearnerData
    BY BlankConsistent DEF NoTx
  <1>2. CASE BulkCommit
    <2>1. /\ tx.learner \in Learners /\ tx.view \in LearnerData
          /\ Consistent(tx.view) /\ NoWorse(db[tx.learner], tx.view)
      BY <1>2 DEF BulkCommit, Free, Inv, TypeOK
    <2>2. \A l \in Learners :
            db'[l] = IF l = tx.learner THEN tx.view ELSE db[l]
      BY <1>2 DEF BulkCommit, Inv, TypeOK
    <2>3. Forward
      BY <2>1, <2>2, NoWorseReflexive DEF Forward, Inv, TypeOK
    <2>4. TypeOK'
      BY <1>1, <1>2, <2>1 DEF BulkCommit, Inv, TypeOK, NoTx
    <2>5. \A l \in Learners : Consistent(db'[l])
      BY <2>1, <2>2 DEF Inv
    <2> QED BY <1>1, <1>2, <2>3, <2>4, <2>5 DEF BulkCommit, Inv
  <1>3. CASE BulkAbort
    <2>1. TypeOK'
      BY <1>1, <1>3 DEF BulkAbort, Inv, TypeOK, NoTx
    <2>2. Forward
      BY <1>3, NoWorseReflexive DEF BulkAbort, Forward, Inv, TypeOK
    <2> QED BY <1>1, <1>3, <2>1, <2>2 DEF BulkAbort, Inv
  <1>4. ASSUME NEW l \in Learners, BulkBegin(l) PROVE Inv' /\ Forward
    <2>1. TypeOK'
      BY <1>4 DEF BulkBegin, Inv, TypeOK
    <2>2. tx'.learner = l /\ tx'.view = db[l] /\ db' = db /\ now' = now
      BY <1>4 DEF BulkBegin
    <2>3. Forward /\ NoWorse(db[l], db[l])
      BY <2>2, NoWorseReflexive DEF Forward, Inv, TypeOK
    <2> QED BY <2>1, <2>2, <2>3 DEF Inv
  <1> QED BY <1>2, <1>3, <1>4

LEMMA DashboardStep ==
  ASSUME Inv, NEW r \in Dashboards,
         \/ DashboardSaves(r) \/ DashboardFails(r)
         \/ \E l \in Learners : DashboardMisses(r, l)
  PROVE  Inv' /\ Forward
  <1>1. CASE DashboardSaves(r)
    <2> DEFINE k == dash[r].learner
               p == NewProgress(dash[r].total)
               e == [db[k] EXCEPT !.progress = p,
                                  !.reset = @ \/ db[k].progress # None]
    <2>1. CASE k \notin Learners
      <3>1. db' = db
        BY <1>1, <2>1 DEF DashboardSaves, Inv, TypeOK
      <3>2. TypeOK'
        BY <1>1, <3>1 DEF DashboardSaves, Inv, TypeOK, NoRead
      <3> QED BY <1>1, <3>1, <3>2, NoWorseReflexive
              DEF DashboardSaves, Forward, Inv, TypeOK
    <2>2. CASE k \in Learners
      <3>1. db' = [db EXCEPT ![k] = e]
        BY <1>1, <2>2 DEF DashboardSaves, Inv, TypeOK
      <3>2. db[k] \in LearnerData /\ Consistent(db[k])
        BY <2>2 DEF Inv, TypeOK
      <3>3. p \in Progress /\ p.completed = 0 /\ p.total \in Nat
        BY <1>1 DEF Inv, TypeOK, NewProgress, Progress
      <3>4. /\ e \in LearnerData
            /\ e.rows = db[k].rows /\ e.tried = db[k].tried
            /\ e.first = db[k].first /\ e.daily = db[k].daily
            /\ e.notes = db[k].notes /\ e.progress = p
            /\ e.reset = (db[k].reset \/ db[k].progress # None)
        BY <3>2, <3>3 DEF LearnerData
      <3> HIDE DEF e, p
      <3>5. Done(e) = Done(db[k]) /\ \A t : On(e, t) = On(db[k], t)
        BY <3>4 DEF Done, On
      <3>6. ASSUME NEW a \in Activities PROVE RowConsistent(e, a)
        <4>1. RowConsistent(db[k], a)
          BY <3>2 DEF Consistent
        <4> QED BY <3>4, <4>1 DEF RowConsistent
      <3>7. ProgressConsistent(e)
        <4>1. ASSUME SeedsCounted, ~e.reset PROVE CountsDone(e)
          <5>1. Done(e) = {}
            BY <3>2, <3>4, <3>5, <4>1
               DEF Consistent, ProgressConsistent, CountsDone
          <5>2. e.progress # None
            BY <3>3, <3>4, EngineAssumption
          <5>3. Cardinality(Done(e)) = 0
            BY <5>1, FS_EmptySet
          <5>4. 0 <= e.progress.total /\ e.progress.completed = 0
            BY <3>3, <3>4
          <5> QED BY <5>2, <5>3, <5>4 DEF CountsDone
        <4> QED BY <4>1 DEF ProgressConsistent
      <3>8. Consistent(e)
        <4>1. e.progress.last = {}
          BY <3>4 DEF NewProgress, p
        <4>2. StreakConsistent(e)
          BY <4>1 DEF StreakConsistent, Earned
        <4> QED BY <3>2, <3>4, <3>5, <3>6, <3>7, <4>2 DEF Consistent
      <3>9. NoWorse(db[k], e)
        BY <3>2, <3>4 DEF NoWorse, LearnerData, Row
      <3>10. \A l \in Learners : db'[l] = IF l = k THEN e ELSE db[l]
        BY <3>1 DEF Inv, TypeOK
      <3>11. TypeOK'
        BY <1>1, <3>1, <3>4 DEF DashboardSaves, Inv, TypeOK, NoRead
      <3>12. Forward
        BY <3>9, <3>10, NoWorseReflexive DEF Forward, Inv, TypeOK
      <3>13. \A l \in Learners : Consistent(db'[l])
        BY <3>8, <3>10 DEF Inv
      <3> QED BY <1>1, <3>11, <3>12, <3>13 DEF DashboardSaves, Inv, Free
    <2> QED BY <2>1, <2>2
  <1>2. ASSUME NEW l \in Learners, DashboardMisses(r, l)
        PROVE  Inv' /\ Forward
    <2>1. TypeOK'
      BY <1>2, PublishedFinite DEF DashboardMisses, Inv, TypeOK
    <2>2. Forward
      BY <1>2, NoWorseReflexive DEF DashboardMisses, Forward, Inv, TypeOK
    <2> QED BY <1>2, <2>1, <2>2 DEF DashboardMisses, Inv
  <1>3. CASE DashboardFails(r)
    <2>1. TypeOK'
      BY <1>3 DEF DashboardFails, NoRead, Inv, TypeOK
    <2>2. Forward
      BY <1>3, NoWorseReflexive DEF DashboardFails, Forward, Inv, TypeOK
    <2> QED BY <1>3, <2>1, <2>2 DEF DashboardFails, Inv
  <1> QED BY <1>1, <1>2, <1>3

LEMMA OtherStep ==
  ASSUME Inv, Tick \/ (\E a \in Activities : Publish(a)) \/ UNCHANGED vars
  PROVE  Inv' /\ Forward
  <1>1. TypeOK' /\ now' \in StartTime .. EndTime
    BY EngineAssumption DEF Tick, Publish, vars, Inv, TypeOK
  <1>2. db' = db /\ tx' = tx
    BY DEF Tick, Publish, vars
  <1>3. Forward
    BY <1>2, NoWorseReflexive DEF Forward, Inv, TypeOK
  <1> QED BY <1>1, <1>2, <1>3 DEF Inv

LEMMA NextInv ==
  ASSUME Inv, [Next]_vars
  PROVE  Inv' /\ Forward
  BY CompleteStep, BulkItemStep, BulkEndStep, DashboardStep, OtherStep
     DEF Next

LEMMA Invariance ==
  ASSUME \A d \in Seeds : Unrecorded(d)
  PROVE  Spec => []Inv
  <1>1. Init => Inv
    BY InitInv
  <1>2. Inv /\ [Next]_vars => Inv'
    BY NextInv
  <1> QED BY <1>1, <1>2, PTL DEF Spec

-----------------------------------------------------------------------------
(* Types, whatever rows the database holds at first.                       *)
TypeInv == TypeOK /\ now \in StartTime .. EndTime

LEMMA TypeStep ==
  ASSUME TypeInv, [Next]_vars
  PROVE  TypeInv'
  <1> USE DEF TypeInv
  <1>0. NoTx \in [learner : Learners \cup {NoLearner}, view : LearnerData]
    BY BlankConsistent DEF NoTx
  <1>1. CASE \E l \in Learners, a \in Activities, s \in Attempts : Complete(l, a, s)
    <2> PICK l \in Learners, a \in Activities, s \in Attempts : Complete(l, a, s)
      BY <1>1
    <2> DEFINE e == ApplyCompletion(db[l], a, s, Cardinality(published), now)
    <2>1. e \in LearnerData
      BY CompletionType, PublishedFinite DEF TypeOK
    <2>2. db' = [db EXCEPT ![l] = e] /\ UNCHANGED <<published, tx, dash, now>>
      BY DEF Complete
    <2> HIDE DEF e
    <2> QED BY <2>1, <2>2 DEF TypeOK
  <1>2. CASE \E a \in Activities, s \in Attempts : BulkItem(a, s)
    <2> PICK a \in Activities, s \in Attempts : BulkItem(a, s)
      BY <1>2
    <2> DEFINE e == ApplyCompletion(tx.view, a, s, Cardinality(published), now)
    <2>1. e \in LearnerData
      BY CompletionType, PublishedFinite DEF TypeOK
    <2>2. tx' = [tx EXCEPT !.view = e] /\ UNCHANGED <<db, published, dash, now>>
      BY DEF BulkItem
    <2> HIDE DEF e
    <2> QED BY <2>1, <2>2 DEF TypeOK
  <1>3. CASE \E l \in Learners : BulkBegin(l)
    BY <1>3 DEF BulkBegin, TypeOK
  <1>4. CASE BulkCommit
    <2>1. /\ db' = [db EXCEPT ![tx.learner] = tx.view] /\ tx' = NoTx
          /\ UNCHANGED <<published, dash, now>>
      BY <1>4 DEF BulkCommit
    <2> QED BY <1>0, <2>1 DEF TypeOK
  <1>5. CASE BulkAbort
    BY <1>0, <1>5 DEF BulkAbort, TypeOK
  <1>6. CASE \E r \in Dashboards, l \in Learners : DashboardMisses(r, l)
    <2> PICK r \in Dashboards, l \in Learners : DashboardMisses(r, l)
      BY <1>6
    <2> QED BY PublishedFinite DEF DashboardMisses, TypeOK
  <1>7. CASE \E r \in Dashboards : DashboardSaves(r)
    <2> PICK r \in Dashboards : DashboardSaves(r)
      BY <1>7
    <2> DEFINE k == dash[r].learner
               e == [db[k] EXCEPT !.progress = NewProgress(dash[r].total),
                                  !.reset = @ \/ db[k].progress # None]
    <2>1. db' = [db EXCEPT ![k] = e] /\ dash' = [dash EXCEPT ![r] = NoRead]
          /\ UNCHANGED <<published, tx, now>>
      BY DEF DashboardSaves
    <2>2. NewProgress(dash[r].total) \in Progress
      BY DEF TypeOK, NewProgress, Progress
    <2>3. k \in Learners => e \in LearnerData
      BY <2>2 DEF TypeOK, LearnerData
    <2> HIDE DEF e
    <2>4. db' \in [Learners -> LearnerData]
      BY <2>1, <2>3 DEF TypeOK
    <2>5. NoRead \in [learner : Learners \cup {NoLearner}, total : Nat]
      BY DEF NoRead
    <2> QED BY <2>1, <2>4, <2>5 DEF TypeOK
  <1>8. CASE Tick \/ (\E a \in Activities : Publish(a)) \/ UNCHANGED vars
    BY <1>8, EngineAssumption DEF Tick, Publish, vars, TypeOK
  <1>9. CASE \E r \in Dashboards : DashboardFails(r)
    <2>1. NoRead \in [learner : Learners \cup {NoLearner}, total : Nat]
      BY DEF NoRead
    <2> QED BY <1>9, <2>1 DEF DashboardFails, TypeOK
  <1> QED
    BY <1>1, <1>2, <1>3, <1>4, <1>5, <1>6, <1>7, <1>8, <1>9 DEF Next

LEMMA TypeInvariance ==
  ASSUME Seeds \subseteq LearnerData
  PROVE  Spec => []TypeInv
  <1>1. Init => TypeInv
    BY BlankConsistent, EngineAssumption
       DEF Init, TypeInv, TypeOK, NoTx, NoRead
  <1>2. TypeInv /\ [Next]_vars => TypeInv'
    BY TypeStep
  <1> QED BY <1>1, <1>2, PTL DEF Spec

(* The tables and the open transaction keep their types, whatever rows     *)
(* there were at first.                                                    *)
THEOREM TypeCorrect ==
  ASSUME Seeds \subseteq LearnerData
  PROVE  Spec => []TypeOK
  <1>1. TypeInv => TypeOK
    BY DEF TypeInv
  <1> QED BY TypeInvariance, <1>1, PTL

-----------------------------------------------------------------------------
(* The theorems.  Nothing was recorded here of the learners at first, as   *)
(* for everyone who registers and for seedData's demo learner.  That one   *)
(* is excluded from one: her progress row counts activities done elsewhere *)
(* (SeedsCounted).                                                         *)

(* Every row holds the best attempt that was ever applied to it, whatever  *)
(* the order of completions, replays, bulk uploads and aborts.             *)
THEOREM BestKept ==
  ASSUME \A d \in Seeds : Unrecorded(d)
  PROVE  Spec => []BestAttemptKept
  <1>1. ASSUME Inv, NEW l \in Learners, NEW a \in Done(db[l])
        PROVE  LET row == db[l].rows[a]
                   got == {Accuracy(acc) : acc \in db[l].tried[a]}
               IN /\ row.accuracy \in got /\ \A x \in got : x <= row.accuracy
                  /\ row.score = row.accuracy
                  /\ row.attempts = db[l].notes[a]
    <2>1. RowConsistent(db[l], a) /\ db[l].tried[a] # {}
      BY <1>1 DEF Inv, Consistent, Done
    <2> QED BY <2>1 DEF RowConsistent
  <1>2. Inv => BestAttemptKept
    BY <1>1 DEF BestAttemptKept
  <1> QED BY Invariance, <1>2, PTL

(* The needs-practice flag says whether the first attempt fell short and   *)
(* no later one has reached the threshold.                                 *)
THEOREM FlagCorrect ==
  ASSUME \A d \in Seeds : Unrecorded(d)
  PROVE  Spec => []FlagFollowsBest
  <1>1. ASSUME Inv, NEW l \in Learners, NEW a \in Done(db[l])
        PROVE  db[l].rows[a].status =
                 IF HasQuiz(db[l].first[a].acc)
                    /\ db[l].rows[a].accuracy < Threshold
                   THEN "needs-practice" ELSE "completed"
    <2>1. RowConsistent(db[l], a) /\ db[l].tried[a] # {}
      BY <1>1 DEF Inv, Consistent, Done
    <2> QED BY <2>1 DEF RowConsistent
  <1>2. Inv => FlagFollowsBest
    BY <1>1 DEF FlagFollowsBest
  <1> QED BY Invariance, <1>2, PTL

(* Each activity is counted once, on the day of its first completion, and  *)
(* the progress row counts the same ones, if it did at first.              *)
THEOREM CountsAgree ==
  ASSUME \A d \in Seeds : Unrecorded(d), SeedsCounted
  PROVE  Spec => []CountedOnce
  <1>1. Inv => CountedOnce
    BY DEF Inv, Consistent, ProgressConsistent, CountsDone, On, CountedOnce
  <1> QED BY Invariance, <1>1, PTL

(* Replaying what was applied before changes nothing that can be seen.     *)
THEOREM ReplaysChangeNothing ==
  ASSUME \A d \in Seeds : Unrecorded(d)
  PROVE  Spec => []ReplayIsIdempotent
  <1>1. ASSUME Inv, NEW l \in Learners, NEW a \in Done(db[l]),
               NEW s \in Attempts, s.acc \in db[l].tried[a]
        PROVE  Visible(ApplyCompletion(db[l], a, s, Cardinality(published), now))
                 = Visible(db[l])
    <2> DEFINE d == db[l]
    <2>1. /\ d \in LearnerData /\ a \in Activities
          /\ RowConsistent(d, a) /\ d.tried[a] # {}
      BY <1>1 DEF Inv, TypeOK, Consistent, Done
    <2>2. AlreadyCompleted(d.rows[a])
      BY <2>1 DEF RowConsistent, AlreadyCompleted
    <2>3. Accuracy(s.acc) <= d.rows[a].accuracy
      BY <1>1, <2>1 DEF RowConsistent
    <2>4. d.rows[a].accuracy \in Nat /\ Accuracy(s.acc) \in Nat
      BY <2>1, AccuracyType DEF LearnerData, Row, Attempts
    <2>5. ~Improves(d.rows[a], s.acc)
      BY <2>3, <2>4 DEF Improves, Accuracy
    <2> QED BY <2>1, <2>2, <2>5
            DEF ApplyCompletion, Replay, Visible, LearnerData
  <1>2. Inv => ReplayIsIdempotent
    BY <1>1 DEF ReplayIsIdempotent
  <1> QED BY Invariance, <1>2, PTL

(* The streak counts back over days that each had a first completion, by   *)
(* whatever clocks and zones completions are dated and in whatever order   *)
(* they arrive, if no progress row knew of an earlier active day at first. *)
THEOREM StreakIsEarned ==
  ASSUME \A d \in Seeds : Unrecorded(d), SeedsIdle
  PROVE  Spec => []StreakEarned
  <1>1. Inv => StreakEarned
    BY DEF Inv, Consistent, StreakConsistent, Earned, StreakEarned
  <1> QED BY Invariance, <1>1, PTL

-----------------------------------------------------------------------------
(* The ledger of best scores.                                              *)

Scores == {Accuracy(acc) : acc \in Accuracies}

\* What the ledger shows of one learner's activity.
Shown(d, a) == IF d.tried[a] = {} THEN -1 ELSE d.rows[a].accuracy

LEMMA ShownType ==
  ASSUME NEW d \in LearnerData, Consistent(d), NEW a \in Activities
  PROVE  Shown(d, a) \in Scores \cup {-1} /\ Shown(d, a) \in Int
  <1>1. RowConsistent(d, a) /\ d.tried[a] \subseteq Accuracies
        /\ d.rows[a].accuracy \in Nat
    BY DEF Consistent, LearnerData, Row
  <1>2. d.tried[a] # {} => d.rows[a].accuracy \in Scores
    BY <1>1 DEF RowConsistent, Scores
  <1> QED BY <1>1, <1>2 DEF Shown

LEMMA ShownRises ==
  ASSUME NEW d \in LearnerData, Consistent(d),
         NEW e \in LearnerData, Consistent(e), NoWorse(d, e),
         NEW a \in Activities
  PROVE  Shown(e, a) >= Shown(d, a)
  <1>1. /\ d.rows[a].score \in Nat /\ e.rows[a].accuracy \in Nat
        /\ d.rows[a].accuracy \in Nat
    BY DEF LearnerData, Row
  <1>2. CASE d.tried[a] = {}
    BY <1>1, <1>2 DEF Shown
  <1>3. CASE d.tried[a] # {}
    <2>1. e.tried[a] # {} /\ e.rows[a].score >= d.rows[a].score
      BY <1>3 DEF NoWorse
    <2>2. /\ d.rows[a].score = d.rows[a].accuracy
          /\ e.rows[a].score = e.rows[a].accuracy
      BY <1>3, <2>1 DEF Consistent, RowConsistent
    <2> QED BY <1>3, <2>1, <2>2 DEF Shown
  <1> QED BY <1>2, <1>3

\* A step of the server touches what is held about one learner at most.
LEMMA OneLearner ==
  ASSUME Inv, [Next]_vars
  PROVE  \/ db' = db
         \/ \E l \in Learners : \A k \in Learners \ {l} : db'[k] = db[k]
  <1>1. ASSUME NEW l \in Learners, NEW a \in Activities, NEW s \in Attempts,
               Complete(l, a, s)
        PROVE  \A k \in Learners \ {l} : db'[k] = db[k]
    BY <1>1 DEF Complete, Inv, TypeOK
  <1>2. ASSUME BulkCommit
        PROVE  /\ tx.learner \in Learners
               /\ \A k \in Learners \ {tx.learner} : db'[k] = db[k]
    BY <1>2 DEF BulkCommit, Free, Inv, TypeOK
  <1>3. ASSUME NEW r \in Dashboards, DashboardSaves(r)
        PROVE  \/ db' = db
               \/ \E l \in Learners : \A k \in Learners \ {l} : db'[k] = db[k]
    <2> DEFINE l == dash[r].learner
    <2>1. CASE l \in Learners
      BY <1>3, <2>1 DEF DashboardSaves, Inv, TypeOK
    <2>2. CASE l \notin Learners
      BY <1>3, <2>2 DEF DashboardSaves, Inv, TypeOK
    <2> QED BY <2>1, <2>2
  <1>4. CASE \/ \E l \in Learners : BulkBegin(l)
             \/ \E a \in Activities, s \in Attempts : BulkItem(a, s)
             \/ BulkAbort
             \/ \E r \in Dashboards, l \in Learners : DashboardMisses(r, l)
             \/ \E r \in Dashboards : DashboardFails(r)
             \/ \E a \in Activities : Publish(a)
             \/ Tick \/ UNCHANGED vars
    BY <1>4 DEF BulkBegin, BulkItem, BulkAbort, DashboardMisses, DashboardFails,
                Publish, Tick, vars
  <1> QED BY <1>1, <1>2, <1>3, <1>4 DEF Next

LEMMA LedgerInit ==
  ASSUME \A d \in Seeds : Unrecorded(d), Init
  PROVE  Ledger!Init
  <1>1. \A l \in Learners, a \in Activities : db[l].tried[a] = {}
    BY DEF Init, Unrecorded
  <1> QED BY <1>1 DEF Ledger!Init, Ledger!Unscored, BestShown

\* The batch of a step is what the learner it touches shows afterwards.
LEMMA LedgerStep ==
  ASSUME Inv, [Next]_vars
  PROVE  [Ledger!Next]_BestShown
  <1>1. Inv' /\ Forward
    BY NextInv
  <1>2. CASE db' = db
    BY <1>2 DEF BestShown
  <1>3. ASSUME NEW l \in Learners,
               \A k \in Learners \ {l} : db'[k] = db[k]
        PROVE  Ledger!Next
    <2> DEFINE batch == [a \in Activities |-> Shown(db'[l], a)]
    <2>1. /\ db[l] \in LearnerData /\ Consistent(db[l])
          /\ db'[l] \in LearnerData /\ Consistent(db'[l])
          /\ NoWorse(db[l], db'[l])
      BY <1>1 DEF Inv, TypeOK, Forward
    <2>2. batch \in Ledger!Batches
      BY <2>1, ShownType DEF Ledger!Batches, Ledger!Unscored, Scores
    <2>3. BestShown = [k \in Learners |-> [a \in Activities |-> Shown(db[k], a)]]
      BY DEF BestShown, Shown
    <2>4. BestShown' =
            [k \in Learners |-> [a \in Activities |-> Shown(db'[k], a)]]
      BY DEF BestShown, Shown
    <2>5. \A a \in Activities :
            (IF batch[a] > BestShown[l][a] THEN batch[a] ELSE BestShown[l][a])
              = Shown(db'[l], a)
      <3> SUFFICES ASSUME NEW a \in Activities
                   PROVE  (IF Shown(db'[l], a) > Shown(db[l], a)
                             THEN Shown(db'[l], a) ELSE Shown(db[l], a))
                            = Shown(db'[l], a)
        BY <2>3
      <3>1. /\ Shown(db[l], a) \in Int /\ Shown(db'[l], a) \in Int
            /\ Shown(db'[l], a) >= Shown(db[l], a)
        BY <2>1, ShownType, ShownRises
      <3> QED BY <3>1
    <2>6. Ledger!Record(l, batch)
      <3> HIDE DEF batch
      <3>1. \A k \in Learners :
              BestShown'[k] =
                IF k = l THEN [a \in Activities |->
                                 IF batch[a] > BestShown[l][a]
                                   THEN batch[a] ELSE BestShown[l][a]]
                ELSE BestShown[k]
        BY <1>3, <2>3, <2>4, <2>5
      <3> QED BY <2>3, <2>4, <3>1 DEF Ledger!Record
    <2> QED BY <2>2, <2>6 DEF Ledger!Next
  <1> QED BY <1>2, <1>3, OneLearner

(* The engine implements the ledger of best scores: every completion,      *)
(* upload, rollback and dashboard request is one batch of one learner that *)
(* raises best scores, or nothing (CompleteActivityTx, SyncBulk).          *)
THEOREM LedgerImplemented ==
  ASSUME \A d \in Seeds : Unrecorded(d)
  PROVE  Spec => KeepsLedger
  <1>1. Init => Ledger!Init
    BY LedgerInit
  <1>2. Inv /\ [Next]_vars => [Ledger!Next]_BestShown
    BY LedgerStep
  <1> QED BY Invariance, <1>1, <1>2, PTL DEF Spec, KeepsLedger, Ledger!Spec

=============================================================================
