---------------------------- MODULE LessonProofs ----------------------------
(***************************************************************************)
(* Proofs about Lesson, for every course, every number of calls and every  *)
(* value of the bounds.                                                    *)
(***************************************************************************)
EXTENDS Lesson, FiniteSetTheorems, TLAPS

-----------------------------------------------------------------------------
(* The SM-2 rule.                                                          *)

LEMMA QualityType ==
  ASSUME NEW correct \in Nat, NEW total \in Nat
  PROVE  Quality(correct, total) \in Int
  <1>1. CASE total = 0
    BY <1>1 DEF Quality
  <1>2. CASE total # 0
    <2>1. 2 * total \in Int /\ 2 * total > 0 /\ 10 * correct + total \in Int
      BY <1>2
    <2>2. (10 * correct + total) \div (2 * total) \in Int
      BY <2>1
    <2> QED BY <1>2, <2>2 DEF Quality
  <1> QED BY <1>1, <1>2

LEMMA EasedType ==
  ASSUME NEW ease \in Nat, NEW q \in Int
  PROVE  Eased(ease, q) \in Nat
  <1> DEFINE m == (5 - q) * (8 + (5 - q) * 2)
             e == ease + 10 - m
  <1>1. m \in Int
    OBVIOUS
  <1> HIDE DEF m
  <1>2. e \in Int
    BY <1>1
  <1>3. Eased(ease, q) = AtLeast(MinEase, e)
    BY DEF Eased, m
  <1> HIDE DEF e
  <1> QED BY <1>2, <1>3 DEF AtLeast, MinEase

\* What a review makes of the state before it.
LEMMA ReviewType ==
  ASSUME NEW prev \in {Unset} \cup Review, NEW q \in Int, NEW day \in 0 .. MaxDay,
         NEW new, new = ScheduleReview(prev, q, day)
  PROVE  /\ new \in Review
         /\ new.last = day /\ new.due > day
         /\ (new.rep > 0 <=> q >= 3)
  <1> DEFINE p == IF prev = Unset THEN Fresh ELSE prev
             x == (p.interval * p.ease + 50) \div 100
             n == IF q < 3 THEN 1
                  ELSE CASE p.rep = 0 -> 1
                         [] p.rep = 1 -> 6
                         [] OTHER -> AtLeast(1, x)
             r == IF q < 3 THEN 0 ELSE p.rep + 1
             e == IF q < 3 THEN p.ease ELSE Eased(p.ease, q)
  <1>1. p \in Review
    BY LessonAssumption DEF Fresh, Review, DefaultEase
  <1>2. p.interval \in Nat /\ p.ease \in Nat /\ p.rep \in Nat
    BY <1>1 DEF Review
  <1>3. new = [p EXCEPT !.interval = n, !.last = day, !.due = day + n,
                        !.rep = r, !.ease = e]
    BY DEF ScheduleReview
  <1> HIDE DEF p
  <1>4. x \in Int
    <2>1. p.interval * p.ease + 50 \in Int
      BY <1>2
    <2> QED BY <2>1
  <1> HIDE DEF x
  <1>5. n \in Nat /\ n >= 1
    BY <1>2, <1>4 DEF AtLeast
  <1> HIDE DEF n
  <1>6. r \in Nat /\ (r > 0 <=> q >= 3)
    BY <1>2
  <1>7. e \in Nat
    BY <1>2, EasedType
  <1> HIDE DEF r, e
  <1>8. day \in Int /\ day + n \in Nat /\ day + n > day
    BY <1>5, LessonAssumption
  <1>9. /\ new \in Review
        /\ new.last = day /\ new.due = day + n /\ new.rep = r
    BY <1>1, <1>3, <1>5, <1>6, <1>7, <1>8 DEF Review
  <1> QED BY <1>6, <1>8, <1>9

-----------------------------------------------------------------------------
(* The attempt on screen.                                                  *)

\* The knowledge checks before module i.
Before(a, i) == {j \in Quizzes(a) : j < i}

LEMMA BeforeCount ==
  ASSUME NEW a \in Activities, NEW i \in Nat
  PROVE  /\ IsFiniteSet(Before(a, i)) /\ Cardinality(Before(a, i)) \in Nat
         /\ Cardinality(Before(a, i + 1)) =
              Cardinality(Before(a, i)) + (IF i \in Quizzes(a) THEN 1 ELSE 0)
  <1>1. Before(a, i) \subseteq 1 .. Len(Course[a])
    BY LessonAssumption DEF Before, Quizzes
  <1>2. Len(Course[a]) \in Nat
    BY LessonAssumption
  <1>3. IsFiniteSet(Before(a, i))
    <2>1. IsFiniteSet(1 .. Len(Course[a]))
      BY <1>2, FS_Interval
    <2> QED BY <1>1, <2>1, FS_Subset
  <1>4. Cardinality(Before(a, i)) \in Nat
    BY <1>3, FS_CardinalityType
  <1>5. CASE i \in Quizzes(a)
    <2>1. Before(a, i + 1) = Before(a, i) \cup {i} /\ i \notin Before(a, i)
      BY <1>5, LessonAssumption DEF Before, Quizzes
    <2>2. Cardinality(Before(a, i) \cup {i}) = Cardinality(Before(a, i)) + 1
      BY <1>3, <2>1, FS_AddElement
    <2> QED BY <1>3, <1>4, <1>5, <2>1, <2>2
  <1>6. CASE i \notin Quizzes(a)
    <2>1. Before(a, i + 1) = Before(a, i)
      BY <1>6, LessonAssumption DEF Before, Quizzes
    <2> QED BY <1>3, <1>4, <1>6, <2>1
  <1> QED BY <1>5, <1>6

LEMMA BeforeEnds ==
  ASSUME NEW a \in Activities
  PROVE  /\ Cardinality(Before(a, 1)) = 0
         /\ Before(a, Len(Course[a]) + 1) = Quizzes(a)
  <1>1. Before(a, 1) = {} /\ Before(a, Len(Course[a]) + 1) = Quizzes(a)
    BY LessonAssumption DEF Before, Quizzes
  <1> QED BY <1>1, FS_EmptySet

\* What an attempt has answered for good or, of the module on screen, tried.
Answered(pg) == Cardinality(Before(pg.act, pg.i)) + (IF pg.tried THEN 1 ELSE 0)

AttemptOK(pg) ==
  /\ pg.i \in DOMAIN Course[pg.act]
  /\ pg.locked => pg.tried
  /\ pg.tried => pg.i \in Quizzes(pg.act)
  /\ pg.correct <= pg.total
  /\ Answered(pg) <= pg.total
  /\ ~pg.back => pg.total = Answered(pg)

Untouched(pg) ==
  ~pg.tried /\ ~pg.locked /\ ~pg.back /\ pg.correct = 0 /\ pg.total = 0

PageOK(pg) ==
  /\ pg \in Page
  /\ pg.at \in {"loading", "error", "empty", "lesson", "poster"} => pg.act \in Activities
  /\ IF pg.at = "lesson" THEN AttemptOK(pg) ELSE Untouched(pg)
  /\ pg.scan # "none" => pg.at = "poster" /\ pg.visit \in 1 .. Visits

LEMMA PagesOK ==
  /\ PageOK(Nowhere)
  /\ \A to \in {"journey", "dashboard"} : PageOK([Nowhere EXCEPT !.at = to])
  /\ \A a \in Activities : PageOK(Open(a))
  <1>1. ASSUME NEW at \in {"journey", "dashboard", "loading"},
               NEW act \in Activities \cup {Unset},
               at = "loading" => act \in Activities, NEW pg,
               pg = [at |-> at, act |-> act, i |-> 0, tried |-> FALSE,
                     locked |-> FALSE, correct |-> 0, total |-> 0, back |-> FALSE,
                     scan |-> "none", known |-> FALSE, visit |-> 0]
        PROVE  PageOK(pg)
    <2>1. pg \in Page
      BY <1>1, LessonAssumption DEF Page
    <2>2. /\ pg.at = at /\ pg.act = act /\ pg.scan = "none" /\ Untouched(pg)
      BY <1>1 DEF Untouched
    <2>3. at \notin {"error", "empty", "lesson", "poster"}
      OBVIOUS
    <2> QED BY <1>1, <2>1, <2>2, <2>3 DEF PageOK
  <1>2. ASSUME NEW to \in {"journey", "dashboard"} PROVE PageOK([Nowhere EXCEPT !.at = to])
    BY <1>1 DEF Nowhere
  <1>3. PageOK(Nowhere)
    BY <1>1 DEF Nowhere
  <1>4. ASSUME NEW a \in Activities PROVE PageOK(Open(a))
    <2> SUFFICES ASSUME NEW pg, pg = Open(a) PROVE PageOK(pg)
      OBVIOUS
    <2>1. pg = [at |-> "loading", act |-> a, i |-> 0, tried |-> FALSE,
                     locked |-> FALSE, correct |-> 0, total |-> 0, back |-> FALSE,
                     scan |-> "none", known |-> FALSE, visit |-> 0]
      BY DEF Open, Nowhere
    <2> QED BY <1>1, <2>1
  <1> QED BY <1>2, <1>3, <1>4

LEMMA LoadLessonOK ==
  ASSUME PageOK(page), NEW ok \in BOOLEAN, LoadLesson(ok)
  PROVE  PageOK(page')
  <1>1. page.at = "loading" /\ page \in Page /\ page.act \in Activities
        /\ Untouched(page) /\ page.scan = "none"
    BY DEF LoadLesson, PageOK
  <1>2. ASSUME NEW at \in {"error", "empty"}, page' = [page EXCEPT !.at = at]
        PROVE  PageOK(page')
    <2>1. /\ page' \in Page /\ page'.act = page.act /\ page'.at = at
          /\ Untouched(page') /\ page'.scan = "none"
      BY <1>1, <1>2 DEF Page, Untouched
    <2> QED BY <1>1, <2>1 DEF PageOK
  <1>3. CASE ok /\ Course[page.act] # <<>>
    <2>1. page' = [page EXCEPT !.at = "lesson", !.i = 1]
      BY <1>3 DEF LoadLesson
    <2>2. /\ page' \in Page /\ page'.act = page.act /\ page'.at = "lesson"
          /\ page'.i = 1 /\ Untouched(page') /\ page'.scan = "none"
      BY <1>1, <2>1 DEF Page, Untouched
    <2>3. 1 \in DOMAIN Course[page.act]
      <3>1. Course[page.act] \in Seq({"text", "quiz", "keyless"})
        BY <1>1, LessonAssumption
      <3> QED BY <1>3, <3>1
    <2>4. Answered(page') = 0
      BY <1>1, <2>2, BeforeEnds DEF Answered, Untouched
    <2>5. AttemptOK(page')
      BY <2>2, <2>3, <2>4 DEF AttemptOK, Untouched
    <2> QED BY <1>1, <2>2, <2>5 DEF PageOK
  <1>4. CASE ~ok \/ Course[page.act] = <<>>
    <2>1. \E at \in {"error", "empty"} : page' = [page EXCEPT !.at = at]
      BY <1>4 DEF LoadLesson
    <2> QED BY <1>2, <2>1
  <1> QED BY <1>3, <1>4

LEMMA AnswerOK ==
  ASSUME PageOK(page), NEW right \in BOOLEAN, Answer(right)
  PROVE  PageOK(page')
  <1>1. page.at = "lesson" /\ page \in Page /\ page.act \in Activities
        /\ AttemptOK(page) /\ page.scan = "none" /\ ~page.locked
    BY DEF Answer, PageOK
  <1>2. page.i \in Quizzes(page.act)
    BY <1>1 DEF Answer, HasQuiz, Module, Quizzes, AttemptOK
  <1> DEFINE t == IF ~page.tried THEN page.total + 1 ELSE page.total
             n == IF ~page.tried /\ right THEN page.correct + 1 ELSE page.correct
  <1>3. page' = [page EXCEPT !.tried = TRUE, !.locked = right, !.total = t,
                             !.correct = n]
    BY DEF Answer, FirstTry
  <1>4. /\ page.total \in Nat /\ page.correct \in Nat /\ page.correct <= page.total
        /\ t \in 0 .. MaxAnswers /\ n \in 0 .. MaxAnswers /\ n <= t
    BY <1>1, LessonAssumption DEF Answer, FirstTry, Page, AttemptOK
  <1>5. Cardinality(Before(page.act, page.i)) \in Nat
    BY <1>1, BeforeCount DEF Page
  <1> DEFINE m == Cardinality(Before(page.act, page.i))
  <1> HIDE DEF n
  <1>6. m + 1 <= t /\ (~page.back => t = m + 1)
    BY <1>1, <1>4, <1>5 DEF AttemptOK, Answered
  <1> HIDE DEF t
  <1>7. /\ page' \in Page /\ page'.act = page.act /\ page'.at = "lesson"
        /\ page'.i = page.i /\ page'.back = page.back /\ page'.scan = "none"
        /\ page'.tried /\ page'.locked = right /\ page'.total = t /\ page'.correct = n
    BY <1>1, <1>3, <1>4 DEF Page
  <1>8. Answered(page') = m + 1
    BY <1>7 DEF Answered
  <1>9. AttemptOK(page')
    BY <1>1, <1>2, <1>4, <1>6, <1>7, <1>8 DEF AttemptOK
  <1> QED BY <1>1, <1>7, <1>9 DEF PageOK

\* Having moved to module j: no more is counted than was answered before it.
LEMMA TurnOK ==
  ASSUME PageOK(page), page.at = "lesson", NEW j \in DOMAIN Course[page.act],
         NEW back \in BOOLEAN,
         page' = [page EXCEPT !.i = j, !.tried = FALSE, !.locked = FALSE, !.back = back],
         Cardinality(Before(page.act, j)) <= page.total,
         ~back => page.total = Cardinality(Before(page.act, j))
  PROVE  PageOK(page')
  <1>1. page \in Page /\ page.act \in Activities /\ AttemptOK(page)
        /\ page.scan = "none"
    BY DEF PageOK
  <1>2. j \in Nat
    BY <1>1, LessonAssumption
  <1>3. /\ page' \in Page /\ page'.act = page.act /\ page'.at = "lesson"
        /\ page'.i = j /\ page'.back = back /\ page'.scan = "none"
        /\ ~page'.tried /\ ~page'.locked /\ page'.total = page.total
        /\ page'.correct = page.correct
    BY <1>1, <1>2 DEF Page
  <1>4. Cardinality(Before(page.act, j)) \in Nat
    BY <1>1, <1>2, BeforeCount
  <1>5. Answered(page') = Cardinality(Before(page.act, j))
    BY <1>3, <1>4 DEF Answered
  <1>6. AttemptOK(page')
    BY <1>1, <1>3, <1>5 DEF AttemptOK
  <1> QED BY <1>1, <1>3, <1>6 DEF PageOK

\* On leaving a module forwards: it was tried if it has a knowledge check.
LEMMA PastModule ==
  ASSUME PageOK(page), page.at = "lesson", CanNext
  PROVE  /\ page.i \in 1 .. Len(Course[page.act]) /\ page.act \in Activities
         /\ Answered(page) = Cardinality(Before(page.act, page.i + 1))
         /\ page.correct <= page.total /\ Answered(page) <= page.total
         /\ ~page.back => page.total = Answered(page)
  <1>1. page \in Page /\ page.act \in Activities /\ AttemptOK(page)
    BY DEF PageOK
  <1>2. page.i \in 1 .. Len(Course[page.act]) /\ page.i \in Nat
    BY <1>1, LessonAssumption DEF AttemptOK, Page
  <1>3. page.tried <=> page.i \in Quizzes(page.act)
    BY <1>1 DEF CanNext, HasQuiz, Module, Quizzes, AttemptOK
  <1>4. Cardinality(Before(page.act, page.i + 1)) =
          Cardinality(Before(page.act, page.i)) +
            (IF page.i \in Quizzes(page.act) THEN 1 ELSE 0)
    BY <1>1, <1>2, BeforeCount
  <1> QED BY <1>1, <1>2, <1>3, <1>4 DEF AttemptOK, Answered

LEMMA NextModuleOK ==
  ASSUME PageOK(page), NextModule
  PROVE  PageOK(page')
  <1>1. page.at = "lesson" /\ CanNext /\ page.i # Len(Course[page.act])
        /\ page' = [page EXCEPT !.i = page.i + 1, !.tried = FALSE, !.locked = FALSE]
    BY DEF NextModule, IsLast, Turn
  <1>2. page \in Page
    BY DEF PageOK
  <1>3. /\ page.i \in 1 .. Len(Course[page.act]) /\ page.act \in Activities
        /\ Answered(page) = Cardinality(Before(page.act, page.i + 1))
        /\ page.correct <= page.total /\ Answered(page) <= page.total
        /\ ~page.back => page.total = Answered(page)
    BY <1>1, PastModule
  <1>4. page.i + 1 \in DOMAIN Course[page.act]
    BY <1>1, <1>3, LessonAssumption
  <1> DEFINE back == page.back
  <1>5. page' = [page EXCEPT !.i = page.i + 1, !.tried = FALSE, !.locked = FALSE,
                             !.back = back] /\ back \in BOOLEAN
    BY <1>1, <1>2 DEF Page
  <1> QED BY <1>1, <1>3, <1>4, <1>5, TurnOK

LEMMA PreviousOK ==
  ASSUME PageOK(page), Previous
  PROVE  PageOK(page')
  <1>1. page.at = "lesson" /\ page.i > 1
        /\ page' = [page EXCEPT !.i = page.i - 1, !.tried = FALSE, !.locked = FALSE,
                                !.back = TRUE]
    BY DEF Previous, Turn
  <1>2. page \in Page /\ page.act \in Activities /\ AttemptOK(page)
    BY <1>1 DEF PageOK
  <1> DEFINE j == page.i - 1
  <1>3. j \in DOMAIN Course[page.act] /\ j \in Nat /\ j + 1 = page.i
    BY <1>1, <1>2, LessonAssumption DEF AttemptOK, Page
  <1>4. page.total \in Nat
    BY <1>2, LessonAssumption DEF Page
  <1> HIDE DEF j
  <1>5. /\ Cardinality(Before(page.act, j)) \in Nat
        /\ Cardinality(Before(page.act, page.i)) >= Cardinality(Before(page.act, j))
    BY <1>2, <1>3, BeforeCount
  <1>6. Cardinality(Before(page.act, page.i)) \in Nat
    BY <1>2, <1>3, BeforeCount DEF Page
  <1>7. Cardinality(Before(page.act, j)) <= page.total
    BY <1>2, <1>4, <1>5, <1>6 DEF AttemptOK, Answered
  <1> QED BY <1>1, <1>3, <1>7, TurnOK DEF j

-----------------------------------------------------------------------------
(* The poster page.                                                        *)

\* What a poster page says of its scan, and the visits themselves.
VisitsOK(pg, vs) ==
  /\ vs \in [1 .. Visits -> {"none", "sent", "counted", "started"}]
  /\ pg.scan = "recorded" => vs[pg.visit] = "counted"

PosterInv == PageOK(page) /\ VisitsOK(page, visits)

LEMMA OpenPosterOK ==
  ASSUME PosterInv, NEW a \in Activities, NEW v \in 1 .. Visits, OpenPoster(a, v)
  PROVE  PosterInv'
  <1>1. page' = [at |-> "poster", act |-> a, i |-> 0, tried |-> FALSE,
                 locked |-> FALSE, correct |-> 0, total |-> 0, back |-> FALSE,
                 scan |-> "recording", known |-> FALSE, visit |-> v]
    BY DEF OpenPoster, Nowhere
  <1>2. page' \in Page
    BY <1>1, LessonAssumption DEF Page
  <1>3. /\ page'.at = "poster" /\ page'.act = a /\ page'.scan = "recording"
        /\ page'.visit = v /\ Untouched(page')
    BY <1>1 DEF Untouched
  <1>4. PageOK(page')
    BY <1>2, <1>3 DEF PageOK
  <1>5. VisitsOK(page', visits')
    BY <1>3 DEF OpenPoster, PosterInv, VisitsOK
  <1> QED BY <1>4, <1>5 DEF PosterInv

LEMMA ScanAnsweredOK ==
  ASSUME PosterInv, NEW v \in 1 .. Visits, NEW outcome \in Outcomes,
         ScanAnswered(v, outcome)
  PROVE  PosterInv'
  <1> DEFINE s == IF outcome \in {"ok", "garbled", "lost"} THEN "counted" ELSE "none"
  <1>1. /\ visits' = [visits EXCEPT ![v] = s]
        /\ visits \in [1 .. Visits -> {"none", "sent", "counted", "started"}]
    BY DEF ScanAnswered, PosterInv, VisitsOK
  <1>2. /\ visits' \in [1 .. Visits -> {"none", "sent", "counted", "started"}]
        /\ visits'[v] = s /\ \A u \in (1 .. Visits) \ {v} : visits'[u] = visits[u]
    BY <1>1
  <1>3. CASE page.at = "poster" /\ page.visit = v
    <2> DEFINE t == Shown(outcome)
               b == outcome = "ok"
    <2>1. page' = [page EXCEPT !.scan = t, !.known = b] /\ page \in Page
      BY <1>3 DEF ScanAnswered, PosterInv, PageOK
    <2>2. t \in {"recorded", "offline", "failed"} /\ (t = "recorded" => s = "counted")
      BY DEF Shown, Outcomes
    <2>3. b \in BOOLEAN
      OBVIOUS
    <2> HIDE DEF t, b
    <2>4. /\ page' \in Page /\ page'.at = "poster" /\ page'.act = page.act
          /\ page'.visit = v /\ page'.scan = t
          /\ page'.tried = page.tried /\ page'.locked = page.locked
          /\ page'.back = page.back /\ page'.correct = page.correct
          /\ page'.total = page.total
      BY <1>3, <2>1, <2>2, <2>3 DEF Page
    <2>5. PageOK(page')
      BY <1>3, <2>4 DEF PosterInv, PageOK, Untouched
    <2>6. VisitsOK(page', visits')
      BY <1>2, <2>2, <2>4 DEF VisitsOK
    <2> QED BY <2>5, <2>6 DEF PosterInv
  <1>4. CASE ~(page.at = "poster" /\ page.visit = v)
    <2>1. page' = page
      BY <1>4 DEF ScanAnswered
    <2>2. page.scan = "recorded" => page.visit \in (1 .. Visits) \ {v}
      BY <1>4 DEF PosterInv, PageOK
    <2> QED BY <1>2, <2>1, <2>2 DEF PosterInv, VisitsOK
  <1> QED BY <1>3, <1>4

\* No scan is shown where another page comes up.
LEMMA NoScan ==
  ASSUME NEW pg, PageOK(pg), pg.scan = "none", PosterInv,
         NEW vs \in [1 .. Visits -> {"none", "sent", "counted", "started"}]
  PROVE  PageOK(pg) /\ VisitsOK(pg, vs)
  BY DEF VisitsOK

LEMMA PosterStep == PosterInv /\ [Next]_vars => PosterInv'
  <1> SUFFICES ASSUME PosterInv, [Next]_vars PROVE PosterInv'
    OBVIOUS
  <1>0. PageOK(page)
    BY DEF PosterInv
  <1>1. CASE UNCHANGED <<page, visits>>
    BY <1>1 DEF PosterInv
  <1>2. ASSUME PageOK(page'), page'.scan = "none", UNCHANGED visits PROVE PosterInv'
    BY <1>2 DEF PosterInv, VisitsOK
  <1>3. CASE ToJourney /\ UNCHANGED visits
    <2>1. page'.scan = "none"
      BY <1>3 DEF ToJourney, Nowhere
    <2> QED BY <1>2, <1>3, <2>1, PagesOK DEF ToJourney
  <1>4. ASSUME NEW to \in {"journey", "dashboard"}, Leave(to) PROVE PosterInv'
    <2>1. page' = [Nowhere EXCEPT !.at = to] /\ UNCHANGED visits
      BY <1>4 DEF Leave
    <2>2. page'.scan = "none"
      BY <2>1 DEF Nowhere
    <2>3. PageOK(page')
      BY <2>1, PagesOK
    <2> QED BY <1>2, <2>1, <2>2, <2>3
  <1>5. ASSUME NEW a \in Activities, page' = Open(a),
               visits' \in [1 .. Visits -> {"none", "sent", "counted", "started"}]
        PROVE  PosterInv'
    <2>1. page'.scan = "none"
      BY <1>5 DEF Open, Nowhere
    <2> QED BY <1>5, <2>1, PagesOK DEF PosterInv, VisitsOK
  <1>6. visits \in [1 .. Visits -> {"none", "sent", "counted", "started"}]
    BY DEF PosterInv, VisitsOK
  <1>7. CASE Reload
    BY <1>0, <1>5, <1>6, <1>7 DEF Reload, PageOK
  <1>8. ASSUME NEW a \in Activities, OpenLesson(a) PROVE PosterInv'
    BY <1>5, <1>6, <1>8 DEF OpenLesson
  <1>9. CASE MarkStarted
    <2>1. page.act \in Activities /\ page' = Open(page.act)
      BY <1>0, <1>9 DEF MarkStarted, PageOK
    <2>2. visits' \in [1 .. Visits -> {"none", "sent", "counted", "started"}]
      BY <1>6, <1>9 DEF MarkStarted
    <2> QED BY <1>5, <2>1, <2>2
  <1>10. ASSUME NEW ok \in BOOLEAN, LoadLesson(ok) PROVE PosterInv'
    <2>1. PageOK(page') /\ UNCHANGED visits
      BY <1>0, <1>10, LoadLessonOK DEF LoadLesson
    <2>2. page'.at # "poster"
      BY <1>0, <1>10 DEF LoadLesson, PageOK, Page
    <2> QED BY <1>2, <2>1, <2>2 DEF PageOK
  <1>11. ASSUME NEW right \in BOOLEAN, Answer(right) PROVE PosterInv'
    <2>1. PageOK(page') /\ UNCHANGED visits
      BY <1>0, <1>11, AnswerOK DEF Answer
    <2>2. page'.at # "poster"
      BY <1>0, <1>11 DEF Answer, PageOK, Page
    <2> QED BY <1>2, <2>1, <2>2 DEF PageOK
  <1>12. CASE NextModule
    <2>1. PageOK(page') /\ UNCHANGED visits
      BY <1>0, <1>12, NextModuleOK DEF NextModule
    <2>2. page'.at # "poster"
      BY <1>0, <1>12 DEF NextModule, PageOK, Page, Turn
    <2> QED BY <1>2, <2>1, <2>2 DEF PageOK
  <1>13. CASE Previous
    <2>1. PageOK(page') /\ UNCHANGED visits
      BY <1>0, <1>13, PreviousOK DEF Previous
    <2>2. page'.at # "poster"
      BY <1>0, <1>13 DEF Previous, PageOK, Page, Turn
    <2> QED BY <1>2, <2>1, <2>2 DEF PageOK
  <1>14. CASE Next
    <2>1. CASE LoadJourney \/ ReadCard \/ ShowCard \/ NextDay
      BY <1>1, <2>1 DEF LoadJourney, ReadCard, ShowCard, NextDay
    <2>2. ASSUME NEW c \in Calls,
                 \/ Finish(c) \/ Queued(c) \/ ReadReview(c)
                 \/ SaveReview(c) \/ ReviewFails(c) PROVE PosterInv'
      BY <1>1, <2>2 DEF Finish, Queued, ReadReview, SaveReview, ReviewFails
    <2>3. ASSUME NEW c \in Calls,
                 Accepted(c) \/ Refused(c) \/ Scheduled(c) PROVE PosterInv'
      BY <1>3, <2>3 DEF Accepted, Refused, Scheduled
    <2>4. ASSUME NEW a \in Activities, Deliver(a) PROVE PosterInv'
      BY <1>1, <2>4 DEF Deliver
    <2> QED BY <1>4, <1>7, <1>8, <1>9, <1>10, <1>11, <1>12, <1>13, <1>14,
               <2>1, <2>2, <2>3, <2>4, OpenPosterOK, ScanAnsweredOK DEF Next
  <1>15. CASE UNCHANGED vars
    BY <1>1, <1>15 DEF vars
  <1> QED BY <1>14, <1>15

LEMMA PosterInvariant == Spec => []PosterInv
  <1>1. Init => PosterInv
    <2> SUFFICES ASSUME Init PROVE PosterInv
      OBVIOUS
    <2>1. page = Nowhere /\ visits = [v \in 1 .. Visits |-> "none"]
      BY DEF Init
    <2>2. page.scan = "none"
      BY <2>1 DEF Nowhere
    <2> QED BY <2>1, <2>2, PagesOK DEF PosterInv, VisitsOK
  <1> QED BY <1>1, PosterStep, PTL DEF Spec

(* A poster page that says its scan is counted is right, whatever late        *)
(* answers of earlier visits come in (QRLanding, scanIdRef).                  *)
THEOREM RecordedIsCounted == Spec => []RecordedMeansCounted
  <1>1. PosterInv => RecordedMeansCounted
    BY DEF PosterInv, VisitsOK, RecordedMeansCounted
  <1> QED BY <1>1, PosterInvariant, PTL

-----------------------------------------------------------------------------
(* Completions, the schedule and the card.                                 *)

\* A call reports the whole lesson.
Whole(x) ==
  /\ x.p.correct <= x.p.total /\ Cardinality(Quizzes(x.p.act)) <= x.p.total
  /\ ~x.back => x.p.total = Cardinality(Quizzes(x.p.act))

\* What is being scheduled was taken, by the server or by the queue.
Backed(x, taken) == x.step \in {"read", "save"} => Fact(x) \in taken

CallInv ==
  /\ calls \in [Calls -> Call \cup {Idle}]
  /\ \A c \in Calls : calls[c] # Idle => Whole(calls[c]) /\ Backed(calls[c], accepted)

\* A review is due later than the completion of its day that it goes back to.
Due(state, taken) ==
  /\ state.due > state.last
  /\ \E p \in taken : p.day = state.last /\ (p.pass <=> state.rep > 0)

ScheduleInv ==
  /\ schedule \in [Activities \cup {Blank} -> {Unset} \cup Review]
  /\ \A k \in Activities \cup {Blank} :
       schedule[k] # Unset => Due(schedule[k], accepted)

\* Listed because it is due, or about to be closed by a call that has saved.
StillListed(k) ==
  IsDue(schedule[k], today) \/ \E c \in Calls : InCall(c, "saved")

CardInv ==
  /\ card \in [step : {"off", "titles", "shown"},
               items : SUBSET (Activities \cup {Blank})]
  /\ \A k \in card.items : schedule[k] # Unset /\ StillListed(k)

DataInv ==
  /\ server \in [Activities -> Statuses]
  /\ queued \in [Activities -> Reports \cup {Unset}]
  /\ journey = Unset \/ journey \in [Activities -> Statuses]
  /\ today \in 0 .. MaxDay
  /\ accepted \subseteq [act : Activities, day : 0 .. MaxDay, pass : BOOLEAN]

LessonInv == CallInv /\ ScheduleInv /\ CardInv /\ DataInv

LEMMA CallChange ==
  ASSUME CallInv, accepted \subseteq accepted', NEW c \in Calls,
         NEW x \in Call \cup {Idle}, x # Idle => Whole(x) /\ Backed(x, accepted'),
         calls' = [calls EXCEPT ![c] = x]
  PROVE  CallInv'
  <1>1. /\ calls' \in [Calls -> Call \cup {Idle}] /\ calls'[c] = x
        /\ \A b \in Calls \ {c} : calls'[b] = calls[b]
    BY DEF CallInv
  <1>2. ASSUME NEW b \in Calls, calls'[b] # Idle
        PROVE  Whole(calls'[b]) /\ Backed(calls'[b], accepted')
    BY <1>1, <1>2 DEF CallInv, Backed
  <1> QED BY <1>1, <1>2 DEF CallInv

LEMMA ScheduleStays ==
  ASSUME ScheduleInv, accepted \subseteq accepted', UNCHANGED schedule
  PROVE  ScheduleInv'
  BY DEF ScheduleInv, Due

LEMMA EmptyCard == card' = NoCard => CardInv'
  BY DEF CardInv, NoCard

\* The card keeps what it lists while no call that has saved goes on.
LEMMA CardStays ==
  ASSUME CardInv, UNCHANGED <<card, schedule, today>>,
         CallInv, NEW c \in Calls, NEW x, ~InCall(c, "saved"),
         calls' = [calls EXCEPT ![c] = x]
  PROVE  CardInv'
  <1>1. \A b \in Calls : InCall(b, "saved") => InCall(b, "saved")'
    BY DEF CallInv, InCall
  <1>2. \A k \in card.items : StillListed(k) => StillListed(k)'
    BY <1>1 DEF StillListed, IsDue
  <1> QED BY <1>2 DEF CardInv

LEMMA CardWaits ==
  ASSUME CardInv, UNCHANGED <<card, schedule, today, calls>>
  PROVE  CardInv'
  <1>1. \A k \in card.items : StillListed(k) => StillListed(k)'
    BY DEF StillListed, IsDue, InCall
  <1> QED BY <1>1 DEF CardInv

\* What a call says, and the completion it is.
LEMMA CallOf ==
  ASSUME CallInv, NEW c \in Calls, calls[c] # Idle
  PROVE  /\ calls[c] \in Call /\ calls[c].p \in Reports /\ calls[c].p.act \in Activities
         /\ calls[c].p.correct \in Nat /\ calls[c].p.total \in Nat
         /\ calls[c].day \in 0 .. MaxDay
         /\ Fact(calls[c]) \in [act : Activities, day : 0 .. MaxDay, pass : BOOLEAN]
         /\ Whole(calls[c]) /\ Backed(calls[c], accepted)
  <1>1. /\ calls[c] \in Call /\ Whole(calls[c]) /\ Backed(calls[c], accepted)
    BY DEF CallInv
  <1>2. /\ calls[c].p \in Reports /\ calls[c].p.act \in Activities
        /\ calls[c].p.correct \in Nat /\ calls[c].p.total \in Nat
        /\ calls[c].day \in 0 .. MaxDay
    BY <1>1, LessonAssumption DEF Call, Reports
  <1> DEFINE b == Quality(calls[c].p.correct, calls[c].p.total) >= 3
  <1>3. b \in BOOLEAN
    OBVIOUS
  <1>4. Fact(calls[c]) = [act |-> calls[c].p.act, day |-> calls[c].day, pass |-> b]
    BY DEF Fact
  <1> HIDE DEF b
  <1> QED BY <1>1, <1>2, <1>3, <1>4

LEMMA TakeType ==
  ASSUME DataInv, NEW p \in Reports, Take(p)
  PROVE  server' \in [Activities -> Statuses]
  BY DEF DataInv, Take, Reached, Statuses, Reports

LEMMA FinishOK ==
  ASSUME PageOK(page), LessonInv, NEW c \in Calls, Finish(c)
  PROVE  LessonInv'
  <1>1. page.at = "lesson" /\ CanNext /\ page.i = Len(Course[page.act])
        /\ page \in Page
    BY DEF Finish, IsLast, PageOK
  <1> DEFINE r == [act |-> page.act, correct |-> page.correct, total |-> page.total]
             x == [p |-> r, day |-> today, back |-> page.back, prev |-> Unset,
                   step |-> "sent"]
  <1>2. /\ page.act \in Activities
        /\ Answered(page) = Cardinality(Before(page.act, page.i + 1))
        /\ page.correct <= page.total /\ Answered(page) <= page.total
        /\ ~page.back => page.total = Answered(page)
    BY <1>1, PastModule
  <1>3. Answered(page) = Cardinality(Quizzes(page.act))
    BY <1>1, <1>2, BeforeEnds
  <1>4. r \in Reports
    BY <1>1, <1>2 DEF Page, Reports
  <1>5. /\ r.act = page.act /\ r.correct = page.correct /\ r.total = page.total
    OBVIOUS
  <1> HIDE DEF r
  <1>6. page.back \in BOOLEAN /\ today \in 0 .. MaxDay
    BY <1>1 DEF Page, LessonInv, DataInv
  <1>7. x \in Call
    BY <1>4, <1>6 DEF Call
  <1>8. x.p = r /\ x.back = page.back /\ x.step = "sent"
    OBVIOUS
  <1>9. calls' = [calls EXCEPT ![c] = x]
        /\ UNCHANGED <<server, queued, schedule, journey, card, today, accepted>>
    BY DEF Finish, r
  <1> HIDE DEF x
  <1>10. Whole(x) /\ Backed(x, accepted')
    BY <1>2, <1>3, <1>5, <1>8 DEF Whole, Backed
  <1>11. CallInv'
    BY <1>7, <1>9, <1>10, CallChange DEF LessonInv
  <1>12. CardInv'
    <2>1. ~InCall(c, "saved")
      BY DEF Finish, InCall
    <2> QED BY <1>9, <2>1, CardStays DEF LessonInv
  <1> QED BY <1>9, <1>11, <1>12 DEF LessonInv, ScheduleInv, DataInv

LEMMA AcceptedOK ==
  ASSUME LessonInv, NEW c \in Calls, Accepted(c)
  PROVE  LessonInv'
  <1>1. calls[c] # Idle /\ calls' = [calls EXCEPT ![c] = Idle] /\ Take(calls[c].p)
        /\ accepted' = accepted \cup {Fact(calls[c])} /\ card' = NoCard
        /\ UNCHANGED <<queued, schedule, journey, today>>
    BY DEF Accepted, InCall
  <1>2. CallInv'
    BY <1>1, CallChange DEF LessonInv
  <1>3. ScheduleInv' /\ CardInv'
    BY <1>1, ScheduleStays, EmptyCard DEF LessonInv
  <1>4. DataInv'
    BY <1>1, CallOf, TakeType DEF LessonInv, DataInv
  <1> QED BY <1>2, <1>3, <1>4 DEF LessonInv

LEMMA QueuedOK ==
  ASSUME LessonInv, NEW c \in Calls, Queued(c)
  PROVE  LessonInv'
  <1> DEFINE x == [calls[c] EXCEPT !.step = "read"]
  <1>1. /\ calls[c] # Idle /\ calls' = [calls EXCEPT ![c] = x]
        /\ queued' = [queued EXCEPT ![calls[c].p.act] = Better(@, calls[c].p)]
        /\ accepted' = accepted \cup {Fact(calls[c])}
        /\ UNCHANGED <<server, schedule, journey, card, today>>
    BY DEF Queued, InCall
  <1>2. calls[c] \in Call /\ Whole(calls[c])
        /\ calls[c].p \in Reports /\ calls[c].p.act \in Activities
        /\ Fact(calls[c]) \in [act : Activities, day : 0 .. MaxDay, pass : BOOLEAN]
    BY <1>1, CallOf DEF LessonInv
  <1>3. /\ x \in Call /\ x.p = calls[c].p /\ x.day = calls[c].day
        /\ x.back = calls[c].back /\ x.step = "read"
    BY <1>2 DEF Call
  <1> HIDE DEF x
  <1>4. Fact(x) = Fact(calls[c])
    BY <1>3 DEF Fact
  <1>5. Whole(x) /\ Backed(x, accepted')
    BY <1>1, <1>2, <1>3, <1>4 DEF Whole, Backed
  <1>6. CallInv'
    BY <1>1, <1>3, <1>5, CallChange DEF LessonInv
  <1>7. ScheduleInv'
    BY <1>1, ScheduleStays DEF LessonInv
  <1>8. queued' \in [Activities -> Reports \cup {Unset}]
    BY <1>1, <1>2 DEF LessonInv, DataInv, Better
  <1>9. CardInv'
    <2>1. ~InCall(c, "saved")
      BY DEF Queued, InCall
    <2> QED BY <1>1, <2>1, CardStays DEF LessonInv
  <1> QED BY <1>1, <1>2, <1>6, <1>7, <1>8, <1>9 DEF LessonInv, DataInv

LEMMA RefusedOK ==
  ASSUME LessonInv, NEW c \in Calls, Refused(c)
  PROVE  LessonInv'
  <1>1. calls' = [calls EXCEPT ![c] = Idle] /\ card' = NoCard
        /\ UNCHANGED <<server, queued, schedule, journey, today, accepted>>
    BY DEF Refused
  <1>2. CallInv'
    BY <1>1, CallChange DEF LessonInv
  <1>3. ScheduleInv' /\ CardInv'
    BY <1>1, ScheduleStays, EmptyCard DEF LessonInv
  <1> QED BY <1>1, <1>2, <1>3 DEF LessonInv, DataInv

LEMMA ReadReviewOK ==
  ASSUME LessonInv, NEW c \in Calls, ReadReview(c)
  PROVE  LessonInv'
  <1> DEFINE s == schedule[calls[c].p.act]
             x == [calls[c] EXCEPT !.step = "save", !.prev = s]
  <1>1. /\ calls[c] # Idle /\ calls[c].step = "read"
        /\ UNCHANGED <<server, queued, schedule, journey, card, today, accepted>>
    BY DEF ReadReview, InCall
  <1>2. /\ calls[c] \in Call /\ Whole(calls[c]) /\ Fact(calls[c]) \in accepted
        /\ calls[c].p.act \in Activities
    BY <1>1, CallOf DEF LessonInv, Backed
  <1>3. s \in {Unset} \cup Review
    BY <1>2 DEF LessonInv, ScheduleInv
  <1>4. calls' = [calls EXCEPT ![c] = x]
    BY <1>1, <1>2 DEF ReadReview, LessonInv, CallInv
  <1> HIDE DEF s
  <1>5. /\ x \in Call /\ x.p = calls[c].p /\ x.day = calls[c].day
        /\ x.back = calls[c].back
    BY <1>2, <1>3 DEF Call
  <1> HIDE DEF x
  <1>6. Fact(x) = Fact(calls[c])
    BY <1>5 DEF Fact
  <1>7. Whole(x) /\ Backed(x, accepted')
    BY <1>1, <1>2, <1>5, <1>6 DEF Whole, Backed
  <1>8. CallInv'
    BY <1>1, <1>4, <1>5, <1>7, CallChange DEF LessonInv
  <1>9. CardInv'
    <2>1. ~InCall(c, "saved")
      BY <1>1 DEF InCall
    <2> QED BY <1>1, <1>4, <2>1, CardStays DEF LessonInv
  <1> QED BY <1>1, <1>8, <1>9 DEF LessonInv, ScheduleInv, DataInv

LEMMA SaveReviewOK ==
  ASSUME LessonInv, NEW c \in Calls, SaveReview(c)
  PROVE  LessonInv'
  <1> DEFINE q == Quality(calls[c].p.correct, calls[c].p.total)
             new == ScheduleReview(calls[c].prev, q, calls[c].day)
             x == [calls[c] EXCEPT !.step = "saved"]
  <1>1. /\ calls[c] # Idle /\ calls[c].step = "save"
        /\ calls' = [calls EXCEPT ![c] = x]
        /\ schedule' = [schedule EXCEPT ![new.key] = new]
        /\ UNCHANGED <<server, queued, journey, card, today, accepted>>
    BY DEF SaveReview, InCall
  <1>2. /\ calls[c] \in Call /\ Fact(calls[c]) \in accepted
        /\ calls[c].p.correct \in Nat /\ calls[c].p.total \in Nat
        /\ calls[c].day \in 0 .. MaxDay /\ calls[c].prev \in {Unset} \cup Review
    BY <1>1, CallOf DEF LessonInv, Backed, Call
  <1>3. q \in Int
    BY <1>2, QualityType
  <1>4. Fact(calls[c]).day = calls[c].day /\ (Fact(calls[c]).pass <=> q >= 3)
    BY DEF Fact
  <1> HIDE DEF q
  <1>5. /\ new \in Review /\ new.last = calls[c].day /\ new.due > calls[c].day
        /\ (new.rep > 0 <=> q >= 3)
    <2> DEFINE prev == calls[c].prev
               day == calls[c].day
    <2>1. prev \in {Unset} \cup Review /\ day \in 0 .. MaxDay
      BY <1>2
    <2>2. new = ScheduleReview(prev, q, day)
      OBVIOUS
    <2> HIDE DEF prev, day, new
    <2>3. /\ new \in Review /\ new.last = day /\ new.due > day
          /\ (new.rep > 0 <=> q >= 3)
      BY <1>3, <2>1, <2>2, ReviewType
    <2> QED BY <2>3 DEF day
  <1> HIDE DEF new
  <1>6. Due(new, accepted)
    BY <1>2, <1>4, <1>5 DEF Due
  <1>7. new.key \in Activities \cup {Blank}
    BY <1>5 DEF Review
  <1>8. ScheduleInv'
    BY <1>1, <1>5, <1>6, <1>7 DEF LessonInv, ScheduleInv
  <1>9. /\ x \in Call /\ x.p = calls[c].p /\ x.back = calls[c].back
        /\ x.step = "saved" /\ Whole(calls[c])
    BY <1>1, <1>2, CallOf DEF Call, LessonInv
  <1> HIDE DEF x
  <1>10. Whole(x) /\ Backed(x, accepted')
    BY <1>9 DEF Whole, Backed
  <1>11. CallInv'
    BY <1>1, <1>9, <1>10, CallChange DEF LessonInv
  <1>12. CardInv'
    <2>1. x # Idle /\ calls'[c] = x
      BY <1>1, <1>9, LessonAssumption DEF CallInv, LessonInv
    <2>2. InCall(c, "saved")'
      BY <1>9, <2>1 DEF InCall
    <2>3. \A k \in Activities \cup {Blank} :
            schedule[k] # Unset => schedule'[k] # Unset
      BY <1>1, <1>5, <1>7, LessonAssumption DEF LessonInv, ScheduleInv
    <2> QED BY <1>1, <2>2, <2>3 DEF LessonInv, CardInv, StillListed
  <1> QED BY <1>1, <1>8, <1>11, <1>12 DEF LessonInv, DataInv

LEMMA ScheduledOK ==
  ASSUME LessonInv, NEW c \in Calls, Scheduled(c)
  PROVE  LessonInv'
  <1>1. calls' = [calls EXCEPT ![c] = Idle] /\ card' = NoCard
        /\ UNCHANGED <<server, queued, schedule, journey, today, accepted>>
    BY DEF Scheduled
  <1>2. CallInv'
    BY <1>1, CallChange DEF LessonInv
  <1>3. ScheduleInv' /\ CardInv'
    BY <1>1, ScheduleStays, EmptyCard DEF LessonInv
  <1> QED BY <1>1, <1>2, <1>3 DEF LessonInv, DataInv

LEMMA ReviewFailsOK ==
  ASSUME LessonInv, NEW c \in Calls, ReviewFails(c)
  PROVE  LessonInv'
  <1>1. calls' = [calls EXCEPT ![c] = Idle] /\ ~InCall(c, "saved")
        /\ UNCHANGED <<server, queued, schedule, journey, card, today, accepted>>
    BY DEF ReviewFails, InCall
  <1>2. CallInv'
    BY <1>1, CallChange DEF LessonInv
  <1>3. ScheduleInv' /\ CardInv'
    BY <1>1, ScheduleStays, CardStays DEF LessonInv
  <1> QED BY <1>1, <1>2, <1>3 DEF LessonInv, DataInv

LEMMA CardOK ==
  ASSUME LessonInv, ReadCard \/ ShowCard \/ NextDay \/ LoadJourney
  PROVE  LessonInv'
  <1>1. CASE ReadCard
    <2> DEFINE due == {k \in DOMAIN schedule :
                         schedule[k] # Unset /\ IsDue(schedule[k], today)}
               s == IF due = {} THEN "shown" ELSE "titles"
    <2>1. card' = [step |-> s, items |-> due]
          /\ UNCHANGED <<calls, server, queued, schedule, journey, today, accepted>>
      BY <1>1 DEF ReadCard
    <2>2. /\ due \subseteq Activities \cup {Blank}
          /\ \A k \in due : schedule[k] # Unset /\ IsDue(schedule[k], today)
      BY DEF LessonInv, ScheduleInv
    <2> HIDE DEF due
    <2>3. CardInv'
      BY <2>1, <2>2 DEF CardInv, StillListed, IsDue
    <2> QED BY <2>1, <2>3 DEF LessonInv, CallInv, ScheduleInv, DataInv
  <1>2. CASE ShowCard
    <2>1. /\ card'.items = card.items /\ card'.step = "shown"
          /\ card' \in [step : {"off", "titles", "shown"},
                       items : SUBSET (Activities \cup {Blank})]
          /\ UNCHANGED <<calls, server, queued, schedule, journey, today, accepted>>
      BY <1>2 DEF ShowCard, LessonInv, CardInv
    <2>2. \A k \in card.items : StillListed(k) => StillListed(k)'
      BY <2>1 DEF StillListed, IsDue, InCall
    <2>3. CardInv'
      BY <2>1, <2>2 DEF LessonInv, CardInv
    <2> QED BY <2>1, <2>3 DEF LessonInv, CallInv, ScheduleInv, DataInv
  <1>3. CASE NextDay
    <2>1. today \in 0 .. MaxDay /\ today' \in 0 .. MaxDay /\ today' = today + 1
          /\ UNCHANGED <<calls, server, queued, schedule, journey, card, accepted>>
      BY <1>3, LessonAssumption DEF NextDay, LessonInv, DataInv
    <2>2. ASSUME NEW k \in card.items
          PROVE  StillListed(k) => StillListed(k)'
      <3>1. schedule[k] \in Review
        BY <2>2 DEF LessonInv, CardInv, ScheduleInv
      <3>2. schedule[k].due \in Nat
        BY <3>1 DEF Review
      <3>3. IsDue(schedule[k], today) => IsDue(schedule[k], today')
        BY <2>1, <3>2, LessonAssumption DEF IsDue
      <3> QED BY <2>1, <3>3 DEF StillListed, InCall, IsDue
    <2>3. CardInv'
      BY <2>1, <2>2 DEF LessonInv, CardInv
    <2> QED BY <2>1, <2>3 DEF LessonInv, CallInv, ScheduleInv, DataInv
  <1>4. CASE LoadJourney
    BY <1>4, CardWaits DEF LoadJourney, LessonInv, CallInv, ScheduleInv, DataInv
  <1> QED BY <1>1, <1>2, <1>3, <1>4

LEMMA DeliverOK ==
  ASSUME LessonInv, NEW a \in Activities, Deliver(a)
  PROVE  LessonInv'
  <1>1. queued[a] \in Reports /\ queued' = [queued EXCEPT ![a] = Unset]
        /\ Take(queued[a])
        /\ UNCHANGED <<calls, schedule, journey, card, today, accepted>>
    BY DEF Deliver, LessonInv, DataInv
  <1>2. DataInv'
    BY <1>1, TakeType DEF LessonInv, DataInv
  <1> QED BY <1>1, <1>2, CardWaits DEF LessonInv, CallInv, ScheduleInv

\* Pages that come and go leave all this alone, but for the card.
LEMMA PageStep ==
  ASSUME LessonInv, card' = card \/ card' = NoCard,
         UNCHANGED <<calls, server, queued, schedule, journey, today, accepted>>
  PROVE  LessonInv'
  <1>1. CardInv'
    BY EmptyCard, CardWaits DEF LessonInv
  <1> QED BY <1>1 DEF LessonInv, CallInv, ScheduleInv, DataInv

LEMMA LessonStep == PosterInv /\ LessonInv /\ [Next]_vars => LessonInv'
  <1> SUFFICES ASSUME PosterInv, LessonInv, [Next]_vars PROVE LessonInv'
    OBVIOUS
  <1>1. PageOK(page)
    BY DEF PosterInv
  <1>2. CASE UNCHANGED vars
    BY <1>2, PageStep DEF vars
  <1>3. CASE Reload \/ NextModule \/ Previous \/ MarkStarted
    BY <1>3, PageStep DEF Reload, NextModule, Previous, MarkStarted
  <1>4. ASSUME NEW a \in Activities, OpenLesson(a) PROVE LessonInv'
    BY <1>4, PageStep DEF OpenLesson
  <1>5. ASSUME NEW ok \in BOOLEAN, LoadLesson(ok) \/ Answer(ok) PROVE LessonInv'
    BY <1>5, PageStep DEF LoadLesson, Answer
  <1>6. ASSUME NEW to \in {"journey", "dashboard"}, Leave(to) PROVE LessonInv'
    BY <1>6, PageStep DEF Leave
  <1>7. ASSUME NEW a \in Activities, NEW v \in 1 .. Visits, OpenPoster(a, v)
        PROVE  LessonInv'
    BY <1>7, PageStep DEF OpenPoster
  <1>8. ASSUME NEW v \in 1 .. Visits, NEW outcome \in Outcomes, ScanAnswered(v, outcome)
        PROVE  LessonInv'
    BY <1>8, PageStep DEF ScanAnswered
  <1>9. CASE Next
    BY <1>1, <1>3, <1>4, <1>5, <1>6, <1>7, <1>8, <1>9, FinishOK, AcceptedOK, QueuedOK,
       RefusedOK, ReadReviewOK, SaveReviewOK, ScheduledOK, ReviewFailsOK, CardOK,
       DeliverOK DEF Next
  <1> QED BY <1>2, <1>9

LEMMA LessonInvariant == Spec => []LessonInv
  <1>1. Init => LessonInv
    BY LessonAssumption DEF Init, LessonInv, CallInv, ScheduleInv, CardInv, NoCard,
       DataInv, Statuses
  <1> QED BY <1>1, PosterInvariant, LessonStep, PTL DEF Spec

(* Types: an attempt is of an activity and stands on one of its modules, a    *)
(* call reports counts within bounds, and what the store holds under any key, *)
(* the blank one included, is a review state.                                 *)
THEOREM TypeCorrect == Spec => []TypeOK
  <1>1. PosterInv /\ LessonInv => TypeOK
    BY DEF PosterInv, PageOK, AttemptOK, VisitsOK, LessonInv, CallInv, ScheduleInv,
           CardInv, DataInv, TypeOK
  <1> QED BY <1>1, PosterInvariant, LessonInvariant, PTL

(* What a completion reports is the whole lesson (statsRef, firstTryRef):     *)
(* every knowledge check was counted, exactly once if the learner never went  *)
(* back in that attempt and at least once if she did.                         *)
THEOREM ReportsAreWhole == Spec => []ReportIsWhole
  <1>1. LessonInv => ReportIsWhole
    BY DEF LessonInv, CallInv, Whole, ReportIsWhole
  <1> QED BY <1>1, LessonInvariant, PTL

(* "The review schedule advances ONLY when the completion is on a real        *)
(* server path": every scheduled review goes back to a completion of that day *)
(* which the server or the queue took, and of that quality (handleComplete).  *)
THEOREM ScheduleIsBacked == Spec => []ScheduleBacked
  <1>1. LessonInv => ScheduleBacked
    BY DEF LessonInv, ScheduleInv, Due, ScheduleBacked
  <1> QED BY <1>1, LessonInvariant, PTL

(* Nothing is left listed that was done on the same day: what the card lists  *)
(* is due, and a review is never due on the day of the completion it goes     *)
(* back to; a call that saves under an open card takes it away (isDue,        *)
(* dueDate, handleComplete).                                                  *)
THEOREM NothingTwiceADay == Spec => []NotAskedTwiceADay
  <1>1. LessonInv => NotAskedTwiceADay
    <2> SUFFICES ASSUME LessonInv, NEW k \in card.items,
                        ~\E c \in Calls : InCall(c, "saved")
                 PROVE  schedule[k].last < today
      BY DEF NotAskedTwiceADay, LessonInv, CardInv
    <2>1. /\ schedule[k].due <= today /\ schedule[k] \in Review
          /\ schedule[k].due > schedule[k].last /\ today \in 0 .. MaxDay
      BY DEF LessonInv, CardInv, StillListed, ScheduleInv, DataInv, IsDue, Due
    <2>2. schedule[k].due \in Nat /\ schedule[k].last \in Int /\ today \in Int
      BY <2>1, LessonAssumption DEF Review
    <2> QED BY <2>1, <2>2
  <1> QED BY <1>1, LessonInvariant, PTL
=============================================================================
