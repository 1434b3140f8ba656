SPECIFICATION Spec
CONSTANTS
  Learners = {ann}
  NoLearner = NoLearner
  None = None
  Activities = {a1, a2}
  Dashboards = {d1}
  Scale = {0, 2}
  NoQuiz = NoQuiz
  Threshold = 1
  Day = 2
  PastWindow = 1
  FutureWindow = 1
  Stamps <- MCStamps
  NoStamp = 9
  Zones = {0, 1}
  ScoreStep = 5
  ScoreCap = 10
  Seeds <- MCFresh
  StartTime = 0
  EndTime = 1
SYMMETRY MCSymmetry
INVARIANTS TypeOK BestAttemptKept ReplayIsIdempotent FlagFollowsBest CountedOnce StreakEarned
PROPERTIES KeepsLedger
