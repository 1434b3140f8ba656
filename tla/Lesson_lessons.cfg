SPECIFICATION Spec
CONSTANTS
  a1 = a1
  a2 = a2
  c1 = c1
  c2 = c2
  Activities = {a1, a2}
  Course <- MCCourse
  Calls = {c1, c2}
  Idle = Idle
  Unset = Unset
  MaxAnswers = 2
  Visits = 2
  MaxDay = 1
INVARIANTS TypeOK ReportIsWhole ScheduleBacked NotAskedTwiceADay RecordedMeansCounted
SYMMETRY MCSymmetry
CONSTRAINTS MCApart MCFew
