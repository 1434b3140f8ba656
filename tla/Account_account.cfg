SPECIFICATION Spec
CONSTANTS
  adm = adm
  stu = stu
  Users = {adm, stu}
  FirstAdmin = adm
  c1 = c1
  c2 = c2
  Calls = {c1, c2}
  Idle = Idle
  None = None
  MaxSec = 1
SYMMETRY MCSymmetry
ACTION_CONSTRAINT MCSwitch
CONSTRAINT MCUnread
INVARIANTS TypeOK RevokedStaysRevoked ErasedStaysErased AlwaysAnAdmin SwitchShowsRecord
CHECK_DEADLOCK FALSE
