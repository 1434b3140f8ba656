SPECIFICATION Spec
CONSTANTS
  Records = {r1, r2}
  Flushes = {f1, f2}
  None = None
  MaxChecks = 1
  MaxQueued = 1
SYMMETRY MCSymmetry
INVARIANTS TypeOK  NoFakeAllSynced
