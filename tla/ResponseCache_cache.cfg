SPECIFICATION Spec
CONSTANTS
  m1 = m1
  m2 = m2
  Muts = {m1, m2}
  Gets = {g1, g2}
  Idle = Idle
  None = None
  Explored <- MCExplored
SYMMETRY MCSymmetry
INVARIANTS TypeOK CacheKeepsUp OwnWorkShown ShownIsBacked
