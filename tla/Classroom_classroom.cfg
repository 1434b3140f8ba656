SPECIFICATION Spec
CONSTANTS
  w1 = w1
  w2 = w2
  g1 = g1
  g2 = g2
  Classes = {g1, g2}
  Works = {w1, w2}
  ClassOf <- MCClassOf
  Calls = {c1, c2}
  Idle = Idle
  None = None
SYMMETRY MCSymmetry
INVARIANTS TypeOK PickKept TableIsCurrent PanelMatches
