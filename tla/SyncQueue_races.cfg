SPECIFICATION Spec
CONSTANTS
  c1 = c1
  c2 = c2
  f1 = f1
  f2 = f2
  ann = ann
  bob = bob
  worse = worse
  better = better
  Callers = {c1, c2}
  Flushers = {f1, f2}
  Nobody = Nobody
  Users = {ann}
  NoUser = NoUser
  Completions = {complete}
  Submissions = {}
  Consents = {}
  Credentials = {signin}
  Bodies = {worse, better}
  NoBody = NoBody
  Accuracy <- MCAccuracy
  Imports <- MCImports
  SubtleAvailable = TRUE
  MaxRetries = 1
  MaxActs = 2
  MaxTrouble = 1
SYMMETRY MCSymmetry
INVARIANTS TypeOK LeftWithAnswer SavedUnlessRaced
