SPECIFICATION Spec
CONSTANTS
  v = v
  w = w
  Kinds = {"jasper", "exact"}
  Ids = {a, b, c}
  Payloads = {p, q}
  Vectors = {v, w}
  Scores <- MCScores
  NoAnswer = NoAnswer
  NoScore = NoScore
  MaxRows = 3
  MaxBatch = 2
  MaxTopK = 2
SYMMETRY Symmetry
INVARIANTS
  TypeOK
  GraphIsCurrent
  IdsResolveToFirstRow
PROPERTIES
  KeepsTable
