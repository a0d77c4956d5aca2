SPECIFICATION Spec
CONSTANTS
  Threads = {t1}
  Users = {a, b, c}
  Payloads = {p, q}
  NoPayload = NoPayload
  Slots = 2
  MaxTransfers = 4
  MaxFetch = 3
SYMMETRY Symmetry
INVARIANTS
  TypeOK
  StagedIsCurrent
  TransfersAccountedFor
  HandsWhatItStaged
