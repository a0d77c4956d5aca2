SPECIFICATION WindowSpec
CONSTANTS
  Threads = {w}
  Worker = w
  Users = {a, b, c}
  Payloads = {p, q}
  NoPayload = NoPayload
  Slots = 2
  MaxTransfers = 5
  MaxFetch = 1
  MaxLoads = 4
SYMMETRY Symmetry
INVARIANTS
  WindowTypeOK
  InjectsCurrentPayload
  OnlyWindowIsStaged
