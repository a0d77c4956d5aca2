SPECIFICATION Spec
CONSTANTS
  t1 = t1
  t2 = t2
  a = a
  b = b
  c = c
  NoLookup = NoLookup
  NoView = NoView
  Threads <- OneThread
  ChunkIds <- ThreeChunks
  Payloads <- ShortAndLong
  Packs = TRUE
  LayerOrder <- LayerNames
  MaxMaps = 1
  MaxSelect = 2
SYMMETRY ChunkSymmetry
CHECK_DEADLOCK FALSE
INVARIANTS
  TypeOK
  SelectionGathersRequestedChunks
  LookupIsCurrent
  BoundMapsAreCurrent
  PayloadsSurvivePacking
