SPECIFICATION Spec
CONSTANTS
  ChunkIds = {a, b, c}
  Setups <- BothWays
  ContextWindow = 2
  Header = Header
  Empty = Empty
  Footer = Footer
  NoMemory = NoMemory
  TopK = 2
  MaxRows = 4
CHECK_DEADLOCK FALSE
INVARIANTS
  TypeOK
  KnownChunksAreServable
  WindowsFollowChunkOrder
  MemoryLivesForOneGeneration
  IndexMatchesUnlessCut
  ClosedHoldsNothing
PROPERTIES
  KeepsPromise
