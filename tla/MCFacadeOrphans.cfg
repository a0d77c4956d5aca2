SPECIFICATION Spec
CONSTANTS
  ChunkIds = {a, b}
  Setups <- ExactAndPacked
  ContextWindow = 1
  Header = Header
  Empty = Empty
  Footer = Footer
  NoMemory = NoMemory
  TopK = 2
  MaxRows = 3
CHECK_DEADLOCK FALSE
SYMMETRY Symmetry
INVARIANTS
  IndexMatchesChunks
