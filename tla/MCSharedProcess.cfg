SPECIFICATION Spec
CONSTANTS
  Threads = {"f1", "f2"}
  Namespaces = {"f1", "f2"}
  NumLayers = 2
  Dead = "dead"
  MaxUpsets = 1
  NoMemory = NoMemory
  Catalog <- Chunks
  TokensOf <- Tokens
  Unknown = Unknown
  Header = "header"
  Empty = "empty"
  Footer = "footer"
  ContextWindow = 2
  MaxPosition = 5
  TopK = 2
INVARIANTS
  RowsAreExact
  PatchesAreTemporary
  CorpusCountsWhatItHolds
  ConnectorFindsTheMemory
CHECK_DEADLOCK FALSE
