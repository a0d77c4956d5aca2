SPECIFICATION FilesSpec
CONSTANTS
  Writers = {"w1", "w2"}
  Corpus <- Chunks
  Tables = "tables"
  Tokenize <- Versions
  ContextWindow = 2
  MaxPosition = 4
  NoFile = NoFile
  MaxCrashes = 2
  MaxChanges = 2
INVARIANTS
  ServesWhatItWouldEncode
  InterruptAndRerun
CHECK_DEADLOCK FALSE
