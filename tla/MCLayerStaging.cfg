SPECIFICATION Spec
CONSTANTS
  Memories = {m1, m2}
  NumLayers = 2
  CachedLayers = {2}
  NumBuffers = 4
  Computes = {c1, c2}
  CopyStream = copy
  None = None
  MaxTransfers = 2
  MaxJob = 2
  MaxJobs = 2
  MaxQueued = 2
INVARIANTS
  KernelsReadTheirLayer
  ViewsKeepTheirLayers
PROPERTY
  ReadersAndStreamsFinish
CHECK_DEADLOCK FALSE
