SPECIFICATION Spec
CONSTANTS
  a = a
  b = b
  p0 = p0
  Requests = {r1, r2}
  Users = {u1, u2}
  NoUser = NoUser
  Memories <- MCMemories
  Plain = p0
  Tokens <- MCTokens
  TokenIds <- MCAliasedTokenIds
  Query <- MCQuery
  KvOf <- MCKvOf
  Native = Native
  Garbage = Garbage
  None = None
  Blocks = {b1, b2, b3, b4, b5}
  BlockSize = 2
  MaxPreempts = 1
  MaxRestarts = 1
SYMMETRY Symmetry
CHECK_DEADLOCK FALSE
INVARIANT
  NativeCoverIsLegitimate
