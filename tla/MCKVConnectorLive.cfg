SPECIFICATION FairSpec
CONSTANTS
  a = a
  b = b
  p0 = p0
  Requests = {r1, r2}
  Users = {u1}
  NoUser = NoUser
  Memories <- MCMemories
  Plain = p0
  Tokens <- MCTokens
  TokenIds <- MCShortTokenIds
  Query <- MCQuery
  KvOf <- MCShortKvOf
  Native = Native
  Garbage = Garbage
  None = None
  Blocks = {b1, b2, b3}
  BlockSize = 2
  MaxPreempts = 1
  MaxRestarts = 0
CHECK_DEADLOCK FALSE
INVARIANT
  IInv
PROPERTY
  EveryRequestSettles
