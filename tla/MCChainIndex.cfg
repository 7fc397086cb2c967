\* Repeated updates, concurrent with the node, with failures and crashes.
SPECIFICATION FairSpec
CONSTANTS
  g = g
  a1 = a1
  a2 = a2
  b1 = b1
  Block <- MCBlock
  Prev <- MCPrev
  Genesis = g
  NullHash = NullHash
  MaxFile = 3
  ThreadLimit = 1
  MaxBlockNum = 0
  QuietFirst = TRUE
INVARIANT IndexComplete
INVARIANT ResumesFromProcessedBlock
INVARIANT ChainIsLongest
PROPERTY ChainNeverShrinks
PROPERTY EventuallyIndexed
