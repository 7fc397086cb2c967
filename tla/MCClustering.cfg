CONSTANTS
  None = None
  OutOfRange = OutOfRange
  Address <- MCAddress
  Wrapped <- MCWrapped
  Keys <- MCKeys
  Required <- MCRequired
  Coinbases <- MCCoinbases
  Payments <- MCPayments
  Locktime <- MCLocktime
  MaxSpends = 2
  MaxTxs = 5
  MaxInputs = 2
  Word = 64
  Dust <- MCDust
  Concurrency = 2
  WorkSegments = 2
  SkippedBlocks = 1
SPECIFICATION Spec
INVARIANT ClustersAreComponents
INVARIANT ClusterFilesAgree
