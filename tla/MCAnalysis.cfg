SPECIFICATION Spec
CONSTANTS
  None = None
  OutOfRange = OutOfRange
  Address <- MCAddress
  Wrapped <- MCWrapped
  Keys <- MCKeys
  Required <- MCRequired
  Coinbases <- MCCoinbases
  Payments <- MCPayments
  Locktime <- MCLocktime
  MaxSpends = 2
  MaxTxs = 5
  MaxInputs = 2
  Word = 64
  Dust <- MCDust
CHECK_DEADLOCK FALSE
INVARIANT ValuesAddUp
INVARIANT IgnoredBlocksAreInvisible
INVARIANT ChangeHeuristicsAgree
INVARIANT SumCountIsExact
INVARIANT SegmentsPartitionTheChain
