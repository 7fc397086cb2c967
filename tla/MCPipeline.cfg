\* Every thread may fail; blocks alternate between two files.
SPECIFICATION FairSpec
CONSTANTS
  NumSteps = 2
  QueueSize = 1
  NumBlocks = 3
  FirstTx <- MCFirstTx
  NFile <- MCNFile
  Obj = {o1, o2, o3, o4}
  None = None
  MayThrow = {0, 1, 2}
INVARIANT TypeOK
INVARIANT InOrder
INVARIANT NoLeakOnReturn
INVARIANT NextDoneOfLastStepUnread
INVARIANT FilesStayMapped
INVARIANT CompleteOnReturn
INVARIANT SingleOwner
INVARIANT IInv
PROPERTY Termination
PROPERTY OrderedSpec
