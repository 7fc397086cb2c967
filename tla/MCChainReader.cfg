SPECIFICATION Spec
CONSTANTS
  g = g
  a = a
  b = b
  Root = Root
  Missing = Missing
  Unread = Unread
  Block = {g, a, b}
  Parent <- MCParent
  NumTxes <- MCNumTxes
  BlocksIgnored = 0
  MaxRuns = 3
INVARIANTS NeverAnotherChain CompleteIfQuiet
