\* A reorganisation replaces two blocks.
SPECIFICATION Spec
CONSTANTS
  g = g
  a1 = a1
  a2 = a2
  c2 = c2
  c3 = c3
  b1 = b1
  b2 = b2
  cg = cg
  ca1 = ca1
  ca2 = ca2
  ca3 = ca3
  cb1 = cb1
  cb2 = cb2
  s1 = s1
  s2 = s2
  s3 = s3
  A = A
  B = B
  C = C
  D = D
  R = R
  NullHash = NullHash
  Genesis = g
  Block <- DeepBlock
  Prev <- DeepPrev
  Txs <- DeepTxs
  Ins <- MCIns
  Outs <- MCOuts
  NullData = {R}
  MaxBlocks = {0}
  BatchTxs = 2
INVARIANT BlocksFollowChain
CHECK_DEADLOCK FALSE
