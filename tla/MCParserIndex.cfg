SPECIFICATION Spec
CONSTANTS
  k1 = k1
  k2 = k2
  m = m
  w = w
  s = s
  r = r
  t1 = t1
  t2 = t2
  t3 = t3
  t4 = t4
  Tx = {t1, t2, t3, t4}
  Script = {k1, k2, m, w, s, r}
  Kind <- MCKind
  Wrapped <- MCWrapped
  Keys <- MCKeys
  Outs <- MCOuts
  Spends <- MCSpends
  MaxTxs = 4
  MaxUpdates = 4
  MaxKills = 1
INVARIANTS IndexesMatchRebuild HashesNameTheirTx EquivalenceIsSymmetric
