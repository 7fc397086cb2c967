CONSTANTS
  k1 = k1  k2 = k2  s1 = s1  s2 = s2  m1 = m1  d1 = d1
  Never = Never
  Hash <- MCHash
  BitsOf <- MCBitsOf
  MaxItems <- MCMaxItems
  TxShapes <- MCTxShapes
  MaxTxs = 3
  MaxRestarts = 3
SPECIFICATION Spec
CHECK_DEADLOCK FALSE
INVARIANT RecordsMatchNumbers
INVARIANT RecordsMatchHistory
PROPERTY ImplementsAddressBook
