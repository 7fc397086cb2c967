SPECIFICATION Spec
CONSTANTS
  a = a
  b = b
  c = c
  Value = {a, b, c}
  None = None
  Torn = Torn
  Size <- MCSize
  MaxBufferSize = 2
  MaxWrites = 4
  MaxRuns = 3
  MaxKills = 1
PROPERTY ImplementsRecordArray
