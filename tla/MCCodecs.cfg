SPECIFICATION Spec
CONSTANTS
  Tokens <- MCTokens
  Beginnings <- MCBeginnings
  MaxTokens = 2
  InputForms <- MCInputForms
  OutputScripts <- MCOutputScripts
  WitnessItems <- MCWitnessItems
  MaxParts = 5
  PayloadBytes <- MCPayloadBytes
  MaxPayload = 4
  Files <- MCFiles
  Checksum <- MCChecksum
CHECK_DEADLOCK FALSE
INVARIANT ScriptsReadAsWritten
INVARIANT OutputsHaveTheTypeOfTheirForm
INVARIANT TransactionsReadAsWritten
INVARIANT SignaturesSignTheModifiedCopy
INVARIANT AddressStringsAreReadBack
