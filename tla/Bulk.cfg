SPECIFICATION BulkSpec
CONSTANTS
  Sources <- MCSources
  Numeral <- MCNumeral
  ErrorNames <- MCErrors
  NoTable = NoTable
  NoArchive = NoArchive
  MaxMerges = 2
  MaxExports = 1
CHECK_DEADLOCK FALSE
INVARIANTS BulkTypeOK
PROPERTIES MergeAccounts ImportRestores
