CONSTANTS
  Query <- Queries
  NullInt <- LeastInt
  NullShort <- LeastShort
  Nothing = Nothing
  MaxExecutions = 2
  MaxDeletions = 1
SPECIFICATION QuerySpec
INVARIANT QueryTypeOK
INVARIANT FoundSoFar
INVARIANT FetchesSelected
CHECK_DEADLOCK FALSE
