CONSTANTS
  Query <- StringQueries
  NullInt <- LeastInt
  NullShort <- LeastShort
  Nothing = Nothing
  MaxExecutions = 1
  MaxDeletions = 0
SPECIFICATION QuerySpec
INVARIANT ArgumentsUsed
CHECK_DEADLOCK FALSE
