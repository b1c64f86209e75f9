CONSTANTS
  Text = {1, 2, 3}
  RefLimit = 3
  MaxSlots = 6
  Length <- Lengths
  Unencodable <- Without
  Codepage <- Codepages
  Acp = "acp"
SPECIFICATION FileSpec
INVARIANT LongStringsKept
CHECK_DEADLOCK FALSE
