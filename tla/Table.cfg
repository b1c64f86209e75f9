CONSTANTS
  Text = {1, 2}
  RefLimit = 2
  MaxSlots = 4
  Number = {1}
  OutOfRange = 9
  Schema <- Uses
SPECIFICATION TableSpec
INVARIANT TableTypeOK
INVARIANT RowsResolve
INVARIANT KeysUnique
PROPERTY CommitKeepsPersistent
PROPERTY InsertAddsItsRow
PROPERTY DeleteMovesUp
CHECK_DEADLOCK FALSE
