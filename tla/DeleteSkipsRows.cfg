CONSTANTS
  Text = {1, 2}
  RefLimit = 2
  MaxSlots = 4
  Number = {1}
  OutOfRange = 9
  Schema <- PersistentOnly
SPECIFICATION TableSpec
PROPERTY DeleteBlanksAll
CHECK_DEADLOCK FALSE
