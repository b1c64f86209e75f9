SPECIFICATION Spec
CONSTANTS
  k = k
  d = d
  e = e
  Tables = {1, 2, 3}
  Altered = {2}
  ColumnNames = {k, d, e}
  Definitions <- MCDefinitions
  Addable <- MCAddable
  MaxCols = 3
  MaxRows = 1
  MaxRef = 2
CHECK_DEADLOCK FALSE
INVARIANTS CatalogTypeOK ColumnsAgree ListedHaveColumns
PROPERTIES FreeMatchesHold HoldingKeepsRows CommitKeepsTables
