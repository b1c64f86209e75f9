SPECIFICATION PackageSpec
CONSTANTS
  SummaryName <- MCSummaryName
  Names <- MCNames
  Keys <- MCKeys
  x = x
  y = y
  o1 = o1
  o2 = o2
  n1 = n1
  n2 = n2
  n3 = n3
  Data = {x, y}
  SummaryContents <- MCContents
  Views = {1}
  Missing = Missing
  Unknown = Unknown
  Empty = Empty
  NoStorage = NoStorage
  MaxRows = 4
  Objects = {o1, o2}
  Properties <- MCProperties
  Values = {1, 2}
  MaxCount = 1
  Imports <- MCImports
  StorageNames = {n1, n2, n3}
  Trees <- MCTrees
  MaxSteps <- MCSteps
SYMMETRY MCSymmetry
CHECK_DEADLOCK FALSE
INVARIANTS PackageTypeOK OneStreamPerName CellsRead StoragesKept
PROPERTIES DeleteOfOne ImplementsStore OnlyGivenChange
