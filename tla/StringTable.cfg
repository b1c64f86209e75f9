CONSTANTS
  Text = {1, 2, 3}
  RefLimit = 3
  MaxSlots = 5
SPECIFICATION NoWrapSpec
INVARIANT TypeOK
INVARIANT SlotsOK
INVARIANT IndexOK
PROPERTY IdsAreStable
PROPERTY PersistentStays
PROPERTY ImplementsPool
CHECK_DEADLOCK FALSE
