SPECIFICATION FairSpec
CONSTANTS
  None = None
  Failed = Failed
  Ids <- ThreeIds
  Start <- Ledger
  Sizes = {1, 2}
  Faults = {"lost", "read"}
  TypeFilter = {"expense"}
  StatusFilter = {"needs_review"}
  OtherRows <- DrawerRows
  MaxEvents = 4
CHECK_DEADLOCK FALSE
INVARIANTS RowsMatchFilters DeletedWasHeld
PROPERTIES LoadingEnds
