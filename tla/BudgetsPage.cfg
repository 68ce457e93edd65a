SPECIFICATION Spec
CONSTANTS
  food = food  fun = fun
  None = None  Asked = Asked
  Categories <- FoodAndFun
  Start <- PlannedAndNot
  Places <- OnePlaceEach
  Months = {1, 2}
  ThisMonth = 2
  Amounts = {1, 2}
  Changes = {"plan", "approve", "draft"}
  Faults = {"read", "write", "lost"}
  ErrorRetries = 2
  MaxEvents = 4
CHECK_DEADLOCK FALSE
INVARIANTS MonthIsCurrent
PROPERTIES ShiftLeavesDonor EntryIsKept
