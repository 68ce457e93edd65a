SPECIFICATION FairSpec
CONSTANTS
  r1 = r1  r2 = r2  food = food  dining = dining  salary = salary
  None = None
  Requests <- TwoRequests
  Months <- ThreeMonths
  Categories <- ThreeCategories
  ExpenseCategories <- Expenses
  Calls <- MixedCalls
  Start <- ThreePlans
  Spending <- BothInMonthOne
  Price = 2
  MaxSpent = 4
  Faults = {"statement", "gone"}
CHECK_DEADLOCK FALSE
INVARIANTS SourceKeepsRest AnswerTellsShift
PROPERTIES ShiftMovesMoney EnteredIsKept Answered
