SPECIFICATION Spec
CONSTANTS
  r1 = r1  r2 = r2  key = key
  good = good  bad = bad  partial = partial  broken = broken  huge = huge
  None = None
  Requests <- TwoRequests
  Headers <- OneHeader
  Bodies <- EveryBody
  Kind <- EveryKind
  Faults = {"statement", "gone"}
CHECK_DEADLOCK FALSE
INVARIANTS OutcomeTold
PROPERTIES TakesEachKeyOnce
