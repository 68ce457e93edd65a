SPECIFICATION InboxFairSpec
CONSTANTS
  None = None
  Awaited = Awaited
  Drafts <- ThreeDrafts
  Waiting = {1, 2}
  Incomes = {1}
  Duplicates = {2}
  Faults = {"read", "write", "lost"}
  MaxEvents = 3
INVARIANTS SettledStaysAway UnsettledComesBack
PROPERTIES InboxCatchesUp
