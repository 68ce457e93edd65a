SPECIFICATION EditorSpec
CONSTANTS
  e1 = e1  e2 = e2
  Old = Old
  Done = Done
  None = None
  Failed = Failed
  Pages <- EveryPage
  Items = {1, 2, 3, 4}
  First = {1, 2}
  Entries <- MCEntries
  Faults = {"load", "refuse", "lost"}
  MaxEvents = 5
CHECK_DEADLOCK FALSE
INVARIANTS RefusedEntryIsKept EntryIsSavedOnce ListIsCurrent
