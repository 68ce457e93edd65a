SPECIFICATION CsvSpec
CONSTANTS
  None = None
  Wallets <- TwoWallets
  Categories <- OneCategory
  Files <- MCFiles
  Faults = {"read", "write", "lost"}
  MaxEvents = 5
INVARIANTS ReadsBack BookedRowsAreSound
PROPERTIES SuccessIsComplete
CHECK_DEADLOCK FALSE
