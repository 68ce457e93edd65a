SPECIFICATION Spec
CONSTANTS
  p1 = p1  p2 = p2  w1 = w1  w2 = w2  a1 = a1  a2 = a2
  Procs <- MCProcs
  None = None
  Orphan = Orphan
  Wallets <- TwoWallets
  Accounts <- TwoAccounts
  Content <- OwnOrForeign
  MaxPos = 2
  PageSize = 1
  Batch = 1
  Faults = {"crash", "stall"}
  MaxFaults = 1
  MaxRequests = 4
CHECK_DEADLOCK FALSE
SYMMETRY ProcSymmetry
INVARIANTS OneDraftPerImport ConfigurationFrozen EnabledIsConfigured
PROPERTIES DraftsFollowSettings
