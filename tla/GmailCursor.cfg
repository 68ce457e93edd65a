SPECIFICATION MailboxSpec
CONSTANTS
  p1 = p1  p2 = p2  w1 = w1  w2 = w2  a1 = a1  a2 = a2
  Procs <- MCProcs
  None = None
  Orphan = Orphan
  Wallets <- OneWallet
  Accounts <- OneAccount
  Content <- ReceiptsAndNoise
  MaxPos = 4
  PageSize = 2
  Batch = 1
  Faults = {"api", "crash", "history", "page", "watch", "stall"}
  MaxFaults = 1
  MaxRequests = 2
CHECK_DEADLOCK FALSE
INVARIANTS NothingSkipped
PROPERTIES DeliversOnce EveryReceiptHandled
