SPECIFICATION FairSpec
CONSTANTS
  r1 = r1  r2 = r2  manual = manual  gopay = gopay  octo = octo
  ref = ref
  None = None
  Requests <- TwoRequests
  Others <- OneOther
  Notifications <- Mixed
  Written <- ByHand
  Wallets <- BothWallets
  MaxConns = 2
  Faults = {"query", "statement", "gone"}
CHECK_DEADLOCK FALSE
INVARIANTS DraftWithEvent DuplicatesOnlyByRace
PROPERTIES AnsweredUnlessWedged
