SPECIFICATION FairSpec
CONSTANTS
  rent = rent  gym = gym  r1 = r1  r2 = r2  e1 = e1
  None = None
  MonthStart <- MCMonthStart
  LastMonth = 6
  FirstWeekday = 3
  Rules <- MCRules
  Runs <- MCRuns
  Edits <- MCEdits
  Payloads <- MCPayloads
  Moments <- MCMoments
  Start <- MCStart
  MaxFaults = 1
CHECK_DEADLOCK FALSE
INVARIANTS OncePerDate
PROPERTIES BooksWhatIsDue GoesToFollowingDate DueIsHandled
