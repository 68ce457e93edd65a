SPECIFICATION FairSpec
CONSTANTS
  c1 = c1  c2 = c2  c3 = c3
  None = None
  Failed = Failed
  Creds <- MCCreds
  Existing <- OneLive
  Faults = {"lost", "read"}
  MaxEvents = 3
INVARIANTS SecretsAreShown RevokedIsNotOffered
PROPERTIES FlagsGoDown
CHECK_DEADLOCK FALSE
