SPECIFICATION FairSpec
CONSTANTS
  Users = {u1, u2}
  SignedOut = SignedOut
  MaxAuths = 2
  MaxQueue = 2
  MaxFaults = 4
PROPERTIES
  GivesUpAfterTwoFaults
  StoppedStaysOffline
  Reopens
CHECK_DEADLOCK FALSE
