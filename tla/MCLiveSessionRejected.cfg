SPECIFICATION Spec
CONSTANTS
  Users = {u1}
  SignedOut = SignedOut
  MaxAuths = 1
  MaxQueue = 1
  MaxFaults = 2
INVARIANT GivesUpOnRejectedToken
CHECK_DEADLOCK FALSE
