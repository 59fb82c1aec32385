SPECIFICATION Spec
CONSTANTS
  Challenges = {c1, c2}
  Emails = {e1, e2}
  Requests = {r1, r2}
  MaxAttempts = 1
  Ttl = 2
  ResendAfter = 1
  MaxCodes = 2
  MaxDrops = 1
  MaxTime = 2
  None = None
SYMMETRY SignUpSymmetry
INVARIANTS
  AccountsAreProven
  SpentByItsAccount
  OnlyCreatorSignedIn
  GuessesBounded
CHECK_DEADLOCK FALSE
