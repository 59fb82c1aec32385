SPECIFICATION FairSpec
CONSTANTS
  Accounts = {a1}
  Addresses = {i1}
  Requests = {r1, r2, r3}
  MaxFailures = 2
  Window = 1
  MaxWait = 1
  None = None
INVARIANT
  OvershootBounded
PROPERTIES
  RefusedForRecentFailures
  OldFailuresExpire
