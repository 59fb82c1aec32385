SPECIFICATION Spec
CONSTANTS
  e1 = e1  c1 = c1  c2 = c2  c3 = c3
  u1 = u1  u2 = u2  k1 = k1  k2 = k2
  None = None
  Calls = {e1, c1, c2, c3}
  Earlier = {e1}
  Users = {u1, u2}
  Passkeys = {k1, k2}
  Handle <- MCHandle
  Offered = {"password", "passkey_options", "passkey", "factor_options", "factor", "register_options", "register", "remove", "sign_out"}
  ChallengeTTL = 1
  SessionTTL = 1
  FreshMfa = 0
  MaxTime = 1
  MaxCount = 2
SYMMETRY CallSymmetry
INVARIANTS
  ChallengeUsedOnce
  SecondFactorProven
  RemovedSignsNobodyIn
PROPERTY
  AcceptedUpgrades
