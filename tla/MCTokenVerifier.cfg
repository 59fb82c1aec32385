SPECIFICATION Spec
CONSTANTS
  Calls = {c1, c2}
  Keys = {k1, k2, k3}
  Grants = {g1}
  None = None
  Cooldown = 1
  MaxKeyAge = 2
  MaxFlight = 1
SYMMETRY VerifierSymmetry
INVARIANTS
  RetiredKeysStop
  CurrentKeyIsFound
  HeldKeyServes
