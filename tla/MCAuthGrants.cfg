SPECIFICATION Spec
CONSTANTS
  Requests = {r1, r2, r3, r4}
  Grants = {g1}
  r1 = r1
  r2 = r2
  g1 = g1
  alexa = alexa
  web = web
  Clients <- MCClients
  Confidential <- MCConfidential
  None = None
  CodeTTL = 2
  PublicTTL = 3
  ConfidentialTTL = 3
  ReuseWindow = 1
  MaxTime = 3
SYMMETRY RequestSymmetry
INVARIANTS
  CodeRedeemedOnce
  ReuseJudgedByFirstRotation
  RevocationAnswered
  NothingAfterRevocation
PROPERTY
  ImplementsContract
