SPECIFICATION AccessSpec
CONSTANTS
  Calls = {e1, c1, c2}
  Earlier = {e1}
  u1 = u1  k1 = k1
  None = None
  Users = {u1}
  Passkeys = {k1}
  Handle <- MCHandle
  Offered = {"factor_options", "factor", "remove"}
  ChallengeTTL = 1
  SessionTTL = 2
  FreshMfa = 0
  MaxTime = 1
  MaxCount = 1
  Requests = {r1}
  FlowCalls = {f1, f2}
  FlowOffered = {"complete", "deny"}
  Queries <- MCQueries
  Clients <- SeededClients
  FirstParty <- SeededFirstParty
  Resources <- RegistryResources
  Scopes <- RegistryScopes
  AlwaysMfa <- RegistryAlwaysMfa
  RequestTTL = 1
  TokenCalls = {t1}
  Accesses = {a1}
  Confidential <- SeededWithSecret
  AccessTTL = 0
  Leeway = 0
  StepUpMaxAge = 0
SYMMETRY MCSymmetry
CONSTRAINTS
  Undecided
  ConsentAsked
INVARIANTS
  GrantMeetsPolicy
  GrantFactorProven
  NothingAfterAnswer
  ServedIsProven
  ServedAsApproved
  StepUpSuffices
PROPERTIES RevokedRunsOut
