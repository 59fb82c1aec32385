SPECIFICATION AppFairSpec
CONSTANTS
  Calls = {c1, c2, c3, c4, c5, c6}
  Earlier = {}
  u1 = u1  k1 = k1
  None = None
  Users = {u1}
  Passkeys = {k1}
  Handle <- MCHandle
  Offered = {"password", "factor_options", "factor", "register_options", "register"}
  ChallengeTTL = 1
  SessionTTL = 4
  FreshMfa = 2
  MaxTime = 1
  MaxCount = 2
  Requests = {r1}
  FlowCalls = {f1, f2, f3, f4}
  FlowOffered = {"get", "complete"}
  Queries <- MCQueries
  Clients <- SeededClients
  FirstParty <- SeededFirstParty
  Resources <- RegistryResources
  Scopes <- RegistryScopes
  AlwaysMfa <- RegistryAlwaysMfa
  RequestTTL = 3
  Emails = {a, b, c}
  Registered = {b}
  Checks = {i1}
  MaxFaults = 1
  Nothing = Nothing
INVARIANT PasswordStepReady
PROPERTIES RequestAnswered
