SPECIFICATION Spec
CHECK_DEADLOCK FALSE
CONSTANTS
  a1 = a1
  a2 = a2
  a3 = a3
  s1 = s1
  s2 = s2
  Accounts = {a1, a2, a3}
  Scopes = {s1, s2}
  Owner = a3
  RoleHolders = {a3}
  Roots <- MCRoots
  MaxScopes = 1
  MaxDepth = 2
  Publications <- MCPublications
  Revocations <- MCRevocations
  Chains <- MCChains
  MaxNow = 2
INVARIANTS
  LiveScopesWithinLimit
PROPERTIES
  ReAuthorizedHoldsNoRoot
  OnlyPublishingEnables
