SPECIFICATION OwnedSessionSpec
CONSTANTS
  f1 = f1
  AgentWalletsOf <- MCAgentWalletsOf
  Wallets = {w1}
  Keys = {k1}
  Owners = {o1}
  SessionIds = {s1, s2, s3}
  Targets = {}
  NoAddr = NoAddr
  NoNullifier = NoNullifier
  Factories = {f1, f2}
  InitialFactory = NoAddr
  Self = self
  Managers = {self}
  Issuers = {i1}
  RegistryOwner = i1
  Roots = {r1}
  NoRoot = NoRoot
  Nullifiers = {n1}
  MaxSessions = 2
  MaxTargets = 1
  DayLength = 2
  TimelockDelay = 2
  Amounts = {1}
  MaxValues = {1}
  DailySpendLimits = {1}
  DailyTxLimits = {1}
  InitialOwner = o1
  MaxNow = 3
SYMMETRY Symmetry
INVARIANTS
  
  ListingFaithful
  LiveSessionsBounded
PROPERTIES
  FactoryChangesTimelocked
