SPECIFICATION Spec
CONSTANTS
  f1 = f1
  AgentWalletsOf <- MCAgentWalletsOf
  Wallets = {w1}
  Keys = {k1}
  Owners = {o1}
  SessionIds = {s1, s2}
  Targets = {t1}
  NoAddr = NoAddr
  NoNullifier = NoNullifier
  Factories = {f1}
  InitialFactory = f1
  Self = self
  Managers = {self, other}
  Issuers = {i1}
  RegistryOwner = i1
  Roots = {r1}
  NoRoot = NoRoot
  Nullifiers = {n1, n2}
  MaxSessions = 1
  MaxTargets = 1
  DayLength = 2
  TimelockDelay = 2
  Amounts = {1}
  MaxValues = {1}
  DailySpendLimits = {}
  DailyTxLimits = {}
  InitialOwner = o1
  MaxNow = 2
SYMMETRY Symmetry
INVARIANTS
  NullifierOpensOneSession
PROPERTIES
  SessionTermsFixed
