SPECIFICATION MCSpec
\* The loop ends, and the clock.
CHECK_DEADLOCK FALSE
CONSTANTS
  SessionIds = {s1, s2, s3, s4}
  Accounts = {o, p}
  NoAddr = NoAddr
  RegistryOwner = o
  Capabilities = {c1, c2, c3}
  GrantTrees <- MCGrantTrees
  Terms <- MCTerms
  Publications <- MCPublications
  Revocations <- MCRevocations
  MaxNow = 2
  Organizations = {g1, g2}
  AnchorImplementation = i1
  OtherContracts = {}
  InitialOwner = o
  Registrations <- MCRegistrations
  RootHashes = {h1}
  NoRoot = NoRoot
  Hashes = {h1}
  MaxEpoch = 1
  TimelockDelay = 1
  o = o
  p = p
  c1 = c1
  c2 = c2
  c3 = c3
  g1 = g1
  g2 = g2
INVARIANTS
  PrunesUpToLimit
  CapabilitiesListed
PROPERTIES
  OnlyRegistrarsEnable
  RootsInForceGuarded
