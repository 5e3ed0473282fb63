SPECIFICATION ApartSpec
CHECK_DEADLOCK FALSE
CONSTANTS
  NoAddr = NoAddr
  Accounts = {o1, o2}
  Implementations = {i1, i2}
  Salts <- MCSalts
  AutoSalt <- MCAutoSalt
  SessionManagers = {m1, m2}
  EntryPoints = {e1}
  Registries = {r1, r2}
  OwnRegistries = {r1, r2}
  Credentials = {0}
  MetadataRoots = {h1}
  NoMetadata = NoMetadata
  FirstAddress <- MCFirstAddress
  i1 = i1
  m1 = m1
  e1 = e1
  TimelockDelay = 1
  MaxWallets = 2
  MaxNow = 1
SYMMETRY Symmetry
INVARIANTS
  IdentitiesMatchWallets
  IdentityFromBirth
PROPERTIES
  SlotChangesTimelocked
