CONSTANTS
  x1 = x1
  x2 = x2
  i1 = i1
  m1 = m1
  m2 = m2
  VTasks = {x1, x2}
  Ids = {i1}
  Metrics = {"cosine", "l2"}
  Metas <- Metadata
  MaxGen = 2
  MaxVFaults = 1
  Releases <- ThreeReleases
  MaxAttempts = 2
  MaxEnvelope = 2
  MaxJobs = 2
  MaxStarts = 2
  CacheConfigs <- SomeConfigs
  CKeys <- SomeKeys
  CValues = {m1, m2}
  Ttls = {1, 2}
  MaxKeyBytes = 6
  RelativeLimit = 1
  StartClock = 3
  MaxClock = 7
  MaxLate = 1
SPECIFICATION DataSpec
INVARIANTS ReadsFaithful NoStrayClient SettledHonestly RecordsTellTheTruth UpgradeStrandsNothing CacheKeepsItsWord
PROPERTIES LosersToldSo
SYMMETRY Interchangeable
CHECK_DEADLOCK FALSE
