SPECIFICATION Spec
CONSTANTS
  m1 = m1
  c1 = c1
  c2 = c2
  k1 = k1
  k2 = k2
  k3 = k3
  k4 = k4
  k5 = k5
  f1 = f1
  Person = Person
  U64_MAX = 31
  U32_MAX = 3
  TOTAL_SUPPLY_WHOLE_TOKENS = 2
  MAX_DECIMALS = 1
  MIN_COLLECTION_SIZE = 1
  Builds <- MCBuilds
  Mints <- MCOneMint
  Creators <- MCOneCreator
  ConfigKeys <- MCOneConfig
  PoolConfig <- MCPoolConfig
  FakeKeys <- MCNoFake
  Params <- MCParams
  Upgrades = TRUE
  Foreigners = FALSE
INVARIANT
  FeeIsLeast
CHECK_DEADLOCK FALSE
