SPECIFICATION Spec
CONSTANTS
  u1 = u1
  u2 = u2
  r1 = r1
  r2 = r2
  o1 = o1
  NoKey = NoKey
  NoValue = NoValue
  VaultAuthority = VaultAuthority
  Unminted = Unminted
  Users <- MCUsers
  RandAccounts <- MCTwoAccounts
  Oracles <- MCOneOracle
  oracle_keys <- MCOneKey
  Flaky = {}
  Lapses = {"stale"}
  Sinks <- MCSinks
  Values = {0, 1}
  Pick <- MCPick
  Spread <- MCSpread
  N = 3
  InVault = InVault
  HandedIn = HandedIn
  Ratio = 1
  Supply = 3
  MIN_POOL_FLOOR = 0
  POOL_FLOOR_BPS = 200
  MAX_MERGE_PER_IX = 1
  MAX_MERGE_PER_CALL = 1
  MAX_RECOMMITS = 0
  MAX_EXPIRE_PER_CALL = 2
  REVEAL_TIMEOUT_SLOTS = 0
  EXPIRE_GRACE_SLOTS = 0
  MaxSeq = 2
  MaxDonated = 1
  Upgrades = TRUE
SYMMETRY MCSymmetry
INVARIANTS
  ReleaseSound
PROPERTIES
  SurplusNeverSpent
  ImplementsLedger
CHECK_DEADLOCK FALSE
