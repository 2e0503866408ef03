SPECIFICATION FairSpec
CONSTANTS
  u1 = u1
  r1 = r1
  r2 = r2
  o1 = o1
  o2 = o2
  o3 = o3
  NoKey = NoKey
  NoValue = NoValue
  VaultAuthority = VaultAuthority
  Unminted = Unminted
  Users <- MCOneUser
  RandAccounts <- MCOneAccount
  Oracles <- MCTwoOracles
  oracle_keys <- MCTwoKeys
  Flaky <- MCFlakyOracle
  Lapses = {"stale"}
  Sinks = {}
  Values = {0}
  Pick <- MCPick
  Spread <- MCSpread
  N = 3
  Ratio = 2
  Supply = 4
  MIN_POOL_FLOOR = 0
  POOL_FLOOR_BPS = 200
  MAX_MERGE_PER_IX = 1
  MAX_MERGE_PER_CALL = 1
  MAX_RECOMMITS = 1
  MAX_EXPIRE_PER_CALL = 2
  REVEAL_TIMEOUT_SLOTS = 0
  EXPIRE_GRACE_SLOTS = 1
  MaxSeq = 1
  MaxDonated = 0
  Upgrades = FALSE
PROPERTY StuckHeadAdvances
CHECK_DEADLOCK FALSE
