SPECIFICATION Spec
CONSTANTS
  a1 = a1
  a2 = a2
  a3 = a3
  Assets <- MCAssets
  MaxSeq = 2
  MINT_ESCROW = 7
  CORE_FEE = 2
  Rents = {4, 6}
  CoreFees = {2, 3}
  Published <- MCAllButOne
  MaxGifts = 1
  pool_floor = 0
SYMMETRY MCSymmetry
INVARIANTS
  OwnMintOnly
  PaidOncePerAsset
  MintSound
PROPERTIES
  ClosedEmpty
CHECK_DEADLOCK FALSE
