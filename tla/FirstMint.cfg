SPECIFICATION MintSpec
CONSTANTS
  U64_MAX = 63
  Words = 2
  MaxBlocks = 2
  Sizes = {1, 2, 3, 4, 5}
  a = a
  b = b
  long = long
  Payloads = {a, b, long}
  ShortUris <- MCShort
  AddressedUris <- MCAddressed
  Roots <- MCRoots
  MAX_MERKLE_DEPTH = 3
SYMMETRY MCSymmetry
INVARIANTS
  Unbiased
  FewRejected
  OneLeafPerIndex
  CommittedAccepted
CHECK_DEADLOCK FALSE
