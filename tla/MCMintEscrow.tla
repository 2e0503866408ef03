---------------------------- MODULE MCMintEscrow -----------------------------
(* MintEscrow with model values for assets; the third's leaf may be lost.   *)
EXTENDS MintEscrow, TLC

CONSTANTS a1, a2, a3
MCAssets == {a1, a2, a3}
MCAllButOne == {a1, a2}
MCSymmetry == Permutations(MCAllButOne)
==============================================================================
