--------------------------- MODULE MCHybridVault ---------------------------
(***************************************************************************)
(* HybridVault on small instances: the hashes of the program become small  *)
(* functions that still depend on each of their arguments.                 *)
(***************************************************************************)
EXTENDS HybridVault, TLC

CONSTANTS u1, r1, r2, o1, o2, o3

MCOneUser == {u1}
MCTwoAccounts == {r1, r2}
MCOneAccount == {r1}

MCPick(value, seq, n) == (value + seq) % n
MCSpread(seq) == seq

MCTwoOracles == {o1, o2}
MCTwoKeys == <<o1, o2>>
MCThreeOracles == {o1, o2, o3}
MCThreeKeys == <<o1, o2, o3>>
MCFlakyOracle == {o2}

MCAccountSymmetry == Permutations(MCTwoAccounts)

=============================================================================
