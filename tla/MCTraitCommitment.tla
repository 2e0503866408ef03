------------------------- MODULE MCTraitCommitment ---------------------------
(* TraitCommitment with collections of up to five assets, three payloads of which
   one has a URI that is too long, and every hash of depth two or less over the
   mintable leaves of assets 1 and 2 as a root.                             *)
EXTENDS TraitCommitment, TLC

CONSTANTS a, b, long

MCShort == {a, b}
MCAddressed == {a, b, long}

MCLeaves == {leaf_hash(i, p) : i \in 1..2, p \in MCShort}
Pairs(terms) == {node_hash(l, r) : l \in terms, r \in terms}
MCRoots == MCLeaves \cup Pairs(MCLeaves) \cup Pairs(MCLeaves \cup Pairs(MCLeaves))

MCSymmetry == Permutations(MCShort)
==============================================================================
