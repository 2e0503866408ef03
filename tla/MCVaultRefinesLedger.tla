------------------------ MODULE MCVaultRefinesLedger ------------------------
(***************************************************************************)
(* The vault next to the shop it implements: two users, two randomness     *)
(* accounts, one oracle.                                                   *)
(***************************************************************************)
EXTENDS VaultRefinesLedger, TLC

CONSTANTS u1, u2, r1, r2, o1

MCUsers == {u1, u2}
MCTwoAccounts == {r1, r2}
MCOneOracle == {o1}
MCOneKey == <<o1>>
MCSinks == {VaultAuthority}

MCPick(value, seq, n) == (value + seq) % n
MCSpread(seq) == seq

MCSymmetry == Permutations(MCUsers) \cup Permutations(MCTwoAccounts)

=============================================================================
