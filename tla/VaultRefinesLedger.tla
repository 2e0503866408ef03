------------------------- MODULE VaultRefinesLedger -------------------------
(***************************************************************************)
(* HybridVault implements VaultLedger: the pool and the returning FIFO are *)
(* the shop's inventory, the pending requests are its claims in order.     *)
(* Merging, locks, commits, reveals and the clock are invisible.           *)
(***************************************************************************)
EXTENDS HybridVault

CONSTANTS InVault, HandedIn

ASSUME HolderAssumption ==
  InVault # HandedIn /\ {InVault, HandedIn} \cap (Users \cup Sinks) = {}

LedgerHolder ==
  [i \in Index |-> IF i \in Drawable \cup Returning THEN InVault
                   ELSE IF i \in HeldIn THEN HandedIn
                   ELSE owner[i]]

LedgerClaims ==
  [c \in 1..(vault.next_seq - vault.next_settle_seq) |->
     [user |-> requests[HeadSeq + c - 1].user,
      asset |-> requests[HeadSeq + c - 1].handed_in_index]]

Ledger == INSTANCE VaultLedger WITH
  Floor <- pool_floor, NoAsset <- NoHandedIn,
  holder <- LedgerHolder, claims <- LedgerClaims, purse <- wallet, backing <- vault_tokens

(* Every instruction is a step of the ledger or invisible to it.           *)
ImplementsLedger == Ledger!Spec

(* Each NFT that Core says somebody else owns and each request that exists *)
(* have Ratio tokens of their own in the vault's account: by what is there *)
(* and not by the counters that invariants::check compares.                *)
Backed == Ledger!Backed

(* While requests wait, slots and returning FIFO hold an NFT for each of   *)
(* them and the pool floor besides, also after the requests that passed    *)
(* the floor check were followed by others, by draws and by expiries.      *)
Reserved == Ledger!Reserved

=============================================================================
