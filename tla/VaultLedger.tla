---------------------------- MODULE VaultLedger ----------------------------
(***************************************************************************)
(* What a vault promises, without queue tags, randomness, locks or crank:  *)
(* a shop of N NFTs where Ratio tokens buy a random NFT, an NFT can be     *)
(* swapped for another random one, and any NFT of the collection is        *)
(* redeemed for exactly Ratio tokens.  Claims are served in order and      *)
(* each is served or refunded.  HybridVault implements this.               *)
(***************************************************************************)
EXTENDS Integers, Sequences, FiniteSets

CONSTANTS
  Users, Sinks,      \* who can own an NFT
  N, Ratio, Supply,
  Floor,             \* NFTs that must remain once every claim is served
  InVault, HandedIn, \* holders of an NFT the shop has, or keeps for a swap
  NoAsset            \* the asset handed in with a purchase

\* What the theorems ask of the constants; VaultRefinesLedgerProofs shows it of
\* the constants of the program.
LedgerAssumption ==
  /\ N \in Nat \ {0} /\ Ratio \in Nat \ {0} /\ Supply \in Nat /\ Floor \in Nat
  /\ InVault # HandedIn
  /\ {InVault, HandedIn} \cap (Users \cup Sinks) = {}
  /\ NoAsset \notin 0..(N - 1)

VARIABLES holder, claims, purse, backing

ledger == <<holder, claims, purse, backing>>

Index == 0..(N - 1)
Inventory == {i \in Index : holder[i] = InVault}
Outside == {i \in Index : holder[i] \in Users \cup Sinks}

Init ==
  /\ holder = [i \in Index |-> InVault]
  /\ claims = << >>
  /\ purse = [u \in Users |-> Supply]
  /\ backing = 0

Reserve == Cardinality(Inventory) > Len(claims) + Floor

Buy(u) ==
  /\ Reserve
  /\ purse[u] >= Ratio
  /\ purse' = [purse EXCEPT ![u] = @ - Ratio]
  /\ backing' = backing + Ratio
  /\ claims' = Append(claims, [user |-> u, asset |-> NoAsset])
  /\ UNCHANGED holder

Swap(u, i) ==
  /\ Reserve
  /\ holder[i] = u
  /\ holder' = [holder EXCEPT ![i] = HandedIn]
  /\ claims' = Append(claims, [user |-> u, asset |-> i])
  /\ UNCHANGED <<purse, backing>>

(* The oldest claim gets an NFT of the inventory; only then does the NFT   *)
(* it handed in join the inventory.                                        *)
Draw(i) ==
  /\ claims # << >>
  /\ i \in Inventory
  /\ holder' = [j \in Index |-> IF j = i THEN claims[1].user
                                ELSE IF j = claims[1].asset THEN InVault
                                ELSE holder[j]]
  /\ claims' = Tail(claims)
  /\ UNCHANGED <<purse, backing>>

(* The n oldest claims are undone at once: each gets back its price, or    *)
(* the NFT it handed in.                                                   *)
Purchases(n) == {c \in 1..n : claims[c].asset = NoAsset}
Swaps(n) == {c \in 1..n : claims[c].asset # NoAsset}

Price(n) == Ratio * Cardinality(Purchases(n))

Refund(n) ==
  /\ n \in 1..Len(claims)
  /\ holder' = [i \in Index |->
                  IF \E c \in Swaps(n) : claims[c].asset = i
                  THEN claims[CHOOSE c \in Swaps(n) : claims[c].asset = i].user
                  ELSE holder[i]]
  /\ purse' = [u \in Users |-> purse[u] +
                  Ratio * Cardinality({c \in Purchases(n) : claims[c].user = u})]
  /\ backing' = backing - Price(n)
  /\ claims' = SubSeq(claims, n + 1, Len(claims))

Redeem(u, i) ==
  /\ holder[i] = u
  /\ holder' = [holder EXCEPT ![i] = InVault]
  /\ purse' = [purse EXCEPT ![u] = @ + Ratio]
  /\ backing' = backing - Ratio
  /\ UNCHANGED claims

Trade(u, i, to) ==
  /\ holder[i] = u
  /\ holder' = [holder EXCEPT ![i] = to]
  /\ UNCHANGED <<claims, purse, backing>>

Give(u) ==
  /\ purse[u] > 0
  /\ purse' = [purse EXCEPT ![u] = @ - 1]
  /\ backing' = backing + 1
  /\ UNCHANGED <<holder, claims>>

Next ==
  \/ \E u \in Users : Buy(u)
  \/ \E u \in Users, i \in Index : Swap(u, i)
  \/ \E i \in Index : Draw(i)
  \/ \E n \in 1..Len(claims) : Refund(n)
  \/ \E u \in Users, i \in Index : Redeem(u, i)
  \/ \E u \in Users, i \in Index, to \in Users \cup Sinks : Trade(u, i, to)
  \/ \E u \in Users : Give(u)

Spec == Init /\ [][Next]_ledger

-----------------------------------------------------------------------------

LedgerTypeOK ==
  /\ holder \in [Index -> Users \cup Sinks \cup {InVault, HandedIn}]
  /\ claims \in Seq([user : Users, asset : Index \cup {NoAsset}])
  /\ purse \in [Users -> Nat]
  /\ backing \in Nat

(* Every NFT outside and every claim, bought or swapped, is behind Ratio   *)
(* tokens of its own, so any of them can be paid whatever the others do.   *)
Backed == backing >= Ratio * (Cardinality(Outside) + Len(claims))

(* While claims are open the shop holds an NFT for each and Floor more.    *)
Reserved == claims # << >> => Cardinality(Inventory) >= Len(claims) + Floor

=============================================================================
