-------------------------- MODULE VaultLedgerProofs ---------------------------
(***************************************************************************)
(* Theorems of VaultLedger, the promise of a vault, for every collection,  *)
(* ratio, floor and number of users.                                       *)
(***************************************************************************)
EXTENDS VaultLedger, FiniteSetTheorems, SequenceTheorems, TLAPS

Claim == [user : Users, asset : Index \cup {NoAsset}]

\* What a swap handed in is kept for that claim alone.
Pledged == \A c \in 1..Len(claims) :
             claims[c].asset \in Index => holder[claims[c].asset] = HandedIn
Distinct == \A c, d \in 1..Len(claims) :
              c # d /\ claims[c].asset \in Index => claims[c].asset # claims[d].asset

LInv == LedgerTypeOK /\ Backed /\ Reserved /\ Pledged /\ Distinct

-----------------------------------------------------------------------------
(* Arithmetic and counting.                                                *)

LEMMA Constants ==
  ASSUME LedgerAssumption
  PROVE  /\ N \in Nat \ {0} /\ Ratio \in Nat \ {0} /\ Floor \in Nat /\ Supply \in Nat
         /\ InVault # HandedIn /\ NoAsset \notin Index
         /\ InVault \notin Users \cup Sinks /\ HandedIn \notin Users \cup Sinks
BY DEF LedgerAssumption, Index

LEMMA RatioMonotone ==
  ASSUME LedgerAssumption, NEW i \in Nat, NEW j \in Nat, i <= j
  PROVE  Ratio * i \in Nat /\ Ratio * j \in Nat /\ Ratio * i <= Ratio * j
<1>1. PICK d \in Nat : j = i + d
  <2>1. j - i \in Nat
    OBVIOUS
  <2> QED BY <2>1
<1>2. Ratio \in Nat
  BY Constants
<1>3. Ratio * j = Ratio * i + Ratio * d
  BY <1>1, <1>2
<1>4. Ratio * i \in Nat /\ Ratio * d \in Nat
  BY <1>1, <1>2
<1> QED BY <1>3, <1>4

LEMMA Counts ==
  ASSUME LedgerAssumption, NEW S, S \subseteq Index
  PROVE  IsFiniteSet(S) /\ Cardinality(S) \in Nat
<1>1. IsFiniteSet(Index)
  BY Constants, FS_Interval DEF Index
<1>2. IsFiniteSet(S)
  BY <1>1, FS_Subset
<1> QED BY <1>2, FS_CardinalityType

LEMMA Subsets ==
  ASSUME LedgerAssumption, NEW S, NEW T, S \subseteq T, T \subseteq Index
  PROVE  Cardinality(S) <= Cardinality(T)
<1>1. IsFiniteSet(T)
  BY Counts
<1> QED BY <1>1, FS_Subset

LEMMA Sets == Inventory \subseteq Index /\ Outside \subseteq Index
BY DEF Inventory, Outside

\* Whoever is paid gives up as much as the payment is for.
LEMMA StaysBacked ==
  ASSUME LedgerAssumption, LedgerTypeOK, Backed, NEW w \in Nat, NEW paid \in Nat,
         w + paid <= Cardinality(Outside) + Len(claims)
  PROVE  backing - Ratio * paid \in Nat /\ backing - Ratio * paid >= Ratio * w
<1>1. /\ Cardinality(Outside) + Len(claims) \in Nat
      /\ backing \in Nat /\ backing >= Ratio * (Cardinality(Outside) + Len(claims))
  BY Sets, Counts DEF LedgerTypeOK, Backed
<1>2. /\ Ratio * (w + paid) <= Ratio * (Cardinality(Outside) + Len(claims))
      /\ Ratio * (w + paid) \in Nat
      /\ Ratio * (Cardinality(Outside) + Len(claims)) \in Nat
  BY <1>1, RatioMonotone
<1>3. Ratio * (w + paid) = Ratio * w + Ratio * paid
  BY Constants
<1>4. Ratio * w \in Nat /\ Ratio * paid \in Nat
  BY RatioMonotone
<1> QED BY <1>1, <1>2, <1>3, <1>4

LEMMA ClaimFacts ==
  ASSUME LedgerTypeOK
  PROVE  /\ claims \in Seq(Claim) /\ Len(claims) \in Nat
         /\ \A c \in 1..Len(claims) :
              /\ claims[c].user \in Users
              /\ claims[c].asset \in Index \/ claims[c].asset = NoAsset
<1>1. claims \in Seq(Claim) /\ Len(claims) \in Nat
  BY DEF LedgerTypeOK, Claim
<1>2. \A c \in 1..Len(claims) : claims[c] \in Claim
  BY <1>1
<1> QED BY <1>1, <1>2 DEF Claim

LEMMA HolderFacts ==
  ASSUME LedgerTypeOK
  PROVE  /\ DOMAIN holder = Index
         /\ \A i \in Index : holder[i] \in Users \cup Sinks \cup {InVault, HandedIn}
         /\ \A u \in Users : purse[u] \in Nat
         /\ DOMAIN purse = Users /\ backing \in Nat
BY DEF LedgerTypeOK

-----------------------------------------------------------------------------
(* One lemma per action.                                                   *)

\* A claim joins the queue.
LEMMA AppendFacts ==
  ASSUME LedgerTypeOK, NEW e \in Claim, claims' = Append(claims, e)
  PROVE  /\ claims' \in Seq(Claim) /\ Len(claims') = Len(claims) + 1
         /\ \A c \in 1..Len(claims) : claims'[c] = claims[c]
         /\ claims'[Len(claims) + 1] = e /\ claims' # << >>
         /\ \A c \in 1..Len(claims') : c \in 1..Len(claims) \/ c = Len(claims) + 1
<1>1. claims \in Seq(Claim) /\ Len(claims) \in Nat
  BY ClaimFacts
<1>2. Len(claims') = Len(claims) + 1
  BY <1>1, AppendProperties
<1> QED BY <1>1, <1>2, AppendProperties

LEMMA BuyKeeps ==
  ASSUME LedgerAssumption, LInv, NEW u \in Users, Buy(u)
  PROVE  LInv'
<1> USE DEF Buy
<1> DEFINE e == [user |-> u, asset |-> NoAsset]
<1>1. e \in Claim
  BY DEF Claim
<1>2. /\ claims' \in Seq(Claim) /\ Len(claims') = Len(claims) + 1
      /\ \A c \in 1..Len(claims) : claims'[c] = claims[c]
      /\ claims'[Len(claims) + 1] = e /\ claims' # << >>
      /\ \A c \in 1..Len(claims') : c \in 1..Len(claims) \/ c = Len(claims) + 1
  BY <1>1, AppendFacts DEF LInv
<1>3. /\ DOMAIN purse = Users /\ purse[u] \in Nat /\ purse[u] - Ratio \in Nat
      /\ backing \in Nat /\ Ratio \in Nat /\ Len(claims) \in Nat
  BY HolderFacts, ClaimFacts, Constants DEF LInv
<1>4. /\ holder' = holder /\ backing' = backing + Ratio
      /\ Outside' = Outside /\ Inventory' = Inventory
  BY DEF Outside, Inventory
<1>5. LedgerTypeOK'
  <2>1. purse' \in [Users -> Nat]
    BY <1>3 DEF LInv, LedgerTypeOK
  <2> QED BY <1>2, <1>3, <1>4, <2>1 DEF LInv, LedgerTypeOK, Claim
<1>6. Backed'
  <2> DEFINE w == Cardinality(Outside) + Len(claims)
  <2>1. w \in Nat /\ backing >= Ratio * w
    BY Sets, Counts, <1>3 DEF LInv, Backed
  <2>2. Ratio * (w + 1) = Ratio * w + Ratio /\ Ratio * w \in Nat
    BY <1>3, <2>1
  <2>3. Cardinality(Outside) + (Len(claims) + 1) = w + 1
    <3>1. Cardinality(Outside) \in Nat
      BY Sets, Counts
    <3> QED BY <3>1, <1>3
  <2>4. backing + Ratio >= Ratio * (w + 1)
    <3> HIDE DEF w
    <3> QED BY <1>3, <2>1, <2>2
  <2> QED BY <1>2, <1>4, <2>3, <2>4 DEF Backed
<1>7. Reserved'
  <2>1. Cardinality(Inventory) \in Nat /\ Cardinality(Inventory) > Len(claims) + Floor
    BY Sets, Counts DEF Reserve
  <2>2. Cardinality(Inventory) >= (Len(claims) + 1) + Floor
    BY <1>3, <2>1, Constants
  <2> QED BY <1>2, <1>4, <2>2 DEF Reserved
<1>8. Pledged'
  BY <1>2, <1>4, Constants DEF LInv, Pledged
<1>9. Distinct'
  BY <1>2, Constants DEF LInv, Distinct
<1> QED BY <1>5, <1>6, <1>7, <1>8, <1>9 DEF LInv

LEMMA SwapKeeps ==
  ASSUME LedgerAssumption, LInv, NEW u \in Users, NEW i \in Index, Swap(u, i)
  PROVE  LInv'
<1> USE DEF Swap
<1> DEFINE e == [user |-> u, asset |-> i]
<1>1. e \in Claim
  BY DEF Claim
<1>2. /\ claims' \in Seq(Claim) /\ Len(claims') = Len(claims) + 1
      /\ \A c \in 1..Len(claims) : claims'[c] = claims[c]
      /\ claims'[Len(claims) + 1] = e /\ claims' # << >>
      /\ \A c \in 1..Len(claims') : c \in 1..Len(claims) \/ c = Len(claims) + 1
  BY <1>1, AppendFacts DEF LInv
<1>3. /\ holder[i] = u /\ holder'[i] = HandedIn
      /\ \A j \in Index : j # i => holder'[j] = holder[j]
      /\ holder' \in [Index -> Users \cup Sinks \cup {InVault, HandedIn}]
      /\ backing' = backing /\ purse' = purse /\ Len(claims) \in Nat
  BY ClaimFacts DEF LInv, LedgerTypeOK
<1>4. Inventory' = Inventory /\ Outside' = Outside \ {i} /\ i \in Outside
  BY <1>3, Constants DEF Inventory, Outside
<1>5. LedgerTypeOK'
  BY <1>2, <1>3 DEF LInv, LedgerTypeOK, Claim
<1>6. Cardinality(Outside') = Cardinality(Outside) - 1 /\ Cardinality(Outside) \in Nat
  BY <1>4, Sets, Counts, FS_RemoveElement
<1>7. Cardinality(Outside') \in Nat
  BY <1>4, Sets, Counts
<1>8. Backed'
  <2> DEFINE w == Cardinality(Outside') + Len(claims')
  <2>1. w \in Nat /\ w + 0 <= Cardinality(Outside) + Len(claims)
    BY <1>2, <1>3, <1>6, <1>7
  <2> HIDE DEF w
  <2>2. backing - Ratio * 0 >= Ratio * w
    BY <2>1, StaysBacked DEF LInv
  <2>3. backing - Ratio * 0 = backing
    BY Constants, HolderFacts DEF LInv
  <2> QED BY <1>3, <2>2, <2>3 DEF Backed, w
<1>9. Reserved'
  <2>1. Cardinality(Inventory) \in Nat /\ Cardinality(Inventory) > Len(claims) + Floor
    BY Sets, Counts DEF Reserve
  <2>2. Cardinality(Inventory) >= (Len(claims) + 1) + Floor
    BY <1>3, <2>1, Constants
  <2> QED BY <1>2, <1>4, <2>2 DEF Reserved
<1>10. Pledged'
  BY <1>2, <1>3, Constants DEF LInv, Pledged
<1>11. Distinct'
  <2>1. \A c \in 1..Len(claims) : claims[c].asset # i
    BY <1>3, Constants DEF LInv, Pledged
  <2> QED BY <1>2, <2>1 DEF LInv, Distinct
<1> QED BY <1>5, <1>8, <1>9, <1>10, <1>11 DEF LInv

LEMMA DrawKeeps ==
  ASSUME LedgerAssumption, LInv, NEW i \in Index, Draw(i)
  PROVE  LInv'
<1> USE DEF Draw
<1>1. /\ claims \in Seq(Claim) /\ claims # << >> /\ Len(claims) \in Nat
      /\ claims[1].user \in Users /\ 1 \in 1..Len(claims)
  <2>1. claims \in Seq(Claim) /\ claims # << >>
    BY ClaimFacts DEF LInv
  <2>2. Len(claims) \in Nat /\ 1 \in 1..Len(claims)
    BY <2>1
  <2> QED BY <2>1, <2>2, ClaimFacts DEF LInv
<1>2. /\ claims' \in Seq(Claim) /\ Len(claims') = Len(claims) - 1
      /\ \A c \in 1..Len(claims') : claims'[c] = claims[c + 1] /\ c + 1 \in 1..Len(claims)
  <2>1. claims' \in Seq(Claim) /\ Len(claims') = Len(claims) - 1
    BY <1>1, HeadTailProperties
  <2>2. \A c \in 1..Len(claims') : claims'[c] = claims[c + 1]
    BY <1>1, HeadTailProperties
  <2>3. \A c \in 1..Len(claims') : c + 1 \in 1..Len(claims)
    BY <1>1, <2>1
  <2> QED BY <2>1, <2>2, <2>3
<1>3. /\ holder' \in [Index -> Users \cup Sinks \cup {InVault, HandedIn}]
      /\ holder'[i] = claims[1].user /\ holder[i] = InVault
      /\ \A j \in Index : j # i =>
           holder'[j] = IF j = claims[1].asset THEN InVault ELSE holder[j]
      /\ backing' = backing /\ purse' = purse
  BY <1>1 DEF LInv, LedgerTypeOK, Inventory
<1>4. Outside' \subseteq Outside \cup {i} /\ Inventory \ {i} \subseteq Inventory'
  BY <1>3, Constants DEF Inventory, Outside
<1>5. LedgerTypeOK'
  BY <1>2, <1>3 DEF LInv, LedgerTypeOK, Claim
<1>6. /\ Cardinality(Outside') <= Cardinality(Outside) + 1
      /\ Cardinality(Outside) \in Nat /\ Cardinality(Outside') \in Nat
  <2>1. IsFiniteSet(Outside) /\ Cardinality(Outside) \in Nat
    BY Sets, Counts
  <2>2. Cardinality(Outside \cup {i}) <= Cardinality(Outside) + 1
    <3>1. Cardinality(Outside \cup {i}) =
            IF i \in Outside THEN Cardinality(Outside) ELSE Cardinality(Outside) + 1
      BY <2>1, FS_AddElement
    <3> QED BY <2>1, <3>1
  <2>3. Outside \cup {i} \subseteq Index /\ Outside' \subseteq Index
    BY <1>4, Sets
  <2>4. Cardinality(Outside') <= Cardinality(Outside \cup {i})
    BY <1>4, <2>3, Subsets
  <2>5. Cardinality(Outside') \in Nat /\ Cardinality(Outside \cup {i}) \in Nat
    BY <2>3, Counts
  <2> QED BY <2>1, <2>2, <2>4, <2>5
<1>7. Backed'
  <2> DEFINE w == Cardinality(Outside') + Len(claims')
  <2>1. w \in Nat /\ w + 0 <= Cardinality(Outside) + Len(claims)
    BY <1>1, <1>2, <1>6
  <2> HIDE DEF w
  <2>2. backing - Ratio * 0 >= Ratio * w
    BY <2>1, StaysBacked DEF LInv
  <2>3. backing - Ratio * 0 = backing
    BY Constants, HolderFacts DEF LInv
  <2> QED BY <1>3, <2>2, <2>3 DEF Backed, w
<1>8. Reserved'
  <2>1. i \in Inventory
    OBVIOUS
  <2>2. IsFiniteSet(Inventory) /\ Cardinality(Inventory) \in Nat
    BY Sets, Counts
  <2>3. Cardinality(Inventory \ {i}) = Cardinality(Inventory) - 1
    BY <2>1, <2>2, FS_RemoveElement
  <2>4. Inventory' \subseteq Index
    BY DEF Inventory
  <2>5. Cardinality(Inventory \ {i}) <= Cardinality(Inventory') /\ Cardinality(Inventory') \in Nat
    BY <1>4, <2>4, Subsets, Counts
  <2>6. Cardinality(Inventory) >= Len(claims) + Floor
    BY <1>1 DEF LInv, Reserved
  <2>7. Cardinality(Inventory') >= (Len(claims) - 1) + Floor
    BY <1>1, <2>2, <2>3, <2>5, <2>6, Constants
  <2> QED BY <1>2, <2>7 DEF Reserved
<1>9. Pledged'
  <2>1. ASSUME NEW c \in 1..Len(claims'), claims'[c].asset \in Index
        PROVE  holder'[claims'[c].asset] = HandedIn
    <3>1. claims'[c] = claims[c + 1] /\ c + 1 \in 1..Len(claims) /\ c + 1 # 1
      BY <1>2
    <3>2. /\ holder[claims[c + 1].asset] = HandedIn
          /\ claims[c + 1].asset # claims[1].asset
      BY <1>1, <2>1, <3>1 DEF LInv, Pledged, Distinct
    <3> QED BY <1>3, <2>1, <3>1, <3>2, Constants
  <2> QED BY <2>1 DEF Pledged
<1>10. Distinct'
  <2>1. ASSUME NEW c \in 1..Len(claims'), NEW d \in 1..Len(claims'), c # d,
               claims'[c].asset \in Index
        PROVE  claims'[c].asset # claims'[d].asset
    <3>1. /\ claims'[c] = claims[c + 1] /\ c + 1 \in 1..Len(claims)
          /\ claims'[d] = claims[d + 1] /\ d + 1 \in 1..Len(claims) /\ c + 1 # d + 1
      BY <1>2, <2>1
    <3> QED BY <2>1, <3>1 DEF LInv, Distinct
  <2> QED BY <2>1 DEF Distinct
<1> QED BY <1>5, <1>7, <1>8, <1>9, <1>10 DEF LInv

\* The n oldest claims are purchases and swaps, and the swaps handed in no more
\* NFTs than they are.
LEMMA OldestClaims ==
  ASSUME LedgerAssumption, LedgerTypeOK, NEW n \in 1..Len(claims)
  PROVE  /\ Cardinality(Purchases(n)) \in Nat /\ Cardinality(Swaps(n)) \in Nat
         /\ Cardinality(Purchases(n)) + Cardinality(Swaps(n)) = n
         /\ IsFiniteSet({claims[c].asset : c \in Swaps(n)})
         /\ Cardinality({claims[c].asset : c \in Swaps(n)}) <= Cardinality(Swaps(n))
         /\ {claims[c].asset : c \in Swaps(n)} \subseteq Index
<1> DEFINE P == Purchases(n)
           S == Swaps(n)
           G == {claims[c].asset : c \in S}
           f == [c \in S |-> claims[c].asset]
<1>1. n \in Nat /\ IsFiniteSet(1..n) /\ Cardinality(1..n) = n
  <2>1. n \in Nat /\ n >= 1
    BY ClaimFacts
  <2>2. IsFiniteSet(1..n) /\ Cardinality(1..n) = IF 1 > n THEN 0 ELSE n - 1 + 1
    BY <2>1, FS_Interval
  <2> QED BY <2>1, <2>2
<1>2. P \subseteq 1..n /\ S \subseteq 1..n /\ P \cup S = 1..n /\ P \cap S = {}
  BY DEF Purchases, Swaps
<1> HIDE DEF P, S
<1>3. IsFiniteSet(P) /\ IsFiniteSet(S)
  BY <1>1, <1>2, FS_Subset
<1>4. Cardinality(P) \in Nat /\ Cardinality(S) \in Nat
  BY <1>3, FS_CardinalityType
<1>5. Cardinality(P) + Cardinality(S) = n
  <2>1. Cardinality(P \cup S) = Cardinality(P) + Cardinality(S) - Cardinality(P \cap S)
    BY <1>3, FS_Union
  <2>2. Cardinality(P \cap S) = 0
    BY <1>2, FS_EmptySet
  <2>3. Cardinality(P \cup S) = n
    BY <1>1, <1>2
  <2> QED BY <1>1, <1>4, <2>1, <2>2, <2>3
<1>6. f \in Surjection(S, G)
  BY DEF Surjection
<1> HIDE DEF f
<1>7. IsFiniteSet(G) /\ Cardinality(G) <= Cardinality(S)
  <2> HIDE DEF G
  <2> QED BY <1>3, <1>6, FS_Surjection
<1>8. G \subseteq Index
  <2>1. ASSUME NEW c \in S
        PROVE  claims[c].asset \in Index
    <3>1. c \in 1..Len(claims) /\ claims[c].asset # NoAsset
      BY ClaimFacts DEF S, Swaps
    <3> QED BY <3>1, ClaimFacts
  <2> QED BY <2>1
<1> QED BY <1>4, <1>5, <1>7, <1>8 DEF P, S

LEMMA RefundKeeps ==
  ASSUME LedgerAssumption, LInv, NEW n \in 1..Len(claims), Refund(n)
  PROVE  LInv'
<1> USE DEF Refund
<1> DEFINE G == {claims[c].asset : c \in Swaps(n)}
           P == Purchases(n)
           S == Swaps(n)
<1>1. /\ claims \in Seq(Claim) /\ Len(claims) \in Nat /\ n \in Nat
      /\ n >= 1 /\ n <= Len(claims)
  BY ClaimFacts DEF LInv
<1>2. /\ Cardinality(P) \in Nat /\ Cardinality(S) \in Nat
      /\ Cardinality(P) + Cardinality(S) = n
      /\ IsFiniteSet(G) /\ Cardinality(G) <= Cardinality(S) /\ G \subseteq Index
  BY OldestClaims DEF LInv
<1>3. /\ claims' \in Seq(Claim) /\ Len(claims') = Len(claims) - n
      /\ \A c \in 1..Len(claims') : /\ claims'[c] = claims[n + c]
                                     /\ n + c \in 1..Len(claims) /\ n + c > n
  <2>1. \A c \in (n + 1)..Len(claims) : claims[c] \in Claim
    BY <1>1
  <2>2. /\ claims' \in Seq(Claim)
        /\ Len(claims') = IF n + 1 <= Len(claims) THEN Len(claims) - (n + 1) + 1 ELSE 0
        /\ \A c \in 1..(Len(claims) - (n + 1) + 1) : claims'[c] = claims[(n + 1) + c - 1]
    BY <1>1, <2>1, SubSeqProperties
  <2>3. Len(claims') = Len(claims) - n
    BY <1>1, <2>2
  <2>4. \A c \in 1..Len(claims') : claims'[c] = claims[n + c]
    <3>1. SUFFICES ASSUME NEW c \in 1..Len(claims')
                   PROVE  claims'[c] = claims[n + c]
      OBVIOUS
    <3>2. (n + 1) + c - 1 = n + c /\ c \in 1..(Len(claims) - (n + 1) + 1)
      BY <1>1, <2>3
    <3> QED BY <2>2, <3>2
  <2>5. \A c \in 1..Len(claims') : n + c \in 1..Len(claims) /\ n + c > n
    BY <1>1, <2>3
  <2> QED BY <2>2, <2>3, <2>4, <2>5
<1>4. /\ DOMAIN holder' = Index
      /\ \A i \in Index : i \notin G => holder'[i] = holder[i]
      /\ \A i \in Index : i \in G => holder'[i] \in Users
  <2>1. ASSUME NEW i \in Index, i \in G
        PROVE  holder'[i] \in Users
    <3> DEFINE c == CHOOSE c \in S : claims[c].asset = i
    <3>1. \E d \in S : claims[d].asset = i
      BY <2>1
    <3>2. holder'[i] = claims[c].user
      BY <3>1
    <3>3. c \in S
      BY <3>1
    <3> HIDE DEF c
    <3>4. c \in 1..Len(claims)
      BY <1>1, <3>3 DEF Swaps
    <3> QED BY <3>2, <3>4, ClaimFacts DEF LInv
  <2>2. ASSUME NEW i \in Index, i \notin G
        PROVE  holder'[i] = holder[i]
    <3>1. ~ \E d \in S : claims[d].asset = i
      BY <2>2
    <3> QED BY <3>1
  <2> QED BY <2>1, <2>2
<1>5. backing' = backing - Ratio * Cardinality(P)
  BY DEF Price
<1>6. purse' \in [Users -> Nat]
  <2>1. ASSUME NEW u \in Users
        PROVE  purse[u] + Ratio * Cardinality({c \in P : claims[c].user = u}) \in Nat
    <3>1. IsFiniteSet({c \in P : claims[c].user = u})
      <4>1. IsFiniteSet(1..n)
        BY <1>1, FS_Interval
      <4>2. {c \in P : claims[c].user = u} \subseteq 1..n
        BY DEF Purchases
      <4> QED BY <4>1, <4>2, FS_Subset
    <3>2. Cardinality({c \in P : claims[c].user = u}) \in Nat
      BY <3>1, FS_CardinalityType
    <3>3. Ratio * Cardinality({c \in P : claims[c].user = u}) \in Nat
      BY <3>2, Constants
    <3>4. purse[u] \in Nat
      BY HolderFacts DEF LInv
    <3> QED BY <3>3, <3>4
  <2> QED BY <2>1
<1> HIDE DEF G, P, S
<1>7. Outside' \subseteq Outside \cup G /\ Outside \cup G \subseteq Index
  BY <1>2, <1>4, Sets DEF Outside
<1>8. /\ Cardinality(Outside') \in Nat /\ Cardinality(Outside) \in Nat
      /\ Cardinality(Outside') <= Cardinality(Outside) + Cardinality(S)
  <2>1. IsFiniteSet(Outside) /\ Cardinality(Outside) \in Nat
    BY Sets, Counts
  <2>2. /\ Cardinality(Outside \cup G) =
             Cardinality(Outside) + Cardinality(G) - Cardinality(Outside \cap G)
    BY <1>2, <2>1, FS_Union
  <2>3. Cardinality(Outside \cap G) \in Nat /\ Cardinality(G) \in Nat
    <3>1. Outside \cap G \subseteq Index
      BY <1>2
    <3> QED BY <1>2, <3>1, Counts
  <2>4. Outside' \subseteq Index
    BY <1>7
  <2>5. Cardinality(Outside') <= Cardinality(Outside \cup G) /\ Cardinality(Outside') \in Nat
    BY <1>7, <2>4, Subsets, Counts
  <2> QED BY <1>2, <2>1, <2>2, <2>3, <2>5
<1>9. backing' \in Nat /\ Backed'
  <2> DEFINE w == Cardinality(Outside') + Len(claims')
             paid == Cardinality(P)
  <2>1. w \in Nat /\ paid \in Nat /\ w + paid <= Cardinality(Outside) + Len(claims)
    <3>1. Len(claims') \in Nat /\ Len(claims') = Len(claims) - n
      BY <1>1, <1>3
    <3>2. w \in Nat /\ paid \in Nat
      BY <1>2, <1>8, <3>1
    <3>3. w + paid <= Cardinality(Outside) + Len(claims)
      <4> DEFINE a == Cardinality(Outside')
                 b == Cardinality(Outside)
                 s == Cardinality(S)
                 l == Len(claims)
      <4>1. /\ a \in Nat /\ b \in Nat /\ s \in Nat /\ paid \in Nat /\ l \in Nat
            /\ n \in Nat /\ a <= b + s /\ paid + s = n /\ w = a + (l - n)
        BY <1>1, <1>2, <1>8, <3>1
      <4> HIDE DEF a, b, s, l, w, paid
      <4>2. w + paid = a + (l - s)
        BY <4>1, SMTT(30)
      <4>3. a + (l - s) <= b + l
        BY <4>1, SMTT(30)
      <4> QED BY <4>2, <4>3 DEF b, l
    <3> QED BY <3>2, <3>3
  <2> HIDE DEF w, paid
  <2>2. backing - Ratio * paid \in Nat /\ backing - Ratio * paid >= Ratio * w
    BY <2>1, StaysBacked DEF LInv
  <2>3. backing' = backing - Ratio * paid
    BY <1>5 DEF paid
  <2> QED BY <2>2, <2>3 DEF Backed, w
<1>10. LedgerTypeOK'
  <2>1. holder' \in [Index -> Users \cup Sinks \cup {InVault, HandedIn}]
    <3>1. holder' = [i \in Index |-> holder'[i]]
      BY <1>4
    <3>2. \A i \in Index : holder'[i] \in Users \cup Sinks \cup {InVault, HandedIn}
      BY <1>4, HolderFacts DEF LInv
    <3> HIDE DEF Refund
    <3> QED BY <3>1, <3>2
  <2> QED BY <1>3, <1>6, <1>9, <2>1 DEF LedgerTypeOK, Claim
<1>11. \A i \in Index : i \in G => holder[i] = HandedIn
  <2>1. ASSUME NEW c \in S
        PROVE  c \in 1..Len(claims) /\ claims[c].asset \in Index
    <3>1. c \in 1..Len(claims) /\ claims[c].asset # NoAsset
      BY <1>1 DEF S, Swaps
    <3> QED BY <3>1, ClaimFacts DEF LInv
  <2> QED BY <2>1 DEF G, LInv, Pledged, S
<1>12. Reserved'
  <2>1. Inventory \subseteq Inventory' /\ Inventory' \subseteq Index
    BY <1>4, <1>11, Constants DEF Inventory
  <2>2. Cardinality(Inventory) <= Cardinality(Inventory')
    BY <2>1, Subsets
  <2>3. Cardinality(Inventory) \in Nat /\ Cardinality(Inventory') \in Nat
    BY <2>1, Sets, Counts
  <2>4. Cardinality(Inventory) >= Len(claims) + Floor
    <3>1. claims # << >>
      BY <1>1
    <3> QED BY <3>1 DEF LInv, Reserved
  <2>5. Cardinality(Inventory') >= (Len(claims) - n) + Floor
    BY <1>1, <2>2, <2>3, <2>4, Constants
  <2> QED BY <1>3, <2>5 DEF Reserved
<1>13. Pledged'
  <2>1. ASSUME NEW c \in 1..Len(claims'), claims'[c].asset \in Index
        PROVE  holder'[claims'[c].asset] = HandedIn
    <3>1. claims'[c] = claims[n + c] /\ n + c \in 1..Len(claims) /\ n + c > n
      BY <1>3
    <3>2. holder[claims[n + c].asset] = HandedIn
      BY <2>1, <3>1 DEF LInv, Pledged
    <3>3. ASSUME NEW d \in S
          PROVE  claims[d].asset # claims[n + c].asset
      <4>1. d \in 1..Len(claims) /\ d # n + c
        BY <1>1, <3>1 DEF S, Swaps
      <4> QED BY <2>1, <3>1, <4>1 DEF LInv, Distinct
    <3>4. claims[n + c].asset \notin G
      BY <3>3 DEF G, S
    <3> QED BY <1>4, <2>1, <3>1, <3>2, <3>4
  <2> QED BY <2>1 DEF Pledged
<1>14. Distinct'
  <2>1. ASSUME NEW c \in 1..Len(claims'), NEW d \in 1..Len(claims'), c # d,
               claims'[c].asset \in Index
        PROVE  claims'[c].asset # claims'[d].asset
    <3>1. /\ claims'[c] = claims[n + c] /\ n + c \in 1..Len(claims)
          /\ claims'[d] = claims[n + d] /\ n + d \in 1..Len(claims) /\ n + c # n + d
      BY <1>1, <1>3, <2>1
    <3> QED BY <2>1, <3>1 DEF LInv, Distinct
  <2> QED BY <2>1 DEF Distinct
<1> QED BY <1>9, <1>10, <1>12, <1>13, <1>14 DEF LInv

\* Steps that leave the queue of claims as it is and take nothing out of the shop.
LEMMA ShopKeeps ==
  ASSUME LedgerAssumption, LInv, LedgerTypeOK', claims' = claims, Backed',
         Inventory \subseteq Inventory',
         \A i \in Index : holder[i] = HandedIn => holder'[i] = HandedIn
  PROVE  LInv'
<1>1. Reserved'
  <2>1. Inventory' \subseteq Index
    BY DEF Inventory
  <2>2. Cardinality(Inventory) <= Cardinality(Inventory')
    BY <2>1, Subsets
  <2>3. Cardinality(Inventory) \in Nat /\ Cardinality(Inventory') \in Nat
    BY <2>1, Sets, Counts
  <2>4. SUFFICES ASSUME claims # << >>
                 PROVE  Cardinality(Inventory') >= Len(claims) + Floor
    BY DEF Reserved
  <2>5. Cardinality(Inventory) >= Len(claims) + Floor
    BY <2>4 DEF LInv, Reserved
  <2>6. Len(claims) \in Nat /\ Floor \in Nat
    BY ClaimFacts, Constants DEF LInv
  <2> QED BY <2>2, <2>3, <2>5, <2>6
<1>2. Pledged' /\ Distinct'
  BY DEF LInv, Pledged, Distinct
<1> QED BY <1>1, <1>2 DEF LInv

LEMMA RedeemKeeps ==
  ASSUME LedgerAssumption, LInv, NEW u \in Users, NEW i \in Index, Redeem(u, i)
  PROVE  LInv'
<1> USE DEF Redeem
<1>1. /\ holder[i] = u /\ holder'[i] = InVault
      /\ \A j \in Index : j # i => holder'[j] = holder[j]
      /\ holder' \in [Index -> Users \cup Sinks \cup {InVault, HandedIn}]
      /\ purse[u] \in Nat /\ backing \in Nat /\ Ratio \in Nat /\ Len(claims) \in Nat
  BY HolderFacts, ClaimFacts, Constants DEF LInv, LedgerTypeOK
<1>2. i \in Outside /\ Outside' = Outside \ {i} /\ Inventory \subseteq Inventory'
  BY <1>1, Constants DEF Outside, Inventory
<1>3. /\ Cardinality(Outside') = Cardinality(Outside) - 1 /\ Cardinality(Outside) \in Nat
      /\ Cardinality(Outside') \in Nat
  <2>1. IsFiniteSet(Outside) /\ Cardinality(Outside) \in Nat
    BY Sets, Counts
  <2>2. Outside' \subseteq Index
    BY <1>2, Sets
  <2>3. Cardinality(Outside') \in Nat
    BY <2>2, Counts
  <2>4. Cardinality(Outside \ {i}) = Cardinality(Outside) - 1
    BY <1>2, <2>1, FS_RemoveElement
  <2> QED BY <1>2, <2>1, <2>3, <2>4
<1>4. backing' \in Nat /\ Backed'
  <2> DEFINE w == Cardinality(Outside') + Len(claims)
  <2>1. w \in Nat /\ w + 1 <= Cardinality(Outside) + Len(claims)
    BY <1>1, <1>3
  <2> HIDE DEF w
  <2>2. backing - Ratio * 1 \in Nat /\ backing - Ratio * 1 >= Ratio * w
    BY <2>1, StaysBacked DEF LInv
  <2>3. backing' = backing - Ratio * 1
    BY <1>1
  <2> QED BY <2>2, <2>3 DEF Backed, w
<1>5. LedgerTypeOK'
  <2>1. purse' \in [Users -> Nat]
    BY <1>1 DEF LInv, LedgerTypeOK
  <2> QED BY <1>1, <1>4, <2>1 DEF LInv, LedgerTypeOK
<1>6. \A j \in Index : holder[j] = HandedIn => holder'[j] = HandedIn
  BY <1>1, Constants
<1> QED BY <1>2, <1>4, <1>5, <1>6, ShopKeeps

LEMMA TradeKeeps ==
  ASSUME LedgerAssumption, LInv, NEW u \in Users, NEW i \in Index, NEW to \in Users \cup Sinks,
         Trade(u, i, to)
  PROVE  LInv'
<1> USE DEF Trade
<1>1. /\ holder[i] = u /\ holder'[i] = to
      /\ \A j \in Index : j # i => holder'[j] = holder[j]
      /\ holder' \in [Index -> Users \cup Sinks \cup {InVault, HandedIn}]
  BY DEF LInv, LedgerTypeOK
<1>2. Outside' = Outside /\ Inventory' = Inventory
  BY <1>1, Constants DEF Outside, Inventory
<1>3. LedgerTypeOK'
  BY <1>1 DEF LInv, LedgerTypeOK
<1>4. Backed'
  BY <1>2 DEF LInv, Backed
<1>5. \A j \in Index : holder[j] = HandedIn => holder'[j] = HandedIn
  BY <1>1, Constants
<1> QED BY <1>2, <1>3, <1>4, <1>5, ShopKeeps

LEMMA GiveKeeps ==
  ASSUME LedgerAssumption, LInv, NEW u \in Users, Give(u)
  PROVE  LInv'
<1> USE DEF Give
<1>1. purse[u] \in Nat /\ purse[u] - 1 \in Nat /\ backing \in Nat
  BY HolderFacts DEF LInv
<1>2. Outside' = Outside /\ Inventory' = Inventory
  BY DEF Outside, Inventory
<1>3. LedgerTypeOK'
  BY <1>1 DEF LInv, LedgerTypeOK
<1>4. Backed'
  <2> DEFINE w == Cardinality(Outside) + Len(claims)
  <2>1. w \in Nat
    BY Sets, Counts, ClaimFacts DEF LInv
  <2>2. Ratio * w \in Nat
    BY <2>1, Constants
  <2>3. backing >= Ratio * w
    BY DEF LInv, Backed
  <2> HIDE DEF w
  <2>4. backing + 1 >= Ratio * w
    BY <1>1, <2>2, <2>3
  <2> QED BY <1>2, <2>4 DEF Backed, w
<1> QED BY <1>2, <1>3, <1>4, ShopKeeps

-----------------------------------------------------------------------------
(* The invariant is inductive.                                             *)

LEMMA LedgerInductive ==
  ASSUME LedgerAssumption
  PROVE  Spec => []LInv
<1>1. ASSUME Init
      PROVE  LInv
  <2>1. LedgerTypeOK
    BY <1>1, Constants DEF Init, LedgerTypeOK
  <2>2. Outside = {} /\ Len(claims) = 0
    BY <1>1, Constants DEF Init, Outside
  <2>3. Backed
    <3>1. Cardinality(Outside) = 0
      BY <2>2, FS_EmptySet
    <3>2. Ratio * (0 + 0) = 0
      BY Constants
    <3> QED BY <1>1, <2>2, <3>1, <3>2 DEF Init, Backed
  <2>4. Reserved /\ Pledged /\ Distinct
    BY <1>1, <2>2 DEF Init, Reserved, Pledged, Distinct
  <2> QED BY <2>1, <2>3, <2>4 DEF LInv
<1>2. ASSUME LInv, [Next]_ledger
      PROVE  LInv'
  <2>1. CASE UNCHANGED ledger
    BY <1>2, <2>1 DEF ledger, LInv, LedgerTypeOK, Backed, Reserved, Pledged, Distinct,
                      Outside, Inventory
  <2>2. CASE Next
    BY <1>2, <2>2, BuyKeeps, SwapKeeps, DrawKeeps, RefundKeeps, RedeemKeeps, TradeKeeps,
       GiveKeeps DEF Next
  <2> QED BY <1>2, <2>1, <2>2
<1>3. Init => LInv
  BY <1>1
<1>4. LInv /\ [Next]_ledger => LInv'
  BY <1>2
<1> QED BY <1>3, <1>4, PTL DEF Spec

(* The shop's books are well formed; in particular no payment takes the vault's
   tokens below zero.                                                       *)
THEOREM LedgerTypes ==
  ASSUME LedgerAssumption
  PROVE  Spec => []LedgerTypeOK
<1>1. LInv => LedgerTypeOK
  BY DEF LInv
<1> QED BY <1>1, LedgerInductive, PTL

(* A vault is solvent: every NFT outside and every open claim has Ratio tokens of
   its own in it, whatever was drawn, refunded in batches, redeemed or traded. *)
THEOREM AlwaysBacked ==
  ASSUME LedgerAssumption
  PROVE  Spec => []Backed
<1>1. LInv => Backed
  BY DEF LInv
<1> QED BY <1>1, LedgerInductive, PTL

(* No accepted claim can find the shop empty, in whatever order claims are served,
   refunded and made: the NFTs that are left cover all of them and the floor. *)
THEOREM AlwaysReserved ==
  ASSUME LedgerAssumption
  PROVE  Spec => []Reserved
<1>1. LInv => Reserved
  BY DEF LInv
<1> QED BY <1>1, LedgerInductive, PTL
=============================================================================
