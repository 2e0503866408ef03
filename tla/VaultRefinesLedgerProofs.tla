---------------------- MODULE VaultRefinesLedgerProofs ----------------------
(***************************************************************************)
(* HybridVault implements VaultLedger, for every value of the constants:   *)
(* each instruction is one step of the shop or invisible to it.            *)
(***************************************************************************)
EXTENDS VaultRefinesLedger, HybridVaultCustody

Shelf == SlotSet(pool) \cup BackSet(pool)
ClaimOf(req) == [user |-> req.user, asset |-> req.handed_in_index]
Claim == [user : Users, asset : Index \cup {NoHandedIn}]

(* LedgerClaims of any vault and requests.                                 *)
ClaimsOf(v, reqs) ==
  [c \in 1..(v.next_seq - v.next_settle_seq) |-> ClaimOf(reqs[v.next_settle_seq + c - 1])]

-----------------------------------------------------------------------------
(* The mapping.                                                            *)

LEMMA MapNames ==
  /\ LedgerClaims = ClaimsOf(vault, requests)
  /\ LedgerClaims' = ClaimsOf(vault', requests')
  /\ LedgerHolder = [i \in Index |-> IF i \in Shelf THEN InVault
                                     ELSE IF i \in HeldIn THEN HandedIn ELSE owner[i]]
  /\ LedgerHolder' = [i \in Index |-> IF i \in Shelf' THEN InVault
                                      ELSE IF i \in HeldIn' THEN HandedIn ELSE owner'[i]]
BY PlaceNames DEF LedgerClaims, LedgerHolder, ClaimsOf, ClaimOf, HeadSeq, Shelf, Drawable, Returning, SlotSet, BackSet

(* There are as many claims as pending requests, in their order.           *)
LEMMA ClaimsType ==
  ASSUME NEW v, v.next_seq \in Nat, v.next_settle_seq \in Nat,
         v.next_settle_seq <= v.next_seq, NEW reqs,
         \A s \in v.next_settle_seq..(v.next_seq - 1) : reqs[s] \in RequestType
  PROVE  /\ ClaimsOf(v, reqs) \in Seq(Claim)
         /\ Len(ClaimsOf(v, reqs)) = v.next_seq - v.next_settle_seq
         /\ \A c \in 1..(v.next_seq - v.next_settle_seq) :
              ClaimsOf(v, reqs)[c] = ClaimOf(reqs[v.next_settle_seq + c - 1])
<1> DEFINE n == v.next_seq - v.next_settle_seq
<1>1. n \in Nat
  OBVIOUS
<1>2. ASSUME NEW c \in 1..n PROVE ClaimOf(reqs[v.next_settle_seq + c - 1]) \in Claim
  <2>1. v.next_settle_seq + c - 1 \in v.next_settle_seq..(v.next_seq - 1)
    OBVIOUS
  <2>2. reqs[v.next_settle_seq + c - 1] \in RequestType
    BY <2>1
  <2> QED BY <2>2, RequestFacts DEF ClaimOf, Claim
<1> QED BY <1>1, <1>2 DEF ClaimsOf

(* The claims of a state of the vault.                                     *)
LEMMA ClaimsNow ==
  ASSUME TypeOK
  PROVE  /\ LedgerClaims \in Seq(Claim)
         /\ Len(LedgerClaims) = vault.next_seq - vault.next_settle_seq
         /\ Len(LedgerClaims) \in Nat
         /\ \A c \in 1..Len(LedgerClaims) :
              /\ HeadSeq + c - 1 \in Pending
              /\ LedgerClaims[c] = ClaimOf(requests[HeadSeq + c - 1])
<1>1. /\ vault.next_seq \in Nat /\ vault.next_settle_seq \in Nat
      /\ vault.next_settle_seq <= vault.next_seq
      /\ \A s \in vault.next_settle_seq..(vault.next_seq - 1) : requests[s] \in RequestType
  BY QueueFacts DEF Pending
<1>2. /\ ClaimsOf(vault, requests) \in Seq(Claim)
      /\ Len(ClaimsOf(vault, requests)) = vault.next_seq - vault.next_settle_seq
      /\ \A c \in 1..(vault.next_seq - vault.next_settle_seq) :
           ClaimsOf(vault, requests)[c] = ClaimOf(requests[vault.next_settle_seq + c - 1])
  BY <1>1, ClaimsType
<1> QED BY <1>1, <1>2, MapNames DEF HeadSeq, Pending

(* The claims of the state after a step.                                   *)
LEMMA ClaimsNext ==
  ASSUME TypeOK'
  PROVE  /\ LedgerClaims' \in Seq(Claim)
         /\ Len(LedgerClaims') = vault'.next_seq - vault'.next_settle_seq
         /\ \A c \in 1..Len(LedgerClaims') :
              /\ HeadSeq' + c - 1 \in Pending'
              /\ LedgerClaims'[c] = ClaimOf(requests'[HeadSeq' + c - 1])
<1>1. /\ vault'.next_seq \in Nat /\ vault'.next_settle_seq \in Nat
      /\ vault'.next_settle_seq <= vault'.next_seq
      /\ \A s \in vault'.next_settle_seq..(vault'.next_seq - 1) : requests'[s] \in RequestType
  BY DEF TypeOK, Pending, VaultType
<1>2. /\ ClaimsOf(vault', requests') \in Seq(Claim)
      /\ Len(ClaimsOf(vault', requests')) = vault'.next_seq - vault'.next_settle_seq
      /\ \A c \in 1..(vault'.next_seq - vault'.next_settle_seq) :
           ClaimsOf(vault', requests')[c] = ClaimOf(requests'[vault'.next_settle_seq + c - 1])
  BY <1>1, ClaimsType
<1> QED BY <1>1, <1>2, MapNames DEF HeadSeq, Pending

(* A request is a claim at the end.                                        *)
LEMMA ClaimsAppend ==
  ASSUME TypeOK, TypeOK', vault'.next_seq = vault.next_seq + 1,
         vault'.next_settle_seq = vault.next_settle_seq,
         \A s \in Pending : requests'[s] = requests[s],
         NEW claim \in Claim, ClaimOf(requests'[vault.next_seq]) = claim
  PROVE  LedgerClaims' = Append(LedgerClaims, claim)
<1> DEFINE n == Len(LedgerClaims)
           longer == Append(LedgerClaims, claim)
<1>1. /\ LedgerClaims \in Seq(Claim) /\ LedgerClaims' \in Seq(Claim)
      /\ n \in Nat /\ n = vault.next_seq - vault.next_settle_seq
      /\ vault.next_seq \in Nat /\ vault.next_settle_seq \in Nat
      /\ Len(LedgerClaims') = n + 1
      /\ HeadSeq' = HeadSeq /\ HeadSeq = vault.next_settle_seq
  BY ClaimsNow, ClaimsNext, QueueFacts DEF HeadSeq
<1>2. /\ longer \in Seq(Claim) /\ Len(longer) = n + 1
      /\ \A c \in 1..n : longer[c] = LedgerClaims[c]
      /\ longer[n + 1] = claim
  BY <1>1, AppendProperties
<1> HIDE DEF n, longer
<1>3. ASSUME NEW c \in 1..(n + 1) PROVE LedgerClaims'[c] = longer[c]
  <2>1. LedgerClaims'[c] = ClaimOf(requests'[HeadSeq + c - 1])
    BY <1>1, ClaimsNext
  <2>2. CASE c \in 1..n
    <3>1. HeadSeq + c - 1 \in Pending /\ LedgerClaims[c] = ClaimOf(requests[HeadSeq + c - 1])
      BY <2>2, ClaimsNow DEF n
    <3> QED BY <1>2, <2>1, <2>2, <3>1
  <2>3. CASE c = n + 1
    <3>1. HeadSeq + c - 1 = vault.next_seq
      BY <1>1, <2>3
    <3> QED BY <1>2, <2>1, <2>3, <3>1
  <2>4. c \in 1..n \/ c = n + 1
    BY <1>1
  <2> QED BY <2>2, <2>3, <2>4
<1> QED BY <1>1, <1>2, <1>3, SeqEqual DEF longer

(* Requests that end are the first claims; the others are left as they are. *)
LEMMA ClaimsServed ==
  ASSUME TypeOK, TypeOK', NEW d \in 0..Len(LedgerClaims),
         vault'.next_seq = vault.next_seq,
         vault'.next_settle_seq = vault.next_settle_seq + d,
         \A s \in Pending' : ClaimOf(requests'[s]) = ClaimOf(requests[s])
  PROVE  LedgerClaims' = SubSeq(LedgerClaims, d + 1, Len(LedgerClaims))
<1> DEFINE n == Len(LedgerClaims)
           rest == SubSeq(LedgerClaims, d + 1, n)
<1>1. /\ LedgerClaims \in Seq(Claim) /\ LedgerClaims' \in Seq(Claim)
      /\ n \in Nat /\ n = vault.next_seq - vault.next_settle_seq
      /\ vault.next_seq \in Nat /\ vault.next_settle_seq \in Nat
      /\ Len(LedgerClaims') = n - d
      /\ HeadSeq' = HeadSeq + d /\ HeadSeq = vault.next_settle_seq
  BY ClaimsNow, ClaimsNext, QueueFacts DEF HeadSeq
<1>2. d \in Nat /\ n - d \in Nat
  BY <1>1
<1>3. \A i \in (d + 1)..n : LedgerClaims[i] \in Claim
  <2>1. \A i \in 1..n : LedgerClaims[i] \in Claim
    BY <1>1, ElementOfSeq
  <2> QED BY <1>1, <1>2, <2>1
<1>4. /\ rest \in Seq(Claim) /\ Len(rest) = n - d
      /\ \A c \in 1..(n - d) : rest[c] = LedgerClaims[d + c]
  <2>1. /\ rest \in Seq(Claim)
        /\ Len(rest) = IF d + 1 <= n THEN n - (d + 1) + 1 ELSE 0
        /\ \A c \in 1..(n - (d + 1) + 1) : rest[c] = LedgerClaims[d + 1 + c - 1]
    <3>1. d + 1 \in Int /\ n \in Int
      BY <1>1, <1>2
    <3> HIDE DEF n
    <3> QED BY <1>3, <3>1, SubSeqProperties
  <2>2. n - (d + 1) + 1 = n - d /\ \A c \in 1..(n - d) : d + 1 + c - 1 = d + c
    BY <1>1, <1>2
  <2>3. Len(rest) = n - d
    <3> HIDE DEF rest, n
    <3> QED BY <1>1, <1>2, <2>1
  <2> HIDE DEF rest, n
  <2> QED BY <2>1, <2>2, <2>3
<1> HIDE DEF n, rest
<1>5. ASSUME NEW c \in 1..(n - d) PROVE LedgerClaims'[c] = rest[c]
  <2>1. /\ LedgerClaims'[c] = ClaimOf(requests'[HeadSeq' + c - 1])
        /\ HeadSeq' + c - 1 \in Pending'
    BY <1>1, ClaimsNext
  <2>2. HeadSeq' + c - 1 = HeadSeq + (d + c) - 1 /\ d + c \in 1..n
    <3>1. c \in Nat /\ d \in Nat /\ n \in Nat /\ HeadSeq \in Nat
      BY <1>1, <1>2
    <3>2. d + c \in 1..n
      BY <1>2, <3>1
    <3> QED BY <1>1, <3>1, <3>2
  <2>3. LedgerClaims[d + c] = ClaimOf(requests[HeadSeq + (d + c) - 1])
    BY <2>2, ClaimsNow DEF n
  <2> QED BY <1>4, <2>1, <2>2, <2>3
<1> QED BY <1>1, <1>4, <1>5, SeqEqual DEF n, rest

(* Where the NFTs are, as the shop sees them.                              *)
LEMMA HolderFacts ==
  ASSUME NEW i \in Index
  PROVE  /\ i \in Shelf => LedgerHolder[i] = InVault
         /\ (i \notin Shelf /\ i \in HeldIn) => LedgerHolder[i] = HandedIn
         /\ (i \notin Shelf /\ i \notin HeldIn) => LedgerHolder[i] = owner[i]
BY MapNames

(* What the shop does not see.                                             *)
LEMMA Invisible ==
  ASSUME TypeOK, TypeOK', Shelf' = Shelf, UNCHANGED <<owner, wallet, vault_tokens>>,
         vault'.next_seq = vault.next_seq, vault'.next_settle_seq = vault.next_settle_seq,
         \A s \in Pending : /\ requests'[s].kind = requests[s].kind
                            /\ ClaimOf(requests'[s]) = ClaimOf(requests[s])
  PROVE  UNCHANGED Ledger!ledger
<1>1. Pending' = Pending
  BY DEF Pending
<1>2. HeldIn' = HeldIn
  BY <1>1, SameRequests DEF ClaimOf
<1>3. LedgerHolder' = LedgerHolder
  BY <1>2, MapNames
<1>4. LedgerClaims \in Seq(Claim) /\ Len(LedgerClaims) \in Nat
  BY ClaimsNow
<1>5. vault'.next_settle_seq = vault.next_settle_seq + 0 /\ 0 \in 0..Len(LedgerClaims)
  BY <1>4, QueueFacts
<1>6. LedgerClaims' = SubSeq(LedgerClaims, 0 + 1, Len(LedgerClaims))
  BY <1>1, <1>5, ClaimsServed
<1>7. LedgerClaims' = LedgerClaims
  BY <1>4, <1>6, SubSeqFull
<1> QED BY <1>3, <1>7 DEF Ledger!ledger

-----------------------------------------------------------------------------
(* The steps.                                                              *)

(* The parts of TypeOK that the steps below ask for.                       *)
LEMMA StepFacts ==
  ASSUME IInv, CInv
  PROVE  /\ TypeOK /\ pool \in PoolType(Index) /\ owner \in [Index -> Holders]
         /\ wallet \in [Users -> Nat]
         /\ Distinct(pool) /\ HeldApart /\ KindsCounted /\ Owned
         /\ Shelf \subseteq Index /\ HeldIn \subseteq Index /\ Shelf \cap HeldIn = {}
         /\ Cardinality(Shelf) = total(pool)
<1>1. /\ TypeOK /\ pool \in PoolType(Index) /\ owner \in [Index -> Holders]
      /\ wallet \in [Users -> Nat]
      /\ Distinct(pool) /\ HeldApart /\ KindsCounted /\ Owned
  BY PoolFacts DEF IInv, TypeOK, CInv
<1>2. HeldIn \subseteq Index
  BY DEF HeldIn, IInv, DrawsFit, PendingOf
<1>3. Shelf \cap HeldIn = {}
  BY <1>1 DEF HeldApart, HeldIn, Shelf
<1>4. /\ IsFiniteSet(SlotSet(pool)) /\ Cardinality(SlotSet(pool)) = pool_len(pool)
      /\ IsFiniteSet(BackSet(pool)) /\ Cardinality(BackSet(pool)) = incoming_len(pool)
      /\ SlotSet(pool) \cap BackSet(pool) = {}
      /\ SlotSet(pool) \subseteq Index /\ BackSet(pool) \subseteq Index
  BY <1>1, PlacesCardinality
<1>5. Cardinality(Shelf) = pool_len(pool) + incoming_len(pool)
  BY <1>4, DisjointCardinality DEF Shelf
<1> QED BY <1>1, <1>2, <1>3, <1>4, <1>5 DEF Shelf, total

(* unwrap_asset pays the ratio and takes the NFT in: a redemption.         *)
LEMMA UnwrapRedeems ==
  ASSUME IInv, IInv', CInv, NEW u \in Users, NEW i \in Index, Unwrap(u, i)
  PROVE  Ledger!Redeem(u, i)
<1>1. /\ owner[i] = u /\ owner' = [owner EXCEPT ![i] = VaultAuthority]
      /\ pool' = incoming_push(pool, i, vault.next_seq)
      /\ wallet' = [wallet EXCEPT ![u] = @ + Ratio]
      /\ vault_tokens' = vault_tokens - Ratio
      /\ requests' = requests
  BY DEF Unwrap, Write, ReleasedBooks, Books, ReleaseTag, draws
<1>2. vault'.next_seq = vault.next_seq /\ vault'.next_settle_seq = vault.next_settle_seq
  BY UnwrapRemains
<1>3. i \notin Shelf /\ i \notin HeldIn
  BY <1>1, StepFacts, OutsideFacts DEF Shelf
<1>4. Shelf' = Shelf \cup {i}
  <2>1. /\ SlotSet(pool') = SlotSet(pool)
        /\ BackSet(pool') = BackSet(pool) \cup {i}
    <3>1. vault.next_seq \in Nat
      BY StepFacts, QueueFacts
    <3> QED BY <1>1, <1>3, <3>1, StepFacts, IncomingPushPlaces DEF Shelf
  <2> QED BY <2>1 DEF Shelf
<1>5. Pending' = Pending
  BY <1>2 DEF Pending
<1>6. HeldIn' = HeldIn
  BY <1>1, <1>5, SameRequests
<1>7. LedgerHolder' = [LedgerHolder EXCEPT ![i] = InVault]
  <2>1. \A j \in Index : j # i => owner'[j] = owner[j]
    BY <1>1, StepFacts
  <2> QED BY <1>4, <1>6, <2>1, MapNames
<1>8. LedgerHolder[i] = u
  BY <1>1, <1>3, HolderFacts
<1>9. LedgerClaims' = LedgerClaims
  BY <1>1, <1>2, MapNames DEF ClaimsOf
<1> QED BY <1>1, <1>7, <1>8, <1>9 DEF Ledger!Redeem

(* An NFT that changes hands outside, or is handed to the vault by mistake. *)
LEMMA TransferTrades ==
  ASSUME IInv, CInv, NEW u \in Users, NEW i \in Index, NEW to \in Users \cup Sinks,
         TransferNft(u, i, to)
  PROVE  Ledger!Trade(u, i, to)
<1>1. /\ owner[i] = u /\ owner' = [owner EXCEPT ![i] = to]
      /\ UNCHANGED <<vault, pool, vault_tokens, wallet, requests>>
  BY DEF TransferNft, draws
<1>2. i \notin Shelf /\ i \notin HeldIn
  BY <1>1, StepFacts, OutsideFacts DEF Shelf
<1>3. Shelf' = Shelf /\ HeldIn' = HeldIn
  BY <1>1 DEF Shelf, HeldIn, PendingOf, Pending
<1>4. LedgerHolder' = [LedgerHolder EXCEPT ![i] = to]
  <2>1. owner'[i] = to /\ \A j \in Index : j # i => owner'[j] = owner[j]
    BY <1>1, StepFacts
  <2> QED BY <1>2, <1>3, <2>1, MapNames
<1>5. LedgerHolder[i] = u
  BY <1>1, <1>2, HolderFacts
<1>6. LedgerClaims' = LedgerClaims
  BY <1>1, MapNames DEF ClaimsOf
<1> QED BY <1>1, <1>4, <1>5, <1>6 DEF Ledger!Trade

(* Tokens sent to the vault by hand.                                       *)
LEMMA DonateGives ==
  ASSUME NEW u \in Users, Donate(u)
  PROVE  Ledger!Give(u)
<1>1. /\ wallet[u] > 0 /\ wallet' = [wallet EXCEPT ![u] = @ - 1]
      /\ vault_tokens' = vault_tokens + 1
      /\ UNCHANGED <<vault, pool, owner, requests>>
  BY DEF Donate, draws
<1>2. Shelf' = Shelf /\ HeldIn' = HeldIn
  BY <1>1 DEF Shelf, HeldIn, PendingOf, Pending
<1>3. LedgerHolder' = LedgerHolder /\ LedgerClaims' = LedgerClaims
  BY <1>1, <1>2, MapNames DEF ClaimsOf
<1> QED BY <1>1, <1>3 DEF Ledger!Give

(* The shop counts as everybody does.                                      *)
LEMMA SameCount == \A S : Ledger!Cardinality(S) = Cardinality(S)
BY DEF Ledger!Cardinality, Cardinality

(* The floor check is the shop's reserve.                                  *)
LEMMA FloorReserves ==
  ASSUME IInv, CInv, CountersAudit, check_can_request
  PROVE  Ledger!Reserve
<1>1. Shelf \subseteq Ledger!Inventory /\ Ledger!Inventory \subseteq Index
  BY StepFacts, HolderFacts DEF Ledger!Inventory, Ledger!Index, Index
<1>2. IsFiniteSet(Ledger!Inventory)
  <2>1. IsFiniteSet(Index)
    BY StepFacts, FiniteFacts
  <2> QED BY <1>1, <2>1, FS_Subset
<1>3. /\ Cardinality(Shelf) <= Cardinality(Ledger!Inventory)
      /\ Cardinality(Shelf) \in Nat /\ Cardinality(Ledger!Inventory) \in Nat
  BY <1>1, <1>2, FS_Subset, FS_CardinalityType
<1>4. /\ Len(LedgerClaims) = vault.pending_captures + vault.pending_rerolls
      /\ Len(LedgerClaims) \in Nat
  BY StepFacts, ClaimsNow DEF CountersAudit
<1>5. total(pool) - Len(LedgerClaims) > pool_floor
  BY <1>4 DEF check_can_request, free_assets
<1>6. Cardinality(Shelf) = total(pool)
  BY StepFacts
<1>7. Cardinality(Ledger!Inventory) > Len(LedgerClaims) + pool_floor
  BY <1>3, <1>4, <1>5, <1>6, FloorFacts
<1> QED BY <1>7, SameCount DEF Ledger!Reserve

(* What a request of either kind does to the claims and the places.        *)
LEMMA RequestClaims ==
  ASSUME IInv, IInv', CInv, NEW kind \in {"capture", "reroll"}, NEW u \in Users,
         NEW r \in RandAccounts, NEW oracle \in Oracles,
         NEW h \in Index \cup {NoHandedIn},
         RequestRefusals(r, oracle), OpenRequest(kind, u, r, oracle, h),
         Write(RequestedBooks(kind))
  PROVE  /\ LedgerClaims' = Append(LedgerClaims, [user |-> u, asset |-> h])
         /\ Shelf' = Shelf
         /\ HeldIn' = HeldIn \cup (IF kind = "reroll" THEN {h} ELSE {})
<1>1. /\ TypeOK /\ TypeOK' /\ pool' = pool /\ vault' = RequestedVault(kind)
  BY DEF IInv, Write, RequestedBooks, Books
<1>2. /\ Pending' = Pending \cup {vault.next_seq} /\ vault.next_seq \notin Pending
      /\ requests'[vault.next_seq] = NewRequest(kind, u, r, oracle, h)
      /\ \A s \in Pending : requests'[s] = requests[s]
      /\ vault'.next_seq = vault.next_seq + 1
      /\ vault'.next_settle_seq = vault.next_settle_seq
  BY <1>1, OpenRequestType
<1>3. /\ requests'[vault.next_seq].kind = kind
      /\ requests'[vault.next_seq].handed_in_index = h
      /\ ClaimOf(requests'[vault.next_seq]) = [user |-> u, asset |-> h]
  BY <1>2 DEF NewRequest, ClaimOf
<1>4. LedgerClaims' = Append(LedgerClaims, [user |-> u, asset |-> h])
  <2>1. [user |-> u, asset |-> h] \in Claim
    BY DEF Claim
  <2> QED BY <1>1, <1>2, <1>3, <2>1, ClaimsAppend
<1>5. HeldIn' = HeldIn \cup (IF kind = "reroll" THEN {h} ELSE {})
  <2>1. HeldIn' = {requests'[s].handed_in_index : s \in {t \in Pending' : requests'[t].kind = "reroll"}}
    BY DEF HeldIn, PendingOf
  <2>2. {t \in Pending' : requests'[t].kind = "reroll"} =
          PendingOf("reroll") \cup (IF kind = "reroll" THEN {vault.next_seq} ELSE {})
    BY <1>2, <1>3 DEF PendingOf
  <2>3. \A s \in PendingOf("reroll") : requests'[s] = requests[s]
    BY <1>2 DEF PendingOf
  <2>4. CASE kind = "reroll"
    <3>1. HeldIn' = {requests'[s].handed_in_index : s \in PendingOf("reroll") \cup {vault.next_seq}}
      BY <2>1, <2>2, <2>4
    <3> QED BY <1>3, <2>3, <2>4, <3>1 DEF HeldIn
  <2>5. CASE kind = "capture"
    <3>1. HeldIn' = {requests'[s].handed_in_index : s \in PendingOf("reroll")}
      BY <2>1, <2>2, <2>5
    <3> QED BY <2>3, <2>5, <3>1 DEF HeldIn
  <2> QED BY <2>4, <2>5
<1> QED BY <1>1, <1>4, <1>5 DEF Shelf

(* request_capture is a purchase: tokens in, a claim at the end.           *)
LEMMA CaptureBuys ==
  ASSUME IInv, IInv', CInv, CountersAudit, NEW u \in Users, NEW r \in RandAccounts,
         NEW oracle \in Oracles, RequestCapture(u, r, oracle)
  PROVE  Ledger!Buy(u)
<1>1. /\ RequestRefusals(r, oracle) /\ OpenRequest("capture", u, r, oracle, NoHandedIn)
      /\ Write(RequestedBooks("capture")) /\ owner' = owner
      /\ wallet[u] >= Ratio /\ wallet' = [wallet EXCEPT ![u] = @ - Ratio]
  BY DEF RequestCapture
<1>2. check_can_request
  BY <1>1 DEF RequestRefusals
<1>3. /\ LedgerClaims' = Append(LedgerClaims, [user |-> u, asset |-> NoHandedIn])
      /\ Shelf' = Shelf /\ HeldIn' = HeldIn \cup {}
  BY <1>1, RequestClaims
<1>4. LedgerHolder' = LedgerHolder
  BY <1>1, <1>3, MapNames
<1>5. vault_tokens' = vault_tokens + Ratio
  BY <1>1 DEF Write, RequestedBooks, Books
<1>6. Ledger!Reserve
  BY <1>2, FloorReserves
<1> QED BY <1>1, <1>3, <1>4, <1>5, <1>6 DEF Ledger!Buy

(* request_reroll is a swap: the NFT is held for the new claim.            *)
LEMMA RerollSwaps ==
  ASSUME IInv, IInv', CInv, CountersAudit, NEW u \in Users, NEW i \in Index,
         NEW r \in RandAccounts, NEW oracle \in Oracles, RequestReroll(u, i, r, oracle)
  PROVE  Ledger!Swap(u, i)
<1>1. /\ RequestRefusals(r, oracle) /\ OpenRequest("reroll", u, r, oracle, i)
      /\ Write(RequestedBooks("reroll")) /\ wallet' = wallet
      /\ owner[i] = u /\ owner' = [owner EXCEPT ![i] = VaultAuthority]
  BY DEF RequestReroll
<1>2. check_can_request
  BY <1>1 DEF RequestRefusals
<1>3. /\ LedgerClaims' = Append(LedgerClaims, [user |-> u, asset |-> i])
      /\ Shelf' = Shelf /\ HeldIn' = HeldIn \cup {i}
  BY <1>1, RequestClaims
<1>4. i \notin Shelf /\ i \notin HeldIn
  BY <1>1, StepFacts, OutsideFacts DEF Shelf
<1>5. LedgerHolder' = [LedgerHolder EXCEPT ![i] = HandedIn]
  <2>1. \A j \in Index : j # i => owner'[j] = owner[j]
    BY <1>1, StepFacts
  <2> QED BY <1>3, <1>4, <2>1, MapNames
<1>6. LedgerHolder[i] = u
  BY <1>1, <1>4, HolderFacts
<1>7. vault_tokens' = vault_tokens
  BY <1>1 DEF Write, RequestedBooks, Books
<1>8. Ledger!Reserve
  BY <1>2, FloorReserves
<1> QED BY <1>1, <1>3, <1>5, <1>6, <1>7, <1>8 DEF Ledger!Swap

(* settle_* gives the head what it drew and takes a hand-in on the shelf.  *)
LEMMA SettleServes ==
  ASSUME IInv, IInv', CInv, HandsNothing, NEW k \in 0..incoming_len(pool), Settle(k)
  PROVE  Ledger!Draw(PickedIndex(k))
<1> DEFINE req == requests[HeadSeq]
           given == IF req.kind = "reroll" THEN {req.handed_in_index} ELSE {}
<1>1. /\ SettleRefusals(k) /\ pool_len(Merged(pool, k)) > 0
      /\ owner' = [owner EXCEPT ![PickedIndex(k)] = req.user]
      /\ pool' = SettledBooks(k).pool /\ vault_tokens' = SettledBooks(k).tokens
      /\ wallet' = wallet
  BY DEF Settle, Write
<1>2. /\ TypeOK /\ TypeOK' /\ HeadSeq \in Pending /\ HeadSeq \in Nat
  BY <1>1, QueueFacts DEF IInv, SettleRefusals
<1>3. PickedIndex(k) \in Index /\ vault_tokens' = vault_tokens
  BY <1>1, SettledPoolType
<1>4. /\ PickedIndex(k) \in Shelf /\ PickedIndex(k) \notin given
      /\ Shelf' = (Shelf \ {PickedIndex(k)}) \cup given
  BY <1>1, StepFacts, SettledPlaces DEF Shelf
<1>5. req.kind \in {"capture", "reroll"}
  BY <1>2, HeadFacts, RequestFacts
<1>6. /\ Pending' = Pending \ {HeadSeq}
      /\ \A t \in Pending' : t \in Pending /\ requests'[t] = requests[t]
      /\ vault'.next_seq = vault.next_seq
      /\ vault'.next_settle_seq = vault.next_settle_seq + 1
  BY SettleRemains, SettleCounts
<1>7. HeldIn' = HeldIn \ given
  <2>1. PendingOf("reroll")' = PendingOf("reroll") \ {HeadSeq}
    BY <1>6 DEF PendingOf
  <2>2. HeldIn' = {requests[s].handed_in_index : s \in PendingOf("reroll") \ {HeadSeq}}
    <3>1. \A s \in PendingOf("reroll") \ {HeadSeq} : requests'[s] = requests[s]
      BY <1>6 DEF PendingOf
    <3>2. HeldIn' = {requests'[s].handed_in_index : s \in PendingOf("reroll")'}
      BY DEF HeldIn
    <3> QED BY <2>1, <3>1, <3>2
  <2>3. CASE req.kind = "reroll"
    <3>1. HeadSeq \in PendingOf("reroll")
      BY <1>2, <2>3 DEF PendingOf
    <3>2. \A s \in PendingOf("reroll") :
            requests[s].handed_in_index = req.handed_in_index => s = HeadSeq
      BY <3>1, StepFacts DEF HeldApart
    <3> QED BY <2>2, <2>3, <3>1, <3>2 DEF HeldIn
  <2>4. CASE req.kind = "capture"
    <3>1. HeadSeq \notin PendingOf("reroll")
      BY <2>4 DEF PendingOf
    <3> QED BY <2>2, <2>4, <3>1 DEF HeldIn
  <2> QED BY <1>5, <2>3, <2>4
<1>8. /\ 1 \in 1..Len(LedgerClaims) /\ LedgerClaims[1] = ClaimOf(req)
      /\ LedgerClaims \in Seq(Claim) /\ LedgerClaims # << >> /\ Len(LedgerClaims) \in Nat
  <2>1. /\ LedgerClaims \in Seq(Claim) /\ Len(LedgerClaims) \in Nat
        /\ Len(LedgerClaims) = vault.next_seq - vault.next_settle_seq
    BY <1>2, ClaimsNow
  <2>2. 1 \in 1..Len(LedgerClaims)
    BY <1>2, <2>1, QueueFacts DEF HeadSeq
  <2>3. LedgerClaims[1] = ClaimOf(requests[HeadSeq + 1 - 1])
    BY <1>2, <2>2, ClaimsNow
  <2>4. HeadSeq + 1 - 1 = HeadSeq
    BY <1>2
  <2> QED BY <2>1, <2>2, <2>3, <2>4
<1>9. LedgerClaims' = Tail(LedgerClaims)
  <2>1. 1 \in 0..Len(LedgerClaims)
    BY <1>8
  <2>2. LedgerClaims' = SubSeq(LedgerClaims, 1 + 1, Len(LedgerClaims))
    BY <1>2, <1>6, <2>1, ClaimsServed
  <2> QED BY <1>8, <2>2, TailIsSubSeq
<1>10. /\ LedgerClaims[1].user = req.user
       /\ \A j \in Index : j \in given <=> j = LedgerClaims[1].asset
  <2>1. LedgerClaims[1].user = req.user /\ LedgerClaims[1].asset = req.handed_in_index
    BY <1>8 DEF ClaimOf
  <2>2. CASE req.kind = "reroll"
    BY <2>1, <2>2
  <2>3. CASE req.kind = "capture"
    <3>1. req.handed_in_index = NoHandedIn
      BY <1>2, <2>3 DEF HandsNothing
    <3>2. NoHandedIn \notin Index
      BY ConstantFacts DEF Index, NoHandedIn
    <3> QED BY <2>1, <2>3, <3>1, <3>2
  <2> QED BY <1>5, <2>1, <2>2, <2>3
<1> HIDE DEF given
<1>11. LedgerHolder' = [j \in Index |-> IF j = PickedIndex(k) THEN LedgerClaims[1].user
                                        ELSE IF j = LedgerClaims[1].asset THEN InVault
                                        ELSE LedgerHolder[j]]
  <2> SUFFICES ASSUME NEW j \in Index
               PROVE  LedgerHolder'[j] = IF j = PickedIndex(k) THEN LedgerClaims[1].user
                                         ELSE IF j = LedgerClaims[1].asset THEN InVault
                                         ELSE LedgerHolder[j]
    BY MapNames
  <2>1. LedgerHolder'[j] = IF j \in Shelf' THEN InVault
                           ELSE IF j \in HeldIn' THEN HandedIn ELSE owner'[j]
    BY MapNames
  <2>2. /\ owner'[PickedIndex(k)] = req.user
        /\ j # PickedIndex(k) => owner'[j] = owner[j]
    BY <1>1, <1>3, StepFacts
  <2>3. CASE j = PickedIndex(k)
    BY <1>4, <1>7, <1>10, <2>1, <2>2, <2>3, StepFacts
  <2>4. CASE j # PickedIndex(k) /\ j \in given
    BY <1>4, <1>10, <2>1, <2>4
  <2>5. CASE j # PickedIndex(k) /\ j \notin given
    <3>1. (j \in Shelf' <=> j \in Shelf) /\ (j \in HeldIn' <=> j \in HeldIn)
      BY <1>4, <1>7, <2>5
    <3>2. LedgerHolder'[j] = LedgerHolder[j]
      BY <2>1, <2>2, <2>5, <3>1, HolderFacts
    <3> QED BY <1>10, <2>5, <3>2
  <2> QED BY <2>3, <2>4, <2>5
<1>12. PickedIndex(k) \in Ledger!Inventory
  BY <1>3, <1>4, HolderFacts DEF Ledger!Inventory, Ledger!Index, Index
<1>13. Ledger!Index = Index
  BY DEF Ledger!Index, Index
<1> QED BY <1>1, <1>3, <1>8, <1>9, <1>11, <1>12, <1>13 DEF Ledger!Draw

(* A set of numbers has as many members when all are moved by h.           *)
LEMMA ShiftCardinality ==
  ASSUME NEW h \in Int, NEW S, S \subseteq Int, NEW T, T \subseteq Int, IsFiniteSet(T),
         \A c \in Int : c \in S <=> h + c \in T
  PROVE  Cardinality(S) = Cardinality(T)
<1> DEFINE f == [t \in T |-> t - h]
<1>1. f \in [T -> S]
  <2>1. \A t \in T : t - h \in Int /\ h + (t - h) = t
    OBVIOUS
  <2> QED BY <2>1
<1>2. \A a, b \in T : f[a] = f[b] => a = b
  OBVIOUS
<1>3. \A c \in S : \E t \in T : f[t] = c
  <2>1. ASSUME NEW c \in S PROVE \E t \in T : f[t] = c
    <3>1. h + c \in T /\ f[h + c] = c
      OBVIOUS
    <3> QED BY <3>1
  <2> QED BY <2>1
<1>4. f \in Bijection(T, S)
  BY <1>1, <1>2, <1>3 DEF Bijection, Injection, Surjection, IsInjective
<1>5. ExistsBijection(T, S)
  BY <1>4 DEF ExistsBijection
<1> QED BY <1>5, FS_Bijection

(* The n heads are the n first claims, captures the purchases among them.  *)
LEMMA FirstClaims ==
  ASSUME IInv, HandsNothing, NEW n \in Nat \ {0}, HeadSeq..(HeadSeq + n - 1) \subseteq Pending
  PROVE  /\ n \in 1..Len(LedgerClaims) /\ HeadSeq \in Int
         /\ \A c \in 1..n : /\ HeadSeq + c - 1 \in HeadSeq..(HeadSeq + n - 1)
                            /\ LedgerClaims[c].user = requests[HeadSeq + c - 1].user
                            /\ LedgerClaims[c].asset = requests[HeadSeq + c - 1].handed_in_index
         /\ \A s \in HeadSeq..(HeadSeq + n - 1) : s - HeadSeq + 1 \in 1..n
         /\ Ledger!Swaps(n) \subseteq 1..n /\ Ledger!Purchases(n) \subseteq 1..n
         /\ \A c \in 1..n :
              /\ c \in Ledger!Swaps(n) <=> HeadSeq + c - 1 \in ExpiredOf(n, "reroll")
              /\ c \in Ledger!Purchases(n) <=> HeadSeq + c - 1 \in ExpiredOf(n, "capture")
<1>1. /\ TypeOK /\ HeadSeq \in Nat /\ HeadSeq = vault.next_settle_seq /\ vault.next_seq \in Nat
      /\ Len(LedgerClaims) = vault.next_seq - vault.next_settle_seq
  BY QueueFacts, ClaimsNow DEF IInv, HeadSeq
<1>2. n \in 1..Len(LedgerClaims)
  <2>1. HeadSeq + n - 1 \in HeadSeq..(HeadSeq + n - 1)
    BY <1>1
  <2>2. HeadSeq + n - 1 < vault.next_seq
    BY <1>1, <2>1, QueueFacts
  <2> QED BY <1>1, <2>2
<1>3. ASSUME NEW c \in 1..n
      PROVE  /\ HeadSeq + c - 1 \in HeadSeq..(HeadSeq + n - 1)
             /\ LedgerClaims[c].user = requests[HeadSeq + c - 1].user
             /\ LedgerClaims[c].asset = requests[HeadSeq + c - 1].handed_in_index
             /\ requests[HeadSeq + c - 1].kind = "reroll" <=> LedgerClaims[c].asset # NoHandedIn
             /\ requests[HeadSeq + c - 1].kind = "capture" <=> LedgerClaims[c].asset = NoHandedIn
  <2>1. HeadSeq + c - 1 \in HeadSeq..(HeadSeq + n - 1) /\ c \in 1..Len(LedgerClaims)
    BY <1>1, <1>2
  <2>2. HeadSeq + c - 1 \in Pending
    BY <2>1
  <2>3. LedgerClaims[c] = ClaimOf(requests[HeadSeq + c - 1])
    BY <1>1, <2>1, ClaimsNow
  <2>4. requests[HeadSeq + c - 1] \in RequestType
    BY <1>1, <2>2, QueueFacts
  <2>5. requests[HeadSeq + c - 1].kind \in {"capture", "reroll"}
    BY <2>4, RequestFacts
  <2>6. requests[HeadSeq + c - 1].kind = "reroll" =>
          requests[HeadSeq + c - 1].handed_in_index \in Index
    BY <2>2 DEF IInv, DrawsFit
  <2>7. requests[HeadSeq + c - 1].kind = "capture" =>
          requests[HeadSeq + c - 1].handed_in_index = NoHandedIn
    BY <2>2 DEF HandsNothing
  <2>8. NoHandedIn \notin Index
    BY ConstantFacts DEF Index, NoHandedIn
  <2>9. /\ LedgerClaims[c].user = requests[HeadSeq + c - 1].user
        /\ LedgerClaims[c].asset = requests[HeadSeq + c - 1].handed_in_index
    BY <2>3 DEF ClaimOf
  <2> QED BY <2>1, <2>5, <2>6, <2>7, <2>8, <2>9
<1>4. \A s \in HeadSeq..(HeadSeq + n - 1) : s - HeadSeq + 1 \in 1..n
  BY <1>1
<1>5. /\ Ledger!Swaps(n) = {c \in 1..n : LedgerClaims[c].asset # NoHandedIn}
      /\ Ledger!Purchases(n) = {c \in 1..n : LedgerClaims[c].asset = NoHandedIn}
  BY DEF Ledger!Swaps, Ledger!Purchases
<1>6. \A c \in 1..n :
        /\ c \in Ledger!Swaps(n) <=> HeadSeq + c - 1 \in ExpiredOf(n, "reroll")
        /\ c \in Ledger!Purchases(n) <=> HeadSeq + c - 1 \in ExpiredOf(n, "capture")
  BY <1>3, <1>5 DEF ExpiredOf
<1>7. Ledger!Swaps(n) \subseteq 1..n /\ Ledger!Purchases(n) \subseteq 1..n
  BY <1>5
<1>8. \A c \in 1..n : /\ HeadSeq + c - 1 \in HeadSeq..(HeadSeq + n - 1)
                      /\ LedgerClaims[c].user = requests[HeadSeq + c - 1].user
                      /\ LedgerClaims[c].asset = requests[HeadSeq + c - 1].handed_in_index
  BY <1>3
<1>9. HeadSeq \in Int
  BY <1>1
<1> QED BY <1>2, <1>4, <1>6, <1>7, <1>8, <1>9

(* So they are paid the same.                                              *)
LEMMA SamePayments ==
  ASSUME IInv, HandsNothing, NEW n \in Nat \ {0}, HeadSeq..(HeadSeq + n - 1) \subseteq Pending
  PROVE  /\ Cardinality(Ledger!Purchases(n)) = Cardinality(ExpiredOf(n, "capture"))
         /\ \A u : Cardinality({c \in Ledger!Purchases(n) : LedgerClaims[c].user = u}) =
                     Cardinality({s \in ExpiredOf(n, "capture") : requests[s].user = u})
<1> DEFINE P == Ledger!Purchases(n)
           C == ExpiredOf(n, "capture")
<1>0. PICK h : h = HeadSeq - 1
  OBVIOUS
<1>1. /\ h \in Int /\ P \subseteq Int /\ C \subseteq Int /\ IsFiniteSet(C)
      /\ \A c \in Int : c \in P <=> h + c \in C
      /\ \A c \in P : LedgerClaims[c].user = requests[h + c].user
  <2>1. HeadSeq \in Int /\ P \subseteq 1..n /\ C \subseteq HeadSeq..(HeadSeq + n - 1)
    BY FirstClaims DEF ExpiredOf
  <2>2. IsFiniteSet(C)
    BY ExpiredCounts DEF IInv
  <2>3. \A c \in 1..n : c \in P <=> HeadSeq + c - 1 \in C
    BY FirstClaims
  <2>4. \A c \in 1..n : LedgerClaims[c].user = requests[HeadSeq + c - 1].user
    BY FirstClaims
  <2> HIDE DEF P, C
  <2>5. h \in Int /\ \A c \in Int : HeadSeq + c - 1 = h + c
    BY <1>0, <2>1
  <2>6. \A c \in Int : h + c \in HeadSeq..(HeadSeq + n - 1) => c \in 1..n
    BY <1>0, <2>1
  <2>7. \A c \in Int : c \in P <=> h + c \in C
    BY <2>1, <2>3, <2>5, <2>6
  <2>8. \A c \in P : LedgerClaims[c].user = requests[h + c].user
    <3> SUFFICES ASSUME NEW c \in P
                 PROVE  LedgerClaims[c].user = requests[h + c].user
      OBVIOUS
    <3>1. c \in 1..n /\ c \in Int
      BY <2>1
    <3>2. HeadSeq + c - 1 = h + c
      BY <2>5, <3>1
    <3> QED BY <2>4, <3>1, <3>2
  <2>9. P \subseteq Int /\ C \subseteq Int
    BY <2>1
  <2> QED BY <2>2, <2>5, <2>7, <2>8, <2>9
<1> HIDE DEF P, C
<1>2. Cardinality(P) = Cardinality(C)
  BY <1>1, ShiftCardinality
<1>3. ASSUME NEW u
      PROVE  Cardinality({c \in P : LedgerClaims[c].user = u}) =
               Cardinality({s \in C : requests[s].user = u})
  <2> DEFINE S == {c \in P : LedgerClaims[c].user = u}
             T == {s \in C : requests[s].user = u}
  <2>1. S \subseteq Int /\ T \subseteq Int /\ T \subseteq C
    BY <1>1
  <2>2. IsFiniteSet(T)
    BY <1>1, <2>1, FS_Subset
  <2>3. \A c \in Int : c \in S <=> h + c \in T
    BY <1>1
  <2> HIDE DEF S, T
  <2>4. Cardinality(S) = Cardinality(T)
    BY <1>1, <2>1, <2>2, <2>3, ShiftCardinality
  <2> QED BY <2>4 DEF S, T
<1> QED BY <1>2, <1>3 DEF P, C

(* expire_* refunds the first n claims: tokens, or the NFT held for them.  *)
LEMMA ExpireRefunds ==
  ASSUME IInv, IInv', CInv, HandsNothing, NEW n \in Nat \ {0}, ExpireHeads(n)
  PROVE  Ledger!Refund(n)
<1> DEFINE gone == ExpiredOf(n, "reroll")
           freed == {requests[s].handed_in_index : s \in gone}
<1>1. /\ HeadSeq..(HeadSeq + n - 1) \subseteq Pending
      /\ CloseRequests(HeadSeq..(HeadSeq + n - 1))
      /\ vault' = ExpiredVault(n) /\ pool' = pool
      /\ vault_tokens' = vault_tokens - Ratio * Cardinality(ExpiredOf(n, "capture"))
      /\ wallet' = [u \in Users |-> wallet[u] + Ratio *
                      Cardinality({s \in ExpiredOf(n, "capture") : requests[s].user = u})]
      /\ vault'.pending_captures >= 0 /\ vault'.pending_rerolls >= 0
  BY DEF ExpireHeads, ExpireRefusals, Write, NoUnderflow, ExpiredBooks, Books
<1>2. TypeOK /\ TypeOK' /\ vault \in VaultType /\ HeldApart
  BY StepFacts DEF IInv, TypeOK
<1>3. /\ vault'.next_seq = vault.next_seq
      /\ vault'.next_settle_seq = vault.next_settle_seq + n
  BY <1>1, <1>2, ExpiredCounts, ExpiredVaultType
<1>4. /\ \A s \in Pending' : s \in Pending /\ requests'[s] = requests[s]
      /\ PendingOf("reroll")' = PendingOf("reroll") \ gone
      /\ gone \subseteq PendingOf("reroll")
  BY <1>1, <1>2, <1>3, CloseKinds
<1>5. LedgerClaims' = SubSeq(LedgerClaims, n + 1, Len(LedgerClaims))
  <2>1. n \in 0..Len(LedgerClaims)
    BY <1>1, FirstClaims
  <2> QED BY <1>2, <1>3, <1>4, <2>1, ClaimsServed
<1>6. owner' = [i \in Index |->
                  IF \E s \in gone : requests[s].handed_in_index = i
                  THEN requests[CHOOSE s \in gone : requests[s].handed_in_index = i].user
                  ELSE owner[i]]
  BY DEF ExpireHeads
<1>7. Shelf' = Shelf /\ HeldIn' = HeldIn \ freed
  <2>1. HeldIn' = {requests'[s].handed_in_index : s \in PendingOf("reroll")'}
    BY DEF HeldIn
  <2>2. \A s \in PendingOf("reroll")' : requests'[s] = requests[s]
    BY <1>4 DEF PendingOf
  <2>3. HeldIn' = {requests[s].handed_in_index : s \in PendingOf("reroll") \ gone}
    BY <1>4, <2>1, <2>2
  <2>4. \A s \in PendingOf("reroll") \ gone : requests[s].handed_in_index \notin freed
    BY <1>2, <1>4 DEF HeldApart
  <2> HIDE DEF gone
  <2>5. HeldIn' = HeldIn \ freed
    BY <2>3, <2>4 DEF HeldIn
  <2> QED BY <1>1, <2>5 DEF Shelf
<1>8. freed \subseteq HeldIn /\ freed \cap Shelf = {}
  <2>1. freed \subseteq HeldIn
    BY <1>4 DEF HeldIn
  <2> QED BY <2>1, StepFacts
<1>9. /\ \A c \in Ledger!Swaps(n) : /\ HeadSeq + c - 1 \in gone
                                    /\ LedgerClaims[c].user = requests[HeadSeq + c - 1].user
                                    /\ LedgerClaims[c].asset = requests[HeadSeq + c - 1].handed_in_index
      /\ \A s \in gone : /\ s - HeadSeq + 1 \in Ledger!Swaps(n)
                         /\ LedgerClaims[s - HeadSeq + 1].asset = requests[s].handed_in_index
  <2>1. \A c \in Ledger!Swaps(n) : c \in 1..n
    BY <1>1, FirstClaims
  <2>2. \A c \in 1..n : /\ c \in Ledger!Swaps(n) <=> HeadSeq + c - 1 \in gone
                        /\ LedgerClaims[c].user = requests[HeadSeq + c - 1].user
                        /\ LedgerClaims[c].asset = requests[HeadSeq + c - 1].handed_in_index
    BY <1>1, FirstClaims
  <2>3. \A s \in gone : /\ s - HeadSeq + 1 \in 1..n
                        /\ HeadSeq + (s - HeadSeq + 1) - 1 = s
    <3>1. HeadSeq \in Int /\ gone \subseteq HeadSeq..(HeadSeq + n - 1)
      BY <1>1, FirstClaims DEF ExpiredOf
    <3>2. \A s \in gone : s - HeadSeq + 1 \in 1..n
      BY <1>1, <3>1, FirstClaims
    <3>3. \A s \in gone : HeadSeq + (s - HeadSeq + 1) - 1 = s
      <4> HIDE DEF gone
      <4> QED BY <3>1
    <3> QED BY <3>2, <3>3
  <2> HIDE DEF gone
  <2> QED BY <2>1, <2>2, <2>3
<1> HIDE DEF gone
<1>10. ASSUME NEW i \in Index
       PROVE  LedgerHolder'[i] = IF \E c \in Ledger!Swaps(n) : LedgerClaims[c].asset = i
                                 THEN LedgerClaims[CHOOSE c \in Ledger!Swaps(n) :
                                                     LedgerClaims[c].asset = i].user
                                 ELSE LedgerHolder[i]
  <2>1. (\E c \in Ledger!Swaps(n) : LedgerClaims[c].asset = i) <=> i \in freed
    BY <1>9
  <2>2. LedgerHolder'[i] = IF i \in Shelf' THEN InVault
                           ELSE IF i \in HeldIn' THEN HandedIn ELSE owner'[i]
    BY MapNames
  <2>3. CASE i \in freed
    <3>1. PICK c \in Ledger!Swaps(n) :
            /\ LedgerClaims[c].asset = i
            /\ c = CHOOSE d \in Ledger!Swaps(n) : LedgerClaims[d].asset = i
      BY <2>1, <2>3
    <3>2. PICK s \in gone :
            /\ requests[s].handed_in_index = i
            /\ s = CHOOSE t \in gone : requests[t].handed_in_index = i
      BY <2>3
    <3>3. owner'[i] = requests[s].user
      BY <1>6, <3>2
    <3>4. /\ HeadSeq + c - 1 \in gone /\ requests[HeadSeq + c - 1].handed_in_index = i
          /\ LedgerClaims[c].user = requests[HeadSeq + c - 1].user
      BY <1>9, <3>1
    <3>5. HeadSeq + c - 1 = s
      BY <1>2, <1>4, <3>2, <3>4 DEF HeldApart
    <3>6. LedgerHolder'[i] = owner'[i]
      BY <1>7, <1>8, <2>2, <2>3
    <3> QED BY <2>1, <2>3, <3>1, <3>3, <3>4, <3>5, <3>6
  <2>4. CASE i \notin freed
    <3>1. owner'[i] = owner[i]
      BY <1>6, <2>4
    <3>2. LedgerHolder'[i] = LedgerHolder[i]
      BY <1>7, <2>2, <2>4, <3>1, HolderFacts
    <3> QED BY <2>1, <2>4, <3>2
  <2> QED BY <2>3, <2>4
<1>11. LedgerHolder' = [i \in Ledger!Index |->
                          IF \E c \in Ledger!Swaps(n) : LedgerClaims[c].asset = i
                          THEN LedgerClaims[CHOOSE c \in Ledger!Swaps(n) :
                                              LedgerClaims[c].asset = i].user
                          ELSE LedgerHolder[i]]
  <2>1. Ledger!Index = Index
    BY DEF Ledger!Index, Index
  <2>2. LedgerHolder' = [i \in Index |-> LedgerHolder'[i]]
    BY MapNames
  <2> QED BY <1>10, <2>1, <2>2
<1>12. /\ vault_tokens' = vault_tokens - Ledger!Price(n)
       /\ wallet' = [u \in Users |-> wallet[u] + Ratio *
                       Ledger!Cardinality({c \in Ledger!Purchases(n) : LedgerClaims[c].user = u})]
  BY <1>1, SameCount, SamePayments DEF Ledger!Price
<1>13. n \in 1..Len(LedgerClaims)
  BY <1>1, FirstClaims
<1> QED BY <1>5, <1>11, <1>12, <1>13 DEF Ledger!Refund

(* reveal_randomness and recommit_randomness change no claim.              *)
LEMMA RandomnessHidden ==
  ASSUME IInv, IInv', Reveal \/ Recommit
  PROVE  UNCHANGED Ledger!ledger
<1>1. TypeOK /\ TypeOK' /\ requests \in [Pending -> RequestType]
  BY DEF IInv, TypeOK
<1>2. /\ UNCHANGED <<pool, owner, wallet, vault_tokens>>
      /\ \A t \in Pending : requests'[t].user = requests[t].user
  <2>1. CASE Reveal
    <3>1. PICK s \in Pending, value \in Values : RevealRandomness(s, value)
      BY <2>1 DEF Reveal
    <3>2. /\ UNCHANGED accounts
          /\ requests' = [requests EXCEPT ![s].revealed = TRUE, ![s].value = value]
      BY <3>1 DEF RevealRandomness
    <3>3. \A t \in Pending : requests'[t].user = requests[t].user
      BY <1>1, <3>2 DEF RequestType
    <3> QED BY <3>2, <3>3 DEF accounts
  <2>2. CASE Recommit
    <3>1. PICK s \in Pending, oracle \in Oracles : RecommitRandomness(s, oracle)
      BY <2>2 DEF Recommit
    <3>2. /\ UNCHANGED <<pool, owner, wallet, vault_tokens>>
          /\ requests' = [requests EXCEPT ![s] = Recommitted(requests[s], oracle)]
      BY <3>1 DEF RecommitRandomness
    <3>3. Recommitted(requests[s], oracle).user = requests[s].user
      BY <1>1 DEF Recommitted, RequestType
    <3> QED BY <1>1, <3>2, <3>3
  <2> QED BY <2>1, <2>2
<1>3. /\ vault'.next_seq = vault.next_seq /\ vault'.next_settle_seq = vault.next_settle_seq
      /\ \A t \in Pending : /\ requests'[t].kind = requests[t].kind
                            /\ requests'[t].handed_in_index = requests[t].handed_in_index
  BY SameHandIns
<1>4. \A t \in Pending : ClaimOf(requests'[t]) = ClaimOf(requests[t])
  BY <1>2, <1>3 DEF ClaimOf
<1>5. Shelf' = Shelf
  BY <1>2 DEF Shelf
<1> QED BY <1>1, <1>2, <1>3, <1>4, <1>5, Invisible

(* merge_incoming moves NFTs within the shop.                              *)
LEMMA MergeHidden ==
  ASSUME IInv, IInv', CInv, Merge
  PROVE  UNCHANGED Ledger!ledger
<1>1. PICK k \in 1..incoming_len(pool), max \in 1..MAX_MERGE_PER_CALL : MergeIncoming(k, max)
  BY DEF Merge
<1>2. /\ pool' = Merged(pool, k)
      /\ UNCHANGED <<vault, vault_tokens, wallet, owner, requests>>
  BY <1>1 DEF MergeIncoming, draws
<1>3. TypeOK /\ TypeOK' /\ pool \in PoolType(Index) /\ Distinct(pool) /\ k \in 0..incoming_len(pool)
  BY StepFacts DEF IInv
<1>4. Shelf' = Shelf
  BY <1>2, <1>3, MergedPlaces DEF Shelf
<1> QED BY <1>2, <1>3, <1>4, Invisible

(* Nor does the shop see the clock, the oracles, the launch or an opening. *)
LEMMA WorldHidden ==
  ASSUME IInv, IInv', UNCHANGED <<pool, vault_tokens, wallet, owner, requests>>,
         vault'.next_seq = vault.next_seq, vault'.next_settle_seq = vault.next_settle_seq
  PROVE  UNCHANGED Ledger!ledger
<1>1. TypeOK /\ TypeOK' /\ Shelf' = Shelf
  BY DEF IInv, Shelf
<1> QED BY <1>1, Invisible

(* The vault opens as an empty shop with the whole collection in stock.    *)
LEMMA LedgerInit == Init => Ledger!Init
<1> SUFFICES ASSUME Init PROVE Ledger!Init
  OBVIOUS
<1>1. TypeOK
  BY TypeInit DEF IInv
<1>2. /\ vault.next_seq = 0 /\ vault.next_settle_seq = 0 /\ pool = FreshPool(N)
      /\ wallet = [u \in Users |-> Supply] /\ vault_tokens = 0
  BY DEF Init
<1>3. LedgerClaims = << >>
  <2>1. LedgerClaims \in Seq(Claim) /\ Len(LedgerClaims) = 0 - 0
    BY <1>1, <1>2, ClaimsNow
  <2> QED BY <2>1, EmptySeq
<1>4. Index \subseteq Shelf
  BY <1>2, ConstantFacts, FreshPoolPlaces DEF Index, Shelf
<1>5. LedgerHolder = [i \in Ledger!Index |-> InVault]
  <2>1. Ledger!Index = Index
    BY DEF Ledger!Index, Index
  <2> QED BY <1>4, <2>1, MapNames
<1> QED BY <1>2, <1>3, <1>5 DEF Ledger!Init

(* Each action of Next, by the lemma about it.                             *)
LEMMA LedgerStep ==
  ASSUME IInv, IInv', CInv, CountersAudit, HandsNothing, [Next]_vars
  PROVE  [Ledger!Next]_Ledger!ledger
<1>0. Ledger!Index = Index
  BY DEF Ledger!Index, Index
<1>1. CASE Request
  <2>1. PICK r \in RandAccounts, oracle \in Oracles, u \in Users :
          RequestCapture(u, r, oracle) \/ \E i \in Index : RequestReroll(u, i, r, oracle)
    BY <1>1 DEF Request
  <2>2. CASE RequestCapture(u, r, oracle)
    BY <2>2, CaptureBuys DEF Ledger!Next
  <2>3. CASE \E i \in Index : RequestReroll(u, i, r, oracle)
    BY <1>0, <2>3, RerollSwaps DEF Ledger!Next
  <2> QED BY <2>1, <2>2, <2>3
<1>2. CASE SettleHead
  <2>1. PICK k \in 0..incoming_len(pool) : Settle(k)
    BY <1>2 DEF SettleHead
  <2>2. PickedIndex(k) \in Index
    BY <2>1, SettledPoolType DEF Settle
  <2> QED BY <1>0, <2>1, <2>2, SettleServes DEF Ledger!Next
<1>3. ASSUME NEW n \in Nat \ {0}, ExpireHeads(n) PROVE Ledger!Next
  <2>1. n \in 1..Len(LedgerClaims)
    BY <1>3, FirstClaims DEF ExpireHeads, ExpireRefusals
  <2> QED BY <1>3, <2>1, ExpireRefunds DEF Ledger!Next
<1>4. CASE ExpireRequest
  BY <1>3, <1>4 DEF ExpireRequest
<1>5. CASE ExpireRequests
  <2>1. PICK n \in 1..MAX_EXPIRE_PER_CALL : ExpireHeads(n)
    BY <1>5 DEF ExpireRequests
  <2>2. n \in Nat \ {0}
    BY BoundAssumption
  <2> QED BY <1>3, <2>1, <2>2
<1>6. CASE \E u \in Users, i \in Index : Unwrap(u, i)
  BY <1>0, <1>6, UnwrapRedeems DEF Ledger!Next
<1>7. CASE Reveal \/ Recommit
  BY <1>7, RandomnessHidden
<1>8. CASE Merge
  BY <1>8, MergeHidden
<1>9. CASE \E u \in Users, i \in Index, to \in Users \cup Sinks : TransferNft(u, i, to)
  BY <1>0, <1>9, TransferTrades DEF Ledger!Next
<1>10. CASE \E u \in Users : Donate(u)
  BY <1>10, DonateGives DEF Ledger!Next
<1>11. CASE OpenVault
  <2>1. UNCHANGED <<pool, vault_tokens, wallet, owner, requests>>
    BY <1>11 DEF OpenVault, Write, Books, draws
  <2> QED BY <1>11, <2>1, QuietSteps, WorldHidden
<1>12. CASE \/ \E r \in RandAccounts : InitRandomness(r)
            \/ Tick \/ (\E o \in Oracles, h \in Heartbeats : Heartbeat(o, h))
            \/ RotateQueue \/ UpgradeLaunch \/ UNCHANGED vars
  <2>1. UNCHANGED <<accounts, requests>>
    BY <1>12 DEF InitRandomness, Tick, Heartbeat, RotateQueue, UpgradeLaunch, vars, draws
  <2> QED BY <2>1, WorldHidden DEF accounts
<1> QED BY <1>1, <1>2, <1>4, <1>5, <1>6, <1>7, <1>8, <1>9, <1>10, <1>11, <1>12 DEF Next, Environment

(* Every instruction of the program is one step of the shop or invisible   *)
(* to it: request_* buys or swaps, settle_* serves the oldest claim,       *)
(* expire_* refunds the oldest ones, unwrap_asset redeems.                 *)
THEOREM VaultImplementsLedger == Spec => ImplementsLedger
<1>1. Init => Ledger!Init
  BY LedgerInit
<1>2. IInv /\ IInv' /\ CInv /\ CountersAudit /\ HandsNothing /\ [Next]_vars
        => [Ledger!Next]_Ledger!ledger
  BY LedgerStep
<1> QED BY <1>1, <1>2, Inductive, CustodyInductive, CountersAlwaysAudit, HandsInductive, PTL
        DEF Spec, ImplementsLedger, Ledger!Spec

-----------------------------------------------------------------------------
(* What the shop promises, the program keeps.                              *)

Shop == INSTANCE VaultLedgerProofs WITH
  Floor <- pool_floor, NoAsset <- NoHandedIn,
  holder <- LedgerHolder, claims <- LedgerClaims, purse <- wallet, backing <- vault_tokens

LEMMA ShopConstants == Shop!LedgerAssumption
<1>1. pool_floor \in Nat
  BY FloorFacts
<1>2. N \notin 0..(N - 1)
  BY SizeAssumption
<1> QED BY <1>1, <1>2, SizeAssumption, BoundAssumption, HolderAssumption
        DEF Shop!LedgerAssumption, NoHandedIn

\* Two instances of one module under one substitution say the same.
LEMMA ShopCount == \A S : Shop!Cardinality(S) = Ledger!Cardinality(S)
BY DEF Shop!Cardinality, Ledger!Cardinality

LEMMA ShopStart == Ledger!Init => Shop!Init
BY DEF Ledger!Init, Shop!Init, Ledger!Index, Shop!Index

LEMMA ShopNames ==
  /\ Shop!Index = Ledger!Index /\ Shop!Inventory = Ledger!Inventory
  /\ Shop!Outside = Ledger!Outside
  /\ Shop!Reserve <=> Ledger!Reserve
  /\ \A n : Shop!Purchases(n) = Ledger!Purchases(n) /\ Shop!Swaps(n) = Ledger!Swaps(n)
  /\ \A n : Shop!Price(n) = Ledger!Price(n)
<1>1. Shop!Index = Ledger!Index
  BY DEF Shop!Index, Ledger!Index
<1>2. Shop!Inventory = Ledger!Inventory /\ Shop!Outside = Ledger!Outside
  BY <1>1 DEF Shop!Inventory, Ledger!Inventory, Shop!Outside, Ledger!Outside
<1>3. Shop!Reserve <=> Ledger!Reserve
  BY <1>2, ShopCount DEF Shop!Reserve, Ledger!Reserve
<1>4. \A n : Shop!Purchases(n) = Ledger!Purchases(n) /\ Shop!Swaps(n) = Ledger!Swaps(n)
  BY DEF Shop!Purchases, Ledger!Purchases, Shop!Swaps, Ledger!Swaps
<1>5. \A n : Shop!Price(n) = Ledger!Price(n)
  BY <1>4, ShopCount DEF Shop!Price, Ledger!Price
<1> QED BY <1>1, <1>2, <1>3, <1>4, <1>5

LEMMA ShopSteps == [Ledger!Next]_Ledger!ledger => [Shop!Next]_Shop!ledger
<1>1. CASE \E u \in Users : Ledger!Buy(u)
  BY <1>1, ShopNames DEF Ledger!Buy, Shop!Buy, Shop!Next
<1>2. CASE \E u \in Users, i \in Ledger!Index : Ledger!Swap(u, i)
  BY <1>2, ShopNames DEF Ledger!Swap, Shop!Swap, Shop!Next
<1>3. CASE \E i \in Ledger!Index : Ledger!Draw(i)
  BY <1>3, ShopNames DEF Ledger!Draw, Shop!Draw, Shop!Next
<1>4. CASE \E n \in 1..Len(LedgerClaims) : Ledger!Refund(n)
  <2>1. PICK n \in 1..Len(LedgerClaims) : Ledger!Refund(n)
    BY <1>4
  <2>2. Shop!Refund(n)
    BY <2>1, ShopNames, ShopCount DEF Ledger!Refund, Shop!Refund
  <2> QED BY <2>2 DEF Shop!Next
<1>5. CASE \E u \in Users, i \in Ledger!Index : Ledger!Redeem(u, i)
  BY <1>5, ShopNames DEF Ledger!Redeem, Shop!Redeem, Shop!Next
<1>6. CASE \E u \in Users, i \in Ledger!Index, to \in Users \cup Sinks : Ledger!Trade(u, i, to)
  BY <1>6, ShopNames DEF Ledger!Trade, Shop!Trade, Shop!Next
<1>7. CASE \E u \in Users : Ledger!Give(u)
  BY <1>7 DEF Ledger!Give, Shop!Give, Shop!Next
<1>8. CASE UNCHANGED Ledger!ledger
  BY <1>8 DEF Ledger!ledger, Shop!ledger
<1> QED BY <1>1, <1>2, <1>3, <1>4, <1>5, <1>6, <1>7, <1>8 DEF Ledger!Next

LEMMA ShopRuns == Spec => Shop!Spec
BY VaultImplementsLedger, ShopStart, ShopSteps, PTL
   DEF ImplementsLedger, Ledger!Spec, Shop!Spec

(* The vault is solvent, whatever was drawn, expired in batches, released  *)
(* or traded: not by its counters but by the NFTs that others own and the  *)
(* requests that exist.                                                    *)
THEOREM VaultAlwaysBacked == Spec => []Backed
<1>1. Spec => Shop!Spec
  BY ShopRuns
<1>2. Shop!Spec => []Shop!Backed
  BY ShopConstants, Shop!AlwaysBacked
<1>3. Shop!Backed => Backed
  BY ShopNames, ShopCount DEF Backed, Shop!Backed, Ledger!Backed
<1> QED BY <1>1, <1>2, <1>3, PTL

(* No pending request can find the pool empty, in whatever order requests  *)
(* are made, settled, expired: slots and returning FIFO hold an NFT for    *)
(* each and the pool floor besides.                                        *)
THEOREM VaultAlwaysReserved == Spec => []Reserved
<1>1. Spec => Shop!Spec
  BY ShopRuns
<1>2. Shop!Spec => []Shop!Reserved
  BY ShopConstants, Shop!AlwaysReserved
<1>3. Shop!Reserved => Reserved
  BY ShopNames, ShopCount DEF Reserved, Shop!Reserved, Ledger!Reserved
<1> QED BY <1>1, <1>2, <1>3, PTL

=============================================================================
