------------------------- MODULE HybridVaultCustody -------------------------
(***************************************************************************)
(* Where every NFT of a vault is, for every value of the constants: the    *)
(* vault, its pool, its requests and Core always agree, index by index.    *)
(***************************************************************************)
EXTENDS HybridVaultProofs, WellFoundedInduction

(* Each hand-in is held for one re-roll and is not in the pool account.    *)
HeldApart ==
  /\ \A s, t \in PendingOf("reroll") :
       requests[s].handed_in_index = requests[t].handed_in_index => s = t
  /\ \A s \in PendingOf("reroll") :
       requests[s].handed_in_index \notin SlotSet(pool) \cup BackSet(pool)

KindsCounted ==
  /\ Cardinality(PendingOf("capture")) = vault.pending_captures
  /\ Cardinality(PendingOf("reroll")) = vault.pending_rerolls

(* The bitmap is what Core says, an NFT that does not exist waits in the   *)
(* pool, and one that exists and is in custody belongs to the vault.       *)
Owned ==
  /\ pool.minted = {i \in Index : owner[i] # Unminted}
  /\ Cardinality(pool.minted) = vault.minted_count
  /\ \A i \in Index : owner[i] = Unminted => i \in SlotSet(pool)
  /\ \A i \in SlotSet(pool) \cup BackSet(pool) \cup HeldIn :
       owner[i] \in {Unminted, VaultAuthority}

CInv == Distinct(pool) /\ HeldApart /\ KindsCounted /\ Owned

-----------------------------------------------------------------------------
(* Vocabulary of the proofs.                                               *)

(* The sets of the specification in the words of the pool lemmas.          *)
LEMMA PlaceNames ==
  /\ Drawable = SlotSet(pool) /\ Returning = BackSet(pool)
  /\ HeldIn = {requests[s].handed_in_index : s \in PendingOf("reroll")}
BY DEF Drawable, Returning, HeldIn, SlotSet, BackSet

(* All the sets that are counted are finite.                               *)
LEMMA FiniteFacts ==
  ASSUME TypeOK
  PROVE  /\ \A kind : /\ IsFiniteSet(PendingOf(kind)) /\ PendingOf(kind) \subseteq Pending
                      /\ Cardinality(PendingOf(kind)) \in Nat
         /\ IsFiniteSet(Index) /\ Cardinality(Index) = N
         /\ IsFiniteSet(pool.minted) /\ Cardinality(pool.minted) \in Nat
         /\ pool.minted \subseteq Index
<1>1. IsFiniteSet(Pending)
  BY QueueFacts, FS_Interval DEF Pending
<1>2. IsFiniteSet(Index) /\ Cardinality(Index) = N
  BY ConstantFacts, FS_Interval DEF Index
<1>3. pool.minted \subseteq Index
  BY DEF TypeOK
<1>4. IsFiniteSet(pool.minted) /\ Cardinality(pool.minted) \in Nat
  BY <1>2, <1>3, FS_Subset, FS_CardinalityType
<1>5. ASSUME NEW kind
      PROVE  /\ IsFiniteSet(PendingOf(kind)) /\ PendingOf(kind) \subseteq Pending
             /\ Cardinality(PendingOf(kind)) \in Nat
  <2>1. PendingOf(kind) \subseteq Pending
    BY DEF PendingOf
  <2> QED BY <1>1, <2>1, FS_Subset, FS_CardinalityType
<1> QED BY <1>2, <1>3, <1>4, <1>5

(* An NFT in a wallet is nowhere in the vault's custody.                   *)
LEMMA OutsideFacts ==
  ASSUME TypeOK, Owned, NEW i \in Index, owner[i] \in Users
  PROVE  i \notin SlotSet(pool) \cup BackSet(pool) \cup HeldIn /\ i \in pool.minted
BY OwnerAssumption DEF Owned

(* Requests whose kind and hand-in stay leave the sets that hold them.     *)
LEMMA SameRequests ==
  ASSUME Pending' = Pending,
         \A s \in Pending : /\ requests'[s].kind = requests[s].kind
                            /\ requests'[s].handed_in_index = requests[s].handed_in_index
  PROVE  /\ PendingOf("capture")' = PendingOf("capture")
         /\ PendingOf("reroll")' = PendingOf("reroll")
         /\ HeldIn' = HeldIn
         /\ \A s \in PendingOf("reroll") :
              requests'[s].handed_in_index = requests[s].handed_in_index
<1>1. /\ PendingOf("capture")' = PendingOf("capture")
      /\ PendingOf("reroll")' = PendingOf("reroll")
      /\ \A s \in PendingOf("reroll") :
           requests'[s].handed_in_index = requests[s].handed_in_index
  BY DEF PendingOf
<1>2. HeldIn' = {requests'[s].handed_in_index : s \in PendingOf("reroll")'}
  BY DEF HeldIn
<1> QED BY <1>1, <1>2 DEF HeldIn

(* A step that moves no NFT and changes neither a kind nor a hand-in.      *)
LEMMA CustodyUntouched ==
  ASSUME CInv, Pending' = Pending,
         \A s \in Pending : /\ requests'[s].kind = requests[s].kind
                            /\ requests'[s].handed_in_index = requests[s].handed_in_index,
         UNCHANGED <<pool, owner>>,
         vault'.pending_captures = vault.pending_captures,
         vault'.pending_rerolls = vault.pending_rerolls,
         vault'.minted_count = vault.minted_count
  PROVE  CInv'
<1>1. /\ PendingOf("capture")' = PendingOf("capture")
      /\ PendingOf("reroll")' = PendingOf("reroll") /\ HeldIn' = HeldIn
      /\ \A s \in PendingOf("reroll") :
           requests'[s].handed_in_index = requests[s].handed_in_index
  BY SameRequests
<1>2. HeldApart'
  BY <1>1 DEF CInv, HeldApart
<1>3. KindsCounted' /\ Owned'
  BY <1>1 DEF CInv, KindsCounted, Owned
<1> QED BY <1>2, <1>3 DEF CInv

-----------------------------------------------------------------------------
(* Every step keeps custody.                                               *)

LEMMA CustodyInit == Init => CInv
<1> SUFFICES ASSUME Init PROVE CInv
  OBVIOUS
<1>1. pool = FreshPool(N) /\ pool.minted = {} /\ owner = [i \in Index |-> Unminted]
      /\ Pending = {}
  BY DEF Init, FreshPool, Pending
<1>2. Distinct(pool) /\ SlotSet(pool) = Index /\ BackSet(pool) = {}
  BY <1>1, SizeAssumption, FreshPoolPlaces DEF Index
<1>3. PendingOf("capture") = {} /\ PendingOf("reroll") = {} /\ HeldIn = {}
  BY <1>1 DEF PendingOf, HeldIn
<1>4. KindsCounted
  BY <1>3, FS_EmptySet DEF KindsCounted, Init
<1>5. Owned
  BY <1>1, <1>2, <1>3, FS_EmptySet DEF Owned, Init
<1> QED BY <1>2, <1>3, <1>4, <1>5 DEF CInv, HeldApart

(* A request is one more of its kind; a re-roll's NFT leaves its wallet.   *)
LEMMA CustodyRequest ==
  ASSUME IInv, CInv, NEW kind \in {"capture", "reroll"}, NEW u \in Users,
         NEW r \in RandAccounts, NEW oracle \in Oracles,
         NEW h \in Index \cup {NoHandedIn},
         RequestRefusals(r, oracle), OpenRequest(kind, u, r, oracle, h),
         Write(RequestedBooks(kind)),
         kind = "capture" => owner' = owner,
         kind = "reroll" => /\ h \in Index /\ owner[h] = u
                            /\ owner' = [owner EXCEPT ![h] = VaultAuthority]
  PROVE  CInv'
<1> DEFINE seq == vault.next_seq
<1>1. /\ TypeOK /\ vault \in VaultType /\ vault' = RequestedVault(kind) /\ pool' = pool
      /\ vault'.assets_outside >= 0
      /\ Distinct(pool) /\ HeldApart /\ KindsCounted /\ Owned
  BY DEF IInv, TypeOK, Write, NoUnderflow, RequestedBooks, Books, CInv
<1>2. /\ Pending' = Pending \cup {seq} /\ seq \notin Pending
      /\ requests'[seq] = NewRequest(kind, u, r, oracle, h)
      /\ \A s \in Pending : requests'[s] = requests[s]
  BY <1>1, OpenRequestType
<1>3. requests'[seq].kind = kind /\ requests'[seq].handed_in_index = h
  BY <1>2 DEF NewRequest
<1>4. /\ kind = "capture" => /\ vault'.pending_captures = vault.pending_captures + 1
                             /\ vault'.pending_rerolls = vault.pending_rerolls
      /\ kind = "reroll" => /\ vault'.pending_captures = vault.pending_captures
                            /\ vault'.pending_rerolls = vault.pending_rerolls + 1
      /\ vault'.minted_count = vault.minted_count
  <2>1. vault'.minted_count = vault.minted_count
    BY <1>1 DEF RequestedVault, VaultType
  <2> QED BY <1>1, <2>1, RequestedVaultType
<1>5. /\ IsFiniteSet(PendingOf("capture")) /\ IsFiniteSet(PendingOf("reroll"))
      /\ seq \notin PendingOf("capture") /\ seq \notin PendingOf("reroll")
  BY <1>1, <1>2, FiniteFacts
<1> HIDE DEF seq
<1>6. /\ PendingOf(kind)' = PendingOf(kind) \cup {seq}
      /\ \A other \in {"capture", "reroll"} : other # kind =>
           {s \in Pending' : requests'[s].kind = other} = PendingOf(other)
  BY <1>2, <1>3 DEF PendingOf
<1>7. CASE kind = "capture"
  <2>1. /\ PendingOf("capture")' = PendingOf("capture") \cup {seq}
        /\ PendingOf("reroll")' = PendingOf("reroll")
    BY <1>6, <1>7 DEF PendingOf
  <2>2. KindsCounted'
    BY <1>1, <1>4, <1>5, <1>7, <2>1, FS_AddElement DEF KindsCounted
  <2>3. \A s \in PendingOf("reroll") : requests'[s] = requests[s]
    BY <1>2 DEF PendingOf
  <2>4. HeldIn' = HeldIn
    BY <2>1, <2>3 DEF HeldIn
  <2>5. HeldApart' /\ Owned'
    BY <1>1, <1>4, <1>7, <2>1, <2>3, <2>4 DEF HeldApart, Owned
  <2> QED BY <1>1, <2>2, <2>5 DEF CInv
<1>8. CASE kind = "reroll"
  <2>1. /\ PendingOf("reroll")' = PendingOf("reroll") \cup {seq}
        /\ PendingOf("capture")' = PendingOf("capture")
    BY <1>6, <1>8 DEF PendingOf
  <2>2. KindsCounted'
    BY <1>1, <1>4, <1>5, <1>8, <2>1, FS_AddElement DEF KindsCounted
  <2>3. \A s \in PendingOf("reroll") : requests'[s] = requests[s]
    BY <1>2 DEF PendingOf
  <2>4. HeldIn' = HeldIn \cup {h}
    BY <1>3, <2>1, <2>3 DEF HeldIn
  <2>5. /\ h \notin SlotSet(pool) \cup BackSet(pool) \cup HeldIn /\ owner[h] # Unminted
        /\ h \in Index /\ owner' = [owner EXCEPT ![h] = VaultAuthority]
    BY <1>1, <1>8, OutsideFacts, OwnerAssumption
  <2>6. HeldApart'
    <3>1. \A s \in PendingOf("reroll") : requests[s].handed_in_index # h
      BY <2>5 DEF HeldIn
    <3> QED BY <1>1, <1>3, <2>1, <2>3, <2>5, <3>1 DEF HeldApart
  <2>7. Owned'
    <3>1. /\ owner'[h] = VaultAuthority /\ \A i \in Index : i # h => owner'[i] = owner[i]
      BY <1>1, <2>5 DEF TypeOK
    <3>2. \A i \in SlotSet(pool) \cup BackSet(pool) \cup HeldIn : i \in Index /\ i # h
      <4>1. HeldIn \subseteq Index
        BY DEF HeldIn, IInv, DrawsFit, PendingOf
      <4> QED BY <1>1, <2>5, <4>1, PoolFacts, PlacesCardinality
    <3>3. {i \in Index : owner'[i] # Unminted} = {i \in Index : owner[i] # Unminted}
      BY <2>5, <3>1, OwnerAssumption
    <3>4. \A i \in Index : owner'[i] = Unminted => i \in SlotSet(pool)
      BY <1>1, <3>1, OwnerAssumption DEF Owned
    <3>5. \A i \in SlotSet(pool) \cup BackSet(pool) \cup HeldIn' :
            owner'[i] \in {Unminted, VaultAuthority}
      BY <1>1, <2>4, <3>1, <3>2 DEF Owned
    <3> QED BY <1>1, <1>4, <3>3, <3>4, <3>5 DEF Owned
  <2> QED BY <1>1, <2>2, <2>6, <2>7 DEF CInv
<1> QED BY <1>7, <1>8

(* merge_incoming moves NFTs inside the pool account.                      *)
LEMMA CustodyMerge ==
  ASSUME IInv, CInv, NEW k \in 1..incoming_len(pool), NEW max, MergeIncoming(k, max)
  PROVE  CInv'
<1>1. /\ pool' = Merged(pool, k)
      /\ UNCHANGED <<vault, vault_tokens, wallet, owner, draws, world>>
  BY DEF MergeIncoming
<1>2. /\ TypeOK /\ pool \in PoolType(Index) /\ Distinct(pool)
      /\ HeldApart /\ KindsCounted /\ Owned /\ k \in 0..incoming_len(pool)
  BY PoolFacts DEF IInv, CInv
<1>3. /\ Distinct(pool') /\ pool'.minted = pool.minted
      /\ SlotSet(pool') \cup BackSet(pool') = SlotSet(pool) \cup BackSet(pool)
      /\ SlotSet(pool) \subseteq SlotSet(pool')
  BY <1>1, <1>2, MergedPlaces, MergedType
<1>4. Pending' = Pending
  BY <1>1 DEF Pending
<1>5. /\ PendingOf("capture")' = PendingOf("capture")
      /\ PendingOf("reroll")' = PendingOf("reroll") /\ HeldIn' = HeldIn
  BY <1>1, <1>4, SameRequests DEF draws
<1>6. HeldApart' /\ KindsCounted'
  BY <1>1, <1>2, <1>3, <1>5 DEF HeldApart, KindsCounted, draws
<1>7. Owned'
  BY <1>1, <1>2, <1>3, <1>5 DEF Owned
<1> QED BY <1>3, <1>6, <1>7 DEF CInv

(* Closing the n oldest requests takes those of each kind from its count.  *)
LEMMA CloseKinds ==
  ASSUME TypeOK, NEW n \in Nat, HeadSeq..(HeadSeq + n - 1) \subseteq Pending,
         CloseRequests(HeadSeq..(HeadSeq + n - 1)),
         vault'.next_seq = vault.next_seq,
         vault'.next_settle_seq = vault.next_settle_seq + n
  PROVE  /\ \A s \in Pending' : s \in Pending /\ requests'[s] = requests[s]
         /\ PendingOf("reroll")' = PendingOf("reroll") \ ExpiredOf(n, "reroll")
         /\ ExpiredOf(n, "reroll") \subseteq PendingOf("reroll")
         /\ ExpiredOf(n, "capture") \subseteq PendingOf("capture")
         /\ Cardinality(ExpiredOf(n, "capture")) <= Cardinality(PendingOf("capture"))
         /\ Cardinality(ExpiredOf(n, "reroll")) <= Cardinality(PendingOf("reroll"))
         /\ Cardinality(PendingOf("capture")') =
              Cardinality(PendingOf("capture")) - Cardinality(ExpiredOf(n, "capture"))
         /\ Cardinality(PendingOf("reroll")') =
              Cardinality(PendingOf("reroll")) - Cardinality(ExpiredOf(n, "reroll"))
<1>1. /\ Pending' = Pending \ (HeadSeq..(HeadSeq + n - 1))
      /\ \A s \in Pending' : s \in Pending /\ requests'[s] = requests[s]
  BY CloseRequestsType
<1>2. /\ ExpiredOf(n, "reroll") \subseteq PendingOf("reroll")
      /\ ExpiredOf(n, "capture") \subseteq PendingOf("capture")
  BY DEF ExpiredOf, PendingOf
<1>3. /\ PendingOf("capture")' = PendingOf("capture") \ ExpiredOf(n, "capture")
      /\ PendingOf("reroll")' = PendingOf("reroll") \ ExpiredOf(n, "reroll")
  BY <1>1 DEF ExpiredOf, PendingOf
<1>4. ASSUME NEW kind, ExpiredOf(n, kind) \subseteq PendingOf(kind)
      PROVE  /\ Cardinality(ExpiredOf(n, kind)) <= Cardinality(PendingOf(kind))
             /\ Cardinality(PendingOf(kind) \ ExpiredOf(n, kind)) =
                  Cardinality(PendingOf(kind)) - Cardinality(ExpiredOf(n, kind))
  <2>1. IsFiniteSet(PendingOf(kind))
    BY FiniteFacts
  <2>2. PendingOf(kind) \cap ExpiredOf(n, kind) = ExpiredOf(n, kind)
    BY <1>4
  <2>3. Cardinality(ExpiredOf(n, kind)) <= Cardinality(PendingOf(kind))
    BY <1>4, <2>1, FS_Subset
  <2>4. Cardinality(PendingOf(kind) \ ExpiredOf(n, kind)) =
          Cardinality(PendingOf(kind)) - Cardinality(PendingOf(kind) \cap ExpiredOf(n, kind))
    BY <2>1, FS_Difference
  <2> QED BY <2>2, <2>3, <2>4
<1> QED BY <1>1, <1>2, <1>3, <1>4

(* What settle does to the pool account: the entry drawn leaves it, the    *)
(* head's hand-in takes its place, and nothing else comes or goes.         *)
LEMMA SettledPlaces ==
  ASSUME IInv, Distinct(pool), HeldApart, NEW k \in 0..incoming_len(pool),
         SettleRefusals(k), pool_len(Merged(pool, k)) > 0
  PROVE  LET p == SettledBooks(k).pool
             req == requests[HeadSeq]
             given == IF req.kind = "reroll" THEN {req.handed_in_index} ELSE {}
         IN  /\ Distinct(p)
             /\ PickedIndex(k) \in SlotSet(pool) \cup BackSet(pool)
             /\ PickedIndex(k) \notin given
             /\ SlotSet(pool) \ {PickedIndex(k)} \subseteq SlotSet(p)
             /\ SlotSet(p) \cup BackSet(p) =
                  ((SlotSet(pool) \cup BackSet(pool)) \ {PickedIndex(k)}) \cup given
             /\ p.minted = pool.minted \cup {PickedIndex(k)}
             /\ SlotSet(p) \subseteq SlotSet(Merged(pool, k)) \cup given
<1> DEFINE req == requests[HeadSeq]
           given == IF req.kind = "reroll" THEN {req.handed_in_index} ELSE {}
           merged == Merged(pool, k)
           pos == Position(merged)
           removed == pool_swap_remove(merged, pos)
           drawn == DrawnPool(merged, req.kind, req.handed_in_index, pos)
           picked == pool_get(merged, pos)
           result == IF picked \notin pool.minted THEN mark_minted(drawn, picked) ELSE drawn
<1>1. TypeOK /\ pool \in PoolType(Index) /\ HeadSeq \in Pending /\ req.revealed
  BY PoolFacts DEF IInv, SettleRefusals
<1>2. /\ merged \in PoolType(Index) /\ Distinct(merged) /\ merged.minted = pool.minted
      /\ SlotSet(merged) \cup BackSet(merged) = SlotSet(pool) \cup BackSet(pool)
      /\ SlotSet(pool) \subseteq SlotSet(merged)
      /\ total(merged) = total(pool)
  BY <1>1, MergedPlaces, MergedType
<1>3. pos \in 0..(pool_len(merged) - 1)
  <2>1. total(pool) <= N /\ total(pool) \in Nat
    BY <1>1, PoolFacts, ConstantFacts DEF IInv, DrawsFit
  <2>2. pool_len(merged) \in Nat /\ incoming_len(merged) \in Nat
        /\ total(merged) = pool_len(merged) + incoming_len(merged)
    BY <1>2, PoolLengths
  <2>3. pool_len(merged) \in 1..N
    <3> HIDE DEF merged
    <3>1. pool_len(merged) > 0
      BY DEF merged
    <3> QED BY <1>2, <2>1, <2>2, <3>1, ConstantFacts
  <2> QED BY <1>1, <2>3, HeadFacts, PickAssumption DEF Position
<1> HIDE DEF merged, pos
<1>4. /\ Distinct(removed) /\ picked \in SlotSet(merged)
      /\ SlotSet(removed) = SlotSet(merged) \ {picked} /\ BackSet(removed) = BackSet(merged)
      /\ removed \in PoolType(Index) /\ removed.minted = merged.minted
  BY <1>2, <1>3, SwapRemovePlaces, SwapRemoveType
<1>5. picked \notin BackSet(merged)
  BY <1>2, <1>4, PlacesCardinality
<1> HIDE DEF removed, picked
<1>6. /\ Distinct(drawn) /\ drawn.minted = pool.minted /\ picked \notin given
      /\ SlotSet(drawn) = SlotSet(removed) \cup given /\ BackSet(drawn) = BackSet(removed)
      /\ drawn \in PoolType(Index)
  <2>1. CASE req.kind = "reroll"
    <3>1. /\ drawn = pool_push(removed, req.handed_in_index) /\ given = {req.handed_in_index}
          /\ req.handed_in_index \in Index
      BY <1>1, <2>1, HeadFacts DEF DrawnPool, removed
    <3>2. req.handed_in_index \notin SlotSet(pool) \cup BackSet(pool)
      BY <1>1, <2>1 DEF HeldApart, PendingOf
    <3>3. req.handed_in_index \notin SlotSet(removed) \cup BackSet(removed)
          /\ picked # req.handed_in_index
      BY <1>2, <1>4, <3>2
    <3> HIDE DEF drawn, given
    <3>4. /\ Distinct(drawn) /\ SlotSet(drawn) = SlotSet(removed) \cup {req.handed_in_index}
          /\ BackSet(drawn) = BackSet(removed)
      BY <1>4, <3>1, <3>3, PushPlaces
    <3>5. drawn \in PoolType(Index) /\ drawn.minted = removed.minted
      BY <1>4, <3>1, PushType
    <3> QED BY <1>2, <1>4, <3>1, <3>3, <3>4, <3>5
  <2>2. CASE req.kind # "reroll"
    <3>1. drawn = removed /\ given = {}
      BY <2>2 DEF DrawnPool, removed
    <3> HIDE DEF drawn, given, req
    <3> QED BY <1>2, <1>4, <3>1
  <2> QED BY <2>1, <2>2
<1>7. SettledBooks(k).pool = result /\ PickedIndex(k) = picked
  BY DEF SettledBooks, Books, PickedIndex, merged, pos, picked
<1> HIDE DEF drawn, given, req
<1>8. /\ result.slots = drawn.slots /\ result.incoming = drawn.incoming
      /\ result.minted = pool.minted \cup {picked}
  BY <1>6 DEF mark_minted, PoolType
<1>9. /\ Distinct(result) /\ SlotSet(result) = SlotSet(drawn)
      /\ BackSet(result) = BackSet(drawn)
  <2> HIDE DEF result
  <2> QED BY <1>6, <1>8 DEF Distinct, SlotSet, BackSet, pool_len, incoming_len
<1> HIDE DEF result
<1>10. SlotSet(result) \cup BackSet(result) =
         ((SlotSet(pool) \cup BackSet(pool)) \ {picked}) \cup given
  BY <1>2, <1>4, <1>5, <1>6, <1>9
<1>11. SlotSet(pool) \ {picked} \subseteq SlotSet(result)
  BY <1>2, <1>4, <1>6, <1>9
<1>12. picked \in SlotSet(pool) \cup BackSet(pool)
  BY <1>2, <1>4
<1>13. SlotSet(result) \subseteq SlotSet(Merged(pool, k)) \cup given
  BY <1>4, <1>6, <1>9 DEF merged
<1> QED BY <1>6, <1>7, <1>8, <1>9, <1>10, <1>11, <1>12, <1>13 DEF given, req

(* settle: one NFT of the pool goes to the user whose request it was.      *)
LEMMA CustodySettle ==
  ASSUME IInv, CInv, NEW k \in 0..incoming_len(pool), Settle(k)
  PROVE  CInv'
<1> DEFINE req == requests[HeadSeq]
           picked == PickedIndex(k)
           given == IF req.kind = "reroll" THEN {req.handed_in_index} ELSE {}
           mint == picked \notin pool.minted
<1>1. /\ SettleRefusals(k) /\ pool_len(Merged(pool, k)) > 0
      /\ owner' = [owner EXCEPT ![picked] = req.user]
      /\ CloseRequests({HeadSeq})
      /\ vault' = SettledBooks(k).vault /\ pool' = SettledBooks(k).pool
      /\ vault'.pending_captures >= 0 /\ vault'.pending_rerolls >= 0
  BY DEF Settle, Write, NoUnderflow
<1>2. /\ TypeOK /\ vault \in VaultType /\ HeadSeq \in Pending /\ HeadSeq \in Nat
      /\ Distinct(pool) /\ HeldApart /\ KindsCounted /\ Owned
  BY <1>1, QueueFacts DEF IInv, TypeOK, SettleRefusals, CInv
<1>3. req.kind \in {"capture", "reroll"} /\ req.user \in Users
  BY <1>2, HeadFacts, RequestFacts
<1>4. /\ Distinct(pool') /\ picked \in SlotSet(pool) \cup BackSet(pool)
      /\ picked \notin given
      /\ SlotSet(pool) \ {picked} \subseteq SlotSet(pool')
      /\ SlotSet(pool') \cup BackSet(pool') =
           ((SlotSet(pool) \cup BackSet(pool)) \ {picked}) \cup given
      /\ pool'.minted = pool.minted \cup {picked}
  BY <1>1, <1>2, SettledPlaces
<1>5. vault' = SettledVault(req.kind, mint) /\ picked \in Index
  BY <1>1, SettledPoolType
<1>6. mint \in BOOLEAN
  OBVIOUS
<1> HIDE DEF picked, mint
<1>7. /\ vault'.next_seq = vault.next_seq
      /\ vault'.next_settle_seq = vault.next_settle_seq + 1
      /\ vault'.minted_count = IF mint THEN vault.minted_count + 1 ELSE vault.minted_count
      /\ req.kind = "capture" => /\ vault'.pending_captures = vault.pending_captures - 1
                                 /\ vault'.pending_rerolls = vault.pending_rerolls
      /\ req.kind = "reroll" => /\ vault'.pending_captures = vault.pending_captures
                                /\ vault'.pending_rerolls = vault.pending_rerolls - 1
  <2> HIDE DEF req
  <2> QED BY <1>1, <1>2, <1>3, <1>5, <1>6, SettledVaultType
<1>8. HeadSeq..(HeadSeq + 1 - 1) = {HeadSeq}
  BY <1>2
<1>9. /\ \A s \in Pending' : s \in Pending /\ requests'[s] = requests[s]
      /\ PendingOf("reroll")' = PendingOf("reroll") \ ExpiredOf(1, "reroll")
      /\ Cardinality(PendingOf("capture")') =
           Cardinality(PendingOf("capture")) - Cardinality(ExpiredOf(1, "capture"))
      /\ Cardinality(PendingOf("reroll")') =
           Cardinality(PendingOf("reroll")) - Cardinality(ExpiredOf(1, "reroll"))
  BY <1>1, <1>2, <1>7, <1>8, CloseKinds
<1>10. /\ req.kind = "capture" => /\ ExpiredOf(1, "capture") = {HeadSeq}
                                  /\ ExpiredOf(1, "reroll") = {}
       /\ req.kind = "reroll" => /\ ExpiredOf(1, "capture") = {}
                                 /\ ExpiredOf(1, "reroll") = {HeadSeq}
  BY <1>8 DEF ExpiredOf
<1>11. KindsCounted'
  <2>1. Cardinality({HeadSeq}) = 1 /\ Cardinality({}) = 0
    BY FS_Singleton, FS_EmptySet
  <2>2. vault.pending_captures \in Nat /\ vault.pending_rerolls \in Nat
    BY <1>2 DEF VaultType
  <2>3. CASE req.kind = "capture"
    <3>1. Cardinality(ExpiredOf(1, "capture")) = 1 /\ Cardinality(ExpiredOf(1, "reroll")) = 0
      BY <1>10, <2>1, <2>3
    <3> QED BY <1>2, <1>7, <1>9, <2>2, <2>3, <3>1 DEF KindsCounted
  <2>4. CASE req.kind = "reroll"
    <3>1. Cardinality(ExpiredOf(1, "capture")) = 0 /\ Cardinality(ExpiredOf(1, "reroll")) = 1
      BY <1>10, <2>1, <2>4
    <3> QED BY <1>2, <1>7, <1>9, <2>2, <2>4, <3>1 DEF KindsCounted
  <2> QED BY <1>3, <2>3, <2>4
<1>12. /\ PendingOf("reroll")' \subseteq PendingOf("reroll")
       /\ \A s \in PendingOf("reroll")' : /\ requests'[s] = requests[s]
                                          /\ requests[s].handed_in_index \notin given
  <2>1. PendingOf("reroll")' \subseteq Pending'
    BY DEF PendingOf
  <2>2. ASSUME NEW s \in PendingOf("reroll")', req.kind = "reroll"
        PROVE  requests[s].handed_in_index # req.handed_in_index
    <3>1. s \in PendingOf("reroll") /\ s # HeadSeq
      BY <1>9, <1>10, <2>2
    <3>2. HeadSeq \in PendingOf("reroll")
      BY <1>2, <2>2 DEF PendingOf
    <3> QED BY <1>2, <3>1, <3>2 DEF HeldApart
  <2> QED BY <1>9, <2>1, <2>2
<1> HIDE DEF given
<1>13. HeldApart'
  <2>1. \A s \in PendingOf("reroll")' :
          requests[s].handed_in_index \notin SlotSet(pool') \cup BackSet(pool')
    BY <1>2, <1>4, <1>12 DEF HeldApart
  <2> QED BY <1>2, <1>12, <2>1 DEF HeldApart
<1>14. HeldIn' \subseteq HeldIn
  BY <1>12 DEF HeldIn
<1>15. picked \notin HeldIn'
  BY <1>2, <1>4, <1>12 DEF HeldIn, HeldApart
<1>16. given \subseteq HeldIn
  BY <1>2 DEF given, HeldIn, PendingOf
<1>17. Owned'
  <2>1. owner'[picked] = req.user /\ \A i \in Index : i # picked => owner'[i] = owner[i]
    BY <1>1, <1>2, <1>5 DEF TypeOK
  <2>2. pool'.minted = {i \in Index : owner'[i] # Unminted}
    BY <1>2, <1>3, <1>4, <1>5, <2>1, OwnerAssumption DEF Owned
  <2>3. Cardinality(pool'.minted) = vault'.minted_count
    <3>1. IsFiniteSet(pool.minted)
      BY <1>2, FiniteFacts
    <3>2. Cardinality(pool.minted \cup {picked}) =
            IF mint THEN Cardinality(pool.minted) + 1 ELSE Cardinality(pool.minted)
      BY <3>1, FS_AddElement DEF mint
    <3>3. Cardinality(pool'.minted) = Cardinality(pool.minted \cup {picked})
      BY <1>4
    <3> QED BY <1>2, <1>7, <3>2, <3>3 DEF Owned
  <2>4. \A i \in Index : owner'[i] = Unminted => i \in SlotSet(pool')
    BY <1>2, <1>3, <1>4, <2>1, OwnerAssumption DEF Owned
  <2>5. \A i \in SlotSet(pool') \cup BackSet(pool') \cup HeldIn' :
          i \in SlotSet(pool) \cup BackSet(pool) \cup HeldIn /\ i # picked
    <3>1. picked \notin SlotSet(pool') \cup BackSet(pool')
      BY <1>4
    <3> QED BY <1>4, <1>14, <1>15, <1>16, <3>1
  <2>6. SlotSet(pool) \cup BackSet(pool) \cup HeldIn \subseteq Index
    <3>1. HeldIn \subseteq Index
      BY DEF HeldIn, IInv, DrawsFit, PendingOf
    <3> QED BY <1>2, <3>1, PoolFacts, PlacesCardinality
  <2>7. \A i \in SlotSet(pool') \cup BackSet(pool') \cup HeldIn' :
          owner'[i] \in {Unminted, VaultAuthority}
    BY <1>2, <2>1, <2>5, <2>6 DEF Owned
  <2> QED BY <2>2, <2>3, <2>4, <2>7 DEF Owned
<1> QED BY <1>4, <1>11, <1>13, <1>17 DEF CInv

(* expire: each re-roll of the batch gets its own NFT back, the captures   *)
(* none.                                                                   *)
LEMMA CustodyExpire ==
  ASSUME IInv, CInv, NEW n \in Nat \ {0}, ExpireHeads(n)
  PROVE  CInv'
<1> DEFINE gone == ExpiredOf(n, "reroll")
           freed == {requests[s].handed_in_index : s \in gone}
<1>1. /\ HeadSeq..(HeadSeq + n - 1) \subseteq Pending
      /\ CloseRequests(HeadSeq..(HeadSeq + n - 1))
      /\ vault' = ExpiredVault(n) /\ pool' = pool
      /\ vault'.pending_captures >= 0 /\ vault'.pending_rerolls >= 0
  BY DEF ExpireHeads, ExpireRefusals, Write, NoUnderflow, ExpiredBooks, Books
<1>2. /\ TypeOK /\ vault \in VaultType
      /\ Distinct(pool) /\ HeldApart /\ KindsCounted /\ Owned
  BY DEF IInv, TypeOK, CInv
<1>3. /\ vault'.next_seq = vault.next_seq
      /\ vault'.next_settle_seq = vault.next_settle_seq + n
      /\ vault'.pending_captures =
           vault.pending_captures - Cardinality(ExpiredOf(n, "capture"))
      /\ vault'.pending_rerolls = vault.pending_rerolls - Cardinality(gone)
      /\ vault'.minted_count = vault.minted_count
  <2>1. vault'.minted_count = vault.minted_count
    BY <1>1, <1>2 DEF ExpiredVault, VaultType
  <2> QED BY <1>1, <1>2, <2>1, ExpiredCounts, ExpiredVaultType
<1>4. /\ \A s \in Pending' : s \in Pending /\ requests'[s] = requests[s]
      /\ PendingOf("reroll")' = PendingOf("reroll") \ gone
      /\ gone \subseteq PendingOf("reroll")
      /\ Cardinality(PendingOf("capture")') =
           Cardinality(PendingOf("capture")) - Cardinality(ExpiredOf(n, "capture"))
      /\ Cardinality(PendingOf("reroll")') =
           Cardinality(PendingOf("reroll")) - Cardinality(gone)
  BY <1>1, <1>2, <1>3, CloseKinds
<1>5. KindsCounted'
  <2> HIDE DEF gone
  <2> QED BY <1>2, <1>3, <1>4 DEF KindsCounted
<1>6. \A s \in gone : requests[s].user \in Users
  BY <1>2, <1>4, FiniteFacts, QueueFacts, RequestFacts
<1>7. owner' = [i \in Index |->
                  IF \E s \in gone : requests[s].handed_in_index = i
                  THEN requests[CHOOSE s \in gone : requests[s].handed_in_index = i].user
                  ELSE owner[i]]
  BY DEF ExpireHeads
<1> HIDE DEF gone
<1>8. ASSUME NEW i \in Index
      PROVE  IF i \in freed THEN owner'[i] \in Users ELSE owner'[i] = owner[i]
  <2>1. CASE i \in freed
    <3>1. \E s \in gone : requests[s].handed_in_index = i
      BY <2>1
    <3> DEFINE s0 == CHOOSE s \in gone : requests[s].handed_in_index = i
    <3>2. s0 \in gone
      BY <3>1
    <3>3. owner'[i] = requests[s0].user
      BY <1>7, <3>1
    <3> HIDE DEF s0
    <3> QED BY <1>6, <2>1, <3>2, <3>3
  <2>2. CASE i \notin freed
    <3>1. ~ \E s \in gone : requests[s].handed_in_index = i
      BY <2>2
    <3> QED BY <1>7, <2>2, <3>1
  <2> QED BY <2>1, <2>2
<1>9. /\ PendingOf("reroll")' \subseteq PendingOf("reroll")
      /\ \A s \in PendingOf("reroll")' : requests'[s] = requests[s]
  <2>1. PendingOf("reroll")' \subseteq Pending'
    BY DEF PendingOf
  <2> QED BY <1>4, <2>1
<1>10. \A s \in PendingOf("reroll")' : requests[s].handed_in_index \notin freed
  BY <1>2, <1>4, <1>9 DEF HeldApart
<1>11. freed \subseteq HeldIn /\ freed \cap (SlotSet(pool) \cup BackSet(pool)) = {}
  BY <1>2, <1>4 DEF HeldIn, HeldApart
<1>12. HeldIn' \subseteq HeldIn /\ HeldIn' \cap freed = {}
  BY <1>9, <1>10 DEF HeldIn
<1>13. HeldIn \subseteq Index
  BY DEF HeldIn, IInv, DrawsFit, PendingOf
<1> HIDE DEF freed
<1>14. HeldApart'
  BY <1>1, <1>2, <1>9 DEF HeldApart
<1>15. Owned'
  <2>1. \A i \in HeldIn : owner[i] # Unminted
    BY <1>2, <1>13 DEF Owned, HeldApart, HeldIn
  <2>2. \A i \in Index : owner'[i] = Unminted <=> owner[i] = Unminted
    BY <1>8, <1>11, <2>1, OwnerAssumption
  <2>3. pool'.minted = {i \in Index : owner'[i] # Unminted}
    BY <1>1, <1>2, <2>2 DEF Owned
  <2>4. \A i \in Index : owner'[i] = Unminted => i \in SlotSet(pool')
    BY <1>1, <1>2, <2>2 DEF Owned
  <2>5. \A i \in SlotSet(pool) \cup BackSet(pool) \cup HeldIn' :
          i \in Index /\ i \notin freed /\ i \in SlotSet(pool) \cup BackSet(pool) \cup HeldIn
    BY <1>2, <1>11, <1>12, <1>13, PoolFacts, PlacesCardinality
  <2>6. \A i \in SlotSet(pool') \cup BackSet(pool') \cup HeldIn' :
          owner'[i] \in {Unminted, VaultAuthority}
    BY <1>1, <1>2, <1>8, <2>5 DEF Owned
  <2> QED BY <1>1, <1>2, <1>3, <2>3, <2>4, <2>6 DEF Owned
<1> QED BY <1>1, <1>2, <1>5, <1>14, <1>15 DEF CInv

(* unwrap: an NFT from a wallet goes to the back of the FIFO.              *)
LEMMA CustodyUnwrap ==
  ASSUME IInv, CInv, NEW u \in Users, NEW i \in Index, Unwrap(u, i)
  PROVE  CInv'
<1>1. /\ owner[i] = u /\ owner' = [owner EXCEPT ![i] = VaultAuthority]
      /\ vault' = ReleasedBooks(i).vault /\ vault'.assets_outside >= 0
      /\ pool' = incoming_push(pool, i, vault.next_seq)
      /\ UNCHANGED <<draws, world>>
  BY DEF Unwrap, Write, NoUnderflow, ReleasedBooks, Books, ReleaseTag
<1>2. /\ TypeOK /\ vault \in VaultType /\ pool \in PoolType(Index) /\ vault.next_seq \in Nat
      /\ Distinct(pool) /\ HeldApart /\ KindsCounted /\ Owned
  BY PoolFacts, QueueFacts DEF IInv, TypeOK, CInv
<1>3. /\ vault'.next_seq = vault.next_seq
      /\ vault'.next_settle_seq = vault.next_settle_seq
      /\ vault'.pending_captures = vault.pending_captures
      /\ vault'.pending_rerolls = vault.pending_rerolls
      /\ vault'.minted_count = vault.minted_count
  <2>1. vault'.minted_count = vault.minted_count
    BY <1>1, <1>2 DEF ReleasedBooks, Books, VaultType
  <2> QED BY <1>1, <1>2, <2>1, ReleasedVaultType
<1>4. i \notin SlotSet(pool) \cup BackSet(pool) \cup HeldIn /\ owner[i] # Unminted
  BY <1>1, <1>2, OutsideFacts, OwnerAssumption
<1>5. /\ Distinct(pool') /\ SlotSet(pool') = SlotSet(pool)
      /\ BackSet(pool') = BackSet(pool) \cup {i} /\ pool'.minted = pool.minted
  BY <1>1, <1>2, <1>4, IncomingPushPlaces, IncomingPushType
<1>6. Pending' = Pending
  BY <1>3 DEF Pending
<1>7. /\ PendingOf("capture")' = PendingOf("capture")
      /\ PendingOf("reroll")' = PendingOf("reroll") /\ HeldIn' = HeldIn
      /\ \A s \in PendingOf("reroll") : requests'[s] = requests[s]
  BY <1>1, <1>6, SameRequests DEF draws
<1>8. HeldApart' /\ KindsCounted'
  <2>1. \A s \in PendingOf("reroll") : requests[s].handed_in_index # i
    BY <1>4 DEF HeldIn
  <2> QED BY <1>2, <1>3, <1>5, <1>7, <2>1 DEF HeldApart, KindsCounted
<1>9. Owned'
  <2>1. owner'[i] = VaultAuthority /\ \A j \in Index : j # i => owner'[j] = owner[j]
    BY <1>1, <1>2 DEF TypeOK
  <2>2. SlotSet(pool) \cup BackSet(pool) \cup HeldIn \subseteq Index
    <3>1. HeldIn \subseteq Index
      BY DEF HeldIn, IInv, DrawsFit, PendingOf
    <3> QED BY <1>2, <3>1, PlacesCardinality
  <2>3. pool'.minted = {j \in Index : owner'[j] # Unminted}
    BY <1>2, <1>4, <1>5, <2>1, OwnerAssumption DEF Owned
  <2>4. \A j \in Index : owner'[j] = Unminted => j \in SlotSet(pool')
    BY <1>2, <1>5, <2>1, OwnerAssumption DEF Owned
  <2>5. \A j \in SlotSet(pool') \cup BackSet(pool') \cup HeldIn' :
          owner'[j] \in {Unminted, VaultAuthority}
    BY <1>2, <1>4, <1>5, <1>7, <2>1, <2>2 DEF Owned
  <2> QED BY <1>2, <1>3, <1>5, <2>3, <2>4, <2>5 DEF Owned
<1> QED BY <1>5, <1>8, <1>9 DEF CInv

(* A trade moves an NFT that is nowhere in custody to another owner.       *)
LEMMA CustodyTransfer ==
  ASSUME IInv, CInv, NEW u \in Users, NEW i \in Index, NEW to \in Users \cup Sinks,
         TransferNft(u, i, to)
  PROVE  CInv'
<1>1. /\ owner[i] = u /\ owner' = [owner EXCEPT ![i] = to]
      /\ UNCHANGED <<vault, pool, vault_tokens, wallet, draws, world>>
  BY DEF TransferNft
<1>2. /\ TypeOK /\ pool \in PoolType(Index)
      /\ Distinct(pool) /\ HeldApart /\ KindsCounted /\ Owned
  BY PoolFacts DEF IInv, CInv
<1>3. i \notin SlotSet(pool) \cup BackSet(pool) \cup HeldIn
  BY <1>1, <1>2, OutsideFacts
<1>4. Pending' = Pending
  BY <1>1 DEF Pending
<1>5. /\ PendingOf("capture")' = PendingOf("capture")
      /\ PendingOf("reroll")' = PendingOf("reroll") /\ HeldIn' = HeldIn
  BY <1>1, <1>4, SameRequests DEF draws
<1>6. HeldApart' /\ KindsCounted'
  BY <1>1, <1>2, <1>5 DEF HeldApart, KindsCounted, draws
<1>7. Owned'
  <2>1. owner'[i] = to /\ \A j \in Index : j # i => owner'[j] = owner[j]
    BY <1>1, <1>2 DEF TypeOK
  <2>2. SlotSet(pool) \cup BackSet(pool) \cup HeldIn \subseteq Index
    <3>1. HeldIn \subseteq Index
      BY DEF HeldIn, IInv, DrawsFit, PendingOf
    <3> QED BY <1>2, <3>1, PlacesCardinality
  <2>3. \A j \in Index : owner'[j] = Unminted <=> owner[j] = Unminted
    BY <1>1, <2>1, OwnerAssumption
  <2>4. \A j \in SlotSet(pool) \cup BackSet(pool) \cup HeldIn : owner'[j] = owner[j]
    BY <1>3, <2>1, <2>2
  <2>5. pool'.minted = {j \in Index : owner'[j] # Unminted}
    BY <1>1, <1>2, <2>3 DEF Owned
  <2> QED BY <1>1, <1>2, <1>5, <2>3, <2>4, <2>5 DEF Owned
<1> QED BY <1>1, <1>2, <1>6, <1>7 DEF CInv

LEMMA CustodyStep == IInv /\ CInv /\ [Next]_vars => CInv'
<1> SUFFICES ASSUME IInv, CInv, [Next]_vars PROVE CInv'
  OBVIOUS
<1>0. vault \in VaultType /\ requests \in [Pending -> RequestType]
  BY DEF IInv, TypeOK
<1>1. CASE OpenVault
  <2>1. /\ vault' = [vault EXCEPT !.open = TRUE] /\ pool' = pool
        /\ UNCHANGED <<owner, requests>>
    BY <1>1 DEF OpenVault, Write, Books, draws
  <2>2. Pending' = Pending
    BY <1>0, <2>1 DEF Pending, VaultType
  <2> QED BY <1>0, <2>1, <2>2, CustodyUntouched DEF VaultType
<1>2. CASE Request
  <2>1. PICK r \in RandAccounts, oracle \in Oracles, u \in Users :
          \/ RequestCapture(u, r, oracle)
          \/ \E i \in Index : RequestReroll(u, i, r, oracle)
    BY <1>2 DEF Request
  <2>2. CASE RequestCapture(u, r, oracle)
    <3>1. /\ RequestRefusals(r, oracle) /\ OpenRequest("capture", u, r, oracle, NoHandedIn)
          /\ Write(RequestedBooks("capture")) /\ owner' = owner
      BY <2>2 DEF RequestCapture
    <3> QED BY <3>1, CustodyRequest
  <2>3. CASE \E i \in Index : RequestReroll(u, i, r, oracle)
    <3>1. PICK i \in Index : RequestReroll(u, i, r, oracle)
      BY <2>3
    <3>2. /\ RequestRefusals(r, oracle) /\ OpenRequest("reroll", u, r, oracle, i)
          /\ Write(RequestedBooks("reroll")) /\ owner[i] = u
          /\ owner' = [owner EXCEPT ![i] = VaultAuthority]
      BY <3>1 DEF RequestReroll
    <3> QED BY <3>2, CustodyRequest
  <2> QED BY <2>1, <2>2, <2>3
<1>3. CASE Reveal
  <2>1. PICK s \in Pending, value \in Values : RevealRandomness(s, value)
    BY <1>3 DEF Reveal
  <2>2. /\ requests' = [requests EXCEPT ![s].revealed = TRUE, ![s].value = value]
        /\ UNCHANGED <<vault, pool, owner>>
    BY <2>1 DEF RevealRandomness, accounts
  <2>3. Pending' = Pending
    BY <2>2 DEF Pending
  <2>4. \A t \in Pending : /\ requests'[t].kind = requests[t].kind
                           /\ requests'[t].handed_in_index = requests[t].handed_in_index
    BY <1>0, <2>2 DEF RequestType
  <2> QED BY <2>2, <2>3, <2>4, CustodyUntouched
<1>4. CASE Recommit
  <2>1. PICK s \in Pending, oracle \in Oracles : RecommitRandomness(s, oracle)
    BY <1>4 DEF Recommit
  <2>2. /\ requests' = [requests EXCEPT ![s] = Recommitted(requests[s], oracle)]
        /\ vault' = [vault EXCEPT !.total_recommits = @ + 1]
        /\ UNCHANGED <<pool, owner>>
    BY <2>1 DEF RecommitRandomness
  <2>3. Pending' = Pending
    BY <1>0, <2>2 DEF Pending, VaultType
  <2>4. \A t \in Pending : /\ requests'[t].kind = requests[t].kind
                           /\ requests'[t].handed_in_index = requests[t].handed_in_index
    BY <1>0, <2>2 DEF RequestType, Recommitted
  <2> QED BY <1>0, <2>2, <2>3, <2>4, CustodyUntouched DEF VaultType
<1>5. CASE SettleHead
  BY <1>5, CustodySettle DEF SettleHead
<1>6. CASE Merge
  BY <1>6, CustodyMerge DEF Merge
<1>7. CASE ExpireRequest
  BY <1>7, CustodyExpire DEF ExpireRequest
<1>8. CASE ExpireRequests
  <2>1. PICK n \in 1..MAX_EXPIRE_PER_CALL : ExpireHeads(n)
    BY <1>8 DEF ExpireRequests
  <2> QED BY <2>1, BoundAssumption, CustodyExpire
<1>9. CASE \E u \in Users, i \in Index : Unwrap(u, i)
  BY <1>9, CustodyUnwrap
<1>10. CASE \E u \in Users, i \in Index, to \in Users \cup Sinks : TransferNft(u, i, to)
  BY <1>10, CustodyTransfer
<1>11. CASE \/ \E r \in RandAccounts : InitRandomness(r)
            \/ Tick \/ (\E u \in Users : Donate(u))
            \/ (\E o \in Oracles, h \in Heartbeats : Heartbeat(o, h))
            \/ RotateQueue \/ UpgradeLaunch \/ UNCHANGED vars
  <2>1. UNCHANGED <<vault, pool, owner, requests>>
    BY <1>11 DEF InitRandomness, Tick, Donate, Heartbeat, RotateQueue, UpgradeLaunch,
                 accounts, draws, vars
  <2>2. Pending' = Pending
    BY <2>1 DEF Pending
  <2> QED BY <2>1, <2>2, CustodyUntouched
<1> QED BY <1>1, <1>2, <1>3, <1>4, <1>5, <1>6, <1>7, <1>8, <1>9, <1>10, <1>11
        DEF Next, Environment

(* The places stay distinct, the hand-ins apart, the kinds counted and the *)
(* bitmap what Core says, whatever handler of the vault runs.              *)
THEOREM CustodyInductive == Spec => []CInv
<1>1. IInv /\ CInv /\ [Next]_vars => CInv'
  BY CustodyStep
<1> QED BY <1>1, CustodyInit, Inductive, PTL DEF Spec

-----------------------------------------------------------------------------
(* The hand-ins of the pending re-rolls are as many as the re-rolls.       *)
LEMMA HeldCardinality ==
  ASSUME TypeOK, HeldApart, KindsCounted
  PROVE  IsFiniteSet(HeldIn) /\ Cardinality(HeldIn) = vault.pending_rerolls
<1> DEFINE R == PendingOf("reroll")
           f == [s \in R |-> requests[s].handed_in_index]
<1>1. IsFiniteSet(R)
  BY FiniteFacts
<1>2. \A s, t \in R : f[s] = f[t] => s = t
  BY DEF HeldApart
<1>3. (\A s \in R : f[s] \in HeldIn) /\ (\A x \in HeldIn : \E s \in R : f[s] = x)
  BY PlaceNames
<1>4. f \in Bijection(R, HeldIn)
  <2> HIDE DEF R
  <2> QED BY <1>2, <1>3 DEF Bijection, Injection, Surjection, IsInjective
<1>5. ExistsBijection(R, HeldIn)
  BY <1>4 DEF ExistsBijection
<1>6. IsFiniteSet(HeldIn) /\ Cardinality(HeldIn) = Cardinality(R)
  <2> HIDE DEF R
  <2>1. IsFiniteSet(HeldIn)
    BY <1>1, <1>5, FS_Bijection
  <2>2. Cardinality(R) \in Nat /\ Cardinality(HeldIn) \in Nat
    BY <1>1, <2>1, FS_CardinalityType
  <2> QED BY <1>1, <1>5, <2>1, <2>2, FS_Bijection
<1> QED BY <1>6 DEF KindsCounted

LEMMA DisjointCardinality ==
  ASSUME NEW A, NEW B, IsFiniteSet(A), IsFiniteSet(B), A \cap B = {}
  PROVE  /\ IsFiniteSet(A \cup B) /\ Cardinality(A \cup B) = Cardinality(A) + Cardinality(B)
         /\ Cardinality(A) \in Nat /\ Cardinality(B) \in Nat
<1>1. Cardinality(A) \in Nat /\ Cardinality(B) \in Nat
  BY FS_CardinalityType
<1>2. /\ IsFiniteSet(A \cup B)
      /\ Cardinality(A \cup B) = Cardinality(A) + Cardinality(B) - Cardinality(A \cap B)
  BY FS_Union
<1>3. Cardinality(A \cap B) = 0
  BY FS_EmptySet
<1> QED BY <1>1, <1>2, <1>3

(* The places of the NFTs, counted; and the NFTs outside and handed in     *)
(* exist, so the mints cover them (INV-3 and INV-4).                       *)
LEMMA PlacesCounted ==
  ASSUME IInv, CInv
  PROVE  /\ Cardinality(SlotSet(pool)) = pool_len(pool)
         /\ Cardinality(BackSet(pool)) = incoming_len(pool)
         /\ IsFiniteSet(HeldIn) /\ Cardinality(HeldIn) = vault.pending_rerolls
         /\ InCustody \subseteq Index
         /\ Cardinality(InCustody) = total(pool) + vault.pending_rerolls
         /\ IsFiniteSet(Index \ InCustody)
         /\ Cardinality(Index \ InCustody) = vault.assets_outside
         /\ (Index \ InCustody) \cap HeldIn = {} /\ HeldIn \subseteq Index
         /\ (Index \ InCustody) \cup BackSet(pool) \cup HeldIn \subseteq pool.minted
         /\ vault.assets_outside + vault.pending_rerolls <= vault.minted_count
         /\ vault.minted_count <= N
<1>1. /\ TypeOK /\ DrawsFit /\ pool \in PoolType(Index)
      /\ Distinct(pool) /\ HeldApart /\ KindsCounted /\ Owned
  BY PoolFacts DEF IInv, CInv
<1>2. /\ IsFiniteSet(SlotSet(pool)) /\ Cardinality(SlotSet(pool)) = pool_len(pool)
      /\ IsFiniteSet(BackSet(pool)) /\ Cardinality(BackSet(pool)) = incoming_len(pool)
      /\ SlotSet(pool) \cap BackSet(pool) = {}
      /\ SlotSet(pool) \subseteq Index /\ BackSet(pool) \subseteq Index
  BY <1>1, PlacesCardinality
<1>3. IsFiniteSet(HeldIn) /\ Cardinality(HeldIn) = vault.pending_rerolls
  BY <1>1, HeldCardinality
<1>4. HeldIn \subseteq Index /\ HeldIn \cap (SlotSet(pool) \cup BackSet(pool)) = {}
  BY <1>1 DEF HeldIn, HeldApart, DrawsFit, PendingOf
<1>5. InCustody = (SlotSet(pool) \cup BackSet(pool)) \cup HeldIn
  BY PlaceNames DEF InCustody
<1>6. /\ IsFiniteSet(SlotSet(pool) \cup BackSet(pool))
      /\ Cardinality(SlotSet(pool) \cup BackSet(pool)) = pool_len(pool) + incoming_len(pool)
  BY <1>2, DisjointCardinality
<1>7. /\ IsFiniteSet(InCustody)
      /\ Cardinality(InCustody) = total(pool) + vault.pending_rerolls
  <2>1. /\ IsFiniteSet((SlotSet(pool) \cup BackSet(pool)) \cup HeldIn)
        /\ Cardinality((SlotSet(pool) \cup BackSet(pool)) \cup HeldIn) =
             Cardinality(SlotSet(pool) \cup BackSet(pool)) + Cardinality(HeldIn)
    BY <1>3, <1>4, <1>6, DisjointCardinality
  <2> QED BY <1>3, <1>5, <1>6, <2>1 DEF total
<1>8. /\ IsFiniteSet(Index \ InCustody)
      /\ Cardinality(Index \ InCustody) = vault.assets_outside
  <2>1. /\ IsFiniteSet(Index \ InCustody)
        /\ Cardinality(Index \ InCustody) = Cardinality(Index) - Cardinality(Index \cap InCustody)
    BY <1>1, FiniteFacts, FS_Difference
  <2>2. Index \cap InCustody = InCustody
    BY <1>2, <1>4, <1>5
  <2>3. Cardinality(Index \ InCustody) = N - (total(pool) + vault.pending_rerolls)
    BY <1>1, <1>7, <2>1, <2>2, FiniteFacts
  <2> QED BY <1>1, <2>1, <2>3, PoolFacts, ConstantFacts DEF DrawsFit
<1>9. (Index \ InCustody) \cup BackSet(pool) \cup HeldIn \subseteq pool.minted
  BY <1>1, <1>2, <1>4, <1>5 DEF Owned
<1>10. (Index \ InCustody) \cap HeldIn = {}
  BY <1>5
<1>11. vault.assets_outside + vault.pending_rerolls <= vault.minted_count
  <2>1. Cardinality((Index \ InCustody) \cup HeldIn)
          = vault.assets_outside + vault.pending_rerolls
    BY <1>3, <1>8, <1>10, DisjointCardinality
  <2>2. Cardinality((Index \ InCustody) \cup HeldIn) <= Cardinality(pool.minted)
    BY <1>1, <1>9, FiniteFacts, FS_Subset
  <2> QED BY <1>1, <2>1, <2>2 DEF Owned
<1>12. vault.minted_count <= N
  <2>1. Cardinality(pool.minted) <= Cardinality(Index)
    BY <1>1, FiniteFacts, FS_Subset
  <2> QED BY <1>1, <2>1, FiniteFacts DEF Owned
<1>13. InCustody \subseteq Index
  BY <1>2, <1>4, <1>5
<1> QED BY <1>2, <1>3, <1>4, <1>7, <1>8, <1>9, <1>10, <1>11, <1>12, <1>13

(* INV-2 to INV-4, index by index: each NFT is drawable, returning, held   *)
(* for one re-roll or outside, exactly once, Core agrees, and the counters *)
(* of the vault count these sets (settle, unwrap, expire, request, merge). *)
THEOREM CustodyAlways == Spec => []Custody
<1>1. IInv /\ CInv => Custody
  <2> SUFFICES ASSUME IInv, CInv PROVE Custody
    OBVIOUS
  <2>1. KindsCounted /\ Owned
    BY DEF CInv
  <2>2. \A i \in InCustody \cap pool.minted : owner[i] = VaultAuthority
    BY <2>1, PlaceNames DEF InCustody, Owned
  <2> QED BY <2>1, <2>2, PlacesCounted, PlaceNames DEF Custody, KindsCounted, Owned
<1> QED BY <1>1, CustodyInductive, Inductive, PTL

-----------------------------------------------------------------------------
(* No tag is beyond the tail of the FIFO, and the draws promised are there. *)

TagsBounded == \A i \in 1..incoming_len(pool) : pool.incoming[i].tag <= vault.next_seq

(* What DrawAvailable says of one request, k entries being eligible for it. *)
Covered(s, k) ==
  /\ k \in 0..incoming_len(pool)
  /\ \A i \in 1..k : pool.incoming[i].tag <= s
  /\ pool_len(pool) + k > (s - HeadSeq) + pool_floor

LEMMA CoveredNames == DrawAvailable <=> \A s \in Pending : \E k : Covered(s, k)
BY DEF DrawAvailable, Covered

LEMMA FloorFacts == pool_floor \in Nat
<1>1. N * POOL_FLOOR_BPS + 9999 \in Nat
  BY SizeAssumption, BoundAssumption
<1>2. (N * POOL_FLOOR_BPS + 9999) \div 10000 \in Nat
  BY <1>1
<1> QED BY <1>2, BoundAssumption DEF pool_floor

(* A request stays covered when m entries move from the FIFO to the pool   *)
(* and at most one entry leaves for each of the d requests closed.         *)
LEMMA CoveredShift ==
  ASSUME IInv, IInv', NEW s \in Pending, NEW k, Covered(s, k),
         NEW m \in 0..incoming_len(pool), NEW d \in Nat,
         vault'.next_settle_seq = vault.next_settle_seq + d,
         pool_len(pool') >= pool_len(pool) + m - d,
         incoming_len(pool') >= incoming_len(pool) - m,
         \A i \in 1..(incoming_len(pool) - m) :
           pool'.incoming[i].tag = pool.incoming[m + i].tag
  PROVE  \E j : Covered(s, j)'
<1>1. /\ pool_len(pool) \in Nat /\ incoming_len(pool) \in Nat
      /\ s \in Nat /\ vault.next_settle_seq \in Nat
  BY PoolFacts, QueueFacts DEF IInv
<1>2. pool_len(pool') \in Nat /\ incoming_len(pool') \in Nat
  <2>1. pool' \in PoolType(Index)
    BY DEF IInv, TypeOK, PoolType
  <2> QED BY <2>1, PoolLengths
<1>3. k \in 0..incoming_len(pool) /\ (\A i \in 1..k : pool.incoming[i].tag <= s)
      /\ pool_len(pool) + k > (s - vault.next_settle_seq) + pool_floor
  BY DEF Covered, HeadSeq
<1>4. pool_floor' = pool_floor /\ HeadSeq' = vault.next_settle_seq + d
  BY DEF pool_floor, HeadSeq
<1>5. CASE k >= m
  <2>1. k - m \in 0..incoming_len(pool')
    BY <1>1, <1>2, <1>3, <1>5
  <2>2. \A i \in 1..(k - m) : pool'.incoming[i].tag <= s
    <3> TAKE i \in 1..(k - m)
    <3>1. i \in 1..(incoming_len(pool) - m) /\ m + i \in 1..k
      BY <1>1, <1>3, <1>5
    <3> QED BY <1>3, <3>1
  <2>3. pool_len(pool') + (k - m) > (s - (vault.next_settle_seq + d)) + pool_floor
    BY <1>1, <1>2, <1>3, <1>5, FloorFacts
  <2> QED BY <1>4, <2>1, <2>2, <2>3 DEF Covered
<1>6. CASE ~(k >= m)
  <2>1. 0 \in 0..incoming_len(pool') /\ \A i \in 1..0 : pool'.incoming[i].tag <= s
    BY <1>2
  <2>2. pool_len(pool') + 0 > (s - (vault.next_settle_seq + d)) + pool_floor
    BY <1>1, <1>2, <1>3, <1>6, FloorFacts
  <2> QED BY <1>4, <2>1, <2>2 DEF Covered
<1> QED BY <1>5, <1>6

QInv == TagsBounded /\ DrawAvailable

(* A step that makes no request and returns no NFT.                        *)
LEMMA QueueShift ==
  ASSUME IInv, IInv', QInv, NEW m \in 0..incoming_len(pool), NEW d \in Nat,
         vault'.next_seq = vault.next_seq,
         vault'.next_settle_seq = vault.next_settle_seq + d,
         pool_len(pool') >= pool_len(pool) + m - d,
         incoming_len(pool') = incoming_len(pool) - m,
         \A i \in 1..(incoming_len(pool) - m) :
           pool'.incoming[i].tag = pool.incoming[m + i].tag
  PROVE  QInv'
<1>1. incoming_len(pool) \in Nat /\ vault.next_settle_seq \in Nat
  BY PoolFacts, QueueFacts DEF IInv
<1>2. TagsBounded'
  <2> SUFFICES ASSUME NEW i \in 1..(incoming_len(pool) - m)
               PROVE  pool'.incoming[i].tag <= vault.next_seq
    BY DEF TagsBounded
  <2>1. m + i \in 1..incoming_len(pool)
    BY <1>1
  <2> QED BY <2>1 DEF QInv, TagsBounded
<1>3. Pending' \subseteq Pending
  BY <1>1, QueueFacts DEF Pending, IInv
<1>4. incoming_len(pool') >= incoming_len(pool) - m
  BY <1>1
<1>5. \A s \in Pending' : \E j : Covered(s, j)'
  <2> TAKE s \in Pending'
  <2>1. s \in Pending
    BY <1>3
  <2>2. PICK k : Covered(s, k)
    BY <2>1, CoveredNames DEF QInv
  <2> QED BY <1>4, <2>1, <2>2, CoveredShift
<1>6. DrawAvailable'
  BY <1>5 DEF Covered, DrawAvailable
<1> QED BY <1>2, <1>6 DEF QInv

LEMMA QueueUntouched ==
  ASSUME IInv, IInv', QInv, pool' = pool,
         vault'.next_seq = vault.next_seq,
         vault'.next_settle_seq = vault.next_settle_seq
  PROVE  QInv'
<1>1. /\ pool_len(pool) \in Nat /\ incoming_len(pool) \in Nat
      /\ vault.next_settle_seq \in Nat
  BY PoolFacts, QueueFacts DEF IInv
<1>2. /\ 0 \in 0..incoming_len(pool)
      /\ vault'.next_settle_seq = vault.next_settle_seq + 0
      /\ pool_len(pool') >= pool_len(pool) + 0 - 0
      /\ incoming_len(pool') = incoming_len(pool) - 0
      /\ \A i \in 1..(incoming_len(pool) - 0) :
           pool'.incoming[i].tag = pool.incoming[0 + i].tag
  BY <1>1
<1> QED BY <1>2, QueueShift

(* A new request finds what is free of promises above the floor.           *)
LEMMA QueueRequest ==
  ASSUME IInv, IInv', CountersAudit, QInv, check_can_request, pool' = pool,
         vault'.next_seq = vault.next_seq + 1,
         vault'.next_settle_seq = vault.next_settle_seq
  PROVE  QInv'
<1>0. PICK seq, n : seq = vault.next_seq /\ n = incoming_len(pool)
  OBVIOUS
<1>1. /\ pool_len(pool) \in Nat /\ n \in Nat /\ seq \in Nat
      /\ vault.next_settle_seq \in Nat /\ vault.next_settle_seq <= seq
      /\ total(pool) = pool_len(pool) + n
      /\ vault.pending_captures \in Nat /\ vault.pending_rerolls \in Nat
      /\ pool \in PoolType(Index)
  BY <1>0, PoolFacts, QueueFacts DEF IInv
<1>2. Pending' = Pending \cup {seq}
  BY <1>0, <1>1 DEF Pending
<1>3. \A i \in 1..n : pool.incoming[i].tag <= seq
  BY <1>0 DEF QInv, TagsBounded
<1>4. TagsBounded'
  <2>1. \A i \in 1..n : pool.incoming[i].tag \in Nat
    <3>1. /\ pool.incoming \in Seq([index : Index, tag : Nat])
          /\ Len(pool.incoming) \in Nat
          /\ pool.incoming \in [1..Len(pool.incoming) -> [index : Index, tag : Nat]]
      BY <1>1, LenProperties DEF PoolType
    <3> QED BY <1>0, <3>1 DEF incoming_len
  <2> QED BY <1>0, <1>1, <1>3, <2>1 DEF TagsBounded
<1>5. Covered(seq, n)'
  <2>1. total(pool) - (vault.pending_captures + vault.pending_rerolls) > pool_floor
    BY DEF check_can_request, free_assets
  <2>2. vault.pending_captures + vault.pending_rerolls = seq - vault.next_settle_seq
    BY <1>0 DEF CountersAudit
  <2>3. pool_len(pool) + n > (seq - vault.next_settle_seq) + pool_floor
    BY <1>1, <2>1, <2>2, FloorFacts
  <2>4. pool_floor' = pool_floor /\ HeadSeq' = vault.next_settle_seq
    BY DEF pool_floor, HeadSeq
  <2>5. n \in 0..n
    BY <1>1
  <2>6. /\ n \in 0..incoming_len(pool') /\ \A i \in 1..n : pool'.incoming[i].tag <= seq
        /\ pool_len(pool') + n > (seq - vault.next_settle_seq) + pool_floor
    BY <1>0, <1>3, <2>3, <2>5
  <2> QED BY <2>4, <2>6 DEF Covered
<1>6. \A s \in Pending : \E j : Covered(s, j)'
  <2> TAKE s \in Pending
  <2>1. PICK k : Covered(s, k)
    BY CoveredNames DEF QInv
  <2>2. /\ 0 \in 0..incoming_len(pool)
        /\ vault'.next_settle_seq = vault.next_settle_seq + 0
        /\ pool_len(pool') >= pool_len(pool) + 0 - 0
        /\ incoming_len(pool') >= incoming_len(pool) - 0
        /\ \A i \in 1..(incoming_len(pool) - 0) :
             pool'.incoming[i].tag = pool.incoming[0 + i].tag
    BY <1>0, <1>1 DEF incoming_len, pool_len
  <2> QED BY <2>1, <2>2, CoveredShift
<1>7. DrawAvailable'
  <2> SUFFICES ASSUME NEW s \in Pending'
               PROVE  \E j : Covered(s, j)'
    BY DEF Covered, DrawAvailable
  <2>1. CASE s = seq
    BY <2>1, <1>5
  <2>2. CASE s \in Pending
    BY <2>2, <1>6
  <2> QED BY <1>2, <2>1, <2>2
<1> QED BY <1>4, <1>7 DEF QInv

(* A returned NFT goes to the back, tagged with the tail.                  *)
LEMMA QueueUnwrap ==
  ASSUME IInv, IInv', QInv, NEW i \in Index,
         pool' = incoming_push(pool, i, vault.next_seq),
         vault'.next_seq = vault.next_seq,
         vault'.next_settle_seq = vault.next_settle_seq
  PROVE  QInv'
<1>1. /\ pool_len(pool) \in Nat /\ incoming_len(pool) \in Nat
      /\ vault.next_seq \in Nat /\ vault.next_settle_seq \in Nat
      /\ pool \in PoolType(Index)
  BY PoolFacts, QueueFacts DEF IInv
<1> DEFINE e == [index |-> i, tag |-> vault.next_seq]
<1>2. /\ incoming_len(pool') = incoming_len(pool) + 1
      /\ pool_len(pool') = pool_len(pool)
      /\ pool'.incoming[incoming_len(pool) + 1].tag = vault.next_seq
      /\ \A j \in 1..incoming_len(pool) : pool'.incoming[j] = pool.incoming[j]
  <2>1. /\ pool'.incoming = Append(pool.incoming, e) /\ pool'.slots = pool.slots
        /\ pool.incoming \in Seq([index : Index, tag : Nat])
        /\ e \in [index : Index, tag : Nat]
    BY <1>1 DEF incoming_push, PoolType
  <2>2. e.tag = vault.next_seq
    OBVIOUS
  <2> HIDE DEF e
  <2>3. /\ Len(pool'.incoming) = Len(pool.incoming) + 1
        /\ pool'.incoming[Len(pool.incoming) + 1] = e
        /\ \A j \in 1..Len(pool.incoming) : pool'.incoming[j] = pool.incoming[j]
    BY <2>1, AppendProperties
  <2> QED BY <2>1, <2>2, <2>3 DEF incoming_len, pool_len
<1>3. TagsBounded'
  <2>1. \A j \in 1..(incoming_len(pool) + 1) :
          j \in 1..incoming_len(pool) \/ j = incoming_len(pool) + 1
    BY <1>1
  <2>2. \A j \in 1..(incoming_len(pool) + 1) : pool'.incoming[j].tag <= vault.next_seq
    BY <1>1, <1>2, <2>1 DEF QInv, TagsBounded
  <2> QED BY <1>2, <2>2 DEF TagsBounded
<1>4. Pending' = Pending
  BY DEF Pending
<1>5. \A s \in Pending' : \E j : Covered(s, j)'
  <2> TAKE s \in Pending'
  <2>1. PICK k : Covered(s, k)
    BY <1>4, CoveredNames DEF QInv
  <2>2. /\ 0 \in 0..incoming_len(pool) /\ s \in Pending
        /\ vault'.next_settle_seq = vault.next_settle_seq + 0
        /\ pool_len(pool') >= pool_len(pool) + 0 - 0
        /\ incoming_len(pool') >= incoming_len(pool) - 0
        /\ \A j \in 1..(incoming_len(pool) - 0) :
             pool'.incoming[j].tag = pool.incoming[0 + j].tag
    BY <1>1, <1>2, <1>4
  <2> QED BY <2>1, <2>2, CoveredShift
<1>6. DrawAvailable'
  BY <1>5 DEF Covered, DrawAvailable
<1> QED BY <1>3, <1>6 DEF QInv

LEMMA QueueMerge ==
  ASSUME IInv, IInv', QInv, NEW k \in 1..incoming_len(pool), NEW max, MergeIncoming(k, max)
  PROVE  QInv'
<1>1. pool' = Merged(pool, k) /\ vault' = vault
  BY DEF MergeIncoming
<1>2. /\ pool_len(pool) \in Nat /\ incoming_len(pool) \in Nat
      /\ vault.next_settle_seq \in Nat /\ pool \in PoolType(Index)
      /\ k \in 0..incoming_len(pool)
  BY PoolFacts, QueueFacts DEF IInv
<1>3. /\ pool_len(pool') = pool_len(pool) + k
      /\ incoming_len(pool') = incoming_len(pool) - k
      /\ \A i \in 1..(incoming_len(pool) - k) : pool'.incoming[i] = pool.incoming[k + i]
  BY <1>1, <1>2, MergedType
<1>4. /\ vault'.next_settle_seq = vault.next_settle_seq + 0
      /\ pool_len(pool') >= pool_len(pool) + k - 0
      /\ vault'.next_seq = vault.next_seq
      /\ \A i \in 1..(incoming_len(pool) - k) :
           pool'.incoming[i].tag = pool.incoming[k + i].tag
  BY <1>1, <1>2, <1>3
<1> QED BY <1>2, <1>3, <1>4, QueueShift

(* The FIFO that settle leaves is the one it merged.                       *)
LEMMA SettledQueue ==
  ASSUME IInv, NEW k \in 0..incoming_len(pool), SettleRefusals(k),
         pool_len(Merged(pool, k)) > 0
  PROVE  /\ SettledBooks(k).pool.incoming = Merged(pool, k).incoming
         /\ incoming_len(SettledBooks(k).pool) = incoming_len(pool) - k
         /\ \A i \in 1..(incoming_len(pool) - k) :
              SettledBooks(k).pool.incoming[i] = pool.incoming[k + i]
         /\ pool_len(SettledBooks(k).pool) >= pool_len(pool) + k - 1
<1> DEFINE req == requests[HeadSeq]
           merged == Merged(pool, k)
           p == SettledBooks(k).pool
<1>1. /\ pool \in PoolType(Index) /\ total(pool) \in Nat
      /\ pool_len(pool) \in Nat /\ incoming_len(pool) \in Nat
      /\ total(pool) = pool_len(pool) + incoming_len(pool)
      /\ req.kind \in {"capture", "reroll"}
  BY PoolFacts, HeadFacts, RequestFacts DEF IInv, SettleRefusals
<1>2. /\ merged \in PoolType(Index) /\ incoming_len(merged) = incoming_len(pool) - k
      /\ \A i \in 1..(incoming_len(pool) - k) : merged.incoming[i] = pool.incoming[k + i]
  BY <1>1, MergedType
<1>3. /\ p \in PoolType(Index)
      /\ req.kind = "capture" => total(p) = total(pool) - 1
      /\ req.kind = "reroll" => total(p) = total(pool)
  BY SettledPoolType
<1>4. p.incoming = merged.incoming
  <2> DEFINE pos == Position(merged)
             drawn == DrawnPool(merged, req.kind, req.handed_in_index, pos)
             picked == pool_get(merged, pos)
  <2>1. p = IF picked \notin pool.minted THEN mark_minted(drawn, picked) ELSE drawn
    BY DEF SettledBooks, Books
  <2>2. drawn.incoming = merged.incoming /\ mark_minted(drawn, picked).incoming = drawn.incoming
    <3> HIDE DEF merged, pos, picked
    <3> QED BY <1>2 DEF DrawnPool, pool_push, pool_swap_remove, mark_minted, PoolType
  <2> HIDE DEF drawn, picked, merged, p
  <2> QED BY <2>1, <2>2
<1> HIDE DEF p, merged, req
<1>5. incoming_len(p) = incoming_len(pool) - k
  BY <1>2, <1>4 DEF incoming_len
<1>6. pool_len(p) >= pool_len(pool) + k - 1
  <2>1. pool_len(p) \in Nat /\ total(p) = pool_len(p) + incoming_len(p)
    BY <1>3, PoolLengths
  <2>2. total(p) >= total(pool) - 1
    BY <1>1, <1>3
  <2> QED BY <1>1, <1>5, <2>1, <2>2
<1> QED BY <1>2, <1>4, <1>5, <1>6 DEF p, merged

LEMMA QueueSettle ==
  ASSUME IInv, IInv', QInv, NEW k \in 0..incoming_len(pool), Settle(k)
  PROVE  QInv'
<1>1. /\ SettleRefusals(k) /\ pool_len(Merged(pool, k)) > 0
      /\ pool' = SettledBooks(k).pool
  BY DEF Settle, Write
<1>2. /\ incoming_len(pool') = incoming_len(pool) - k
      /\ \A i \in 1..(incoming_len(pool) - k) :
           pool'.incoming[i].tag = pool.incoming[k + i].tag
      /\ pool_len(pool') >= pool_len(pool) + k - 1
  BY <1>1, SettledQueue
<1>3. vault'.next_seq = vault.next_seq /\ vault'.next_settle_seq = vault.next_settle_seq + 1
  BY SettleCounts
<1> QED BY <1>2, <1>3, QueueShift

LEMMA QueueExpire ==
  ASSUME IInv, IInv', QInv, NEW n \in Nat \ {0}, ExpireHeads(n)
  PROVE  QInv'
<1>1. /\ HeadSeq..(HeadSeq + n - 1) \subseteq Pending /\ TypeOK /\ vault \in VaultType
      /\ pool' = pool /\ vault' = ExpiredVault(n)
      /\ vault'.pending_captures >= 0 /\ vault'.pending_rerolls >= 0
  BY DEF ExpireHeads, ExpireRefusals, Write, NoUnderflow, ExpiredBooks, Books, IInv, TypeOK
<1>2. vault'.next_seq = vault.next_seq /\ vault'.next_settle_seq = vault.next_settle_seq + n
  BY <1>1, ExpiredCounts, ExpiredVaultType
<1>3. pool_len(pool) \in Nat /\ incoming_len(pool) \in Nat
  BY <1>1, PoolFacts
<1>4. /\ 0 \in 0..incoming_len(pool)
      /\ pool_len(pool') >= pool_len(pool) + 0 - n
      /\ incoming_len(pool') = incoming_len(pool) - 0
      /\ \A i \in 1..(incoming_len(pool) - 0) :
           pool'.incoming[i].tag = pool.incoming[0 + i].tag
  BY <1>1, <1>3
<1> QED BY <1>2, <1>4, QueueShift

LEMMA QueueStep == IInv /\ IInv' /\ CountersAudit /\ QInv /\ [Next]_vars => QInv'
<1> SUFFICES ASSUME IInv, IInv', CountersAudit, QInv, [Next]_vars PROVE QInv'
  OBVIOUS
<1>0. vault \in VaultType
  BY DEF IInv, TypeOK
<1>1. CASE OpenVault
  <2>1. vault' = [vault EXCEPT !.open = TRUE] /\ pool' = pool
    BY <1>1 DEF OpenVault, Write, Books
  <2> QED BY <1>0, <2>1, QueueUntouched DEF VaultType
<1>2. CASE Request
  <2>1. PICK r \in RandAccounts, oracle \in Oracles, u \in Users :
          \/ RequestCapture(u, r, oracle)
          \/ \E i \in Index : RequestReroll(u, i, r, oracle)
    BY <1>2 DEF Request
  <2>2. PICK kind \in {"capture", "reroll"} :
          check_can_request /\ vault' = RequestedVault(kind) /\ pool' = pool
    BY <2>1 DEF RequestCapture, RequestReroll, RequestRefusals, Write, RequestedBooks, Books
  <2>3. vault'.next_seq = vault.next_seq + 1 /\ vault'.next_settle_seq = vault.next_settle_seq
    BY <1>0, <2>2 DEF RequestedVault, VaultType
  <2> QED BY <2>2, <2>3, QueueRequest
<1>3. CASE Recommit
  <2>1. vault' = [vault EXCEPT !.total_recommits = @ + 1] /\ pool' = pool
    BY <1>3 DEF Recommit, RecommitRandomness
  <2> QED BY <1>0, <2>1, QueueUntouched DEF VaultType
<1>4. CASE SettleHead
  BY <1>4, QueueSettle DEF SettleHead
<1>5. CASE Merge
  BY <1>5, QueueMerge DEF Merge
<1>6. CASE ExpireRequest
  BY <1>6, QueueExpire DEF ExpireRequest
<1>7. CASE ExpireRequests
  <2>1. PICK n \in 1..MAX_EXPIRE_PER_CALL : ExpireHeads(n)
    BY <1>7 DEF ExpireRequests
  <2> QED BY <2>1, BoundAssumption, QueueExpire
<1>8. CASE \E u \in Users, i \in Index : Unwrap(u, i)
  <2>1. PICK u \in Users, i \in Index : Unwrap(u, i)
    BY <1>8
  <2>2. /\ pool' = incoming_push(pool, i, vault.next_seq)
        /\ vault' = ReleasedBooks(i).vault /\ vault'.assets_outside >= 0
    BY <2>1 DEF Unwrap, Write, NoUnderflow, ReleasedBooks, Books, ReleaseTag
  <2>3. vault'.next_seq = vault.next_seq /\ vault'.next_settle_seq = vault.next_settle_seq
    BY <1>0, <2>2, ReleasedVaultType
  <2> QED BY <2>2, <2>3, QueueUnwrap
<1>9. CASE \/ \E r \in RandAccounts : InitRandomness(r)
           \/ Reveal \/ Environment \/ UNCHANGED vars
  <2>1. vault' = vault /\ pool' = pool
    BY <1>9 DEF InitRandomness, Reveal, RevealRandomness, Environment, Tick, TransferNft,
                Donate, Heartbeat, RotateQueue, UpgradeLaunch, accounts, vars
  <2> QED BY <2>1, QueueUntouched
<1> QED BY <1>1, <1>2, <1>3, <1>4, <1>5, <1>6, <1>7, <1>8, <1>9 DEF Next

LEMMA QueueInductive == Spec => []QInv
<1>1. Init => QInv
  <2> SUFFICES ASSUME Init PROVE QInv
    OBVIOUS
  <2>1. incoming_len(pool) = 0 /\ Pending = {}
    BY SizeAssumption, FreshPoolType DEF Init, Pending
  <2> QED BY <2>1 DEF QInv, TagsBounded, DrawAvailable
<1>2. IInv /\ IInv' /\ CountersAudit /\ QInv /\ [Next]_vars => QInv'
  BY QueueStep
<1> QED BY <1>1, <1>2, Inductive, CountersAlwaysAudit, PTL DEF Spec

(* The pool floor, checked once when a request is made, lasts: when its    *)
(* turn comes every pending request finds an entry for itself and one for  *)
(* each request before it among those it may draw (pool.rs, request.rs).   *)
THEOREM DrawAlwaysAvailable == Spec => []DrawAvailable
<1>1. QInv => DrawAvailable
  BY DEF QInv
<1> QED BY <1>1, QueueInductive, PTL

-----------------------------------------------------------------------------
(* Nothing that a user is owed is ever refused.                            *)

(* The tokens of the vault cover its claims.                               *)
LEMMA Solvent == Spec => [](Surplus >= 0)
<1>1. Init => Surplus >= 0
  <2> SUFFICES ASSUME Init PROVE Surplus >= 0
    OBVIOUS
  <2>1. vault_tokens = 0 /\ Claims = 0
    BY DEF Init, Claims
  <2> QED BY <2>1, ConstantFacts DEF Surplus, Claims
<1>2. IInv => Surplus \in Int
  BY SurplusFacts DEF IInv
<1>3. IInv /\ Surplus \in Int /\ (Surplus \in Int)' /\ Surplus >= 0 /\ [Next]_vars
        => (Surplus >= 0)'
  <2> SUFFICES ASSUME IInv, Surplus \in Int, Surplus' \in Int, Surplus >= 0, [Next]_vars
               PROVE  Surplus' >= 0
    OBVIOUS
  <2>1. Surplus' >= Surplus
    BY SurplusStep
  <2> QED BY <2>1
<1> QED BY <1>1, <1>2, <1>3, Inductive, PTL DEF Spec

(* Tokens that move with n claims cover what is owed then.                 *)
LEMMA CoverMoves ==
  ASSUME TypeOK, Surplus >= 0, NEW n \in Int
  PROVE  vault_tokens + Ratio * n >= Ratio * (Claims + n)
<1>1. Ratio * (Claims + n) = Ratio * Claims + Ratio * n
  BY SurplusFacts, ConstantFacts
<1>2. Ratio * Claims \in Int /\ Ratio * n \in Int
  BY SurplusFacts, ConstantFacts
<1> QED BY <1>1, <1>2, SurplusFacts

(* Books that balance pass checked_sub and invariants::check.              *)
LEMMA BooksBalance ==
  ASSUME NEW b, NEW out \in Nat, NEW pc \in Nat, NEW pr \in Nat, NEW mc \in Nat,
         NEW t \in Nat, NEW tok \in Int,
         b.vault.assets_outside = out, b.vault.pending_captures = pc,
         b.vault.pending_rerolls = pr, b.vault.minted_count = mc,
         total(b.pool) = t, b.tokens = tok, tok >= Ratio * (out + pc + pr),
         t + pr + out = N, mc <= N, out + pr <= mc
  PROVE  NoUnderflow(b) /\ InvariantsHold(b)
<1>1. Ratio * (out + pc + pr) \in Nat
  BY ConstantFacts
<1>2. tok >= 0
  BY <1>1
<1> QED BY <1>2 DEF NoUnderflow, InvariantsHold

(* An NFT in a wallet is one that the vault counts as outside.             *)
LEMMA OutsideCounted ==
  ASSUME IInv, CInv, NEW i \in Index, owner[i] \in Users
  PROVE  vault.assets_outside >= 1
<1>1. i \in Index \ InCustody
  BY OutsideFacts, PlaceNames DEF IInv, CInv, InCustody
<1>2. IsFiniteSet(Index \ InCustody) /\ Cardinality(Index \ InCustody) = vault.assets_outside
  BY PlacesCounted
<1>3. Cardinality(Index \ InCustody) # 0
  BY <1>1, <1>2, FS_EmptySet
<1> QED BY <1>2, <1>3, PoolFacts DEF IInv

(* unwrap: no holder is ever turned away. The NFT in the wallet is counted *)
(* outside, so the ring has room, its claim is backed and the checks pass. *)
THEOREM ReleaseAlwaysSound == Spec => []ReleaseSound
<1>1. IInv /\ CInv /\ QInv /\ Surplus >= 0 => ReleaseSound
  <2> SUFFICES ASSUME IInv, CInv, QInv, Surplus >= 0,
                      NEW i \in Index, owner[i] \in Users
               PROVE  /\ PushAllowed(pool, ReleaseTag)
                      /\ NoUnderflow(ReleasedBooks(i)) /\ InvariantsHold(ReleasedBooks(i))
    BY DEF ReleaseSound
  <2>1. /\ TypeOK /\ vault \in VaultType /\ pool \in PoolType(Index)
        /\ pool_len(pool) \in Nat /\ incoming_len(pool) \in Nat /\ total(pool) \in Nat
        /\ vault.pending_captures \in Nat /\ vault.pending_rerolls \in Nat
        /\ vault.assets_outside \in Nat /\ vault.minted_count \in Nat
        /\ total(pool) + vault.pending_rerolls + vault.assets_outside = N
    BY PoolFacts DEF IInv, TypeOK, DrawsFit
  <2>2. vault.assets_outside >= 1
    BY OutsideCounted
  <2>3. total(pool) < N
    BY <2>1, <2>2, ConstantFacts
  <2>4. NoTagBeyond(pool, ReleaseTag)
    <3>1. incoming_len(pool) > 0 => incoming_len(pool) \in 1..incoming_len(pool)
      BY <2>1
    <3> QED BY <3>1 DEF QInv, TagsBounded, NoTagBeyond, ReleaseTag
  <2>5. /\ ReleasedBooks(i).vault.assets_outside = vault.assets_outside - 1
        /\ ReleasedBooks(i).vault.pending_captures = vault.pending_captures
        /\ ReleasedBooks(i).vault.pending_rerolls = vault.pending_rerolls
        /\ ReleasedBooks(i).vault.minted_count = vault.minted_count
        /\ ReleasedBooks(i).tokens = vault_tokens - Ratio
        /\ ReleasedBooks(i).pool = incoming_push(pool, i, vault.next_seq)
    BY <2>1 DEF ReleasedBooks, Books, VaultType, ReleaseTag
  <2>6. total(ReleasedBooks(i).pool) = total(pool) + 1
    <3>1. PICK p : p = ReleasedBooks(i).pool
      OBVIOUS
    <3>2. vault.next_seq \in Nat /\ pool \in PoolType(Index)
      BY <2>1, QueueFacts
    <3>3. incoming_len(p) = incoming_len(pool) + 1 /\ p.slots = pool.slots
      BY <2>5, <3>1, <3>2, IncomingPushType
    <3>4. pool_len(p) = pool_len(pool)
      BY <3>3 DEF pool_len
    <3> QED BY <2>1, <3>1, <3>3, <3>4 DEF total
  <2>7. vault_tokens - Ratio
          >= Ratio * ((vault.assets_outside - 1) + vault.pending_captures
                        + vault.pending_rerolls)
    <3>1. vault_tokens + Ratio * (0 - 1) >= Ratio * (Claims + (0 - 1))
      BY <2>1, CoverMoves
    <3>2. Claims + (0 - 1) = (vault.assets_outside - 1) + vault.pending_captures
                               + vault.pending_rerolls
      BY <2>1 DEF Claims
    <3>3. vault_tokens + Ratio * (0 - 1) = vault_tokens - Ratio
      BY <2>1, ConstantFacts, SurplusFacts
    <3> QED BY <3>1, <3>2, <3>3
  <2>8. /\ vault.assets_outside + vault.pending_rerolls <= vault.minted_count
        /\ vault.minted_count <= N
    BY PlacesCounted
  <2>9. NoUnderflow(ReleasedBooks(i)) /\ InvariantsHold(ReleasedBooks(i))
    <3>1. /\ vault.assets_outside - 1 \in Nat /\ total(pool) + 1 \in Nat
          /\ vault_tokens - Ratio \in Int
          /\ (total(pool) + 1) + vault.pending_rerolls + (vault.assets_outside - 1) = N
          /\ (vault.assets_outside - 1) + vault.pending_rerolls <= vault.minted_count
      <4>1. vault_tokens \in Nat
        BY <2>1, SurplusFacts
      <4> QED BY <2>1, <2>2, <2>8, <4>1, ConstantFacts
    <3> QED BY <2>1, <2>5, <2>6, <2>7, <2>8, <3>1, BooksBalance
  <2> QED BY <2>3, <2>4, <2>9 DEF PushAllowed
<1> QED BY <1>1, Inductive, CustodyInductive, QueueInductive, Solvent, PTL

(* request_capture and request_reroll: whatever is in flight, a request    *)
(* the floor admits leaves books that balance.                             *)
THEOREM RequestAlwaysSound == Spec => []RequestSound
<1>1. IInv /\ CInv /\ Surplus >= 0 => RequestSound
  <2> SUFFICES ASSUME IInv, CInv, Surplus >= 0 PROVE RequestSound
    OBVIOUS
  <2>1. /\ TypeOK /\ vault \in VaultType /\ total(pool) \in Nat
        /\ vault.pending_captures \in Nat /\ vault.pending_rerolls \in Nat
        /\ vault.assets_outside \in Nat /\ vault.minted_count \in Nat
        /\ total(pool) + vault.pending_rerolls + vault.assets_outside = N
        /\ vault_tokens \in Nat
    BY PoolFacts DEF IInv, TypeOK, DrawsFit
  <2>2. /\ vault.assets_outside + vault.pending_rerolls <= vault.minted_count
        /\ vault.minted_count <= N
    BY PlacesCounted
  <2>3. NoUnderflow(RequestedBooks("capture")) /\ InvariantsHold(RequestedBooks("capture"))
    <3>1. /\ RequestedBooks("capture").vault.assets_outside = vault.assets_outside
          /\ RequestedBooks("capture").vault.pending_captures = vault.pending_captures + 1
          /\ RequestedBooks("capture").vault.pending_rerolls = vault.pending_rerolls
          /\ RequestedBooks("capture").vault.minted_count = vault.minted_count
          /\ RequestedBooks("capture").tokens = vault_tokens + Ratio
          /\ total(RequestedBooks("capture").pool) = total(pool)
      BY <2>1 DEF RequestedBooks, RequestedVault, Books, VaultType
    <3>2. vault_tokens + Ratio
            >= Ratio * (vault.assets_outside + (vault.pending_captures + 1)
                          + vault.pending_rerolls)
      <4>1. vault_tokens + Ratio * 1 >= Ratio * (Claims + 1)
        BY <2>1, CoverMoves
      <4>2. Claims + 1 = vault.assets_outside + (vault.pending_captures + 1)
                           + vault.pending_rerolls
        BY <2>1 DEF Claims
      <4> QED BY <4>1, <4>2, ConstantFacts
    <3>3. vault.pending_captures + 1 \in Nat /\ vault_tokens + Ratio \in Int
      BY <2>1, ConstantFacts
    <3> QED BY <2>1, <2>2, <3>1, <3>2, <3>3, BooksBalance
  <2>4. ASSUME NEW i \in Index, owner[i] \in Users
        PROVE  NoUnderflow(RequestedBooks("reroll")) /\ InvariantsHold(RequestedBooks("reroll"))
    <3>1. vault.assets_outside >= 1
      BY <2>4, OutsideCounted
    <3>2. /\ RequestedBooks("reroll").vault.assets_outside = vault.assets_outside - 1
          /\ RequestedBooks("reroll").vault.pending_captures = vault.pending_captures
          /\ RequestedBooks("reroll").vault.pending_rerolls = vault.pending_rerolls + 1
          /\ RequestedBooks("reroll").vault.minted_count = vault.minted_count
          /\ RequestedBooks("reroll").tokens = vault_tokens
          /\ total(RequestedBooks("reroll").pool) = total(pool)
      BY <2>1 DEF RequestedBooks, RequestedVault, Books, VaultType
    <3>3. vault_tokens >= Ratio * ((vault.assets_outside - 1) + vault.pending_captures
                                     + (vault.pending_rerolls + 1))
      <4>1. vault_tokens + Ratio * 0 >= Ratio * (Claims + 0)
        BY <2>1, CoverMoves
      <4>2. Claims + 0 = (vault.assets_outside - 1) + vault.pending_captures
                           + (vault.pending_rerolls + 1)
        BY <2>1 DEF Claims
      <4>3. vault_tokens + Ratio * 0 = vault_tokens
        BY <2>1, ConstantFacts
      <4> QED BY <4>1, <4>2, <4>3
    <3>4. /\ vault.assets_outside - 1 \in Nat /\ vault.pending_rerolls + 1 \in Nat
          /\ total(pool) + (vault.pending_rerolls + 1) + (vault.assets_outside - 1) = N
          /\ (vault.assets_outside - 1) + (vault.pending_rerolls + 1) <= vault.minted_count
          /\ vault_tokens \in Int
      BY <2>1, <2>2, <3>1
    <3> QED BY <2>1, <2>2, <3>2, <3>3, <3>4, BooksBalance
  <2> QED BY <2>3, <2>4 DEF RequestSound
<1> QED BY <1>1, Inductive, CustodyInductive, Solvent, PTL

(* The requests of each kind in a batch of heads are among those counted.  *)
LEMMA ExpiredWithin ==
  ASSUME TypeOK, KindsCounted, NEW n \in Nat, HeadSeq..(HeadSeq + n - 1) \subseteq Pending
  PROVE  /\ ExpiredOf(n, "reroll") \subseteq PendingOf("reroll")
         /\ Cardinality(ExpiredOf(n, "capture")) \in Nat
         /\ Cardinality(ExpiredOf(n, "reroll")) \in Nat
         /\ Cardinality(ExpiredOf(n, "capture")) <= vault.pending_captures
         /\ Cardinality(ExpiredOf(n, "reroll")) <= vault.pending_rerolls
<1>1. /\ ExpiredOf(n, "reroll") \subseteq PendingOf("reroll")
      /\ ExpiredOf(n, "capture") \subseteq PendingOf("capture")
  BY DEF ExpiredOf, PendingOf
<1>2. /\ Cardinality(ExpiredOf(n, "reroll")) <= Cardinality(PendingOf("reroll"))
      /\ Cardinality(ExpiredOf(n, "capture")) <= Cardinality(PendingOf("capture"))
  BY <1>1, FiniteFacts, FS_Subset
<1> QED BY <1>1, <1>2, ExpiredCounts DEF KindsCounted

(* expire and expire_batch: heads that may expire are paid out in full,    *)
(* each from the vault's own backing and each with the NFT it handed in.   *)
THEOREM ExpiryAlwaysSound == Spec => []ExpirySound
<1>1. IInv /\ CInv /\ Surplus >= 0 => ExpirySound
  <2> SUFFICES ASSUME IInv, CInv, Surplus >= 0,
                      NEW n \in 1..MAX_EXPIRE_PER_CALL, ExpireRefusals(n)
               PROVE  /\ HandInsHeld(n)
                      /\ \A s, t \in ExpiredOf(n, "reroll") :
                           requests[s].handed_in_index = requests[t].handed_in_index => s = t
                      /\ NoUnderflow(ExpiredBooks(n)) /\ InvariantsHold(ExpiredBooks(n))
    BY DEF ExpirySound
  <2> DEFINE c == Cardinality(ExpiredOf(n, "capture"))
             d == Cardinality(ExpiredOf(n, "reroll"))
             v == ExpiredBooks(n).vault
  <2>1. /\ TypeOK /\ vault \in VaultType /\ total(pool) \in Nat
        /\ vault.pending_captures \in Nat /\ vault.pending_rerolls \in Nat
        /\ vault.assets_outside \in Nat /\ vault.minted_count \in Nat
        /\ total(pool) + vault.pending_rerolls + vault.assets_outside = N
        /\ vault_tokens \in Nat /\ n \in Nat
        /\ HeldApart /\ KindsCounted /\ Owned
    <3>1. n \in Nat
      BY BoundAssumption
    <3> QED BY <3>1, PoolFacts DEF IInv, TypeOK, DrawsFit, CInv
  <2>2. /\ ExpiredOf(n, "reroll") \subseteq PendingOf("reroll")
        /\ c \in Nat /\ d \in Nat /\ c <= vault.pending_captures /\ d <= vault.pending_rerolls
    BY <2>1, ExpiredWithin DEF ExpireRefusals
  <2>3. HandInsHeld(n)
    <3> SUFFICES ASSUME NEW s \in ExpiredOf(n, "reroll")
                 PROVE  owner[requests[s].handed_in_index] = VaultAuthority
      BY DEF HandInsHeld
    <3>1. s \in PendingOf("reroll")
      BY <2>2
    <3>2. /\ requests[s].handed_in_index \in HeldIn
          /\ requests[s].handed_in_index \in Index
          /\ requests[s].handed_in_index \notin SlotSet(pool)
      BY <2>1, <3>1 DEF HeldIn, HeldApart, IInv, DrawsFit, PendingOf
    <3> QED BY <2>1, <3>2 DEF Owned
  <2>4. \A s, t \in ExpiredOf(n, "reroll") :
          requests[s].handed_in_index = requests[t].handed_in_index => s = t
    BY <2>1, <2>2 DEF HeldApart
  <2>5. /\ vault.assets_outside + vault.pending_rerolls <= vault.minted_count
        /\ vault.minted_count <= N
    BY PlacesCounted
  <2>6. /\ v.assets_outside = vault.assets_outside + d
        /\ v.pending_captures = vault.pending_captures - c
        /\ v.pending_rerolls = vault.pending_rerolls - d
        /\ v.minted_count = vault.minted_count
        /\ ExpiredBooks(n).tokens = vault_tokens - Ratio * c
        /\ total(ExpiredBooks(n).pool) = total(pool)
    <3>1. v = ExpiredVault(n)
      BY DEF ExpiredBooks, Books
    <3>2. ExpiredBooks(n).tokens = vault_tokens - Ratio * c /\ ExpiredBooks(n).pool = pool
      BY DEF ExpiredBooks, Books
    <3> HIDE DEF v
    <3> QED BY <2>1, <3>1, <3>2 DEF ExpiredVault, VaultType
  <2> HIDE DEF c, d
  <2>7. vault_tokens - Ratio * c
          >= Ratio * ((vault.assets_outside + d) + (vault.pending_captures - c)
                        + (vault.pending_rerolls - d))
    <3>1. vault_tokens + Ratio * (0 - c) >= Ratio * (Claims + (0 - c))
      BY <2>1, <2>2, CoverMoves
    <3>2. Claims + (0 - c) = (vault.assets_outside + d) + (vault.pending_captures - c)
                               + (vault.pending_rerolls - d)
      BY <2>1, <2>2 DEF Claims
    <3>3. vault_tokens + Ratio * (0 - c) = vault_tokens - Ratio * c
      <4>1. Ratio * (0 - c) = 0 - Ratio * c /\ Ratio * c \in Int
        BY <2>2, ConstantFacts
      <4> QED BY <2>1, <4>1
    <3> QED BY <3>1, <3>2, <3>3
  <2>8. /\ vault.assets_outside + d \in Nat /\ vault.pending_captures - c \in Nat
        /\ vault.pending_rerolls - d \in Nat /\ vault_tokens - Ratio * c \in Int
        /\ total(pool) + (vault.pending_rerolls - d) + (vault.assets_outside + d) = N
        /\ (vault.assets_outside + d) + (vault.pending_rerolls - d) <= vault.minted_count
    <3>1. Ratio * c \in Int
      BY <2>2, ConstantFacts
    <3> QED BY <2>1, <2>2, <2>5, <3>1
  <2>9. NoUnderflow(ExpiredBooks(n)) /\ InvariantsHold(ExpiredBooks(n))
    BY <2>1, <2>5, <2>6, <2>7, <2>8, BooksBalance
  <2> QED BY <2>3, <2>4, <2>9
<1> QED BY <1>1, Inductive, CustodyInductive, Solvent, PTL

(* The head with its backlog merged has an entry to draw.                  *)
LEMMA HeadHasEntry ==
  ASSUME IInv, QInv, NEW k \in 0..incoming_len(pool), SettleRefusals(k)
  PROVE  pool_len(Merged(pool, k)) > 0
<1>1. /\ TypeOK /\ pool \in PoolType(Index) /\ HeadSeq \in Pending /\ HeadSeq \in Nat
      /\ pool_len(pool) \in Nat /\ incoming_len(pool) \in Nat /\ k \in Nat
      /\ pool_floor \in Nat
  BY PoolFacts, QueueFacts, FloorFacts DEF IInv, SettleRefusals
<1>2. PICK j : Covered(HeadSeq, j)
  BY <1>1, CoveredNames DEF QInv
<1>3. /\ j \in 0..incoming_len(pool) /\ pool_len(pool) + j > 0
      /\ \A i \in 1..j : pool.incoming[i].tag <= HeadSeq
  BY <1>1, <1>2 DEF Covered
<1>4. /\ pool_len(Merged(pool, k)) = pool_len(pool) + k
      /\ incoming_len(Merged(pool, k)) = incoming_len(pool) - k
      /\ \A i \in 1..(incoming_len(pool) - k) :
           Merged(pool, k).incoming[i] = pool.incoming[k + i]
  BY <1>1, MergedType
<1>5. ~(j > k)
  <2> SUFFICES ASSUME j > k PROVE FALSE
    OBVIOUS
  <2>1. 1 \in 1..(incoming_len(pool) - k) /\ k + 1 \in 1..j
    BY <1>1, <1>3
  <2>2. pool.incoming[k + 1].tag > HeadSeq
    BY <1>1, <1>3, <1>4, <2>1 DEF FrontTagAbove, SettleRefusals
  <2>3. pool.incoming[k + 1].tag <= HeadSeq /\ pool.incoming[k + 1].tag \in Nat
    <3>1. k + 1 \in 1..Len(pool.incoming)
      BY <1>1, <1>3, <2>1 DEF incoming_len
    <3>2. pool.incoming[k + 1] \in [index : Index, tag : Nat]
      BY <1>1, <3>1, PoolLengths, ElementOfSeq
    <3> QED BY <1>3, <2>1, <3>2
  <2> QED BY <1>1, <2>2, <2>3
<1> QED BY <1>1, <1>3, <1>4, <1>5

(* settle: a revealed head is never refused by an empty pool, an NFT that  *)
(* is not where the pool says, a counter or the on-chain invariants.       *)
THEOREM SettleAlwaysSound == Spec => []SettleSound
<1>1. IInv /\ CInv /\ QInv /\ RandomnessAgrees /\ Surplus >= 0 => SettleSound
  <2> SUFFICES ASSUME IInv, CInv, QInv, RandomnessAgrees, Surplus >= 0,
                      NEW k \in 0..incoming_len(pool), SettleRefusals(k)
               PROVE  /\ pool_len(Merged(pool, k)) > 0
                      /\ PickDeliverable(PickedIndex(k))
                      /\ NoUnderflow(SettledBooks(k)) /\ InvariantsHold(SettledBooks(k))
    BY DEF SettleSound
  <2> DEFINE kind == requests[HeadSeq].kind
             picked == PickedIndex(k)
             mint == picked \notin pool.minted
             v == SettledBooks(k).vault
             minted == IF mint THEN vault.minted_count + 1 ELSE vault.minted_count
  <2>1. /\ TypeOK /\ vault \in VaultType /\ total(pool) \in Nat
        /\ vault.pending_captures \in Nat /\ vault.pending_rerolls \in Nat
        /\ vault.assets_outside \in Nat /\ vault.minted_count \in Nat
        /\ total(pool) + vault.pending_rerolls + vault.assets_outside = N
        /\ vault_tokens \in Nat /\ pool \in PoolType(Index)
        /\ Distinct(pool) /\ HeldApart /\ KindsCounted /\ Owned
    BY PoolFacts DEF IInv, TypeOK, DrawsFit, CInv
  <2>2. /\ HeadSeq \in Pending /\ kind \in {"capture", "reroll"}
        /\ pool_len(Merged(pool, k)) > 0
    BY HeadHasEntry, HeadFacts, RequestFacts DEF SettleRefusals
  <2>3. picked \in SlotSet(pool) \cup BackSet(pool)
    BY <2>1, <2>2, SettledPlaces
  <2>4. /\ picked \in Index /\ v = SettledVault(kind, mint)
        /\ SettledBooks(k).tokens = vault_tokens
        /\ kind = "capture" => total(SettledBooks(k).pool) = total(pool) - 1
        /\ kind = "reroll" => total(SettledBooks(k).pool) = total(pool)
    BY <2>2, SettledPoolType
  <2>5. PickDeliverable(picked)
    BY <2>1, <2>2, <2>3, <2>4 DEF PickDeliverable, RandomnessAgrees, Owned
  <2> HIDE DEF picked, kind, v
  <2>6. /\ v.assets_outside = vault.assets_outside + 1
        /\ v.minted_count = minted
        /\ kind = "capture" => /\ v.pending_captures = vault.pending_captures - 1
                               /\ v.pending_rerolls = vault.pending_rerolls
        /\ kind = "reroll" => /\ v.pending_captures = vault.pending_captures
                              /\ v.pending_rerolls = vault.pending_rerolls - 1
    BY <2>1, <2>2, <2>4 DEF SettledVault, VaultType
  <2>7. Cardinality(PendingOf(kind)) >= 1
    <3>1. HeadSeq \in PendingOf(kind)
      BY <2>2 DEF PendingOf, kind
    <3>2. IsFiniteSet(PendingOf(kind)) /\ Cardinality(PendingOf(kind)) \in Nat
      BY <2>1, FiniteFacts
    <3> QED BY <3>1, <3>2, FS_EmptySet
  <2>8. /\ vault.assets_outside + vault.pending_rerolls <= vault.minted_count
        /\ vault.minted_count <= N
        /\ IsFiniteSet(HeldIn) /\ Cardinality(HeldIn) = vault.pending_rerolls
        /\ IsFiniteSet(Index \ InCustody)
        /\ Cardinality(Index \ InCustody) = vault.assets_outside
        /\ (Index \ InCustody) \cap HeldIn = {} /\ HeldIn \subseteq Index
        /\ (Index \ InCustody) \cup HeldIn \subseteq pool.minted
    BY PlacesCounted
  <2>9. minted \in Nat /\ minted <= N
    <3>1. CASE mint
      <4>1. /\ IsFiniteSet(pool.minted) /\ pool.minted \subseteq Index
            /\ IsFiniteSet(Index) /\ Cardinality(Index) = N
        BY <2>1, FiniteFacts DEF PoolType
      <4>2. Cardinality(pool.minted \cup {picked}) = vault.minted_count + 1
        BY <2>1, <3>1, <4>1, FS_AddElement DEF Owned
      <4>3. Cardinality(pool.minted \cup {picked}) <= Cardinality(Index)
        BY <2>4, <4>1, FS_Subset
      <4> QED BY <2>1, <3>1, <4>1, <4>2, <4>3
    <3>2. CASE ~mint
      BY <2>1, <2>8, <3>2
    <3> QED BY <3>1, <3>2
  <2>10. vault.assets_outside + 1 + vault.pending_rerolls <= minted
    <3>1. CASE mint
      BY <2>1, <2>8, <3>1
    <3>2. CASE ~mint
      <4> DEFINE kept == (Index \ InCustody) \cup HeldIn
      <4>1. IsFiniteSet(kept)
            /\ Cardinality(kept) = vault.assets_outside + vault.pending_rerolls
        <5>1. /\ IsFiniteSet((Index \ InCustody) \cup HeldIn)
              /\ Cardinality((Index \ InCustody) \cup HeldIn) =
                   Cardinality(Index \ InCustody) + Cardinality(HeldIn)
          BY <2>8, DisjointCardinality
        <5> QED BY <2>8, <5>1
      <4>2. picked \notin kept
        <5>1. picked \in InCustody
          BY <2>3, PlaceNames DEF InCustody
        <5>2. picked \notin HeldIn
          BY <2>1, <2>3 DEF HeldIn, HeldApart
        <5> QED BY <5>1, <5>2
      <4>3. kept \cup {picked} \subseteq pool.minted
        BY <2>8, <3>2
      <4> HIDE DEF kept
      <4>4. Cardinality(kept \cup {picked}) = Cardinality(kept) + 1
        BY <4>1, <4>2, FS_AddElement
      <4>5. Cardinality(kept \cup {picked}) <= Cardinality(pool.minted)
        BY <2>1, <4>3, FiniteFacts, FS_Subset
      <4> QED BY <2>1, <3>2, <4>1, <4>4, <4>5 DEF Owned
    <3> QED BY <3>1, <3>2
  <2> HIDE DEF minted, mint
  <2>11. vault_tokens >= Ratio * Claims
    BY <2>1, SurplusFacts, ConstantFacts
  <2>12. CASE kind = "capture"
    <3>1. vault.pending_captures >= 1
      BY <2>1, <2>7, <2>12 DEF KindsCounted
    <3>2. /\ vault.assets_outside + 1 \in Nat /\ vault.pending_captures - 1 \in Nat
          /\ total(pool) - 1 \in Nat /\ vault_tokens \in Int
          /\ (total(pool) - 1) + vault.pending_rerolls + (vault.assets_outside + 1) = N
          /\ Claims = (vault.assets_outside + 1) + (vault.pending_captures - 1)
                        + vault.pending_rerolls
          /\ (vault.assets_outside + 1) + vault.pending_rerolls <= minted
      <4>1. total(pool) >= 1
        BY <2>1, <2>8, <2>9, <2>10, ConstantFacts
      <4> QED BY <2>1, <2>10, <3>1, <4>1 DEF Claims
    <3> QED BY <2>1, <2>2, <2>4, <2>5, <2>6, <2>9, <2>11, <2>12, <3>2, BooksBalance DEF picked, v
  <2>13. CASE kind = "reroll"
    <3>1. vault.pending_rerolls >= 1
      BY <2>1, <2>7, <2>13 DEF KindsCounted
    <3>2. /\ vault.assets_outside + 1 \in Nat /\ vault.pending_rerolls - 1 \in Nat
          /\ vault_tokens \in Int
          /\ total(pool) + (vault.pending_rerolls - 1) + (vault.assets_outside + 1) = N
          /\ Claims = (vault.assets_outside + 1) + vault.pending_captures
                        + (vault.pending_rerolls - 1)
          /\ (vault.assets_outside + 1) + (vault.pending_rerolls - 1) <= minted
      BY <2>1, <2>9, <2>10, <3>1, ConstantFacts DEF Claims
    <3> QED BY <2>1, <2>2, <2>4, <2>5, <2>6, <2>9, <2>11, <2>13, <3>2, BooksBalance DEF picked, v
  <2> QED BY <2>2, <2>12, <2>13
<1> QED BY <1>1, Inductive, CustodyInductive, QueueInductive, RandomnessAlwaysAgrees,
           Solvent, PTL

-----------------------------------------------------------------------------
(* What a request may be given.                                            *)

(* The members of Candidates(s), one by one.                               *)
LEMMA CandidateNames ==
  ASSUME NEW s, NEW x
  PROVE  x \in Candidates(s) <=>
           \/ x \in SlotSet(pool)
           \/ \E i \in 1..incoming_len(pool) : /\ pool.incoming[i].tag <= s
                                               /\ pool.incoming[i].index = x
           \/ \E t \in PendingOf("reroll") : t < s /\ requests[t].handed_in_index = x
BY PlaceNames DEF Candidates

LEMMA TagsAreNumbers ==
  ASSUME NEW p \in PoolType(Index), NEW i \in 1..incoming_len(p)
  PROVE  p.incoming[i] \in [index : Index, tag : Nat] /\ p.incoming[i].tag \in Nat
<1>1. p.incoming \in Seq([index : Index, tag : Nat]) /\ i \in 1..Len(p.incoming)
  BY PoolLengths DEF incoming_len
<1>2. p.incoming[i] \in [index : Index, tag : Nat]
  BY <1>1, ElementOfSeq
<1> QED BY <1>2

(* Entries that may move from the FIFO to the pool were candidates of      *)
(* everybody in the FIFO, and so was what an earlier re-roll handed in.    *)
LEMMA CandidatesShift ==
  ASSUME IInv, CInv, NEW s \in Pending, NEW k \in 0..incoming_len(pool), NEW given,
         \A i \in 1..k : pool.incoming[i].tag <= HeadSeq,
         \A x \in given : \E t \in PendingOf("reroll") :
                            t < s /\ requests[t].handed_in_index = x,
         SlotSet(pool') \subseteq SlotSet(Merged(pool, k)) \cup given,
         \A j \in 1..incoming_len(pool') :
           pool'.incoming[j].tag <= s =>
             \E i \in 1..incoming_len(pool) : pool.incoming[i] = pool'.incoming[j],
         \A t \in PendingOf("reroll")' : t < s =>
           /\ t \in PendingOf("reroll")
           /\ requests'[t].handed_in_index = requests[t].handed_in_index
  PROVE  Candidates(s)' \subseteq Candidates(s)
<1>1. /\ pool \in PoolType(Index) /\ Distinct(pool)
      /\ incoming_len(pool) \in Nat /\ HeadSeq \in Nat /\ s \in Nat /\ HeadSeq <= s
  BY PoolFacts, QueueFacts DEF IInv, CInv, HeadSeq
<1>2. SlotSet(Merged(pool, k)) = SlotSet(pool) \cup {pool.incoming[i].index : i \in 1..k}
  BY <1>1, MergedPlaces
<1>3. \A i \in 1..k : i \in 1..incoming_len(pool) /\ pool.incoming[i].tag <= s
  <2> SUFFICES ASSUME NEW i \in 1..k
               PROVE  i \in 1..incoming_len(pool) /\ pool.incoming[i].tag <= s
    OBVIOUS
  <2>1. i \in 1..incoming_len(pool)
    BY <1>1
  <2>2. pool.incoming[i].tag \in Nat
    BY <1>1, <2>1, TagsAreNumbers
  <2> QED BY <1>1, <2>1, <2>2
<1> SUFFICES ASSUME NEW x, x \in Candidates(s)'
             PROVE  x \in Candidates(s)
  OBVIOUS
<1>4. \/ x \in SlotSet(pool')
      \/ \E j \in 1..incoming_len(pool') : /\ pool'.incoming[j].tag <= s
                                           /\ pool'.incoming[j].index = x
      \/ \E t \in PendingOf("reroll")' : t < s /\ requests'[t].handed_in_index = x
  BY DEF Candidates, Drawable, SlotSet
<1>5. CASE x \in SlotSet(pool')
  <2>1. CASE x \in SlotSet(pool)
    BY <2>1, CandidateNames
  <2>2. CASE x \in {pool.incoming[i].index : i \in 1..k}
    BY <1>3, <2>2, CandidateNames
  <2>3. CASE x \in given
    BY <2>3, CandidateNames
  <2> QED BY <1>2, <1>5, <2>1, <2>2, <2>3
<1>6. CASE \E j \in 1..incoming_len(pool') : /\ pool'.incoming[j].tag <= s
                                             /\ pool'.incoming[j].index = x
  BY <1>6, CandidateNames
<1>7. CASE \E t \in PendingOf("reroll")' : t < s /\ requests'[t].handed_in_index = x
  BY <1>7, CandidateNames
<1> QED BY <1>4, <1>5, <1>6, <1>7

(* A step that leaves the pool alone can only take hand-ins away.          *)
LEMMA CandidatesSamePool ==
  ASSUME IInv, CInv, NEW s \in Pending, pool' = pool,
         \A t \in PendingOf("reroll")' : t < s =>
           /\ t \in PendingOf("reroll")
           /\ requests'[t].handed_in_index = requests[t].handed_in_index
  PROVE  Candidates(s)' \subseteq Candidates(s)
<1>1. /\ pool \in PoolType(Index) /\ Distinct(pool) /\ 0 \in 0..incoming_len(pool)
  BY PoolFacts DEF IInv, CInv
<1>2. SlotSet(pool) = SlotSet(Merged(pool, 0))
  <2>1. SlotSet(Merged(pool, 0)) = SlotSet(pool) \cup {pool.incoming[i].index : i \in 1..0}
    BY <1>1, MergedPlaces
  <2>2. 1..0 = {}
    OBVIOUS
  <2>3. {pool.incoming[i].index : i \in 1..0} = {}
    BY <2>2
  <2> QED BY <2>1, <2>3
<1>0. PICK given : given = {}
  OBVIOUS
<1>3. /\ \A i \in 1..0 : pool.incoming[i].tag <= HeadSeq
      /\ \A x \in given : \E t \in PendingOf("reroll") :
                         t < s /\ requests[t].handed_in_index = x
      /\ SlotSet(pool') \subseteq SlotSet(Merged(pool, 0)) \cup given
      /\ \A j \in 1..incoming_len(pool') :
           pool'.incoming[j].tag <= s =>
             \E i \in 1..incoming_len(pool) : pool.incoming[i] = pool'.incoming[j]
  BY <1>0, <1>2
<1> QED BY <1>1, <1>3, CandidatesShift

(* A step that leaves the requests alone leaves the hand-ins.              *)
LEMMA HandInsUntouched ==
  ASSUME vault'.next_seq = vault.next_seq, vault'.next_settle_seq = vault.next_settle_seq,
         \A t \in Pending : /\ requests'[t].kind = requests[t].kind
                            /\ requests'[t].handed_in_index = requests[t].handed_in_index
  PROVE  \A t \in PendingOf("reroll")' :
           /\ t \in PendingOf("reroll")
           /\ requests'[t].handed_in_index = requests[t].handed_in_index
<1>1. Pending' = Pending
  BY DEF Pending
<1> QED BY <1>1 DEF PendingOf

(* A new request is behind everybody: what it hands in is not for them.    *)
LEMMA CandidatesRequest ==
  ASSUME IInv, CInv, NEW s \in Pending, Request
  PROVE  Candidates(s)' \subseteq Candidates(s)
<1>1. PICK kind \in {"capture", "reroll"}, u \in Users, r \in RandAccounts, oracle \in Oracles,
           h \in Index \cup {NoHandedIn} :
        /\ RequestRefusals(r, oracle) /\ OpenRequest(kind, u, r, oracle, h)
        /\ vault' = RequestedVault(kind) /\ pool' = pool
  BY DEF Request, RequestCapture, RequestReroll, Write, RequestedBooks, Books
<1>2. TypeOK
  BY DEF IInv
<1>3. /\ Pending' = Pending \cup {vault.next_seq}
      /\ \A t \in Pending : requests'[t] = requests[t]
      /\ s \in Nat /\ vault.next_seq \in Nat /\ s < vault.next_seq
  BY <1>1, <1>2, OpenRequestType, QueueFacts
<1>4. \A t \in PendingOf("reroll")' : t < s =>
        /\ t \in PendingOf("reroll")
        /\ requests'[t].handed_in_index = requests[t].handed_in_index
  <2> SUFFICES ASSUME NEW t \in PendingOf("reroll")', t < s
               PROVE  /\ t \in PendingOf("reroll")
                      /\ requests'[t].handed_in_index = requests[t].handed_in_index
    OBVIOUS
  <2>1. t \in Pending' /\ requests'[t].kind = "reroll"
    BY DEF PendingOf
  <2>2. t \in Pending
    BY <1>3, <2>1
  <2> QED BY <1>3, <2>1, <2>2 DEF PendingOf
<1> QED BY <1>1, <1>4, CandidatesSamePool

(* settle: what the head hands in becomes drawable only after its draw.    *)
LEMMA CandidatesSettle ==
  ASSUME IInv, CInv, NEW k \in 0..incoming_len(pool), Settle(k),
         NEW s \in Pending, s \in Pending'
  PROVE  Candidates(s)' \subseteq Candidates(s)
<1> DEFINE req == requests[HeadSeq]
           given == IF req.kind = "reroll" THEN {req.handed_in_index} ELSE {}
<1>1. /\ SettleRefusals(k) /\ pool_len(Merged(pool, k)) > 0
      /\ CloseRequests({HeadSeq}) /\ pool' = SettledBooks(k).pool
  BY DEF Settle, Write
<1>2. /\ TypeOK /\ HeadSeq \in Pending /\ HeadSeq \in Nat
      /\ \A i \in 1..k : pool.incoming[i].tag <= HeadSeq
      /\ incoming_len(pool) \in Nat
  BY <1>1, QueueFacts, PoolFacts DEF IInv, SettleRefusals, MergeMoves
<1>3. vault'.next_seq = vault.next_seq /\ vault'.next_settle_seq = vault.next_settle_seq + 1
  BY SettleCounts
<1>4. HeadSeq..(HeadSeq + 1 - 1) = {HeadSeq}
  BY <1>2
<1>5. /\ Pending' = Pending \ {HeadSeq}
      /\ \A t \in Pending' : t \in Pending /\ requests'[t] = requests[t]
  BY <1>1, <1>2, <1>3, <1>4, CloseRequestsType
<1>6. HeadSeq < s
  BY <1>2, <1>5, QueueFacts DEF HeadSeq
<1>7. \A x \in given : \E t \in PendingOf("reroll") :
                         t < s /\ requests[t].handed_in_index = x
  BY <1>2, <1>6 DEF PendingOf
<1>8. SlotSet(pool') \subseteq SlotSet(Merged(pool, k)) \cup given
  BY <1>1, SettledPlaces DEF CInv
<1>9. \A j \in 1..incoming_len(pool') :
        \E i \in 1..incoming_len(pool) : pool.incoming[i] = pool'.incoming[j]
  <2>1. /\ incoming_len(pool') = incoming_len(pool) - k
        /\ \A i \in 1..(incoming_len(pool) - k) : pool'.incoming[i] = pool.incoming[k + i]
    BY <1>1, SettledQueue
  <2> SUFFICES ASSUME NEW j \in 1..incoming_len(pool')
               PROVE  \E i \in 1..incoming_len(pool) : pool.incoming[i] = pool'.incoming[j]
    OBVIOUS
  <2>2. k + j \in 1..incoming_len(pool) /\ pool'.incoming[j] = pool.incoming[k + j]
    BY <1>2, <2>1
  <2> QED BY <2>2
<1>10. \A t \in PendingOf("reroll")' :
         /\ t \in PendingOf("reroll")
         /\ requests'[t].handed_in_index = requests[t].handed_in_index
  BY <1>5 DEF PendingOf
<1> HIDE DEF given
<1> QED BY <1>2, <1>7, <1>8, <1>9, <1>10, CandidatesShift

(* expire: hand-ins go home, and nothing enters the pool.                  *)
LEMMA CandidatesExpire ==
  ASSUME IInv, CInv, NEW n \in Nat \ {0}, ExpireHeads(n), NEW s \in Pending
  PROVE  Candidates(s)' \subseteq Candidates(s)
<1>1. /\ HeadSeq..(HeadSeq + n - 1) \subseteq Pending /\ TypeOK /\ vault \in VaultType
      /\ CloseRequests(HeadSeq..(HeadSeq + n - 1))
      /\ pool' = pool /\ vault' = ExpiredVault(n)
      /\ vault'.pending_captures >= 0 /\ vault'.pending_rerolls >= 0
  BY DEF ExpireHeads, ExpireRefusals, Write, NoUnderflow, ExpiredBooks, Books, IInv, TypeOK
<1>2. vault'.next_seq = vault.next_seq /\ vault'.next_settle_seq = vault.next_settle_seq + n
  BY <1>1, ExpiredCounts, ExpiredVaultType
<1>3. \A t \in Pending' : t \in Pending /\ requests'[t] = requests[t]
  BY <1>1, <1>2, CloseRequestsType
<1>4. \A t \in PendingOf("reroll")' :
        /\ t \in PendingOf("reroll")
        /\ requests'[t].handed_in_index = requests[t].handed_in_index
  BY <1>3 DEF PendingOf
<1> QED BY <1>1, <1>4, CandidatesSamePool

(* unwrap: the NFT comes back behind every pending request.                *)
LEMMA CandidatesUnwrap ==
  ASSUME IInv, CInv, NEW u \in Users, NEW i \in Index, Unwrap(u, i), NEW s \in Pending
  PROVE  Candidates(s)' \subseteq Candidates(s)
<1>1. /\ vault' = ReleasedBooks(i).vault /\ vault'.assets_outside >= 0
      /\ pool' = incoming_push(pool, i, vault.next_seq)
      /\ requests' = requests
  BY DEF Unwrap, Write, NoUnderflow, ReleasedBooks, Books, ReleaseTag, draws
<1>2. /\ vault \in VaultType /\ pool \in PoolType(Index) /\ Distinct(pool)
      /\ incoming_len(pool) \in Nat /\ vault.next_seq \in Nat
      /\ s \in Nat /\ s < vault.next_seq /\ Owned /\ TypeOK /\ owner[i] = u
  BY PoolFacts, QueueFacts DEF IInv, TypeOK, CInv, Unwrap
<1>3. vault'.next_seq = vault.next_seq /\ vault'.next_settle_seq = vault.next_settle_seq
  BY <1>1, <1>2, ReleasedVaultType
<1>4. \A t \in PendingOf("reroll")' :
        /\ t \in PendingOf("reroll")
        /\ requests'[t].handed_in_index = requests[t].handed_in_index
  BY <1>1, <1>3, HandInsUntouched
<1>5. i \notin SlotSet(pool) \cup BackSet(pool)
  BY <1>2, OutsideFacts
<1>0. PICK given : given = {}
  OBVIOUS
<1>6. /\ SlotSet(pool') = SlotSet(pool)
      /\ incoming_len(pool') = incoming_len(pool) + 1
      /\ \A j \in 1..incoming_len(pool) : pool'.incoming[j] = pool.incoming[j]
      /\ pool'.incoming[incoming_len(pool) + 1].tag = vault.next_seq
  <2>1. /\ SlotSet(pool') = SlotSet(pool)
        /\ \A j \in 1..incoming_len(pool) : pool'.incoming[j] = pool.incoming[j]
        /\ pool'.incoming[incoming_len(pool) + 1].tag = vault.next_seq
    BY <1>1, <1>2, <1>5, IncomingPushPlaces
  <2>2. incoming_len(pool') = incoming_len(pool) + 1
    BY <1>1, <1>2, IncomingPushType
  <2> QED BY <2>1, <2>2
<1>7. \A j \in 1..incoming_len(pool') : pool'.incoming[j].tag <= s =>
        \E e \in 1..incoming_len(pool) : pool.incoming[e] = pool'.incoming[j]
  <2> SUFFICES ASSUME NEW j \in 1..incoming_len(pool'), pool'.incoming[j].tag <= s
               PROVE  \E e \in 1..incoming_len(pool) : pool.incoming[e] = pool'.incoming[j]
    OBVIOUS
  <2>1. j # incoming_len(pool) + 1
    BY <1>2, <1>6
  <2>2. j \in 1..incoming_len(pool)
    BY <1>2, <1>6, <2>1
  <2> QED BY <1>6, <2>2
<1>8. /\ 0 \in 0..incoming_len(pool)
      /\ SlotSet(pool') \subseteq SlotSet(Merged(pool, 0)) \cup given
      /\ \A j \in 1..0 : pool.incoming[j].tag <= HeadSeq
      /\ \A x \in given : \E t \in PendingOf("reroll") :
                           t < s /\ requests[t].handed_in_index = x
  BY <1>0, <1>2, <1>6, MergedPlaces
<1> QED BY <1>4, <1>7, <1>8, CandidatesShift

LEMMA CandidatesMerge ==
  ASSUME IInv, CInv, NEW k \in 1..incoming_len(pool), NEW max, MergeIncoming(k, max),
         NEW s \in Pending
  PROVE  Candidates(s)' \subseteq Candidates(s)
<1>1. /\ pool' = Merged(pool, k) /\ vault' = vault /\ requests' = requests
      /\ \A i \in 1..k : pool.incoming[i].tag <= HeadSeq
  BY DEF MergeIncoming, MergeMoves, draws
<1>2. /\ pool \in PoolType(Index) /\ incoming_len(pool) \in Nat
      /\ k \in 0..incoming_len(pool) /\ k \in Nat
  BY PoolFacts DEF IInv
<1>3. /\ incoming_len(pool') = incoming_len(pool) - k
      /\ \A i \in 1..(incoming_len(pool) - k) : pool'.incoming[i] = pool.incoming[k + i]
  BY <1>1, <1>2, MergedType
<1>4. \A j \in 1..incoming_len(pool') :
        \E i \in 1..incoming_len(pool) : pool.incoming[i] = pool'.incoming[j]
  <2> SUFFICES ASSUME NEW j \in 1..incoming_len(pool')
               PROVE  \E i \in 1..incoming_len(pool) : pool.incoming[i] = pool'.incoming[j]
    OBVIOUS
  <2>1. k + j \in 1..incoming_len(pool) /\ pool'.incoming[j] = pool.incoming[k + j]
    BY <1>2, <1>3
  <2> QED BY <2>1
<1>5. \A t \in PendingOf("reroll")' :
        /\ t \in PendingOf("reroll")
        /\ requests'[t].handed_in_index = requests[t].handed_in_index
  BY <1>1, HandInsUntouched
<1>0. PICK given : given = {}
  OBVIOUS
<1>6. /\ SlotSet(pool') \subseteq SlotSet(Merged(pool, k)) \cup given
      /\ \A x \in given : \E t \in PendingOf("reroll") :
                           t < s /\ requests[t].handed_in_index = x
  BY <1>0, <1>1
<1> QED BY <1>1, <1>2, <1>4, <1>5, <1>6, CandidatesShift

(* The other handlers leave the pool and the hand-ins alone.               *)
LEMMA CandidatesElsewhere ==
  ASSUME IInv, CInv, NEW s \in Pending, pool' = pool,
         vault'.next_seq = vault.next_seq, vault'.next_settle_seq = vault.next_settle_seq,
         \A t \in Pending : /\ requests'[t].kind = requests[t].kind
                            /\ requests'[t].handed_in_index = requests[t].handed_in_index
  PROVE  Candidates(s)' \subseteq Candidates(s)
BY HandInsUntouched, CandidatesSamePool

(* What a reveal and a re-commit leave of a request.                       *)
LEMMA SameHandIns ==
  ASSUME IInv, Reveal \/ Recommit
  PROVE  /\ pool' = pool
         /\ vault'.next_seq = vault.next_seq /\ vault'.next_settle_seq = vault.next_settle_seq
         /\ \A t \in Pending : /\ requests'[t].kind = requests[t].kind
                               /\ requests'[t].handed_in_index = requests[t].handed_in_index
<1>1. requests \in [Pending -> RequestType] /\ vault \in VaultType
  BY DEF IInv, TypeOK
<1>2. CASE Reveal
  <2>1. PICK s \in Pending, value \in Values : RevealRandomness(s, value)
    BY <1>2 DEF Reveal
  <2>2. /\ requests' = [requests EXCEPT ![s].revealed = TRUE, ![s].value = value]
        /\ UNCHANGED <<vault, pool>>
    BY <2>1 DEF RevealRandomness, accounts
  <2> QED BY <1>1, <2>2 DEF RequestType
<1>3. CASE Recommit
  <2>1. PICK s \in Pending, oracle \in Oracles : RecommitRandomness(s, oracle)
    BY <1>3 DEF Recommit
  <2>2. /\ requests' = [requests EXCEPT ![s] = Recommitted(requests[s], oracle)]
        /\ vault' = [vault EXCEPT !.total_recommits = @ + 1] /\ pool' = pool
    BY <2>1 DEF RecommitRandomness
  <2> QED BY <1>1, <2>2 DEF RequestType, Recommitted, VaultType
<1> QED BY <1>2, <1>3

(* The steps that leave the pool, the FIFO and the requests as they are.   *)
LEMMA QuietSteps ==
  ASSUME IInv, \/ OpenVault \/ Environment \/ UNCHANGED vars
               \/ \E r \in RandAccounts : InitRandomness(r)
  PROVE  /\ UNCHANGED <<pool, requests>>
         /\ vault'.next_seq = vault.next_seq /\ vault'.next_settle_seq = vault.next_settle_seq
<1>1. vault \in VaultType
  BY DEF IInv, TypeOK
<1>2. CASE OpenVault
  <2>1. /\ vault' = [vault EXCEPT !.open = TRUE] /\ pool' = pool /\ requests' = requests
    BY <1>2 DEF OpenVault, Write, Books, draws
  <2> QED BY <1>1, <2>1 DEF VaultType
<1>3. CASE Environment \/ UNCHANGED vars \/ \E r \in RandAccounts : InitRandomness(r)
  BY <1>3 DEF InitRandomness, Environment, Tick, TransferNft, Donate, Heartbeat, RotateQueue,
              UpgradeLaunch, accounts, draws, vars
<1> QED BY <1>2, <1>3

(* request, settle, expire, merge and unwrap: once a request is in the     *)
(* FIFO nobody adds an NFT to those it may be given.                       *)
THEOREM CandidatesOnlyShrink == Spec => CandidatesNeverGrow
<1>1. ASSUME IInv, CInv, [Next]_vars, NEW s \in Pending, s \in Pending'
      PROVE  Candidates(s)' \subseteq Candidates(s)
  <2>1. CASE Request
    BY <1>1, <2>1, CandidatesRequest
  <2>2. CASE SettleHead
    BY <1>1, <2>2, CandidatesSettle DEF SettleHead
  <2>3. CASE Merge
    BY <1>1, <2>3, CandidatesMerge DEF Merge
  <2>4. CASE ExpireRequest
    BY <1>1, <2>4, CandidatesExpire DEF ExpireRequest
  <2>5. CASE ExpireRequests
    <3>1. PICK n \in 1..MAX_EXPIRE_PER_CALL : ExpireHeads(n)
      BY <2>5 DEF ExpireRequests
    <3>2. n \in Nat \ {0}
      BY BoundAssumption
    <3> QED BY <1>1, <3>1, <3>2, CandidatesExpire
  <2>6. CASE \E u \in Users, i \in Index : Unwrap(u, i)
    BY <1>1, <2>6, CandidatesUnwrap
  <2>7. CASE Reveal \/ Recommit
    BY <1>1, <2>7, SameHandIns, CandidatesElsewhere
  <2>8. CASE \/ OpenVault \/ Environment \/ UNCHANGED vars
             \/ \E r \in RandAccounts : InitRandomness(r)
    BY <1>1, <2>8, QuietSteps, CandidatesElsewhere
  <2> QED BY <1>1, <2>1, <2>2, <2>3, <2>4, <2>5, <2>6, <2>7, <2>8 DEF Next
<1>2. IInv /\ CInv /\ [Next]_vars =>
        [\A s \in Pending : s \in Pending' => Candidates(s)' \subseteq Candidates(s)]_vars
  BY <1>1
<1> QED BY <1>2, Inductive, CustodyInductive, PTL DEF Spec, CandidatesNeverGrow

-----------------------------------------------------------------------------
(* The list the head draws from.                                           *)

(* A set of natural numbers with a bound has a greatest member.            *)
LEMMA Greatest ==
  ASSUME NEW n \in Nat, NEW S, S \subseteq 0..n, 0 \in S
  PROVE  \E k \in S : \A j \in S : j <= k
<1> DEFINE R == OpToRel(<, Nat)
           T == {n - k : k \in S}
<1>1. IsWellFoundedOn(R, Nat)
  BY NatLessThanWellFounded
<1>2. \A x, y \in Nat : <<x, y>> \in R <=> x < y
  BY DEF OpToRel
<1> HIDE DEF R
<1>3. T \subseteq Nat /\ T # {}
  <2>1. \A k \in S : n - k \in Nat
    BY SMT
  <2>2. n - 0 \in T
    OBVIOUS
  <2> QED BY <2>1, <2>2
<1>4. PICK x \in T : \A y \in T : ~(<<y, x>> \in R)
  BY <1>1, <1>3, WFMin
<1>5. PICK k \in S : x = n - k
  BY <1>4
<1>6. ASSUME NEW j \in S PROVE j <= k
  <2>1. n - j \in T /\ n - j \in Nat /\ x \in Nat
    BY <1>3, <1>4
  <2>2. ~(n - j < x)
    BY <1>2, <1>4, <2>1
  <2> QED BY <1>5, <2>2
<1> QED BY <1>5, <1>6

(* The first k entries of the FIFO of p are all those that seq may draw.   *)
Reaches(p, seq, k) ==
  /\ k \in 0..incoming_len(p)
  /\ \A i \in 1..k : p.incoming[i].tag <= seq
  /\ k < incoming_len(p) => p.incoming[k + 1].tag > seq

LEMMA ReachExists ==
  ASSUME NEW p \in PoolType(Index), NEW seq \in Nat
  PROVE  \E k : Reaches(p, seq, k)
<1> DEFINE n == incoming_len(p)
           E == {k \in 0..n : \A i \in 1..k : p.incoming[i].tag <= seq}
<1>1. n \in Nat /\ E \subseteq 0..n /\ 0 \in E
  <2>1. n \in Nat
    BY PoolLengths
  <2>2. 0 \in 0..n /\ 1..0 = {}
    BY <2>1
  <2> HIDE DEF n
  <2> QED BY <2>1, <2>2
<1>2. PICK k \in E : \A j \in E : j <= k
  <2> HIDE DEF E, n
  <2> QED BY <1>1, Greatest
<1>3. k \in 0..n /\ \A i \in 1..k : p.incoming[i].tag <= seq
  BY <1>2
<1>4. ASSUME k < n PROVE p.incoming[k + 1].tag > seq
  <2>1. k + 1 \in 0..n /\ k + 1 \in 1..n /\ ~(k + 1 <= k)
    BY <1>1, <1>3, <1>4
  <2>2. ~ \A i \in 1..(k + 1) : p.incoming[i].tag <= seq
    BY <1>2, <2>1
  <2>3. ~(p.incoming[k + 1].tag <= seq)
    <3>1. \A i \in 1..(k + 1) : i \in 1..k \/ i = k + 1
      BY <1>3
    <3> QED BY <1>3, <2>2, <3>1
  <2>4. p.incoming[k + 1].tag \in Nat
    BY <2>1, TagsAreNumbers
  <2> QED BY <2>3, <2>4
<1> QED BY <1>3, <1>4 DEF Reaches

(* DrawList for a pool account and a head.                                 *)
ListOf(p, seq) ==
  LET eligible == {k \in 0..incoming_len(p) : \A i \in 1..k : p.incoming[i].tag <= seq}
      k == CHOOSE k \in eligible : \A j \in eligible : j <= k
  IN  Merged(p, k).slots

LEMMA ListNames ==
  DrawList = ListOf(pool, HeadSeq) /\ DrawList' = ListOf(pool', HeadSeq')
BY DEF DrawList, ListOf

(* There is one such k, and merging it gives the list.                     *)
LEMMA ReachList ==
  ASSUME NEW p \in PoolType(Index), NEW seq \in Nat, NEW k, Reaches(p, seq, k)
  PROVE  ListOf(p, seq) = Merged(p, k).slots
<1> DEFINE n == incoming_len(p)
           E == {j \in 0..n : \A i \in 1..j : p.incoming[i].tag <= seq}
           best == CHOOSE j \in E : \A i \in E : i <= j
<1>1. n \in Nat /\ k \in 0..n /\ k \in E /\ k \in Nat
  <2>1. n \in Nat /\ k \in 0..n /\ \A i \in 1..k : p.incoming[i].tag <= seq
    BY PoolLengths DEF Reaches
  <2> HIDE DEF n
  <2> QED BY <2>1
<1>2. ASSUME NEW j \in E PROVE j <= k
  <2> SUFFICES ASSUME j > k PROVE FALSE
    BY <1>1
  <2>1. k < n /\ k + 1 \in 1..j /\ k + 1 \in 1..n
    BY <1>1, <1>2
  <2>2. p.incoming[k + 1].tag > seq /\ p.incoming[k + 1].tag <= seq
    BY <2>1, <1>2 DEF Reaches
  <2>3. p.incoming[k + 1].tag \in Nat
    BY <2>1, TagsAreNumbers
  <2> QED BY <2>2, <2>3
<1>3. best \in E /\ \A i \in E : i <= best
  <2>1. k \in E /\ \A i \in E : i <= k
    BY <1>1, <1>2
  <2> HIDE DEF E
  <2> QED BY <2>1
<1>4. best = k
  <2>1. best <= k /\ k <= best /\ best \in Nat
    BY <1>1, <1>2, <1>3
  <2> HIDE DEF best, E
  <2> QED BY <1>1, <2>1
<1>5. ListOf(p, seq) = Merged(p, best).slots
  BY DEF ListOf
<1> HIDE DEF best
<1> QED BY <1>4, <1>5

(* Lists of equal length that agree entry by entry are the same list.      *)
LEMMA SameList ==
  ASSUME NEW a \in Seq(Index), NEW b \in Seq(Index), Len(a) = Len(b),
         \A i \in 1..Len(a) : a[i] = b[i]
  PROVE  a = b
BY SeqEqual

(* Merging in two goes is merging at once.                                 *)
LEMMA MergedTwice ==
  ASSUME NEW p \in PoolType(Index), NEW k \in 0..incoming_len(p),
         NEW m \in 0..(incoming_len(p) - k)
  PROVE  Merged(Merged(p, k), m).slots = Merged(p, k + m).slots
<1> DEFINE q == Merged(p, k)
           a == Merged(q, m)
           b == Merged(p, k + m)
<1>1. /\ pool_len(p) \in Nat /\ incoming_len(p) \in Nat /\ k \in Nat /\ m \in Nat
      /\ k + m \in 0..incoming_len(p)
  <2>1. pool_len(p) \in Nat /\ incoming_len(p) \in Nat
    BY PoolLengths
  <2> QED BY <2>1
<1>2. /\ q \in PoolType(Index) /\ pool_len(q) = pool_len(p) + k
      /\ incoming_len(q) = incoming_len(p) - k
      /\ \A i \in 1..pool_len(p) : q.slots[i] = p.slots[i]
      /\ \A i \in 1..k : q.slots[pool_len(p) + i] = p.incoming[i].index
      /\ \A i \in 1..(incoming_len(p) - k) : q.incoming[i] = p.incoming[k + i]
  BY MergedType
<1> HIDE DEF q
<1>3. /\ a \in PoolType(Index) /\ pool_len(a) = pool_len(q) + m
      /\ \A i \in 1..pool_len(q) : a.slots[i] = q.slots[i]
      /\ \A i \in 1..m : a.slots[pool_len(q) + i] = q.incoming[i].index
  BY <1>2, MergedType
<1>4. /\ b \in PoolType(Index) /\ pool_len(b) = pool_len(p) + (k + m)
      /\ \A i \in 1..pool_len(p) : b.slots[i] = p.slots[i]
      /\ \A i \in 1..(k + m) : b.slots[pool_len(p) + i] = p.incoming[i].index
  BY <1>1, MergedType
<1> HIDE DEF a, b
<1>5. ASSUME NEW i \in 1..(pool_len(p) + (k + m))
      PROVE  a.slots[i] = b.slots[i]
  <2>1. CASE i \in 1..pool_len(p)
    <3>1. i \in 1..pool_len(q)
      BY <1>1, <1>2, <2>1
    <3> QED BY <1>2, <1>3, <1>4, <2>1, <3>1
  <2>2. CASE i \notin 1..pool_len(p) /\ i \in 1..(pool_len(p) + k)
    <3>0. i - pool_len(p) \in 1..k /\ i = pool_len(p) + (i - pool_len(p))
      BY <1>1, <2>2
    <3>1. PICK j \in 1..k : i = pool_len(p) + j
      BY <3>0
    <3>2. i \in 1..pool_len(q) /\ j \in 1..(k + m)
      BY <1>1, <1>2, <2>2, <3>1
    <3> QED BY <1>2, <1>3, <1>4, <3>1, <3>2
  <2>3. CASE i \notin 1..(pool_len(p) + k)
    <3>0. /\ i - (pool_len(p) + k) \in 1..m
          /\ i = (pool_len(p) + k) + (i - (pool_len(p) + k))
      BY <1>1, <2>3
    <3>1. PICK j \in 1..m : i = (pool_len(p) + k) + j
      BY <3>0
    <3>2. /\ a.slots[i] = q.incoming[j].index /\ j \in 1..(incoming_len(p) - k)
      BY <1>1, <1>2, <1>3, <3>1
    <3>3. /\ k + j \in 1..(k + m) /\ i = pool_len(p) + (k + j)
      BY <1>1, <3>1
    <3> QED BY <1>2, <1>4, <3>2, <3>3
  <2> QED BY <2>1, <2>2, <2>3
<1>6. /\ a.slots \in Seq(Index) /\ b.slots \in Seq(Index)
      /\ Len(a.slots) = pool_len(p) + (k + m) /\ Len(b.slots) = pool_len(p) + (k + m)
  <2>1. a.slots \in Seq(Index) /\ b.slots \in Seq(Index)
    BY <1>3, <1>4, PoolLengths
  <2>2. pool_len(a) = (pool_len(p) + k) + m /\ (pool_len(p) + k) + m = pool_len(p) + (k + m)
    BY <1>1, <1>2, <1>3
  <2> QED BY <1>4, <2>1, <2>2 DEF pool_len
<1> QED BY <1>5, <1>6, SameList DEF a, b, q

LEMMA PushedKeeps ==
  ASSUME NEW p \in PoolType(Index), NEW i \in Index, NEW tag \in Nat
  PROVE  /\ \A j \in 1..incoming_len(p) : incoming_push(p, i, tag).incoming[j] = p.incoming[j]
         /\ incoming_push(p, i, tag).incoming[incoming_len(p) + 1].tag = tag
<1> DEFINE e == [index |-> i, tag |-> tag]
<1>1. /\ incoming_push(p, i, tag).incoming = Append(p.incoming, e)
      /\ p.incoming \in Seq([index : Index, tag : Nat])
      /\ e \in [index : Index, tag : Nat] /\ e.tag = tag
  BY DEF incoming_push, PoolType
<1> HIDE DEF e
<1>2. /\ Append(p.incoming, e)[Len(p.incoming) + 1] = e
      /\ \A j \in 1..Len(p.incoming) : Append(p.incoming, e)[j] = p.incoming[j]
  BY <1>1, AppendProperties
<1> QED BY <1>1, <1>2 DEF incoming_len

(* What is added at the end of the FIFO is not reached.                    *)
LEMMA MergedPushed ==
  ASSUME NEW p \in PoolType(Index), NEW i \in Index, NEW tag \in Nat,
         NEW k \in 0..incoming_len(p)
  PROVE  Merged(incoming_push(p, i, tag), k).slots = Merged(p, k).slots
<1> DEFINE q == incoming_push(p, i, tag)
           a == Merged(q, k)
           b == Merged(p, k)
<1>1. /\ pool_len(p) \in Nat /\ incoming_len(p) \in Nat /\ k \in Nat
      /\ q \in PoolType(Index) /\ incoming_len(q) = incoming_len(p) + 1
      /\ q.slots = p.slots
  <2>1. pool_len(p) \in Nat /\ incoming_len(p) \in Nat
    BY PoolLengths
  <2>2. /\ q \in PoolType(Index) /\ incoming_len(q) = incoming_len(p) + 1
        /\ q.slots = p.slots
    BY IncomingPushType
  <2> QED BY <2>1, <2>2
<1>2. \A j \in 1..incoming_len(p) : q.incoming[j] = p.incoming[j]
  BY PushedKeeps
<1> HIDE DEF q
<1>3. pool_len(q) = pool_len(p) /\ k \in 0..incoming_len(q)
  BY <1>1 DEF pool_len
<1>4. /\ a \in PoolType(Index) /\ pool_len(a) = pool_len(p) + k
      /\ \A j \in 1..pool_len(p) : a.slots[j] = p.slots[j]
      /\ \A j \in 1..k : a.slots[pool_len(p) + j] = q.incoming[j].index
  BY <1>1, <1>3, MergedType
<1>5. /\ b \in PoolType(Index) /\ pool_len(b) = pool_len(p) + k
      /\ \A j \in 1..pool_len(p) : b.slots[j] = p.slots[j]
      /\ \A j \in 1..k : b.slots[pool_len(p) + j] = p.incoming[j].index
  BY MergedType
<1> HIDE DEF a, b
<1>6. ASSUME NEW j \in 1..(pool_len(p) + k) PROVE a.slots[j] = b.slots[j]
  <2>1. CASE j \in 1..pool_len(p)
    BY <1>4, <1>5, <2>1
  <2>2. CASE j \notin 1..pool_len(p)
    <3>0. j - pool_len(p) \in 1..k /\ j = pool_len(p) + (j - pool_len(p))
      BY <1>1, <2>2
    <3>1. PICK e \in 1..k : j = pool_len(p) + e
      BY <3>0
    <3>2. e \in 1..incoming_len(p)
      BY <1>1, <3>1
    <3> QED BY <1>2, <1>4, <1>5, <3>1, <3>2
  <2> QED BY <2>1, <2>2
<1>7. /\ a.slots \in Seq(Index) /\ b.slots \in Seq(Index)
      /\ Len(a.slots) = pool_len(p) + k /\ Len(b.slots) = pool_len(p) + k
  BY <1>4, <1>5, PoolLengths DEF pool_len
<1> QED BY <1>6, <1>7, SameList DEF a, b, q

(* A merge takes from the front what the list has anyhow.                  *)
LEMMA ListMerged ==
  ASSUME NEW p \in PoolType(Index), NEW seq \in Nat, NEW k \in 0..incoming_len(p),
         \A i \in 1..k : p.incoming[i].tag <= seq
  PROVE  ListOf(Merged(p, k), seq) = ListOf(p, seq)
<1>1. PICK m : Reaches(p, seq, m)
  BY ReachExists
<1>2. /\ incoming_len(p) \in Nat /\ k \in Nat /\ m \in Nat /\ m \in 0..incoming_len(p)
      /\ \A i \in 1..m : p.incoming[i].tag <= seq
      /\ m < incoming_len(p) => p.incoming[m + 1].tag > seq
  <2>1. incoming_len(p) \in Nat
    BY PoolLengths
  <2> QED BY <1>1, <2>1 DEF Reaches
<1>3. k <= m
  <2> SUFFICES ASSUME m < k PROVE FALSE
    BY <1>2
  <2>1. m + 1 \in 1..k /\ m < incoming_len(p) /\ m + 1 \in 1..incoming_len(p)
    BY <1>2
  <2>2. p.incoming[m + 1].tag \in Nat
    BY <2>1, TagsAreNumbers
  <2> QED BY <1>2, <2>1, <2>2
<1>4. /\ Merged(p, k) \in PoolType(Index)
      /\ incoming_len(Merged(p, k)) = incoming_len(p) - k
      /\ \A i \in 1..(incoming_len(p) - k) : Merged(p, k).incoming[i] = p.incoming[k + i]
  BY MergedType
<1>5. Reaches(Merged(p, k), seq, m - k)
  <2>1. m - k \in 0..(incoming_len(p) - k)
    BY <1>2, <1>3
  <2>2. \A i \in 1..(m - k) : Merged(p, k).incoming[i].tag <= seq
    <3> SUFFICES ASSUME NEW i \in 1..(m - k)
                 PROVE  Merged(p, k).incoming[i].tag <= seq
      OBVIOUS
    <3>1. i \in 1..(incoming_len(p) - k) /\ k + i \in 1..m
      BY <1>2, <1>3
    <3> QED BY <1>2, <1>4, <3>1
  <2>3. m - k < incoming_len(p) - k => Merged(p, k).incoming[(m - k) + 1].tag > seq
    <3> SUFFICES ASSUME m < incoming_len(p)
                 PROVE  Merged(p, k).incoming[(m - k) + 1].tag > seq
      BY <1>2
    <3>1. /\ (m - k) + 1 \in 1..(incoming_len(p) - k)
          /\ k + ((m - k) + 1) = m + 1
      BY <1>2, <1>3
    <3> QED BY <1>2, <1>4, <3>1
  <2> QED BY <1>4, <2>1, <2>2, <2>3 DEF Reaches
<1>6. ListOf(Merged(p, k), seq) = Merged(Merged(p, k), m - k).slots
  BY <1>4, <1>5, ReachList
<1>7. Merged(Merged(p, k), m - k).slots = Merged(p, m).slots
  <2>1. m - k \in 0..(incoming_len(p) - k) /\ k + (m - k) = m
    BY <1>2, <1>3
  <2> QED BY <2>1, MergedTwice
<1>8. ListOf(p, seq) = Merged(p, m).slots
  BY <1>1, ReachList
<1> QED BY <1>6, <1>7, <1>8

(* An NFT that comes back with a later tag is not in the list.             *)
LEMMA ListPushed ==
  ASSUME NEW p \in PoolType(Index), NEW seq \in Nat, NEW i \in Index, NEW tag \in Nat,
         tag > seq
  PROVE  ListOf(incoming_push(p, i, tag), seq) = ListOf(p, seq)
<1> DEFINE q == incoming_push(p, i, tag)
<1>1. PICK m : Reaches(p, seq, m)
  BY ReachExists
<1>2. /\ incoming_len(p) \in Nat /\ m \in Nat /\ m \in 0..incoming_len(p)
      /\ \A j \in 1..m : p.incoming[j].tag <= seq
      /\ m < incoming_len(p) => p.incoming[m + 1].tag > seq
  <2>1. incoming_len(p) \in Nat
    BY PoolLengths
  <2> QED BY <1>1, <2>1 DEF Reaches
<1>3. /\ q \in PoolType(Index) /\ incoming_len(q) = incoming_len(p) + 1
      /\ \A j \in 1..incoming_len(p) : q.incoming[j] = p.incoming[j]
      /\ q.incoming[incoming_len(p) + 1].tag = tag
  BY IncomingPushType, PushedKeeps
<1>4. Merged(q, m).slots = Merged(p, m).slots
  BY <1>2, MergedPushed
<1> HIDE DEF q
<1>5. Reaches(q, seq, m)
  <2>1. m \in 0..incoming_len(q) /\ \A j \in 1..m : j \in 1..incoming_len(p)
    BY <1>2, <1>3
  <2>2. q.incoming[m + 1].tag > seq
    <3>1. CASE m = incoming_len(p)
      BY <1>3, <3>1
    <3>2. CASE m < incoming_len(p)
      <4>1. m + 1 \in 1..incoming_len(p)
        BY <1>2, <3>2
      <4> QED BY <1>2, <1>3, <3>2, <4>1
    <3> QED BY <1>2, <3>1, <3>2
  <2> QED BY <1>2, <1>3, <2>1, <2>2 DEF Reaches
<1>6. ListOf(q, seq) = Merged(q, m).slots /\ ListOf(p, seq) = Merged(p, m).slots
  BY <1>1, <1>3, <1>5, ReachList
<1> QED BY <1>4, <1>6 DEF q

-----------------------------------------------------------------------------
(* A capture hands nothing in.                                             *)

HandsNothing ==
  \A s \in Pending : requests[s].kind = "capture" => requests[s].handed_in_index = NoHandedIn

(* What a settle and an expiry leave of the FIFO.                          *)
LEMMA SettleRemains ==
  ASSUME IInv, NEW k \in 0..incoming_len(pool), Settle(k)
  PROVE  /\ Pending' = Pending \ {HeadSeq} /\ HeadSeq' = HeadSeq + 1
         /\ \A t \in Pending' : t \in Pending /\ requests'[t] = requests[t]
<1>1. SettleRefusals(k) /\ CloseRequests({HeadSeq})
  BY DEF Settle
<1>2. TypeOK /\ HeadSeq \in Pending /\ HeadSeq \in Nat
  BY <1>1, QueueFacts DEF IInv, SettleRefusals
<1>3. vault'.next_seq = vault.next_seq /\ vault'.next_settle_seq = vault.next_settle_seq + 1
  BY SettleCounts
<1>4. HeadSeq..(HeadSeq + 1 - 1) = {HeadSeq}
  BY <1>2
<1>5. /\ Pending' = Pending \ {HeadSeq}
      /\ \A t \in Pending' : t \in Pending /\ requests'[t] = requests[t]
  BY <1>1, <1>2, <1>3, <1>4, CloseRequestsType
<1> QED BY <1>3, <1>5 DEF HeadSeq

LEMMA ExpireRemains ==
  ASSUME IInv, NEW n \in Nat \ {0}, ExpireHeads(n)
  PROVE  \A t \in Pending' : t \in Pending /\ requests'[t] = requests[t]
<1>1. /\ HeadSeq..(HeadSeq + n - 1) \subseteq Pending /\ TypeOK /\ vault \in VaultType
      /\ CloseRequests(HeadSeq..(HeadSeq + n - 1)) /\ vault' = ExpiredVault(n)
      /\ vault'.pending_captures >= 0 /\ vault'.pending_rerolls >= 0
  BY DEF ExpireHeads, ExpireRefusals, Write, NoUnderflow, ExpiredBooks, Books, IInv, TypeOK
<1>2. vault'.next_seq = vault.next_seq /\ vault'.next_settle_seq = vault.next_settle_seq + n
  BY <1>1, ExpiredCounts, ExpiredVaultType
<1> QED BY <1>1, <1>2, CloseRequestsType

(* A release changes no request.                                           *)
LEMMA UnwrapRemains ==
  ASSUME IInv, NEW u \in Users, NEW i \in Index, Unwrap(u, i)
  PROVE  /\ requests' = requests
         /\ pool' = incoming_push(pool, i, vault.next_seq)
         /\ vault'.next_seq = vault.next_seq /\ vault'.next_settle_seq = vault.next_settle_seq
<1>1. /\ vault' = ReleasedBooks(i).vault /\ vault'.assets_outside >= 0
      /\ pool' = incoming_push(pool, i, vault.next_seq)
      /\ requests' = requests /\ vault \in VaultType
  BY DEF Unwrap, Write, NoUnderflow, ReleasedBooks, Books, ReleaseTag, draws, IInv, TypeOK
<1> QED BY <1>1, ReleasedVaultType

LEMMA HandsStep == IInv /\ HandsNothing /\ [Next]_vars => HandsNothing'
<1> SUFFICES ASSUME IInv, HandsNothing, [Next]_vars PROVE HandsNothing'
  OBVIOUS
<1>1. CASE Request
  <2>1. PICK kind \in {"capture", "reroll"}, u \in Users, r \in RandAccounts,
             oracle \in Oracles, h \in Index \cup {NoHandedIn} :
          /\ RequestRefusals(r, oracle) /\ OpenRequest(kind, u, r, oracle, h)
          /\ vault' = RequestedVault(kind)
          /\ kind = "capture" => h = NoHandedIn
    BY <1>1 DEF Request, RequestCapture, RequestReroll, Write, RequestedBooks, Books
  <2>2. /\ Pending' = Pending \cup {vault.next_seq}
        /\ requests'[vault.next_seq] = NewRequest(kind, u, r, oracle, h)
        /\ \A t \in Pending : requests'[t] = requests[t]
    <3>1. TypeOK
      BY DEF IInv
    <3> QED BY <2>1, <3>1, OpenRequestType
  <2>3. /\ requests'[vault.next_seq].kind = kind
        /\ requests'[vault.next_seq].handed_in_index = h
    BY <2>2 DEF NewRequest
  <2> SUFFICES ASSUME NEW t \in Pending', requests'[t].kind = "capture"
              PROVE  requests'[t].handed_in_index = NoHandedIn
    BY DEF HandsNothing
  <2>4. CASE t = vault.next_seq
    BY <2>1, <2>3, <2>4
  <2>5. CASE t \in Pending
    BY <2>2, <2>5 DEF HandsNothing
  <2> QED BY <2>2, <2>4, <2>5
<1>2. CASE SettleHead
  BY <1>2, SettleRemains DEF SettleHead, HandsNothing
<1>3. CASE ExpireRequest
  BY <1>3, ExpireRemains DEF ExpireRequest, HandsNothing
<1>4. CASE ExpireRequests
  <2>1. PICK n \in 1..MAX_EXPIRE_PER_CALL : ExpireHeads(n)
    BY <1>4 DEF ExpireRequests
  <2>2. n \in Nat \ {0}
    BY BoundAssumption
  <2> QED BY <2>1, <2>2, ExpireRemains DEF HandsNothing
<1>5. ASSUME vault'.next_seq = vault.next_seq, vault'.next_settle_seq = vault.next_settle_seq,
             \A t \in Pending : /\ requests'[t].kind = requests[t].kind
                                /\ requests'[t].handed_in_index = requests[t].handed_in_index
      PROVE  HandsNothing'
  <2>1. Pending' = Pending
    BY <1>5 DEF Pending
  <2> QED BY <1>5, <2>1 DEF HandsNothing
<1>6. CASE Merge
  BY <1>5, <1>6 DEF Merge, MergeIncoming, draws
<1>7. CASE \E u \in Users, i \in Index : Unwrap(u, i)
  BY <1>5, <1>7, UnwrapRemains
<1>8. CASE Reveal \/ Recommit
  BY <1>5, <1>8, SameHandIns
<1>9. CASE \/ OpenVault \/ Environment \/ UNCHANGED vars
           \/ \E r \in RandAccounts : InitRandomness(r)
  BY <1>5, <1>9, QuietSteps
<1> QED BY <1>1, <1>2, <1>3, <1>4, <1>6, <1>7, <1>8, <1>9 DEF Next

LEMMA HandsInductive == Spec => []HandsNothing
<1>1. Init => HandsNothing
  BY DEF Init, Pending, HandsNothing
<1> QED BY <1>1, HandsStep, Inductive, PTL DEF Spec

-----------------------------------------------------------------------------
(* The draw.                                                               *)

(* settle draws from the list, by the value revealed for the head.         *)
LEMMA SettleDraws ==
  ASSUME IInv, CInv, HandsNothing, NEW k \in 0..incoming_len(pool), Settle(k)
  PROVE  LET req == requests[HeadSeq]
             won == DrawList[Pick(req.value, HeadSeq, Len(DrawList)) + 1]
         IN  owner'[won] = req.user /\ won # req.handed_in_index
<1> DEFINE req == requests[HeadSeq]
           given == IF req.kind = "reroll" THEN {req.handed_in_index} ELSE {}
<1>1. /\ SettleRefusals(k) /\ pool_len(Merged(pool, k)) > 0
      /\ owner' = [owner EXCEPT ![PickedIndex(k)] = req.user]
  BY DEF Settle
<1>2. /\ TypeOK /\ HeadSeq \in Pending /\ HeadSeq \in Nat /\ pool \in PoolType(Index)
      /\ incoming_len(pool) \in Nat /\ k \in Nat /\ owner \in [Index -> Holders]
  <2>1. TypeOK /\ HeadSeq \in Pending
    BY <1>1 DEF IInv, SettleRefusals
  <2>2. HeadSeq \in Nat /\ pool \in PoolType(Index) /\ incoming_len(pool) \in Nat
    BY <2>1, QueueFacts, PoolFacts
  <2>3. k \in Nat
    BY <2>2
  <2>4. owner \in [Index -> Holders]
    BY <2>1 DEF TypeOK
  <2> QED BY <2>1, <2>2, <2>3, <2>4
<1>3. Reaches(pool, HeadSeq, k)
  <2>1. \A i \in 1..k : pool.incoming[i].tag <= HeadSeq
    BY <1>1 DEF SettleRefusals, MergeMoves
  <2>2. ASSUME k < incoming_len(pool) PROVE pool.incoming[k + 1].tag > HeadSeq
    <3>1. /\ incoming_len(Merged(pool, k)) = incoming_len(pool) - k
          /\ 1 \in 1..(incoming_len(pool) - k)
          /\ Merged(pool, k).incoming[1] = pool.incoming[k + 1]
      <4>1. 1 \in 1..(incoming_len(pool) - k)
        BY <1>2, <2>2
      <4> QED BY <1>2, <4>1, MergedType
    <3>2. incoming_len(Merged(pool, k)) > 0
      BY <1>2, <2>2, <3>1
    <3> QED BY <1>1, <3>1, <3>2 DEF SettleRefusals, FrontTagAbove
  <2> QED BY <2>1, <2>2 DEF Reaches
<1>4. DrawList = Merged(pool, k).slots
  BY <1>2, <1>3, ListNames, ReachList
<1>5. DrawList[Pick(req.value, HeadSeq, Len(DrawList)) + 1] = PickedIndex(k)
  BY <1>4 DEF PickedIndex, pool_get, Position, pool_len
<1>6. PickedIndex(k) \in Index /\ PickedIndex(k) \notin given
  BY <1>1, SettledPlaces, SettledPoolType DEF CInv
<1>7. req.kind \in {"capture", "reroll"}
  BY <1>2, HeadFacts, RequestFacts
<1>8. PickedIndex(k) # req.handed_in_index
  <2>1. CASE req.kind = "reroll"
    BY <1>6, <2>1
  <2>2. CASE req.kind = "capture"
    <3>1. req.handed_in_index = N
      BY <1>2, <2>2 DEF HandsNothing, NoHandedIn
    <3>2. N \notin Index
      BY ConstantFacts DEF Index
    <3> QED BY <1>6, <3>1, <3>2
  <2> QED BY <1>7, <2>1, <2>2
<1>9. owner'[PickedIndex(k)] = req.user
  BY <1>1, <1>2, <1>6
<1> QED BY <1>5, <1>8, <1>9

(* Nobody steers a draw: while a request is the head of the FIFO its list  *)
(* stays the same, whoever merges, releases, requests or expires, and      *)
(* settle gives its user the entry that the revealed value selects.        *)
THEOREM DrawIsDetermined == Spec => DrawDetermined
<1>1. ASSUME IInv, CInv, HandsNothing, [Next]_vars, HeadSeq \in Pending PROVE DrawStep
  <2>0. /\ pool \in PoolType(Index) /\ incoming_len(pool) \in Nat /\ HeadSeq \in Nat
        /\ vault.next_seq \in Nat /\ HeadSeq < vault.next_seq /\ vault \in VaultType
    BY <1>1, PoolFacts, QueueFacts DEF IInv, TypeOK
  <2>1. ASSUME DrawList' = DrawList, HeadSeq' = HeadSeq PROVE DrawStep
    BY <2>1 DEF DrawStep
  <2>2. ASSUME pool' = pool, vault'.next_settle_seq = vault.next_settle_seq PROVE DrawStep
    <3>1. HeadSeq' = HeadSeq
      BY <2>2 DEF HeadSeq
    <3> QED BY <2>1, <2>2, <3>1, ListNames
  <2>3. CASE Request
    <3>1. PICK kind \in {"capture", "reroll"} : vault' = RequestedVault(kind) /\ pool' = pool
      BY <2>3 DEF Request, RequestCapture, RequestReroll, Write, RequestedBooks, Books
    <3>2. vault'.next_settle_seq = vault.next_settle_seq
      BY <2>0, <3>1 DEF RequestedVault, VaultType
    <3> QED BY <2>2, <3>1, <3>2
  <2>4. CASE SettleHead
    <3>1. PICK k \in 0..incoming_len(pool) : Settle(k)
      BY <2>4 DEF SettleHead
    <3>2. HeadSeq' # HeadSeq
      BY <1>1, <2>0, <3>1, SettleRemains
    <3> QED BY <1>1, <3>1, <3>2, SettleDraws DEF DrawStep
  <2>5. CASE Merge
    <3>1. PICK k \in 1..incoming_len(pool), max \in 1..MAX_MERGE_PER_CALL :
            MergeIncoming(k, max)
      BY <2>5 DEF Merge
    <3>2. /\ pool' = Merged(pool, k) /\ vault' = vault
          /\ \A i \in 1..k : pool.incoming[i].tag <= HeadSeq
      BY <3>1 DEF MergeIncoming, MergeMoves
    <3>3. HeadSeq' = HeadSeq /\ k \in 0..incoming_len(pool)
      BY <2>0, <3>2 DEF HeadSeq
    <3> QED BY <2>0, <2>1, <3>2, <3>3, ListNames, ListMerged
  <2>6. ASSUME NEW n \in Nat \ {0}, ExpireHeads(n) PROVE DrawStep
    <3>1. HeadSeq \in HeadSeq..(HeadSeq + n - 1)
      BY <2>0
    <3>2. ~requests[HeadSeq].revealed
      BY <2>6, <3>1 DEF ExpireHeads, ExpireRefusals, Expirable
    <3>3. pool' = pool
      BY <2>6 DEF ExpireHeads, Write, ExpiredBooks, Books
    <3>4. HeadSeq' = HeadSeq => DrawList' = DrawList
      BY <3>3, ListNames
    <3> QED BY <3>2, <3>4 DEF DrawStep
  <2>7. CASE ExpireRequest
    BY <2>6, <2>7 DEF ExpireRequest
  <2>8. CASE ExpireRequests
    <3>1. PICK n \in 1..MAX_EXPIRE_PER_CALL : ExpireHeads(n)
      BY <2>8 DEF ExpireRequests
    <3>2. n \in Nat \ {0}
      BY BoundAssumption
    <3> QED BY <2>6, <3>1, <3>2
  <2>9. CASE \E u \in Users, i \in Index : Unwrap(u, i)
    <3>1. PICK u \in Users, i \in Index : Unwrap(u, i)
      BY <2>9
    <3>2. /\ pool' = incoming_push(pool, i, vault.next_seq)
          /\ vault'.next_settle_seq = vault.next_settle_seq
      BY <1>1, <3>1, UnwrapRemains
    <3>3. HeadSeq' = HeadSeq
      BY <3>2 DEF HeadSeq
    <3>4. ListOf(pool', HeadSeq) = ListOf(pool, HeadSeq)
      BY <2>0, <3>2, ListPushed
    <3> QED BY <2>1, <3>3, <3>4, ListNames
  <2>10. CASE Reveal \/ Recommit
    BY <1>1, <2>2, <2>10, SameHandIns
  <2>11. CASE \/ OpenVault \/ Environment \/ UNCHANGED vars
              \/ \E r \in RandAccounts : InitRandomness(r)
    BY <1>1, <2>2, <2>11, QuietSteps
  <2> QED BY <1>1, <2>3, <2>4, <2>5, <2>7, <2>8, <2>9, <2>10, <2>11 DEF Next
<1>2. IInv /\ CInv /\ HandsNothing /\ [Next]_vars => [(HeadSeq \in Pending) => DrawStep]_vars
  BY <1>1
<1> QED BY <1>2, Inductive, CustodyInductive, HandsInductive, PTL DEF Spec, DrawDetermined

-----------------------------------------------------------------------------
(***************************************************************************)
(* The head of the FIFO always has somewhere to go.                        *)
(***************************************************************************)
(* Remainders of numbers that went round once at most.                     *)
LEMMA OnceRound ==
  ASSUME NEW n \in Nat \ {0}, NEW x \in Nat, x < n
  PROVE  x % n = x /\ (x + n) % n = x
<1>1. x + n = n * 1 + x
  OBVIOUS
<1> QED BY <1>1

(* A non-empty set of numbers up to n has a least member.                  *)
LEMMA LeastOf ==
  ASSUME NEW n \in Nat, NEW S, S \subseteq 0..n, S # {}
  PROVE  \E k \in S : \A j \in S : k <= j
<1> DEFINE R == OpToRel(<, Nat)
<1>1. IsWellFoundedOn(R, Nat)
  BY NatLessThanWellFounded
<1>2. \A x, y \in Nat : <<x, y>> \in R <=> x < y
  BY DEF OpToRel
<1> HIDE DEF R
<1>3. S \subseteq Nat
  OBVIOUS
<1>4. PICK k \in S : \A j \in S : ~(<<j, k>> \in R)
  BY <1>1, <1>3, WFMin
<1>5. ASSUME NEW j \in S PROVE k <= j
  <2>1. k \in Nat /\ j \in Nat /\ ~(<<j, k>> \in R)
    BY <1>3, <1>4
  <2> QED BY <1>2, <2>1
<1> QED BY <1>4, <1>5

(* select_oracle_in walks the whole queue: it finds a key if there is one. *)
LEMMA SelectionExists ==
  ASSUME NEW ring, Len(ring) \in Nat \ {0}, NEW cursor \in Nat, NEW shift \in Nat,
         NEW used, Len(used) \in Nat, NEW stale,
         NEW i \in 1..Len(ring), Eligible(ring[i], used, stale)
  PROVE  \E oracle : IsSelected(ring, cursor, shift, used, stale, oracle)
<1> DEFINE n == Len(ring)
           start == WalkStart(ring, cursor, shift, used)
           S == {step \in 0..(n - 1) : Eligible(WalkKey(ring, start, step), used, stale)}
<1>1. n \in Nat \ {0} /\ i \in Nat /\ 1 <= i /\ i <= n
  OBVIOUS
<1>2. start \in Nat /\ start < n
  <2>1. /\ cursor % n \in Nat /\ shift % n \in Nat
    BY <1>1, SMT
  <2>2. (cursor % n) + (shift % n) + Len(used) \in Nat
    BY <2>1
  <2> DEFINE x == (cursor % n) + (shift % n) + Len(used)
  <2>3. start = x % n
    BY DEF WalkStart
  <2> HIDE DEF x, n
  <2> QED BY <1>1, <2>2, <2>3 DEF x
<1> HIDE DEF start
<1>3. \E step \in 0..(n - 1) : (start + step) % n = i - 1
  <2> DEFINE x == i - 1
  <2>3. i - 1 = x /\ x \in Nat /\ x < n
    BY <1>1
  <2> HIDE DEF n, x
  <2>4. x % n = x /\ (x + n) % n = x
    BY <1>1, <2>3, OnceRound
  <2>1. CASE start <= x
    <3>1. x - start \in 0..(n - 1) /\ start + (x - start) = x
      BY <1>1, <1>2, <2>1, <2>3
    <3> QED BY <2>3, <2>4, <3>1
  <2>2. CASE start > x
    <3>1. (x - start) + n \in 0..(n - 1) /\ start + ((x - start) + n) = x + n
      BY <1>1, <1>2, <2>2, <2>3
    <3> QED BY <2>3, <2>4, <3>1
  <2> QED BY <1>2, <2>1, <2>2, <2>3
<1>4. S # {}
  <2>1. PICK step \in 0..(n - 1) : (start + step) % n = i - 1
    BY <1>3
  <2>2. WalkKey(ring, start, step) = ring[i]
    BY <1>1, <2>1 DEF WalkKey
  <2> QED BY <2>1, <2>2
<1>5. S \subseteq 0..(n - 1) /\ n - 1 \in Nat
  BY <1>1
<1>6. PICK k \in S : \A j \in S : k <= j
  <2> HIDE DEF S, n
  <2> QED BY <1>4, <1>5, LeastOf
<1>7. ASSUME NEW earlier \in 0..(k - 1)
      PROVE  ~Eligible(WalkKey(ring, start, earlier), used, stale)
  <2>1. k \in 0..(n - 1) /\ earlier \in 0..(n - 1) /\ ~(k <= earlier)
    BY <1>1, <1>6
  <2> QED BY <1>6, <2>1
<1>8. IsSelected(ring, cursor, shift, used, stale, WalkKey(ring, start, k))
  BY <1>1, <1>6, <1>7 DEF IsSelected, start
<1> QED BY <1>8

(* A list names no more things than it is long.                            *)
LEMMA NamesCounted ==
  ASSUME NEW S, NEW s \in Seq(S)
  PROVE  /\ IsFiniteSet({s[i] : i \in 1..Len(s)})
         /\ Cardinality({s[i] : i \in 1..Len(s)}) <= Len(s)
<1> DEFINE T == {s[i] : i \in 1..Len(s)}
           f == [i \in 1..Len(s) |-> s[i]]
<1>1. Len(s) \in Nat
  OBVIOUS
<1>2. IsFiniteSet(1..Len(s)) /\ Cardinality(1..Len(s)) = Len(s)
  BY <1>1, FS_Interval
<1>3. f \in Surjection(1..Len(s), T)
  BY DEF Surjection
<1> HIDE DEF T, f
<1>4. IsFiniteSet(T) /\ Cardinality(T) <= Cardinality(1..Len(s))
  BY <1>2, <1>3, FS_Surjection
<1> QED BY <1>2, <1>4 DEF T

(* A request that may still be re-committed has not used up the queue.     *)
LEMMA OracleLeft ==
  ASSUME EnoughOracles, NEW used \in Seq(Oracles), Len(used) <= MAX_RECOMMITS
  PROVE  \E o \in Oracles : /\ oracle_state[o] = "live"
                            /\ \E i \in 1..Len(oracle_keys) : oracle_keys[i] = o
                            /\ \A i \in 1..Len(used) : used[i] # o
<1> DEFINE L == {o \in Oracles : /\ oracle_state[o] = "live"
                                 /\ \E i \in 1..Len(oracle_keys) : oracle_keys[i] = o}
           T == {used[i] : i \in 1..Len(used)}
<1>1. Cardinality(L) > MAX_RECOMMITS
  BY DEF EnoughOracles
<1>2. IsFiniteSet(T) /\ Cardinality(T) <= Len(used)
  BY NamesCounted
<1>3. ~(L \subseteq T)
  <2> SUFFICES ASSUME L \subseteq T PROVE FALSE
    OBVIOUS
  <2> HIDE DEF L, T
  <2>1. Cardinality(L) <= Cardinality(T) /\ IsFiniteSet(L)
    BY <1>2, FS_Subset
  <2>2. Cardinality(L) \in Nat /\ Cardinality(T) \in Nat /\ Len(used) \in Nat
    BY <1>2, <2>1, FS_CardinalityType
  <2> QED BY <1>1, <1>2, <2>1, <2>2, ConstantFacts
<1> QED BY <1>3

(* recommit_randomness: the program always finds an oracle that has not    *)
(* served the request, that is live, and that its caller can get to by     *)
(* proving every stale one stale.                                          *)
LEMMA HeadRecommits ==
  ASSUME IInv, RandomnessAgrees, EnoughOracles, HeadSeq \in Pending,
         ~requests[HeadSeq].revealed, slot > requests[HeadSeq].deadline_slot,
         commits(requests[HeadSeq]) <= MAX_RECOMMITS
  PROVE  CanRecommit
<1> DEFINE req == requests[HeadSeq]
           r == req.randomness
           stale == {o \in Oracles : oracle_state[o] = "stale"}
<1>1. /\ req \in RequestType /\ HeadSeq \in Nat /\ HeadSeq \in 0..MaxSeq
      /\ slot \in Nat \ {0} /\ curr_idx \in Nat
      /\ oracle_state \in [Oracles -> {"live", "stale", "closed"}]
  <2>1. /\ vault.next_seq \in Nat /\ vault.next_seq <= MaxSeq
        /\ HeadSeq \in Nat /\ HeadSeq < vault.next_seq /\ req \in RequestType
    BY QueueFacts DEF IInv
  <2>2. HeadSeq \in 0..MaxSeq
    BY <2>1, ConstantFacts
  <2> QED BY <2>1, <2>2 DEF IInv, TypeOK
<1>2. req.oracles \in Seq(Oracles) /\ Len(req.oracles) \in Nat /\ r \in RandAccounts
  BY <1>1, RequestFacts
<1>3. /\ r \in DOMAIN randomness /\ randomness[r].seed_slot = req.seed_slot
      /\ req.seed_slot < slot /\ ~is_revealed(randomness[r], req.seed_slot)
      /\ randomness[r] \in RandomnessType
  BY DEF RandomnessAgrees, IInv, TypeOK
<1>4. PICK o \in Oracles : /\ oracle_state[o] = "live"
                           /\ \E i \in 1..Len(oracle_keys) : oracle_keys[i] = o
                           /\ \A i \in 1..Len(req.oracles) : req.oracles[i] # o
  BY <1>2, OracleLeft DEF commits
<1>5. PICK i \in 1..Len(oracle_keys) : oracle_keys[i] = o
  BY <1>4
<1>6. Eligible(oracle_keys[i], req.oracles, stale)
  BY <1>4, <1>5, OracleAssumption DEF Eligible
<1>7. Len(oracle_keys) \in Nat \ {0} /\ Spread(HeadSeq) \in Nat
  BY <1>1, <1>5, OracleAssumption, SpreadAssumption
<1>8. PICK oracle : IsSelected(oracle_keys, curr_idx, Spread(HeadSeq), req.oracles, stale, oracle)
  <2> HIDE DEF req, stale
  <2> QED BY <1>1, <1>2, <1>6, <1>7, SelectionExists
<1>9. /\ oracle \in Oracles /\ oracle \notin stale
  <2>1. PICK step \in 0..(Len(oracle_keys) - 1) :
          /\ oracle = WalkKey(oracle_keys, WalkStart(oracle_keys, curr_idx, Spread(HeadSeq),
                                                     req.oracles), step)
          /\ Eligible(oracle, req.oracles, stale)
    BY <1>8 DEF IsSelected
  <2> DEFINE at == WalkStart(oracle_keys, curr_idx, Spread(HeadSeq), req.oracles)
             n == Len(oracle_keys)
  <2>2. at \in Nat
    <3> HIDE DEF n, req
    <3>1. curr_idx % n \in Nat /\ Spread(HeadSeq) % n \in Nat
      BY <1>1, <1>7 DEF n
    <3>2. (curr_idx % n) + (Spread(HeadSeq) % n) + Len(req.oracles) \in Nat
      BY <1>2, <3>1
    <3> QED BY <1>7, <3>2 DEF n, WalkStart
  <2> HIDE DEF at
  <2>3. (at + step) % n \in 0..(n - 1)
    BY <1>7, <2>2
  <2>4. WalkKey(oracle_keys, at, step) \in Oracles \cup {NoKey}
    BY <1>7, <2>3, OracleAssumption DEF WalkKey
  <2> QED BY <2>1, <2>4 DEF Eligible, at
<1>10. oracle_state[oracle] = "live"
  BY <1>1, <1>9 DEF EnoughOracles
<1>11. IsFreshCommit(SbCommit(randomness[r], oracle, slot), slot)
  <2>1. randomness[r].reveal_slot <= slot - 1
    BY <1>1, <1>3 DEF is_revealed, RandomnessType
  <2>2. /\ SbCommit(randomness[r], oracle, slot).seed_slot = slot - 1
        /\ SbCommit(randomness[r], oracle, slot).reveal_slot = randomness[r].reveal_slot
    BY <1>3 DEF SbCommit, RandomnessType
  <2> QED BY <1>1, <2>1, <2>2 DEF IsFreshCommit
<1>12. CanCommit(r, HeadSeq, req.oracles, oracle)
  BY <1>3, <1>8, <1>10, <1>11 DEF CanCommit
<1>13. MayRecommit(HeadSeq)
  BY <1>3 DEF MayRecommit
<1> QED BY <1>9, <1>12, <1>13 DEF CanRecommit

(* settle or merge_incoming: either one settle merges all that the head    *)
(* may draw, and nothing else refuses it, or there is something to merge.  *)
LEMMA HeadSettles ==
  ASSUME IInv, RandomnessAgrees, SettleSound, HeadSeq \in Pending,
         requests[HeadSeq].revealed
  PROVE  CanSettle \/ CanMerge
<1>1. /\ pool \in PoolType(Index) /\ HeadSeq \in Nat /\ incoming_len(pool) \in Nat
      /\ MAX_MERGE_PER_IX \in Nat \ {0} /\ MAX_MERGE_PER_CALL \in Nat \ {0}
  BY PoolFacts, QueueFacts, BoundAssumption DEF IInv
<1>2. PICK k : Reaches(pool, HeadSeq, k)
  BY <1>1, ReachExists
<1>3. /\ k \in Nat /\ k <= incoming_len(pool) /\ \A i \in 1..k : pool.incoming[i].tag <= HeadSeq
      /\ k < incoming_len(pool) => pool.incoming[k + 1].tag > HeadSeq
  BY <1>1, <1>2 DEF Reaches
<1>4. CASE k <= MAX_MERGE_PER_IX
  <2>1. MergeMoves(pool, HeadSeq, MAX_MERGE_PER_IX, k)
    BY <1>1, <1>3, <1>4 DEF MergeMoves
  <2>2. /\ incoming_len(Merged(pool, k)) = incoming_len(pool) - k
        /\ \A i \in 1..(incoming_len(pool) - k) :
             Merged(pool, k).incoming[i] = pool.incoming[k + i]
    BY <1>1, <1>3, MergedType
  <2>3. FrontTagAbove(Merged(pool, k), HeadSeq)
    <3>1. CASE k = incoming_len(pool)
      BY <1>1, <2>2, <3>1 DEF FrontTagAbove
    <3>2. CASE k < incoming_len(pool)
      <4>1. 1 \in 1..(incoming_len(pool) - k)
        BY <1>1, <1>3, <3>2
      <4> QED BY <1>3, <2>2, <3>2, <4>1 DEF FrontTagAbove
    <3> QED BY <1>1, <1>3, <3>1, <3>2
  <2>4. SettleRefusals(k)
    BY <2>1, <2>3 DEF SettleRefusals, RandomnessAgrees
  <2>5. k \in 0..incoming_len(pool)
    BY <1>1, <1>3
  <2> QED BY <2>4, <2>5 DEF SettleSound, CanSettle
<1>5. CASE k > MAX_MERGE_PER_IX
  <2>1. PICK m \in {k, MAX_MERGE_PER_CALL} : m <= k /\ m <= MAX_MERGE_PER_CALL
    BY <1>1, <1>3
  <2>2. m \in 1..incoming_len(pool) /\ \A i \in 1..m : pool.incoming[i].tag <= HeadSeq
    BY <1>1, <1>3, <1>5, <2>1
  <2>3. (m < MAX_MERGE_PER_CALL /\ m < incoming_len(pool)) => pool.incoming[m + 1].tag > HeadSeq
    BY <1>1, <1>3, <2>1
  <2>4. MergeMoves(pool, HeadSeq, MAX_MERGE_PER_CALL, m)
    BY <1>1, <2>1, <2>2, <2>3 DEF MergeMoves
  <2> QED BY <2>2, <2>4 DEF CanMerge
<1> QED BY <1>1, <1>3, <1>4, <1>5

(* The FIFO has no dead end, for any number of users, requests and oracles: *)
(* while the queue has one live oracle more than a request has re-commits,  *)
(* the head can be settled, or merged for, or re-committed, or expired as   *)
(* soon as its time is up, and no check of those instructions refuses it.   *)
THEOREM HeadAlwaysMoves == Spec => []HeadNeverBlocked
<1>1. IInv /\ RandomnessAgrees /\ SettleSound /\ ExpirySound => HeadNeverBlocked
  <2> SUFFICES ASSUME IInv, RandomnessAgrees, SettleSound, ExpirySound,
                      HeadSeq \in Pending, EnoughOracles
               PROVE  IF requests[HeadSeq].revealed
                      THEN CanSettle \/ CanMerge
                      ELSE slot > requests[HeadSeq].deadline_slot + EXPIRE_GRACE_SLOTS
                             => CanRecommit \/ CanExpire
    BY DEF HeadNeverBlocked
  <2>1. CASE requests[HeadSeq].revealed
    BY <2>1, HeadSettles
  <2>2. CASE ~requests[HeadSeq].revealed
    <3> SUFFICES ASSUME slot > requests[HeadSeq].deadline_slot + EXPIRE_GRACE_SLOTS
                 PROVE  CanRecommit \/ CanExpire
      BY <2>2
    <3>1. /\ requests[HeadSeq] \in RequestType /\ slot \in Nat /\ HeadSeq \in Nat
          /\ MAX_RECOMMITS \in Nat /\ EXPIRE_GRACE_SLOTS \in Nat
      BY QueueFacts, ConstantFacts DEF IInv, TypeOK
    <3>2. /\ requests[HeadSeq].deadline_slot \in Nat /\ commits(requests[HeadSeq]) \in Nat
          /\ slot > requests[HeadSeq].deadline_slot
      <4>1. /\ requests[HeadSeq].deadline_slot \in Nat
            /\ requests[HeadSeq].oracles \in Seq(Oracles)
        BY <3>1, RequestFacts
      <4> QED BY <3>1, <4>1 DEF commits
    <3>3. CASE commits(requests[HeadSeq]) <= MAX_RECOMMITS
      BY <2>2, <3>2, <3>3, HeadRecommits
    <3>4. CASE commits(requests[HeadSeq]) > MAX_RECOMMITS
      <4>1. Expirable(HeadSeq)
        BY <2>2, <3>4 DEF Expirable, RandomnessAgrees
      <4>2. HeadSeq..(HeadSeq + 1 - 1) = {HeadSeq}
        BY <3>1
      <4>3. ExpireRefusals(1)
        BY <4>1, <4>2 DEF ExpireRefusals
      <4>4. 1 \in 1..MAX_EXPIRE_PER_CALL
        BY BoundAssumption
      <4> QED BY <4>3, <4>4 DEF ExpirySound, CanExpire
    <3> QED BY <3>1, <3>2, <3>3, <3>4
  <2> QED BY <2>1, <2>2
<1> QED BY <1>1, Inductive, RandomnessAlwaysAgrees, SettleAlwaysSound, ExpiryAlwaysSound, PTL

=============================================================================
