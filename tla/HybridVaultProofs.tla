------------------------- MODULE HybridVaultProofs -------------------------
(***************************************************************************)
(* Theorems of HybridVault for every number of users, NFTs, oracles and    *)
(* requests.                                                               *)
(***************************************************************************)
EXTENDS HybridVault, FiniteSetTheorems, SequenceTheorems, TLAPS

-----------------------------------------------------------------------------
(***************************************************************************)
(* The draw pool: what the operators of DrawPool do to a well-formed pool, *)
(* for every capacity and every length.                                    *)
(***************************************************************************)
PoolType(I) ==
  [slots : Seq(I), incoming : Seq([index : I, tag : Nat]), minted : SUBSET I]

(* pool.rs pool_len and incoming_len: lengths are natural numbers.         *)
LEMMA PoolLengths ==
  ASSUME NEW I, NEW p \in PoolType(I)
  PROVE  /\ p.slots \in Seq(I) /\ p.incoming \in Seq([index : I, tag : Nat])
         /\ p.minted \subseteq I
         /\ pool_len(p) \in Nat /\ incoming_len(p) \in Nat
         /\ total(p) = pool_len(p) + incoming_len(p)
<1>1. p.slots \in Seq(I) /\ p.incoming \in Seq([index : I, tag : Nat]) /\ p.minted \subseteq I
  BY DEF PoolType
<1> QED BY <1>1, LenProperties DEF pool_len, incoming_len, total

(* init: a fresh pool holds every index, nothing is returning or minted.   *)
LEMMA FreshPoolType ==
  ASSUME NEW n \in Nat \ {0}
  PROVE  /\ FreshPool(n) \in PoolType(0..(n - 1))
         /\ pool_len(FreshPool(n)) = n /\ incoming_len(FreshPool(n)) = 0
<1> DEFINE s == [i \in 1..n |-> i - 1]
<1>1. s \in Seq(0..(n - 1))
  BY SeqDef
<1>2. Len(s) = n
  <2>1. DOMAIN s = 1..n
    OBVIOUS
  <2>2. DOMAIN s = 1..Len(s) /\ Len(s) \in Nat
    BY <1>1, LenProperties
  <2> QED BY <2>1, <2>2
<1>3. << >> \in Seq([index : 0..(n - 1), tag : Nat]) /\ Len(<< >>) = 0
  BY EmptySeq
<1> QED BY <1>1, <1>2, <1>3 DEF FreshPool, PoolType, pool_len, incoming_len

(* pool_swap_remove: one entry fewer, and no entry that was not there.     *)
LEMMA SwapRemoveType ==
  ASSUME NEW I, NEW p \in PoolType(I), NEW pos \in 0..(pool_len(p) - 1)
  PROVE  /\ pool_get(p, pos) \in I
         /\ pool_swap_remove(p, pos) \in PoolType(I)
         /\ pool_len(pool_swap_remove(p, pos)) = pool_len(p) - 1
         /\ pool_swap_remove(p, pos).incoming = p.incoming
         /\ pool_swap_remove(p, pos).minted = p.minted
<1> DEFINE last == pool_len(p)
           s == [i \in 1..(last - 1) |-> IF i = pos + 1 THEN p.slots[last] ELSE p.slots[i]]
<1>1. p.slots \in Seq(I) /\ p.slots \in [1..last -> I] /\ last \in Nat \ {0}
  <2>1. p.slots \in Seq(I) /\ last \in Nat
    BY PoolLengths
  <2>2. p.slots \in [1..last -> I]
    BY <2>1, LenProperties DEF pool_len
  <2> QED BY <2>1, <2>2
<1>2. s \in [1..(last - 1) -> I]
  BY <1>1
<1>3. s \in Seq(I)
  BY <1>1, <1>2, SeqDef
<1>4. Len(s) = last - 1
  <2>1. DOMAIN s = 1..(last - 1)
    OBVIOUS
  <2>2. DOMAIN s = 1..Len(s) /\ Len(s) \in Nat
    BY <1>3, LenProperties
  <2> QED BY <1>1, <2>1, <2>2
<1>5. pool_swap_remove(p, pos) = [p EXCEPT !.slots = s]
  BY DEF pool_swap_remove
<1>6. pool_get(p, pos) \in I
  BY <1>1 DEF pool_get
<1> QED BY <1>3, <1>4, <1>5, <1>6 DEF PoolType, pool_len

(* pool_push: one entry more.                                              *)
LEMMA PushType ==
  ASSUME NEW I, NEW p \in PoolType(I), NEW index \in I
  PROVE  /\ pool_push(p, index) \in PoolType(I)
         /\ pool_len(pool_push(p, index)) = pool_len(p) + 1
         /\ pool_push(p, index).incoming = p.incoming
         /\ pool_push(p, index).minted = p.minted
<1>1. p.slots \in Seq(I)
  BY PoolLengths
<1>2. Append(p.slots, index) \in Seq(I) /\ Len(Append(p.slots, index)) = Len(p.slots) + 1
  BY <1>1, AppendProperties
<1> QED BY <1>2 DEF PoolType, pool_push, pool_len

(* incoming_push: one returning entry more.                                *)
LEMMA IncomingPushType ==
  ASSUME NEW I, NEW p \in PoolType(I), NEW index \in I, NEW tag \in Nat
  PROVE  /\ incoming_push(p, index, tag) \in PoolType(I)
         /\ incoming_len(incoming_push(p, index, tag)) = incoming_len(p) + 1
         /\ incoming_push(p, index, tag).slots = p.slots
         /\ incoming_push(p, index, tag).minted = p.minted
<1> DEFINE E == [index : I, tag : Nat]
           e == [index |-> index, tag |-> tag]
<1>1. p.incoming \in Seq(E) /\ e \in E
  BY PoolLengths
<1>2. Append(p.incoming, e) \in Seq(E) /\ Len(Append(p.incoming, e)) = Len(p.incoming) + 1
  BY <1>1, AppendProperties
<1>3. incoming_push(p, index, tag) = [p EXCEPT !.incoming = Append(p.incoming, e)]
  BY DEF incoming_push
<1> HIDE DEF e
<1> QED BY <1>2, <1>3 DEF PoolType, incoming_len

(* merge: entries move from the front of the FIFO to the back of the pool, *)
(* in order, and none is lost or made: the total stays.                    *)
LEMMA MergedType ==
  ASSUME NEW I, NEW p \in PoolType(I), NEW k \in 0..incoming_len(p)
  PROVE  /\ Merged(p, k) \in PoolType(I)
         /\ pool_len(Merged(p, k)) = pool_len(p) + k
         /\ incoming_len(Merged(p, k)) = incoming_len(p) - k
         /\ total(Merged(p, k)) = total(p)
         /\ Merged(p, k).minted = p.minted
         /\ \A i \in 1..pool_len(p) : Merged(p, k).slots[i] = p.slots[i]
         /\ \A i \in 1..k : Merged(p, k).slots[pool_len(p) + i] = p.incoming[i].index
         /\ \A i \in 1..(incoming_len(p) - k) : Merged(p, k).incoming[i] = p.incoming[k + i]
<1> DEFINE E == [index : I, tag : Nat]
           m == [i \in 1..k |-> p.incoming[i].index]
           rest == SubSeq(p.incoming, k + 1, Len(p.incoming))
<1>1. /\ p.slots \in Seq(I) /\ p.incoming \in Seq(E)
      /\ Len(p.slots) \in Nat /\ Len(p.incoming) \in Nat /\ k \in 0..Len(p.incoming)
      /\ p.incoming \in [1..Len(p.incoming) -> E]
  BY PoolLengths, LenProperties DEF pool_len, incoming_len
<1>2. m \in [1..k -> I]
  BY <1>1
<1>3. m \in Seq(I)
  BY <1>1, <1>2, SeqDef
<1>4. Len(m) = k
  <2>1. DOMAIN m = 1..k
    OBVIOUS
  <2>2. DOMAIN m = 1..Len(m) /\ Len(m) \in Nat
    BY <1>3, LenProperties
  <2> QED BY <1>1, <2>1, <2>2
<1>5. /\ p.slots \o m \in Seq(I) /\ Len(p.slots \o m) = Len(p.slots) + k
      /\ \A i \in 1..(Len(p.slots) + k) :
           (p.slots \o m)[i] = IF i <= Len(p.slots) THEN p.slots[i] ELSE m[i - Len(p.slots)]
  BY <1>1, <1>3, <1>4, ConcatProperties
<1>6. /\ rest \in Seq(E)
      /\ Len(rest) = Len(p.incoming) - k
      /\ \A i \in 1..(Len(p.incoming) - k) : rest[i] = p.incoming[k + i]
  <2>1. \A i \in (k + 1)..Len(p.incoming) : p.incoming[i] \in E
    BY <1>1
  <2>2. k + 1 \in Int /\ Len(p.incoming) \in Int
    BY <1>1
  <2>3. /\ rest \in Seq(E)
        /\ Len(rest) = IF k + 1 <= Len(p.incoming) THEN Len(p.incoming) - (k + 1) + 1 ELSE 0
        /\ \A i \in 1..(Len(p.incoming) - (k + 1) + 1) : rest[i] = p.incoming[k + 1 + i - 1]
    BY <2>1, <2>2, SubSeqProperties
  <2>4. Len(rest) = Len(p.incoming) - k
    BY <1>1, <2>3
  <2>5. ASSUME NEW i \in 1..(Len(p.incoming) - k)
        PROVE  rest[i] = p.incoming[k + i]
    <3> HIDE DEF rest
    <3>1. i \in 1..(Len(p.incoming) - (k + 1) + 1) /\ k + 1 + i - 1 = k + i
      BY <1>1
    <3> QED BY <2>3, <3>1
  <2> QED BY <2>3, <2>4, <2>5
<1>7. Merged(p, k) = [p EXCEPT !.slots = p.slots \o m, !.incoming = rest]
  BY DEF Merged
<1>8. /\ Merged(p, k).slots = p.slots \o m /\ Merged(p, k).incoming = rest
      /\ Merged(p, k).minted = p.minted
      /\ Merged(p, k) \in PoolType(I)
  BY <1>5, <1>6, <1>7 DEF PoolType
<1>9. \A i \in 1..k : (p.slots \o m)[Len(p.slots) + i] = p.incoming[i].index
  BY <1>1, <1>5
<1>10. \A i \in 1..Len(p.slots) : (p.slots \o m)[i] = p.slots[i]
  BY <1>1, <1>5
<1> HIDE DEF m, rest
<1>11. /\ pool_len(Merged(p, k)) = pool_len(p) + k
       /\ incoming_len(Merged(p, k)) = incoming_len(p) - k
  BY <1>5, <1>6, <1>8 DEF pool_len, incoming_len
<1>12. total(Merged(p, k)) = total(p)
  <2>1. pool_len(p) \in Nat /\ incoming_len(p) \in Nat /\ k \in Nat
    BY <1>1 DEF pool_len, incoming_len
  <2>2. total(Merged(p, k)) = (pool_len(p) + k) + (incoming_len(p) - k)
    BY <1>11 DEF total
  <2> QED BY <2>1, <2>2 DEF total
<1>13. \A i \in 1..(incoming_len(p) - k) : Merged(p, k).incoming[i] = p.incoming[k + i]
  BY <1>6, <1>8 DEF incoming_len
<1>14. /\ \A i \in 1..pool_len(p) : Merged(p, k).slots[i] = p.slots[i]
       /\ \A i \in 1..k : Merged(p, k).slots[pool_len(p) + i] = p.incoming[i].index
  BY <1>8, <1>9, <1>10 DEF pool_len
<1> QED BY <1>8, <1>11, <1>12, <1>13, <1>14

-----------------------------------------------------------------------------
(* Where each index is: no operation loses an entry or makes a copy.       *)

SlotSet(p) == {p.slots[i] : i \in 1..pool_len(p)}
BackSet(p) == {p.incoming[i].index : i \in 1..incoming_len(p)}

\* No index is in two places of the pool account.
Distinct(p) ==
  /\ \A i, j \in 1..pool_len(p) : p.slots[i] = p.slots[j] => i = j
  /\ \A i, j \in 1..incoming_len(p) : p.incoming[i].index = p.incoming[j].index => i = j
  /\ \A i \in 1..pool_len(p), j \in 1..incoming_len(p) : p.slots[i] # p.incoming[j].index

(* A list without repetitions has as many members as entries.              *)
LEMMA ListCardinality ==
  ASSUME NEW n \in Nat, NEW f, NEW S, \A i, j \in 1..n : f[i] = f[j] => i = j,
         \A i \in 1..n : f[i] \in S, \A x \in S : \E i \in 1..n : x = f[i]
  PROVE  IsFiniteSet(S) /\ Cardinality(S) = n
<1> DEFINE g == [i \in 1..n |-> f[i]]
<1>1. g \in Bijection(1..n, S)
  BY DEF Bijection, Injection, Surjection, IsInjective
<1>2. ExistsBijection(1..n, S)
  BY <1>1 DEF ExistsBijection
<1>3. IsFiniteSet(1..n) /\ Cardinality(1..n) = n
  BY FS_Interval
<1> QED BY <1>2, <1>3, FS_Bijection

(* So the lengths of a pool count what is in it.                           *)
LEMMA PlacesCardinality ==
  ASSUME NEW I, NEW p \in PoolType(I), Distinct(p)
  PROVE  /\ IsFiniteSet(SlotSet(p)) /\ Cardinality(SlotSet(p)) = pool_len(p)
         /\ IsFiniteSet(BackSet(p)) /\ Cardinality(BackSet(p)) = incoming_len(p)
         /\ SlotSet(p) \cap BackSet(p) = {}
         /\ SlotSet(p) \subseteq I /\ BackSet(p) \subseteq I
<1>1. /\ pool_len(p) \in Nat /\ incoming_len(p) \in Nat
      /\ p.slots \in [1..pool_len(p) -> I]
      /\ p.incoming \in [1..incoming_len(p) -> [index : I, tag : Nat]]
  BY PoolLengths, LenProperties DEF pool_len, incoming_len
<1>2. IsFiniteSet(SlotSet(p)) /\ Cardinality(SlotSet(p)) = pool_len(p)
  <2> DEFINE f == p.slots
  <2>1. \A i, j \in 1..pool_len(p) : f[i] = f[j] => i = j
    BY DEF Distinct
  <2>2. /\ \A i \in 1..pool_len(p) : f[i] \in SlotSet(p)
        /\ \A x \in SlotSet(p) : \E i \in 1..pool_len(p) : x = f[i]
    BY DEF SlotSet
  <2> HIDE DEF f
  <2> QED BY <1>1, <2>1, <2>2, ListCardinality
<1>3. IsFiniteSet(BackSet(p)) /\ Cardinality(BackSet(p)) = incoming_len(p)
  <2> DEFINE f == [i \in 1..incoming_len(p) |-> p.incoming[i].index]
  <2>1. \A i, j \in 1..incoming_len(p) : f[i] = f[j] => i = j
    BY DEF Distinct
  <2>2. /\ \A i \in 1..incoming_len(p) : f[i] \in BackSet(p)
        /\ \A x \in BackSet(p) : \E i \in 1..incoming_len(p) : x = f[i]
    BY DEF BackSet
  <2> HIDE DEF f
  <2> QED BY <1>1, <2>1, <2>2, ListCardinality
<1>4. SlotSet(p) \cap BackSet(p) = {}
  BY DEF SlotSet, BackSet, Distinct
<1>5. SlotSet(p) \subseteq I /\ BackSet(p) \subseteq I
  BY <1>1 DEF SlotSet, BackSet
<1> QED BY <1>2, <1>3, <1>4, <1>5

(* init: index i is in slot i.                                             *)
LEMMA FreshPoolPlaces ==
  ASSUME NEW n \in Nat \ {0}
  PROVE  Distinct(FreshPool(n)) /\ SlotSet(FreshPool(n)) = 0..(n - 1) /\ BackSet(FreshPool(n)) = {}
<1>1. /\ pool_len(FreshPool(n)) = n /\ incoming_len(FreshPool(n)) = 0
      /\ \A i \in 1..n : FreshPool(n).slots[i] = i - 1
  BY FreshPoolType DEF FreshPool
<1>2. Distinct(FreshPool(n)) /\ BackSet(FreshPool(n)) = {}
  BY <1>1 DEF Distinct, BackSet
<1>3. SlotSet(FreshPool(n)) = {i - 1 : i \in 1..n}
  BY <1>1 DEF SlotSet
<1>4. {i - 1 : i \in 1..n} = 0..(n - 1)
  <2>1. \A x \in 0..(n - 1) : x + 1 \in 1..n /\ x = (x + 1) - 1
    OBVIOUS
  <2> QED BY <2>1
<1> QED BY <1>2, <1>3, <1>4

(* merge: what leaves the FIFO is in the pool.                             *)
LEMMA MergedPlaces ==
  ASSUME NEW I, NEW p \in PoolType(I), NEW k \in 0..incoming_len(p), Distinct(p)
  PROVE  /\ Distinct(Merged(p, k))
         /\ SlotSet(Merged(p, k)) = SlotSet(p) \cup {p.incoming[i].index : i \in 1..k}
         /\ BackSet(Merged(p, k)) \subseteq BackSet(p)
         /\ SlotSet(Merged(p, k)) \cup BackSet(Merged(p, k)) = SlotSet(p) \cup BackSet(p)
<1> DEFINE m == Merged(p, k)
           l == pool_len(p)
           n == incoming_len(p)
<1>1. l \in Nat /\ n \in Nat /\ k \in Nat /\ k <= n
  <2>1. pool_len(p) \in Nat /\ incoming_len(p) \in Nat
    BY PoolLengths
  <2> QED BY <2>1
<1>2. /\ pool_len(m) = l + k /\ incoming_len(m) = n - k
      /\ \A i \in 1..l : m.slots[i] = p.slots[i]
      /\ \A i \in 1..k : m.slots[l + i] = p.incoming[i].index
      /\ \A i \in 1..(n - k) : m.incoming[i] = p.incoming[k + i]
  BY MergedType
<1> HIDE DEF m, l, n
<1>3. \A i \in 1..(l + k) : i \in 1..l \/ (i - l \in 1..k /\ m.slots[i] = p.incoming[i - l].index)
  <2> TAKE i \in 1..(l + k)
  <2>1. CASE i > l
    <3>1. i - l \in 1..k /\ l + (i - l) = i
      BY <1>1, <2>1
    <3> QED BY <1>2, <3>1
  <2>2. CASE ~(i > l)
    BY <1>1, <2>2
  <2> QED BY <2>1, <2>2
<1>4. 1..k \subseteq 1..n /\ \A i \in 1..(n - k) : k + i \in 1..n /\ k + i \notin 1..k
  BY <1>1
<1>5. /\ \A i, j \in 1..l : p.slots[i] = p.slots[j] => i = j
      /\ \A i, j \in 1..n : p.incoming[i].index = p.incoming[j].index => i = j
      /\ \A i \in 1..l, j \in 1..n : p.slots[i] # p.incoming[j].index
  BY DEF Distinct, l, n
<1>6. ASSUME NEW i \in 1..(l + k), NEW j \in 1..(l + k), m.slots[i] = m.slots[j]
      PROVE  i = j
  <2>1. CASE i \in 1..l /\ j \in 1..l
    BY <1>2, <1>5, <1>6, <2>1
  <2>2. CASE i \in 1..l /\ j \notin 1..l
    <3>1. m.slots[j] = p.incoming[j - l].index /\ j - l \in 1..n /\ m.slots[i] = p.slots[i]
      BY <1>2, <1>3, <1>4, <2>2
    <3> QED BY <1>5, <1>6, <2>2, <3>1
  <2>3. CASE i \notin 1..l /\ j \in 1..l
    <3>1. m.slots[i] = p.incoming[i - l].index /\ i - l \in 1..n /\ m.slots[j] = p.slots[j]
      BY <1>2, <1>3, <1>4, <2>3
    <3> QED BY <1>5, <1>6, <2>3, <3>1
  <2>4. CASE i \notin 1..l /\ j \notin 1..l
    <3>1. /\ m.slots[i] = p.incoming[i - l].index /\ i - l \in 1..n
          /\ m.slots[j] = p.incoming[j - l].index /\ j - l \in 1..n
      BY <1>3, <1>4, <2>4
    <3>2. i - l = j - l
      BY <1>5, <1>6, <3>1
    <3> QED BY <1>1, <3>2
  <2> QED BY <2>1, <2>2, <2>3, <2>4
<1>7. ASSUME NEW i \in 1..(n - k), NEW j \in 1..(n - k), m.incoming[i].index = m.incoming[j].index
      PROVE  i = j
  <2>1. k + i = k + j
    BY <1>2, <1>4, <1>5, <1>7
  <2> QED BY <1>1, <2>1
<1>8. ASSUME NEW i \in 1..(l + k), NEW j \in 1..(n - k)
      PROVE  m.slots[i] # m.incoming[j].index
  <2>1. m.incoming[j] = p.incoming[k + j] /\ k + j \in 1..n /\ k + j \notin 1..k
    BY <1>2, <1>4
  <2>2. CASE i \in 1..l
    BY <1>2, <1>5, <2>1, <2>2
  <2>3. CASE i \notin 1..l
    <3>1. m.slots[i] = p.incoming[i - l].index /\ i - l \in 1..k
      BY <1>3, <2>3
    <3> QED BY <1>4, <1>5, <2>1, <3>1
  <2> QED BY <2>2, <2>3
<1>9. Distinct(m)
  BY <1>2, <1>6, <1>7, <1>8 DEF Distinct
<1>10. SlotSet(m) = SlotSet(p) \cup {p.incoming[i].index : i \in 1..k}
  <2>1. SlotSet(m) = {m.slots[i] : i \in 1..(l + k)} /\ SlotSet(p) = {p.slots[i] : i \in 1..l}
    BY <1>2 DEF SlotSet, l
  <2>2. \A i \in 1..l : i \in 1..(l + k)
    BY <1>1
  <2>3. \A i \in 1..k : l + i \in 1..(l + k)
    BY <1>1
  <2>4. SlotSet(m) \subseteq SlotSet(p) \cup {p.incoming[i].index : i \in 1..k}
    BY <1>2, <1>3, <2>1
  <2>5. SlotSet(p) \subseteq SlotSet(m)
    BY <1>2, <2>1, <2>2
  <2>6. {p.incoming[i].index : i \in 1..k} \subseteq SlotSet(m)
    BY <1>2, <2>1, <2>3
  <2> QED BY <2>4, <2>5, <2>6
<1>11. /\ BackSet(m) = {p.incoming[k + i].index : i \in 1..(n - k)}
       /\ BackSet(p) = {p.incoming[i].index : i \in 1..n}
  BY <1>2 DEF BackSet, n
<1>12. BackSet(m) \subseteq BackSet(p)
  BY <1>4, <1>11
<1>13. BackSet(p) \subseteq {p.incoming[i].index : i \in 1..k} \cup BackSet(m)
  <2> SUFFICES ASSUME NEW i \in 1..n
               PROVE  p.incoming[i].index \in {p.incoming[j].index : j \in 1..k} \cup BackSet(m)
    BY <1>11
  <2>1. CASE i \in 1..k
    BY <2>1
  <2>2. CASE i \notin 1..k
    <3>1. i - k \in 1..(n - k) /\ k + (i - k) = i
      BY <1>1, <2>2
    <3> QED BY <1>11, <3>1
  <2> QED BY <2>1, <2>2
<1>14. {p.incoming[i].index : i \in 1..k} \subseteq BackSet(p)
  BY <1>4, <1>11
<1> QED BY <1>9, <1>10, <1>12, <1>13, <1>14 DEF m

(* pool_swap_remove: the entry drawn leaves the pool, every other stays.   *)
LEMMA SwapRemovePlaces ==
  ASSUME NEW I, NEW p \in PoolType(I), NEW pos \in 0..(pool_len(p) - 1), Distinct(p)
  PROVE  /\ Distinct(pool_swap_remove(p, pos))
         /\ pool_get(p, pos) \in SlotSet(p)
         /\ SlotSet(pool_swap_remove(p, pos)) = SlotSet(p) \ {pool_get(p, pos)}
         /\ BackSet(pool_swap_remove(p, pos)) = BackSet(p)
<1> DEFINE q == pool_swap_remove(p, pos)
           last == pool_len(p)
<1>1. last \in Nat \ {0} /\ pos + 1 \in 1..last
  <2>1. pool_len(p) \in Nat
    BY PoolLengths
  <2> QED BY <2>1
<1>2. /\ pool_len(q) = last - 1 /\ q.incoming = p.incoming
      /\ \A i \in 1..(last - 1) : q.slots[i] = IF i = pos + 1 THEN p.slots[last] ELSE p.slots[i]
  <2>1. pool_len(q) = last - 1 /\ q.incoming = p.incoming
    BY SwapRemoveType
  <2>2. q = [p EXCEPT !.slots = [i \in 1..(last - 1) |->
                                   IF i = pos + 1 THEN p.slots[last] ELSE p.slots[i]]]
    BY DEF pool_swap_remove
  <2>3. q.slots = [i \in 1..(last - 1) |-> IF i = pos + 1 THEN p.slots[last] ELSE p.slots[i]]
    BY <2>2 DEF PoolType
  <2> QED BY <2>1, <2>3
<1>3. incoming_len(q) = incoming_len(p) /\ BackSet(q) = BackSet(p)
  BY <1>2 DEF incoming_len, BackSet
<1>4. pool_get(p, pos) = p.slots[pos + 1]
  BY DEF pool_get
<1> HIDE DEF q, last
<1>5. /\ \A i, j \in 1..last : p.slots[i] = p.slots[j] => i = j
      /\ \A i \in 1..last, j \in 1..incoming_len(p) : p.slots[i] # p.incoming[j].index
  BY DEF Distinct, last
<1>6. ASSUME NEW i \in 1..(last - 1)
      PROVE  \E x \in 1..last : /\ q.slots[i] = p.slots[x] /\ x # pos + 1
                                /\ x = IF i = pos + 1 THEN last ELSE i
  <2>1. CASE i = pos + 1
    BY <1>1, <1>2, <2>1
  <2>2. CASE i # pos + 1
    BY <1>1, <1>2, <2>2
  <2> QED BY <2>1, <2>2
<1>7. Distinct(q)
  <2>1. ASSUME NEW i \in 1..(last - 1), NEW j \in 1..(last - 1), q.slots[i] = q.slots[j]
        PROVE  i = j
    <3>1. PICK x \in 1..last : q.slots[i] = p.slots[x] /\ x = IF i = pos + 1 THEN last ELSE i
      BY <1>6
    <3>2. PICK y \in 1..last : q.slots[j] = p.slots[y] /\ y = IF j = pos + 1 THEN last ELSE j
      BY <1>6
    <3>3. x = y
      BY <1>5, <2>1, <3>1, <3>2
    <3> QED BY <1>1, <3>1, <3>2, <3>3
  <2>2. ASSUME NEW i \in 1..(last - 1), NEW j \in 1..incoming_len(p)
        PROVE  q.slots[i] # p.incoming[j].index
    BY <1>5, <1>6
  <2> QED BY <1>2, <1>3, <2>1, <2>2 DEF Distinct
<1>8. SlotSet(p) = {p.slots[i] : i \in 1..last} /\ SlotSet(q) = {q.slots[i] : i \in 1..(last - 1)}
  BY <1>2 DEF SlotSet, last
<1>9. SlotSet(q) \subseteq SlotSet(p) \ {p.slots[pos + 1]}
  BY <1>1, <1>5, <1>6, <1>8
<1>10. SlotSet(p) \ {p.slots[pos + 1]} \subseteq SlotSet(q)
  <2> SUFFICES ASSUME NEW x \in 1..last, x # pos + 1
               PROVE  p.slots[x] \in SlotSet(q)
    BY <1>8
  <2>1. CASE x = last
    <3>1. pos + 1 \in 1..(last - 1)
      BY <1>1, <2>1
    <3> QED BY <1>2, <1>8, <2>1, <3>1
  <2>2. CASE x # last
    <3>1. x \in 1..(last - 1)
      BY <1>1, <2>2
    <3> QED BY <1>2, <1>8, <3>1
  <2> QED BY <2>1, <2>2
<1> QED BY <1>1, <1>3, <1>4, <1>7, <1>8, <1>9, <1>10 DEF q

(* pool_push and incoming_push: an index from outside comes in.            *)
LEMMA PushPlaces ==
  ASSUME NEW I, NEW p \in PoolType(I), NEW index \in I, Distinct(p),
         index \notin SlotSet(p) \cup BackSet(p)
  PROVE  /\ Distinct(pool_push(p, index))
         /\ SlotSet(pool_push(p, index)) = SlotSet(p) \cup {index}
         /\ BackSet(pool_push(p, index)) = BackSet(p)
<1> DEFINE q == pool_push(p, index)
           l == pool_len(p)
<1>1. l \in Nat
  BY PoolLengths
<1>2. /\ pool_len(q) = l + 1 /\ q.incoming = p.incoming /\ q.slots[l + 1] = index
      /\ \A i \in 1..l : q.slots[i] = p.slots[i]
  <2>1. q.slots = Append(p.slots, index) /\ p.slots \in Seq(I)
    BY PoolLengths DEF pool_push, PoolType
  <2> QED BY <2>1, PushType, AppendProperties DEF pool_len
<1>3. incoming_len(q) = incoming_len(p) /\ BackSet(q) = BackSet(p)
  BY <1>2 DEF incoming_len, BackSet
<1> HIDE DEF q, l
<1>4. /\ \A i \in 1..l : p.slots[i] # index
      /\ \A i \in 1..incoming_len(p) : p.incoming[i].index # index
      /\ \A i \in 1..(l + 1) : i \in 1..l \/ i = l + 1
  BY <1>1 DEF SlotSet, BackSet, l
<1>5. Distinct(q)
  <2>1. /\ \A i, j \in 1..l : p.slots[i] = p.slots[j] => i = j
        /\ \A i, j \in 1..incoming_len(p) : p.incoming[i].index = p.incoming[j].index => i = j
        /\ \A i \in 1..l, j \in 1..incoming_len(p) : p.slots[i] # p.incoming[j].index
    BY DEF Distinct, l
  <2>2. \A i, j \in 1..(l + 1) : q.slots[i] = q.slots[j] => i = j
    BY <1>2, <1>4, <2>1
  <2>3. \A i \in 1..(l + 1), j \in 1..incoming_len(p) : q.slots[i] # p.incoming[j].index
    BY <1>2, <1>4, <2>1
  <2> QED BY <1>2, <1>3, <2>1, <2>2, <2>3 DEF Distinct
<1>6. SlotSet(q) = SlotSet(p) \cup {index}
  <2>1. SlotSet(q) = {q.slots[i] : i \in 1..(l + 1)} /\ SlotSet(p) = {p.slots[i] : i \in 1..l}
    BY <1>2 DEF SlotSet, l
  <2>2. l + 1 \in 1..(l + 1) /\ \A i \in 1..l : i \in 1..(l + 1)
    BY <1>1
  <2>3. SlotSet(q) \subseteq SlotSet(p) \cup {index}
    BY <1>2, <1>4, <2>1
  <2>4. SlotSet(p) \cup {index} \subseteq SlotSet(q)
    BY <1>2, <2>1, <2>2
  <2> QED BY <2>3, <2>4
<1> QED BY <1>3, <1>5, <1>6 DEF q

LEMMA IncomingPushPlaces ==
  ASSUME NEW I, NEW p \in PoolType(I), NEW index \in I, NEW tag \in Nat, Distinct(p),
         index \notin SlotSet(p) \cup BackSet(p)
  PROVE  /\ Distinct(incoming_push(p, index, tag))
         /\ SlotSet(incoming_push(p, index, tag)) = SlotSet(p)
         /\ BackSet(incoming_push(p, index, tag)) = BackSet(p) \cup {index}
         /\ \A i \in 1..incoming_len(p) : incoming_push(p, index, tag).incoming[i] = p.incoming[i]
         /\ incoming_push(p, index, tag).incoming[incoming_len(p) + 1].tag = tag
<1> DEFINE q == incoming_push(p, index, tag)
           e == [index |-> index, tag |-> tag]
           n == incoming_len(p)
<1>1. n \in Nat
  BY PoolLengths
<1>2. /\ incoming_len(q) = n + 1 /\ q.slots = p.slots /\ q.incoming[n + 1] = e
      /\ \A i \in 1..n : q.incoming[i] = p.incoming[i]
  <2>1. /\ q.incoming = Append(p.incoming, e) /\ p.incoming \in Seq([index : I, tag : Nat])
        /\ e \in [index : I, tag : Nat]
    BY PoolLengths DEF incoming_push, PoolType
  <2> HIDE DEF e
  <2> QED BY <2>1, IncomingPushType, AppendProperties DEF incoming_len
<1>3. pool_len(q) = pool_len(p) /\ SlotSet(q) = SlotSet(p)
  BY <1>2 DEF pool_len, SlotSet
<1>4. e.index = index /\ e.tag = tag
  OBVIOUS
<1> HIDE DEF q, n, e
<1>5. /\ \A i \in 1..n : p.incoming[i].index # index
      /\ \A i \in 1..pool_len(p) : p.slots[i] # index
      /\ \A i \in 1..(n + 1) : i \in 1..n \/ i = n + 1
  BY <1>1 DEF SlotSet, BackSet, n
<1>6. Distinct(q)
  <2>1. /\ \A i, j \in 1..pool_len(p) : p.slots[i] = p.slots[j] => i = j
        /\ \A i, j \in 1..n : p.incoming[i].index = p.incoming[j].index => i = j
        /\ \A i \in 1..pool_len(p), j \in 1..n : p.slots[i] # p.incoming[j].index
    BY DEF Distinct, n
  <2>2. \A i, j \in 1..(n + 1) : q.incoming[i].index = q.incoming[j].index => i = j
    BY <1>2, <1>4, <1>5, <2>1
  <2>3. \A i \in 1..pool_len(p), j \in 1..(n + 1) : p.slots[i] # q.incoming[j].index
    BY <1>2, <1>4, <1>5, <2>1
  <2> QED BY <1>2, <1>3, <2>1, <2>2, <2>3 DEF Distinct
<1>7. BackSet(q) = BackSet(p) \cup {index}
  <2>1. BackSet(q) = {q.incoming[i].index : i \in 1..(n + 1)}
        /\ BackSet(p) = {p.incoming[i].index : i \in 1..n}
    BY <1>2 DEF BackSet, n
  <2>2. n + 1 \in 1..(n + 1) /\ \A i \in 1..n : i \in 1..(n + 1)
    BY <1>1
  <2>3. BackSet(q) \subseteq BackSet(p) \cup {index}
    BY <1>2, <1>4, <1>5, <2>1
  <2>4. BackSet(p) \cup {index} \subseteq BackSet(q)
    BY <1>2, <1>4, <2>1, <2>2
  <2> QED BY <2>3, <2>4
<1> QED BY <1>2, <1>3, <1>4, <1>6, <1>7 DEF q, n

-----------------------------------------------------------------------------
(***************************************************************************)
(* The program.                                                            *)
(***************************************************************************)

(* Two callers who prove different sets of oracles stale, neither of which *)
(* holds the oracle the other caller is given, are given the same oracle:  *)
(* select_oracle_in passes over an unused key only if a proof names it.    *)
LEMMA SelectionUnique ==
  ASSUME NEW ring, NEW cursor, NEW shift, NEW used,
         NEW staleA, NEW staleB, NEW a, NEW b, Len(ring) \in Nat,
         IsSelected(ring, cursor, shift, used, staleA, a),
         IsSelected(ring, cursor, shift, used, staleB, b),
         a \notin staleB, b \notin staleA
  PROVE  a = b
<1> DEFINE start == WalkStart(ring, cursor, shift, used)
<1>1. PICK i \in 0..(Len(ring) - 1) :
        /\ a = WalkKey(ring, start, i)
        /\ Eligible(a, used, staleA)
        /\ \A earlier \in 0..(i - 1) : ~Eligible(WalkKey(ring, start, earlier), used, staleA)
  BY DEF IsSelected
<1>2. PICK j \in 0..(Len(ring) - 1) :
        /\ b = WalkKey(ring, start, j)
        /\ Eligible(b, used, staleB)
        /\ \A earlier \in 0..(j - 1) : ~Eligible(WalkKey(ring, start, earlier), used, staleB)
  BY DEF IsSelected
<1>3. Eligible(a, used, staleB) /\ Eligible(b, used, staleA)
  BY <1>1, <1>2 DEF Eligible
<1>4. i \in Nat /\ j \in Nat
  OBVIOUS
<1> HIDE DEF start
<1>5. ~(i < j)
  <2> SUFFICES ASSUME i < j PROVE FALSE
    OBVIOUS
  <2>1. i \in 0..(j - 1)
    BY <1>4
  <2> QED BY <2>1, <1>1, <1>2, <1>3
<1>6. ~(j < i)
  <2> SUFFICES ASSUME j < i PROVE FALSE
    OBVIOUS
  <2>1. j \in 0..(i - 1)
    BY <1>4
  <2> QED BY <2>1, <1>1, <1>2, <1>3
<1>7. i = j
  BY <1>4, <1>5, <1>6
<1> QED BY <1>1, <1>2, <1>7

(* An oracle that is selected has not served this request before.          *)
LEMMA SelectionUnused ==
  ASSUME NEW ring, NEW cursor, NEW shift, NEW used, NEW stale, NEW oracle,
         IsSelected(ring, cursor, shift, used, stale, oracle)
  PROVE  \A i \in 1..Len(used) : used[i] # oracle
BY DEF IsSelected, Eligible

-----------------------------------------------------------------------------
(* Why settle always has an entry to draw by Pick: every index the vault   *)
(* holds is counted against N, a revealed request carries a value some     *)
(* oracle produced, and a re-roll names the index it handed in.            *)
DrawsFit ==
  /\ total(pool) + vault.pending_rerolls + vault.assets_outside = N
  /\ \A s \in Pending :
       /\ requests[s].revealed => requests[s].value \in Values
       /\ requests[s].kind = "reroll" => requests[s].handed_in_index \in Index

IInv == TypeOK /\ DrawsFit

-----------------------------------------------------------------------------
(* Vocabulary of the proofs.                                               *)

(* The numbers of the FIFO, and membership in it.                          *)
LEMMA QueueFacts ==
  ASSUME TypeOK
  PROVE  /\ vault.next_seq \in Nat /\ vault.next_settle_seq \in Nat
         /\ vault.next_settle_seq <= vault.next_seq /\ vault.next_seq <= MaxSeq
         /\ \A s : s \in Pending <=>
                     s \in Nat /\ vault.next_settle_seq <= s /\ s < vault.next_seq
         /\ \A s \in Pending : requests[s] \in RequestType
BY DEF TypeOK, Pending, VaultType

(* A request field by field.                                               *)
LEMMA RequestFacts ==
  ASSUME NEW req \in RequestType
  PROVE  /\ req.kind \in {"capture", "reroll"} /\ req.user \in Users
         /\ req.randomness \in RandAccounts
         /\ req.seed_slot \in Nat /\ req.deadline_slot \in Nat
         /\ req.oracles \in Seq(Oracles) /\ req.revealed \in BOOLEAN
         /\ req.value \in Values \cup {NoValue}
         /\ req.handed_in_index \in Index \cup {NoHandedIn}
BY DEF RequestType

(* The pool and the counters are numbers that add up.                      *)
LEMMA PoolFacts ==
  ASSUME TypeOK
  PROVE  /\ pool \in PoolType(Index)
         /\ pool_len(pool) \in Nat /\ incoming_len(pool) \in Nat /\ total(pool) \in Nat
         /\ total(pool) = pool_len(pool) + incoming_len(pool)
         /\ vault.pending_captures \in Nat /\ vault.pending_rerolls \in Nat
         /\ vault.assets_outside \in Nat /\ vault.minted_count \in Nat
<1>1. pool \in PoolType(Index)
  BY DEF TypeOK, PoolType
<1>2. /\ pool_len(pool) \in Nat /\ incoming_len(pool) \in Nat
      /\ total(pool) = pool_len(pool) + incoming_len(pool)
  BY <1>1, PoolLengths
<1>3. /\ vault.pending_captures \in Nat /\ vault.pending_rerolls \in Nat
      /\ vault.assets_outside \in Nat /\ vault.minted_count \in Nat
  BY DEF TypeOK, VaultType
<1> QED BY <1>1, <1>2, <1>3

(* The assumptions on the constants, as the leaves need them.              *)
LEMMA ConstantFacts ==
  /\ N \in Nat \ {0} /\ Ratio \in Nat \ {0} /\ Supply \in Nat
  /\ MaxSeq \in Nat /\ REVEAL_TIMEOUT_SLOTS \in Nat /\ EXPIRE_GRACE_SLOTS \in Nat
  /\ MAX_RECOMMITS \in Nat
BY SizeAssumption, BoundAssumption

-----------------------------------------------------------------------------
(* Type correctness.                                                       *)

(* handle_init_vault leaves a well-formed vault whose pool holds all N.    *)
LEMMA TypeInit == Init => IInv
<1> SUFFICES ASSUME Init PROVE IInv
  OBVIOUS
<1> USE DEF Init
<1>1. FreshPool(N) \in PoolType(Index) /\ pool_len(FreshPool(N)) = N
                    /\ incoming_len(FreshPool(N)) = 0
  BY FreshPoolType, SizeAssumption DEF Index
<1>2. vault \in VaultType
  BY DEF VaultType
<1>3. Pending = {}
  BY DEF Pending
<1>4. requests \in [Pending -> RequestType]
  BY <1>3
<1>5. owner \in [Index -> Holders]
  BY DEF Holders
<1>6. total(pool) = N
  BY <1>1, ConstantFacts DEF total
<1>7. rand_lock \in [DOMAIN rand_lock -> Nat] /\ DOMAIN rand_lock \subseteq RandAccounts
  OBVIOUS
<1>8. /\ randomness \in [DOMAIN randomness -> RandomnessType]
      /\ DOMAIN randomness \subseteq RandAccounts
  OBVIOUS
<1>9. TypeOK
  BY <1>1, <1>2, <1>4, <1>5, <1>7, <1>8, ConstantFacts DEF TypeOK, PoolType
<1> QED BY <1>3, <1>6, <1>9, ConstantFacts DEF IInv, DrawsFit

(* A commit leaves the randomness accounts well-formed, and the oracle and *)
(* the seed slot of the account committed are those of the commit.         *)
LEMMA CommittedType ==
  ASSUME TypeOK, NEW r \in DOMAIN randomness, NEW oracle \in Oracles
  PROVE  /\ DOMAIN Committed(r, oracle) = DOMAIN randomness
         /\ Committed(r, oracle) \in [DOMAIN randomness -> RandomnessType]
         /\ Committed(r, oracle)[r].seed_slot = slot - 1
         /\ Committed(r, oracle)[r].oracle = oracle
         /\ Committed(r, oracle)[r].reveal_slot = randomness[r].reveal_slot
         /\ \A x \in DOMAIN randomness : x # r => Committed(r, oracle)[x] = randomness[x]
<1>1. randomness \in [DOMAIN randomness -> RandomnessType] /\ slot - 1 \in Nat
  BY DEF TypeOK
<1>2. randomness[r] \in RandomnessType
  BY <1>1
<1>3. /\ SbCommit(randomness[r], oracle, slot) \in RandomnessType
      /\ SbCommit(randomness[r], oracle, slot).seed_slot = slot - 1
      /\ SbCommit(randomness[r], oracle, slot).oracle = oracle
      /\ SbCommit(randomness[r], oracle, slot).reveal_slot = randomness[r].reveal_slot
  BY <1>1, <1>2 DEF SbCommit, RandomnessType
<1>4. Committed(r, oracle) = [randomness EXCEPT ![r] = SbCommit(randomness[r], oracle, slot)]
  BY DEF Committed
<1> QED BY <1>1, <1>3, <1>4

(* A request moves the tail of the FIFO and one pending counter; a re-roll *)
(* also takes its NFT from those outside.                                  *)
LEMMA RequestedVaultType ==
  ASSUME vault \in VaultType, NEW kind \in {"capture", "reroll"},
         vault' = RequestedVault(kind), vault'.assets_outside >= 0
  PROVE  /\ vault' \in VaultType
         /\ vault'.next_seq = vault.next_seq + 1
         /\ vault'.next_settle_seq = vault.next_settle_seq
         /\ kind = "capture" => /\ vault'.pending_captures = vault.pending_captures + 1
                                /\ vault'.pending_rerolls = vault.pending_rerolls
                                /\ vault'.assets_outside = vault.assets_outside
         /\ kind = "reroll" => /\ vault'.pending_captures = vault.pending_captures
                               /\ vault'.pending_rerolls = vault.pending_rerolls + 1
                               /\ vault'.assets_outside = vault.assets_outside - 1
<1>1. CASE kind = "capture"
  <2> DEFINE v1 == [vault EXCEPT !.next_seq = @ + 1]
             v2 == [v1 EXCEPT !.pending_captures = vault.pending_captures + 1]
  <2>1. vault' = v2
    BY <1>1 DEF RequestedVault
  <2>2. v1 \in VaultType
    BY DEF VaultType
  <2>3. v2 \in VaultType
    <3> HIDE DEF v1
    <3> QED BY <2>2 DEF VaultType
  <2>4. /\ v2.next_seq = vault.next_seq + 1 /\ v2.next_settle_seq = vault.next_settle_seq
        /\ v2.pending_captures = vault.pending_captures + 1
        /\ v2.pending_rerolls = vault.pending_rerolls
        /\ v2.assets_outside = vault.assets_outside
    BY DEF VaultType
  <2> HIDE DEF v2
  <2> QED BY <1>1, <2>1, <2>3, <2>4
<1>2. CASE kind = "reroll"
  <2> DEFINE v1 == [vault EXCEPT !.next_seq = @ + 1]
             v2 == [v1 EXCEPT !.pending_rerolls = vault.pending_rerolls + 1]
             v3 == [v2 EXCEPT !.assets_outside = vault.assets_outside - 1]
  <2>1. vault' = v3
    BY <1>2 DEF RequestedVault
  <2>2. v1 \in VaultType
    BY DEF VaultType
  <2>3. v2 \in VaultType
    <3> HIDE DEF v1
    <3> QED BY <2>2 DEF VaultType
  <2>4. /\ v3.next_seq = vault.next_seq + 1 /\ v3.next_settle_seq = vault.next_settle_seq
        /\ v3.pending_captures = vault.pending_captures
        /\ v3.pending_rerolls = vault.pending_rerolls + 1
        /\ v3.assets_outside = vault.assets_outside - 1
    BY DEF VaultType
  <2>5. vault.assets_outside - 1 \in Nat
    BY <2>1, <2>4 DEF VaultType
  <2>6. v3 \in VaultType
    <3> HIDE DEF v2
    <3> QED BY <2>3, <2>5 DEF VaultType
  <2> HIDE DEF v3
  <2> QED BY <1>2, <2>1, <2>4, <2>6
<1> QED BY <1>1, <1>2

(* finish_request: one request more at the tail of the FIFO, the others    *)
(* untouched, its lock taken and its escrow funded.                        *)
LEMMA OpenRequestType ==
  ASSUME TypeOK, NEW kind \in {"capture", "reroll"}, NEW u \in Users,
         NEW r \in RandAccounts, NEW oracle \in Oracles,
         NEW h \in Index \cup {NoHandedIn},
         RequestRefusals(r, oracle), OpenRequest(kind, u, r, oracle, h),
         vault' = RequestedVault(kind)
  PROVE  /\ Pending' = Pending \cup {vault.next_seq}
         /\ vault.next_seq \notin Pending
         /\ requests' \in [Pending' -> RequestType]
         /\ requests'[vault.next_seq] = NewRequest(kind, u, r, oracle, h)
         /\ \A s \in Pending : requests'[s] = requests[s]
         /\ vault'.next_seq = vault.next_seq + 1
         /\ vault'.next_settle_seq = vault.next_settle_seq
         /\ vault.next_seq < MaxSeq
         /\ DOMAIN rand_lock' \subseteq RandAccounts
         /\ rand_lock' \in [DOMAIN rand_lock' -> Nat]
         /\ escrow' \subseteq Nat
         /\ DOMAIN randomness' \subseteq RandAccounts
         /\ randomness' \in [DOMAIN randomness' -> RandomnessType]
<1> DEFINE seq == vault.next_seq
           req == NewRequest(kind, u, r, oracle, h)
<1>1. r \in DOMAIN randomness /\ seq < MaxSeq
  BY DEF RequestRefusals, CanCommit
<1>2. vault'.next_seq = seq + 1 /\ vault'.next_settle_seq = vault.next_settle_seq
  BY DEF TypeOK, VaultType, RequestedVault
<1>3. Pending' = Pending \cup {seq} /\ seq \notin Pending /\ seq \in Nat
  BY <1>2, QueueFacts DEF Pending
<1>4. req \in RequestType
  <2>1. Committed(r, oracle)[r].seed_slot \in Nat
    BY <1>1, CommittedType DEF TypeOK
  <2>2. Deadline \in Nat
    BY ConstantFacts DEF Deadline, TypeOK
  <2>3. <<oracle>> \in Seq(Oracles)
    OBVIOUS
  <2> QED BY <2>1, <2>2, <2>3 DEF NewRequest, RequestType
<1>5. requests' = [s \in Pending \cup {seq} |-> IF s = seq THEN req ELSE requests[s]]
  BY DEF OpenRequest
<1>6. /\ requests' \in [Pending' -> RequestType] /\ requests'[seq] = req
      /\ \A s \in Pending : requests'[s] = requests[s]
  <2> HIDE DEF req, seq
  <2> QED BY <1>3, <1>4, <1>5, QueueFacts
<1>7. /\ DOMAIN rand_lock' \subseteq RandAccounts
      /\ rand_lock' \in [DOMAIN rand_lock' -> Nat]
  BY <1>3 DEF OpenRequest, TypeOK
<1>8. escrow' \subseteq Nat
  BY <1>3 DEF OpenRequest, TypeOK
<1>9. /\ DOMAIN randomness' \subseteq RandAccounts
      /\ randomness' \in [DOMAIN randomness' -> RandomnessType]
  BY <1>1, CommittedType DEF OpenRequest, TypeOK
<1> QED BY <1>1, <1>2, <1>3, <1>6, <1>7, <1>8, <1>9

(* handle_request_capture keeps the strengthened invariant.                *)
LEMMA RequestCaptureType ==
  ASSUME IInv, NEW u \in Users, NEW r \in RandAccounts, NEW oracle \in Oracles,
         RequestCapture(u, r, oracle)
  PROVE  IInv'
<1> USE DEF IInv
<1>1. /\ RequestRefusals(r, oracle)
      /\ OpenRequest("capture", u, r, oracle, NoHandedIn)
      /\ wallet[u] >= Ratio /\ wallet' = [wallet EXCEPT ![u] = @ - Ratio]
      /\ UNCHANGED <<owner, world>>
  BY DEF RequestCapture
<1>2. /\ NoUnderflow(RequestedBooks("capture")) /\ InvariantsHold(RequestedBooks("capture"))
      /\ vault' = RequestedVault("capture") /\ pool' = pool
      /\ vault_tokens' = vault_tokens + Ratio
  BY DEF RequestCapture, Write, RequestedBooks, Books
<1>3. vault' \in VaultType /\ vault'.pending_rerolls = vault.pending_rerolls
        /\ vault'.assets_outside = vault.assets_outside
  <2>1. vault \in VaultType /\ vault.assets_outside \in Nat
    BY DEF TypeOK, VaultType
  <2>2. vault'.assets_outside >= 0
    BY <1>2 DEF NoUnderflow, RequestedBooks, Books
  <2> QED BY <1>2, <2>1, <2>2, RequestedVaultType
<1>4. /\ Pending' = Pending \cup {vault.next_seq}
      /\ vault.next_seq \notin Pending
      /\ requests' \in [Pending' -> RequestType]
      /\ requests'[vault.next_seq] = NewRequest("capture", u, r, oracle, NoHandedIn)
      /\ \A s \in Pending : requests'[s] = requests[s]
      /\ vault'.next_seq = vault.next_seq + 1
      /\ vault'.next_settle_seq = vault.next_settle_seq
      /\ vault.next_seq < MaxSeq
      /\ DOMAIN rand_lock' \subseteq RandAccounts
      /\ rand_lock' \in [DOMAIN rand_lock' -> Nat]
      /\ escrow' \subseteq Nat
      /\ DOMAIN randomness' \subseteq RandAccounts
      /\ randomness' \in [DOMAIN randomness' -> RandomnessType]
  BY <1>1, <1>2, OpenRequestType
<1>5. wallet' \in [Users -> Nat]
  BY <1>1, ConstantFacts DEF TypeOK
<1>6. vault_tokens' \in Nat
  BY <1>2, ConstantFacts DEF TypeOK
<1>7. vault'.next_settle_seq <= vault'.next_seq /\ vault'.next_seq <= MaxSeq
  BY <1>4, QueueFacts, ConstantFacts
<1>8. TypeOK'
  BY <1>1, <1>2, <1>3, <1>4, <1>5, <1>6, <1>7 DEF TypeOK, world
<1>9. DrawsFit'
  <2>1. total(pool)' = total(pool)
    BY <1>2
  <2>2. \A s \in Pending' :
          /\ requests'[s].revealed => requests'[s].value \in Values
          /\ requests'[s].kind = "reroll" => requests'[s].handed_in_index \in Index
    BY <1>4 DEF DrawsFit, NewRequest
  <2> QED BY <1>3, <2>1, <2>2 DEF DrawsFit
<1> QED BY <1>8, <1>9

(* handle_request_reroll keeps it: the NFT handed in moves from outside    *)
(* to the pending re-rolls.                                                *)
LEMMA RequestRerollType ==
  ASSUME IInv, NEW u \in Users, NEW i \in Index, NEW r \in RandAccounts,
         NEW oracle \in Oracles, RequestReroll(u, i, r, oracle)
  PROVE  IInv'
<1> USE DEF IInv
<1>1. /\ RequestRefusals(r, oracle)
      /\ OpenRequest("reroll", u, r, oracle, i)
      /\ owner' = [owner EXCEPT ![i] = VaultAuthority]
      /\ UNCHANGED <<wallet, world>>
  BY DEF RequestReroll
<1>2. /\ NoUnderflow(RequestedBooks("reroll"))
      /\ vault' = RequestedVault("reroll") /\ pool' = pool
      /\ vault_tokens' = vault_tokens
  BY DEF RequestReroll, Write, RequestedBooks, Books
<1>3. /\ vault' \in VaultType
      /\ vault'.pending_rerolls = vault.pending_rerolls + 1
      /\ vault'.assets_outside = vault.assets_outside - 1
  <2>1. vault \in VaultType
    BY DEF TypeOK
  <2>2. vault'.assets_outside >= 0
    BY <1>2 DEF NoUnderflow, RequestedBooks, Books
  <2> QED BY <1>2, <2>1, <2>2, RequestedVaultType
<1>4. /\ Pending' = Pending \cup {vault.next_seq}
      /\ vault.next_seq \notin Pending
      /\ requests' \in [Pending' -> RequestType]
      /\ requests'[vault.next_seq] = NewRequest("reroll", u, r, oracle, i)
      /\ \A s \in Pending : requests'[s] = requests[s]
      /\ vault'.next_seq = vault.next_seq + 1
      /\ vault'.next_settle_seq = vault.next_settle_seq
      /\ vault.next_seq < MaxSeq
      /\ DOMAIN rand_lock' \subseteq RandAccounts
      /\ rand_lock' \in [DOMAIN rand_lock' -> Nat]
      /\ escrow' \subseteq Nat
      /\ DOMAIN randomness' \subseteq RandAccounts
      /\ randomness' \in [DOMAIN randomness' -> RandomnessType]
  BY <1>1, <1>2, OpenRequestType
<1>5. owner' \in [Index -> Holders]
  BY <1>1 DEF TypeOK, Holders
<1>6. vault'.next_settle_seq <= vault'.next_seq /\ vault'.next_seq <= MaxSeq
  BY <1>4, QueueFacts, ConstantFacts
<1>7. TypeOK'
  BY <1>1, <1>2, <1>3, <1>4, <1>5, <1>6 DEF TypeOK, world
<1>8. DrawsFit'
  <2>1. total(pool)' = total(pool)
    BY <1>2
  <2>2. \A s \in Pending' :
          /\ requests'[s].revealed => requests'[s].value \in Values
          /\ requests'[s].kind = "reroll" => requests'[s].handed_in_index \in Index
    BY <1>4 DEF DrawsFit, NewRequest
  <2>3. vault.pending_rerolls \in Nat /\ vault.assets_outside \in Nat /\ total(pool) \in Nat
    BY PoolFacts
  <2> QED BY <1>3, <2>1, <2>2, <2>3 DEF DrawsFit
<1> QED BY <1>7, <1>8

(* handle_open_vault keeps it: one flag changes.                           *)
LEMMA OpenVaultType == IInv /\ OpenVault => IInv'
<1> SUFFICES ASSUME IInv, OpenVault PROVE IInv'
  OBVIOUS
<1> USE DEF IInv
<1>1. /\ vault' = [vault EXCEPT !.open = TRUE] /\ pool' = pool
      /\ vault_tokens' = vault_tokens
      /\ UNCHANGED <<wallet, owner, draws, world>>
  BY DEF OpenVault, Write, Books
<1>2. vault \in VaultType
  BY DEF TypeOK
<1>3. /\ vault' \in VaultType
      /\ vault'.next_seq = vault.next_seq /\ vault'.next_settle_seq = vault.next_settle_seq
      /\ vault'.pending_rerolls = vault.pending_rerolls
      /\ vault'.assets_outside = vault.assets_outside
  BY <1>1, <1>2 DEF VaultType
<1>4. Pending' = Pending
  BY <1>3 DEF Pending
<1>5. TypeOK'
  BY <1>1, <1>3, <1>4 DEF TypeOK, draws, world
<1>6. DrawsFit'
  BY <1>1, <1>3, <1>4 DEF DrawsFit, draws
<1> QED BY <1>5, <1>6

(* handle_init_randomness keeps it: one account more.                      *)
LEMMA InitRandomnessType ==
  ASSUME IInv, NEW r \in RandAccounts, InitRandomness(r)
  PROVE  IInv'
<1> USE DEF IInv
<1>1. /\ randomness' = [x \in DOMAIN randomness \cup {r} |->
                          IF x = r THEN FreshAccount ELSE randomness[x]]
      /\ UNCHANGED <<accounts, requests, rand_lock, escrow, world>>
  BY DEF InitRandomness
<1>2. FreshAccount \in RandomnessType
  BY DEF FreshAccount, RandomnessType
<1>3. /\ DOMAIN randomness' \subseteq RandAccounts
      /\ randomness' \in [DOMAIN randomness' -> RandomnessType]
  BY <1>1, <1>2 DEF TypeOK
<1>4. Pending' = Pending
  BY <1>1 DEF Pending, accounts
<1>5. TypeOK'
  BY <1>1, <1>3, <1>4 DEF TypeOK, accounts, world
<1>6. DrawsFit'
  BY <1>1, <1>4 DEF DrawsFit, accounts
<1> QED BY <1>5, <1>6

(* handle_reveal_randomness keeps it: the value recorded is an oracle's.   *)
LEMMA RevealRandomnessType ==
  ASSUME IInv, NEW s \in Pending, NEW value \in Values, RevealRandomness(s, value)
  PROVE  IInv'
<1> USE DEF IInv
<1> DEFINE r == requests[s].randomness
<1>1. /\ randomness' = [randomness EXCEPT ![r] = SbReveal(@, value, slot)]
      /\ requests' = [requests EXCEPT ![s].revealed = TRUE, ![s].value = value]
      /\ UNCHANGED <<accounts, rand_lock, escrow, world>>
  BY DEF RevealRandomness
<1>2. Pending' = Pending
  BY <1>1 DEF Pending, accounts
<1>3. requests[s] \in RequestType
  BY QueueFacts
<1>4. /\ DOMAIN randomness' \subseteq RandAccounts
      /\ randomness' \in [DOMAIN randomness' -> RandomnessType]
  <2>1. randomness \in [DOMAIN randomness -> RandomnessType] /\ slot \in Nat
    BY DEF TypeOK
  <2>2. \A x \in DOMAIN randomness : SbReveal(randomness[x], value, slot) \in RandomnessType
    BY <2>1 DEF SbReveal, RandomnessType
  <2> QED BY <1>1, <2>1, <2>2 DEF TypeOK
<1>5. /\ requests' \in [Pending' -> RequestType]
      /\ requests'[s].value = value
      /\ requests'[s].kind = requests[s].kind
      /\ requests'[s].handed_in_index = requests[s].handed_in_index
      /\ \A x \in Pending : x # s => requests'[x] = requests[x]
  <2> DEFINE new == [requests[s] EXCEPT !.revealed = TRUE, !.value = value]
  <2>1. requests \in [Pending -> RequestType]
    BY DEF TypeOK
  <2>2. /\ new \in RequestType /\ new.value = value /\ new.kind = requests[s].kind
        /\ new.handed_in_index = requests[s].handed_in_index
    BY <1>3 DEF RequestType
  <2>3. requests' = [requests EXCEPT ![s] = new]
    BY <1>1, <2>1
  <2> HIDE DEF new
  <2> QED BY <1>2, <2>1, <2>2, <2>3
<1>6. TypeOK'
  BY <1>1, <1>2, <1>4, <1>5 DEF TypeOK, accounts, world
<1>7. DrawsFit'
  BY <1>1, <1>2, <1>5 DEF DrawsFit, accounts
<1> QED BY <1>6, <1>7

(* handle_recommit_randomness keeps it: one oracle more in the request.    *)
LEMMA RecommitRandomnessType ==
  ASSUME IInv, NEW s \in Pending, NEW oracle \in Oracles, RecommitRandomness(s, oracle)
  PROVE  IInv'
<1> USE DEF IInv
<1> DEFINE r == requests[s].randomness
<1>1. /\ randomness' = Committed(r, oracle)
      /\ requests' = [requests EXCEPT ![s] = Recommitted(requests[s], oracle)]
      /\ vault' = [vault EXCEPT !.total_recommits = @ + 1]
      /\ UNCHANGED <<pool, vault_tokens, wallet, owner, rand_lock, escrow, world>>
      /\ r \in DOMAIN randomness
  BY DEF RecommitRandomness, CanCommit
<1>2. /\ vault' \in VaultType
      /\ vault'.next_seq = vault.next_seq /\ vault'.next_settle_seq = vault.next_settle_seq
      /\ vault'.pending_rerolls = vault.pending_rerolls
      /\ vault'.assets_outside = vault.assets_outside
  <2>1. vault \in VaultType /\ vault' = [vault EXCEPT !.total_recommits = @ + 1]
    BY <1>1 DEF TypeOK
  <2> QED BY <2>1 DEF VaultType
<1>3. Pending' = Pending
  BY <1>2 DEF Pending
<1>4. /\ randomness' \in [DOMAIN randomness' -> RandomnessType]
      /\ DOMAIN randomness' \subseteq RandAccounts
      /\ Committed(r, oracle)[r].seed_slot \in Nat
  BY <1>1, CommittedType DEF TypeOK
<1>5. /\ Recommitted(requests[s], oracle) \in RequestType
      /\ Recommitted(requests[s], oracle).revealed = requests[s].revealed
      /\ Recommitted(requests[s], oracle).value = requests[s].value
      /\ Recommitted(requests[s], oracle).kind = requests[s].kind
      /\ Recommitted(requests[s], oracle).handed_in_index = requests[s].handed_in_index
  <2> DEFINE seed == Committed(r, oracle)[r].seed_slot
             used == Append(requests[s].oracles, oracle)
             q1 == [requests[s] EXCEPT !.seed_slot = seed]
             q2 == [q1 EXCEPT !.deadline_slot = Deadline]
             q3 == [q2 EXCEPT !.oracles = used]
  <2>1. requests[s] \in RequestType
    BY QueueFacts
  <2>2. Deadline \in Nat
    BY ConstantFacts DEF Deadline, TypeOK
  <2>3. used \in Seq(Oracles)
    BY <2>1, RequestFacts, AppendProperties
  <2>4. Recommitted(requests[s], oracle) = q3
    BY DEF Recommitted
  <2>5. seed \in Nat
    BY <1>4
  <2> HIDE DEF seed, used
  <2>6. q1 \in RequestType
    BY <2>1, <2>5 DEF RequestType
  <2>7. q2 \in RequestType
    <3> HIDE DEF q1
    <3> QED BY <2>2, <2>6 DEF RequestType
  <2>8. q3 \in RequestType
    <3> HIDE DEF q2
    <3> QED BY <2>3, <2>7 DEF RequestType
  <2>9. /\ q3.revealed = requests[s].revealed /\ q3.value = requests[s].value
        /\ q3.kind = requests[s].kind /\ q3.handed_in_index = requests[s].handed_in_index
    BY <2>1 DEF RequestType
  <2> HIDE DEF q3
  <2> QED BY <2>4, <2>8, <2>9
<1>6. /\ requests' \in [Pending' -> RequestType]
      /\ requests'[s] = Recommitted(requests[s], oracle)
      /\ \A x \in Pending : x # s => requests'[x] = requests[x]
  <2>1. requests \in [Pending -> RequestType]
    BY DEF TypeOK
  <2> QED BY <1>1, <1>3, <1>5, <2>1
<1>7. TypeOK'
  BY <1>1, <1>2, <1>3, <1>4, <1>6 DEF TypeOK, world
<1>8. DrawsFit'
  <2>1. \A x \in Pending' :
          /\ requests'[x].revealed => requests'[x].value \in Values
          /\ requests'[x].kind = "reroll" => requests'[x].handed_in_index \in Index
    BY <1>3, <1>5, <1>6 DEF DrawsFit
  <2> QED BY <1>1, <1>2, <2>1 DEF DrawsFit
<1> QED BY <1>7, <1>8

(* handle_merge_incoming keeps it: the pool's total does not change.       *)
LEMMA MergeIncomingType ==
  ASSUME IInv, NEW k \in 1..incoming_len(pool), NEW max, MergeIncoming(k, max)
  PROVE  IInv'
<1> USE DEF IInv
<1>1. /\ pool' = Merged(pool, k)
      /\ UNCHANGED <<vault, vault_tokens, wallet, owner, draws, world>>
  BY DEF MergeIncoming
<1>2. pool' \in PoolType(Index) /\ total(pool)' = total(pool)
  <2>1. k \in 0..incoming_len(pool)
    BY PoolFacts
  <2> QED BY <1>1, <2>1, PoolFacts, MergedType
<1>3. Pending' = Pending
  BY <1>1 DEF Pending
<1>4. TypeOK'
  BY <1>1, <1>2, <1>3 DEF TypeOK, PoolType, draws, world
<1>5. DrawsFit'
  BY <1>1, <1>2, <1>3 DEF DrawsFit, draws
<1> QED BY <1>4, <1>5

(* A settled request moves the head of the FIFO and one NFT outside.       *)
LEMMA SettledVaultType ==
  ASSUME vault \in VaultType, NEW kind \in {"capture", "reroll"}, NEW mint \in BOOLEAN,
         vault' = SettledVault(kind, mint),
         vault'.pending_captures >= 0, vault'.pending_rerolls >= 0
  PROVE  /\ vault' \in VaultType
         /\ vault'.next_seq = vault.next_seq
         /\ vault'.next_settle_seq = vault.next_settle_seq + 1
         /\ vault'.assets_outside = vault.assets_outside + 1
         /\ vault'.minted_count = IF mint THEN vault.minted_count + 1 ELSE vault.minted_count
         /\ kind = "capture" => /\ vault'.pending_captures = vault.pending_captures - 1
                                /\ vault'.total_captures = vault.total_captures + 1
                                /\ vault'.pending_rerolls = vault.pending_rerolls
                                /\ vault'.total_rerolls = vault.total_rerolls
         /\ kind = "reroll" => /\ vault'.pending_captures = vault.pending_captures
                               /\ vault'.total_captures = vault.total_captures
                               /\ vault'.pending_rerolls = vault.pending_rerolls - 1
                               /\ vault'.total_rerolls = vault.total_rerolls + 1
         /\ vault'.total_unwraps = vault.total_unwraps
         /\ vault'.total_expired = vault.total_expired
<1> DEFINE minted == IF mint THEN vault.minted_count + 1 ELSE vault.minted_count
           pc == IF kind = "capture" THEN vault.pending_captures - 1 ELSE vault.pending_captures
           tc == IF kind = "capture" THEN vault.total_captures + 1 ELSE vault.total_captures
           pr == IF kind = "reroll" THEN vault.pending_rerolls - 1 ELSE vault.pending_rerolls
           tr == IF kind = "reroll" THEN vault.total_rerolls + 1 ELSE vault.total_rerolls
           v1 == [vault EXCEPT !.next_settle_seq = @ + 1, !.assets_outside = @ + 1]
           v2 == [v1 EXCEPT !.minted_count = minted]
           v3 == [v2 EXCEPT !.pending_captures = pc]
           v4 == [v3 EXCEPT !.total_captures = tc]
           v5 == [v4 EXCEPT !.pending_rerolls = pr]
           v6 == [v5 EXCEPT !.total_rerolls = tr]
<1>1. vault' = v6
  BY DEF SettledVault
<1>2. /\ v6.next_seq = vault.next_seq /\ v6.next_settle_seq = vault.next_settle_seq + 1
      /\ v6.assets_outside = vault.assets_outside + 1 /\ v6.minted_count = minted
      /\ v6.pending_captures = pc /\ v6.total_captures = tc
      /\ v6.pending_rerolls = pr /\ v6.total_rerolls = tr
      /\ v6.total_unwraps = vault.total_unwraps /\ v6.total_expired = vault.total_expired
  <2> HIDE DEF minted, pc, tc, pr, tr
  <2> QED BY DEF VaultType
<1>3. minted \in Nat /\ pc \in Int /\ pr \in Int /\ tc \in Nat /\ tr \in Nat
  BY DEF VaultType
<1>4. pc \in Nat /\ pr \in Nat
  <2> HIDE DEF v6, pc, pr
  <2> QED BY <1>1, <1>2, <1>3
<1>5. v6 \in VaultType
  <2> HIDE DEF minted, pc, tc, pr, tr
  <2>1. [vault EXCEPT !.next_settle_seq = @ + 1] \in VaultType
    BY DEF VaultType
  <2>2. v1 \in VaultType
    <3> DEFINE v0 == [vault EXCEPT !.next_settle_seq = @ + 1]
    <3>1. v1 = [v0 EXCEPT !.assets_outside = vault.assets_outside + 1]
      BY DEF VaultType
    <3>2. v0 \in VaultType
      BY <2>1
    <3> HIDE DEF v0, v1
    <3> QED BY <3>1, <3>2 DEF VaultType
  <2> HIDE DEF v1
  <2>3. v2 \in VaultType
    BY <2>2, <1>3 DEF VaultType
  <2> HIDE DEF v2
  <2>4. v3 \in VaultType
    BY <2>3, <1>4 DEF VaultType
  <2> HIDE DEF v3
  <2>5. v4 \in VaultType
    BY <2>4, <1>3 DEF VaultType
  <2> HIDE DEF v4
  <2>6. v5 \in VaultType
    BY <2>5, <1>4 DEF VaultType
  <2> HIDE DEF v5
  <2> QED BY <2>6, <1>3 DEF VaultType
<1> HIDE DEF v6
<1> QED BY <1>1, <1>2, <1>5

(* The head of the FIFO, when there is one.                                *)
LEMMA HeadFacts ==
  ASSUME IInv, HeadSeq \in Pending
  PROVE  /\ requests[HeadSeq] \in RequestType
         /\ HeadSeq = vault.next_settle_seq /\ HeadSeq \in 0..MaxSeq
         /\ vault.next_settle_seq < vault.next_seq
         /\ requests[HeadSeq].revealed => requests[HeadSeq].value \in Values
         /\ requests[HeadSeq].kind = "reroll" => requests[HeadSeq].handed_in_index \in Index
<1>1. TypeOK /\ DrawsFit
  BY DEF IInv
<1>2. /\ requests[HeadSeq] \in RequestType
      /\ HeadSeq = vault.next_settle_seq /\ HeadSeq \in Nat
      /\ vault.next_settle_seq < vault.next_seq
  BY <1>1, QueueFacts DEF HeadSeq
<1>3. HeadSeq \in 0..MaxSeq
  <2>1. vault.next_seq <= MaxSeq /\ vault.next_seq \in Nat
    BY <1>1, QueueFacts
  <2> QED BY <1>2, <2>1, ConstantFacts
<1> QED BY <1>1, <1>2, <1>3 DEF DrawsFit

(* The draw of settle: what it picks is an index of the collection, and    *)
(* the pool it leaves is well-formed and one entry short for a capture.    *)
LEMMA SettledPoolType ==
  ASSUME IInv, NEW k \in 0..incoming_len(pool), SettleRefusals(k),
         pool_len(Merged(pool, k)) > 0
  PROVE  /\ PickedIndex(k) \in Index
         /\ SettledBooks(k).pool \in PoolType(Index)
         /\ requests[HeadSeq].kind = "capture" => total(SettledBooks(k).pool) = total(pool) - 1
         /\ requests[HeadSeq].kind = "reroll" => total(SettledBooks(k).pool) = total(pool)
         /\ SettledBooks(k).tokens = vault_tokens
         /\ SettledBooks(k).vault = SettledVault(requests[HeadSeq].kind,
                                                PickedIndex(k) \notin pool.minted)
<1> DEFINE req == requests[HeadSeq]
           merged == Merged(pool, k)
           pos == Position(merged)
           removed == pool_swap_remove(merged, pos)
           drawn == DrawnPool(merged, req.kind, req.handed_in_index, pos)
           picked == pool_get(merged, pos)
           result == IF picked \notin pool.minted THEN mark_minted(drawn, picked) ELSE drawn
<1>1. /\ merged \in PoolType(Index) /\ total(merged) = total(pool)
      /\ pool_len(merged) \in Nat /\ incoming_len(merged) \in Nat
      /\ total(merged) = pool_len(merged) + incoming_len(merged)
  BY PoolFacts, MergedType, PoolLengths DEF IInv
<1>2. HeadSeq \in Pending /\ req.revealed
  BY DEF SettleRefusals
<1>3. pool_len(merged) \in 1..N
  <2>1. total(pool) <= N
    BY PoolFacts, ConstantFacts DEF IInv, DrawsFit
  <2>2. pool_len(merged) > 0
    OBVIOUS
  <2> HIDE DEF merged
  <2> QED BY <1>1, <2>1, <2>2, ConstantFacts
<1>4. pos \in 0..(pool_len(merged) - 1)
  BY <1>2, <1>3, HeadFacts, PickAssumption DEF Position
<1>5. /\ picked \in Index /\ removed \in PoolType(Index)
      /\ pool_len(removed) = pool_len(merged) - 1 /\ removed.incoming = merged.incoming
  <2> HIDE DEF pos, merged
  <2> QED BY <1>1, <1>4, SwapRemoveType
<1>6. total(removed) = total(pool) - 1
  <2> HIDE DEF removed, merged
  <2>1. incoming_len(removed) = incoming_len(merged)
    BY <1>5 DEF incoming_len
  <2>2. total(removed) = pool_len(removed) + incoming_len(removed)
    BY DEF total
  <2> QED BY <1>1, <1>5, <2>1, <2>2
<1>7. /\ drawn \in PoolType(Index)
      /\ req.kind = "capture" => total(drawn) = total(pool) - 1
      /\ req.kind = "reroll" => total(drawn) = total(pool)
  <2>1. CASE req.kind = "reroll"
    <3> HIDE DEF removed
    <3>1. req.handed_in_index \in Index
      BY <1>2, <2>1, HeadFacts
    <3>2. drawn = pool_push(removed, req.handed_in_index)
      BY <2>1 DEF DrawnPool, removed
    <3>3. /\ drawn \in PoolType(Index) /\ pool_len(drawn) = pool_len(removed) + 1
          /\ drawn.incoming = removed.incoming
      BY <1>5, <3>1, <3>2, PushType
    <3>4. total(drawn) = total(removed) + 1
      <4>1. pool_len(removed) \in Nat /\ incoming_len(removed) \in Nat
        BY <1>5, PoolLengths
      <4>2. total(drawn) = pool_len(drawn) + incoming_len(removed)
        BY <3>3 DEF total, incoming_len
      <4> HIDE DEF drawn
      <4> QED BY <3>3, <4>1, <4>2 DEF total
    <3>5. total(pool) \in Nat
      BY PoolFacts DEF IInv
    <3> HIDE DEF drawn, req
    <3> QED BY <1>6, <2>1, <3>3, <3>4, <3>5
  <2>2. CASE req.kind # "reroll"
    <3>1. drawn = removed
      BY <2>2 DEF DrawnPool
    <3> HIDE DEF drawn, removed, req
    <3> QED BY <1>5, <1>6, <2>2, <3>1
  <2> QED BY <2>1, <2>2
<1>8. /\ SettledBooks(k).pool = result /\ SettledBooks(k).tokens = vault_tokens
      /\ SettledBooks(k).vault = SettledVault(req.kind, picked \notin pool.minted)
      /\ PickedIndex(k) = picked
  BY DEF SettledBooks, Books, PickedIndex
<1>9. result \in PoolType(Index) /\ total(result) = total(drawn)
  <2> HIDE DEF drawn, picked
  <2>1. /\ mark_minted(drawn, picked) \in PoolType(Index)
        /\ total(mark_minted(drawn, picked)) = total(drawn)
    BY <1>5, <1>7 DEF mark_minted, PoolType, total, pool_len, incoming_len
  <2> QED BY <1>7, <2>1
<1> HIDE DEF result, drawn, picked, req
<1> QED BY <1>5, <1>7, <1>8, <1>9 DEF req, picked

(* Closing a run of heads leaves the requests behind it as they were.      *)
LEMMA CloseRequestsType ==
  ASSUME TypeOK, NEW n \in Nat, HeadSeq..(HeadSeq + n - 1) \subseteq Pending,
         CloseRequests(HeadSeq..(HeadSeq + n - 1)),
         vault'.next_seq = vault.next_seq,
         vault'.next_settle_seq = vault.next_settle_seq + n
  PROVE  /\ vault'.next_settle_seq <= vault'.next_seq /\ vault'.next_seq <= MaxSeq
         /\ Pending' = Pending \ (HeadSeq..(HeadSeq + n - 1))
         /\ requests' \in [Pending' -> RequestType]
         /\ \A s \in Pending' : s \in Pending /\ requests'[s] = requests[s]
         /\ DOMAIN rand_lock' \subseteq RandAccounts
         /\ rand_lock' \in [DOMAIN rand_lock' -> Nat]
         /\ escrow' \subseteq Nat
<1> DEFINE heads == HeadSeq..(HeadSeq + n - 1)
<1>1. HeadSeq \in Nat /\ HeadSeq = vault.next_settle_seq /\ vault.next_seq \in Nat
  BY QueueFacts DEF HeadSeq
<1>2. HeadSeq + n <= vault.next_seq
  <2>1. CASE n = 0
    BY <1>1, <2>1, QueueFacts
  <2>2. CASE n # 0
    <3>1. HeadSeq + n - 1 \in Pending
      BY <1>1, <2>2
    <3> QED BY <1>1, <3>1, QueueFacts
  <2> QED BY <2>1, <2>2
<1>3. Pending' = Pending \ heads
  <2>1. Pending' = (HeadSeq + n)..(vault.next_seq - 1)
    BY <1>1 DEF Pending
  <2>2. Pending = HeadSeq..(vault.next_seq - 1)
    BY <1>1 DEF Pending
  <2> QED BY <1>1, <1>2, <2>1, <2>2
<1>4. requests' = [s \in Pending \ heads |-> requests[s]]
  BY DEF CloseRequests
<1>5. /\ requests' \in [Pending' -> RequestType]
      /\ \A s \in Pending' : s \in Pending /\ requests'[s] = requests[s]
  <2> HIDE DEF heads
  <2> QED BY <1>3, <1>4, QueueFacts
<1>6. /\ DOMAIN rand_lock' \subseteq RandAccounts
      /\ rand_lock' \in [DOMAIN rand_lock' -> Nat] /\ escrow' \subseteq Nat
  <2> DEFINE closed == {requests[s].randomness : s \in heads}
  <2>1. rand_lock' = [r \in DOMAIN rand_lock \ closed |-> rand_lock[r]]
        /\ escrow' = escrow \ heads
    BY DEF CloseRequests
  <2> HIDE DEF closed, heads
  <2> QED BY <2>1 DEF TypeOK
<1>7. vault'.next_settle_seq <= vault'.next_seq /\ vault'.next_seq <= MaxSeq
  BY <1>1, <1>2, QueueFacts
<1> QED BY <1>3, <1>5, <1>6, <1>7

(* handle_settle keeps it: one NFT moves from the pool to those outside.   *)
LEMMA SettleType ==
  ASSUME IInv, NEW k \in 0..incoming_len(pool), Settle(k)
  PROVE  IInv'
<1> DEFINE req == requests[HeadSeq]
           mint == PickedIndex(k) \notin pool.minted
<1>1. /\ SettleRefusals(k) /\ pool_len(Merged(pool, k)) > 0
      /\ owner' = [owner EXCEPT ![PickedIndex(k)] = req.user]
      /\ CloseRequests({HeadSeq})
      /\ UNCHANGED <<wallet, randomness, world>>
      /\ NoUnderflow(SettledBooks(k))
      /\ vault' = SettledBooks(k).vault /\ pool' = SettledBooks(k).pool
      /\ vault_tokens' = SettledBooks(k).tokens
  BY DEF Settle, Write
<1>2. TypeOK /\ DrawsFit /\ HeadSeq \in Pending
  BY <1>1 DEF IInv, SettleRefusals
<1>3. /\ req \in RequestType /\ req.kind \in {"capture", "reroll"} /\ req.user \in Users
  BY <1>2, HeadFacts, RequestFacts
<1>4. /\ PickedIndex(k) \in Index
      /\ pool' \in PoolType(Index)
      /\ req.kind = "capture" => total(pool') = total(pool) - 1
      /\ req.kind = "reroll" => total(pool') = total(pool)
      /\ vault_tokens' = vault_tokens
      /\ vault' = SettledVault(req.kind, mint)
  BY <1>1, SettledPoolType
<1>5. /\ vault' \in VaultType
      /\ vault'.next_seq = vault.next_seq
      /\ vault'.next_settle_seq = vault.next_settle_seq + 1
      /\ vault'.assets_outside = vault.assets_outside + 1
      /\ req.kind = "capture" => vault'.pending_rerolls = vault.pending_rerolls
      /\ req.kind = "reroll" => vault'.pending_rerolls = vault.pending_rerolls - 1
  <2>1. vault'.pending_captures >= 0 /\ vault'.pending_rerolls >= 0
    BY <1>1 DEF NoUnderflow
  <2>2. vault \in VaultType /\ mint \in BOOLEAN
    BY <1>2 DEF TypeOK
  <2> HIDE DEF mint, req
  <2> QED BY <1>3, <1>4, <2>1, <2>2, SettledVaultType
<1>6. /\ vault'.next_settle_seq <= vault'.next_seq /\ vault'.next_seq <= MaxSeq
      /\ requests' \in [Pending' -> RequestType]
      /\ \A s \in Pending' : s \in Pending /\ requests'[s] = requests[s]
      /\ DOMAIN rand_lock' \subseteq RandAccounts
      /\ rand_lock' \in [DOMAIN rand_lock' -> Nat]
      /\ escrow' \subseteq Nat
  <2>1. HeadSeq..(HeadSeq + 1 - 1) = {HeadSeq}
    BY <1>2, HeadFacts DEF IInv
  <2> QED BY <1>1, <1>2, <1>5, <2>1, CloseRequestsType
<1>7. owner' \in [Index -> Holders]
  <2>1. owner \in [Index -> Holders] /\ req.user \in Holders
    BY <1>2, <1>3 DEF TypeOK, Holders
  <2> HIDE DEF req
  <2> QED BY <1>1, <2>1
<1>8. TypeOK'
  BY <1>1, <1>2, <1>4, <1>5, <1>6, <1>7 DEF TypeOK, PoolType, world
<1>9. DrawsFit'
  <2>1. total(pool') + vault'.pending_rerolls + vault'.assets_outside = N
    <3>1. /\ total(pool) \in Nat /\ vault.pending_rerolls \in Nat
          /\ vault.assets_outside \in Nat
          /\ total(pool) + vault.pending_rerolls + vault.assets_outside = N
      BY <1>2, PoolFacts DEF DrawsFit
    <3> HIDE DEF req
    <3>2. CASE req.kind = "capture"
      BY <1>4, <1>5, <3>1, <3>2
    <3>3. CASE req.kind = "reroll"
      BY <1>4, <1>5, <3>1, <3>3
    <3> QED BY <1>3, <3>2, <3>3
  <2>2. \A s \in Pending' :
          /\ requests'[s].revealed => requests'[s].value \in Values
          /\ requests'[s].kind = "reroll" => requests'[s].handed_in_index \in Index
    BY <1>2, <1>6 DEF DrawsFit
  <2> QED BY <2>1, <2>2 DEF DrawsFit
<1> QED BY <1>8, <1>9 DEF IInv

(* The counts an expiry subtracts are those of finite sets.                *)
LEMMA ExpiredCounts ==
  ASSUME TypeOK, NEW n \in Nat, HeadSeq..(HeadSeq + n - 1) \subseteq Pending
  PROVE  /\ IsFiniteSet(ExpiredOf(n, "capture")) /\ IsFiniteSet(ExpiredOf(n, "reroll"))
         /\ Cardinality(ExpiredOf(n, "capture")) \in Nat
         /\ Cardinality(ExpiredOf(n, "reroll")) \in Nat
         /\ Cardinality(ExpiredOf(n, "capture")) + Cardinality(ExpiredOf(n, "reroll")) = n
<1> DEFINE heads == HeadSeq..(HeadSeq + n - 1)
           C == ExpiredOf(n, "capture")
           R == ExpiredOf(n, "reroll")
<1>1. HeadSeq \in Nat
  BY QueueFacts DEF HeadSeq
<1>2. IsFiniteSet(heads) /\ Cardinality(heads) = n
  BY <1>1, FS_Interval
<1>3. C \subseteq heads /\ R \subseteq heads
  BY DEF ExpiredOf
<1>4. C \cup R = heads /\ C \cap R = {}
  BY QueueFacts, RequestFacts DEF ExpiredOf
<1> HIDE DEF heads, C, R
<1>5. IsFiniteSet(C) /\ IsFiniteSet(R)
  BY <1>2, <1>3, FS_Subset
<1>6. Cardinality(C \cup R) = Cardinality(C) + Cardinality(R) - Cardinality(C \cap R)
  BY <1>5, FS_Union
<1>7. Cardinality(C) \in Nat /\ Cardinality(R) \in Nat
  BY <1>5, FS_CardinalityType
<1>8. Cardinality(C \cap R) = 0
  BY <1>4, FS_EmptySet
<1>9. Cardinality(C) + Cardinality(R) = n
  <2>1. Cardinality(C \cup R) = n
    BY <1>2, <1>4
  <2>2. n = Cardinality(C) + Cardinality(R) - 0
    BY <1>6, <1>8, <2>1
  <2> QED BY <1>7, <2>2
<1> QED BY <1>5, <1>7, <1>9 DEF C, R

(* An expiry moves the head by n, and what the re-rolls gave comes back to *)
(* the NFTs outside.                                                       *)
LEMMA ExpiredVaultType ==
  ASSUME vault \in VaultType, NEW n \in Nat, vault' = ExpiredVault(n),
         Cardinality(ExpiredOf(n, "capture")) \in Nat,
         Cardinality(ExpiredOf(n, "reroll")) \in Nat,
         vault'.pending_captures >= 0, vault'.pending_rerolls >= 0
  PROVE  /\ vault' \in VaultType
         /\ vault'.next_seq = vault.next_seq
         /\ vault'.next_settle_seq = vault.next_settle_seq + n
         /\ vault'.total_expired = vault.total_expired + n
         /\ vault'.pending_captures =
              vault.pending_captures - Cardinality(ExpiredOf(n, "capture"))
         /\ vault'.pending_rerolls =
              vault.pending_rerolls - Cardinality(ExpiredOf(n, "reroll"))
         /\ vault'.assets_outside =
              vault.assets_outside + Cardinality(ExpiredOf(n, "reroll"))
         /\ vault'.total_captures = vault.total_captures
         /\ vault'.total_rerolls = vault.total_rerolls
         /\ vault'.total_unwraps = vault.total_unwraps
<1> DEFINE c == Cardinality(ExpiredOf(n, "capture"))
           d == Cardinality(ExpiredOf(n, "reroll"))
           v1 == [vault EXCEPT !.next_settle_seq = @ + n]
           v2 == [v1 EXCEPT !.total_expired = vault.total_expired + n]
           v3 == [v2 EXCEPT !.pending_captures = vault.pending_captures - c]
           v4 == [v3 EXCEPT !.pending_rerolls = vault.pending_rerolls - d]
           v5 == [v4 EXCEPT !.assets_outside = vault.assets_outside + d]
<1>1. vault' = v5
  <2> HIDE DEF c, d
  <2> QED BY DEF ExpiredVault, VaultType, c, d
<1>2. c \in Nat /\ d \in Nat
  OBVIOUS
<1> HIDE DEF c, d
<1>3. /\ v5.next_seq = vault.next_seq /\ v5.next_settle_seq = vault.next_settle_seq + n
      /\ v5.total_expired = vault.total_expired + n
      /\ v5.pending_captures = vault.pending_captures - c
      /\ v5.pending_rerolls = vault.pending_rerolls - d
      /\ v5.assets_outside = vault.assets_outside + d
      /\ v5.total_captures = vault.total_captures
      /\ v5.total_rerolls = vault.total_rerolls
      /\ v5.total_unwraps = vault.total_unwraps
  BY DEF VaultType
<1>4. vault.pending_captures - c \in Int /\ vault.pending_rerolls - d \in Int
  BY <1>2 DEF VaultType
<1>5. vault.pending_captures - c >= 0 /\ vault.pending_rerolls - d >= 0
  <2> HIDE DEF v5
  <2> QED BY <1>1, <1>3
<1>6. v5 \in VaultType
  <2>1. v1 \in VaultType
    BY DEF VaultType
  <2> HIDE DEF v1
  <2>2. v2 \in VaultType
    <3>1. vault.total_expired + n \in Nat
      BY DEF VaultType
    <3> QED BY <2>1, <3>1 DEF VaultType
  <2> HIDE DEF v2
  <2>3. v3 \in VaultType
    BY <2>2, <1>4, <1>5 DEF VaultType
  <2> HIDE DEF v3
  <2>4. v4 \in VaultType
    BY <2>3, <1>4, <1>5 DEF VaultType
  <2> HIDE DEF v4
  <2>5. vault.assets_outside + d \in Nat
    BY <1>2 DEF VaultType
  <2> QED BY <2>4, <2>5 DEF VaultType
<1> HIDE DEF v5
<1> QED BY <1>1, <1>3, <1>6 DEF c, d

(* handle_expire and handle_expire_batch keep it, for any n heads.         *)
LEMMA ExpireHeadsType ==
  ASSUME IInv, NEW n \in Nat \ {0}, ExpireHeads(n)
  PROVE  IInv'
<1> DEFINE c == Cardinality(ExpiredOf(n, "capture"))
           d == Cardinality(ExpiredOf(n, "reroll"))
<1>1. /\ HeadSeq..(HeadSeq + n - 1) \subseteq Pending
      /\ CloseRequests(HeadSeq..(HeadSeq + n - 1))
      /\ UNCHANGED <<randomness, world>>
  BY DEF ExpireHeads, ExpireRefusals
<1>2. /\ NoUnderflow(ExpiredBooks(n))
      /\ vault' = ExpiredVault(n) /\ pool' = pool
      /\ vault_tokens' = vault_tokens - Ratio * c
  BY DEF ExpireHeads, Write, ExpiredBooks, Books
<1>3. TypeOK /\ DrawsFit
  BY DEF IInv
<1>4. /\ IsFiniteSet(ExpiredOf(n, "capture")) /\ c \in Nat /\ d \in Nat /\ n \in Nat
  BY <1>1, <1>3, ExpiredCounts
<1>5. /\ vault' \in VaultType
      /\ vault'.next_seq = vault.next_seq
      /\ vault'.next_settle_seq = vault.next_settle_seq + n
      /\ vault'.pending_rerolls = vault.pending_rerolls - d
      /\ vault'.assets_outside = vault.assets_outside + d
  <2>1. vault'.pending_captures >= 0 /\ vault'.pending_rerolls >= 0
    BY <1>2 DEF NoUnderflow, ExpiredBooks, Books
  <2>2. vault \in VaultType
    BY <1>3 DEF TypeOK
  <2> QED BY <1>2, <1>4, <2>1, <2>2, ExpiredVaultType
<1>6. /\ vault'.next_settle_seq <= vault'.next_seq /\ vault'.next_seq <= MaxSeq
      /\ requests' \in [Pending' -> RequestType]
      /\ \A s \in Pending' : s \in Pending /\ requests'[s] = requests[s]
      /\ DOMAIN rand_lock' \subseteq RandAccounts
      /\ rand_lock' \in [DOMAIN rand_lock' -> Nat]
      /\ escrow' \subseteq Nat
  BY <1>1, <1>3, <1>4, <1>5, CloseRequestsType
<1>7. vault_tokens' \in Nat
  <2>1. vault_tokens' >= 0
    BY <1>2 DEF NoUnderflow, ExpiredBooks, Books
  <2>2. Ratio * c \in Int /\ vault_tokens \in Int
    BY <1>3, <1>4, ConstantFacts DEF TypeOK
  <2> HIDE DEF c
  <2> QED BY <1>2, <2>1, <2>2
<1>8. wallet' \in [Users -> Nat]
  <2> DEFINE Paid(u) == {s \in ExpiredOf(n, "capture") : requests[s].user = u}
  <2>1. wallet' = [u \in Users |-> wallet[u] + Ratio * Cardinality(Paid(u))]
    BY DEF ExpireHeads
  <2>2. \A u \in Users : Cardinality(Paid(u)) \in Nat
    <3> TAKE u \in Users
    <3>1. Paid(u) \in SUBSET ExpiredOf(n, "capture")
      OBVIOUS
    <3>2. IsFiniteSet(Paid(u))
      BY <1>4, <3>1, FS_Subset
    <3> QED BY <3>2, FS_CardinalityType
  <2> HIDE DEF Paid
  <2>3. \A u \in Users : Ratio * Cardinality(Paid(u)) \in Nat
    BY <2>2, ConstantFacts
  <2>4. wallet \in [Users -> Nat]
    BY <1>3 DEF TypeOK
  <2> QED BY <2>1, <2>3, <2>4
<1>9. owner' \in [Index -> Holders]
  <2> DEFINE Home(i, s) == s \in ExpiredOf(n, "reroll") /\ requests[s].handed_in_index = i
  <2>1. owner' = [i \in Index |->
                    IF \E s \in ExpiredOf(n, "reroll") : requests[s].handed_in_index = i
                    THEN requests[CHOOSE s \in ExpiredOf(n, "reroll") :
                                    requests[s].handed_in_index = i].user
                    ELSE owner[i]]
    BY DEF ExpireHeads
  <2>2. \A s \in ExpiredOf(n, "reroll") : requests[s].user \in Users
    BY <1>1, <1>3, QueueFacts, RequestFacts DEF ExpiredOf
  <2>3. owner \in [Index -> Holders] /\ Users \subseteq Holders
    BY <1>3 DEF TypeOK, Holders
  <2>4. \A i \in Index : owner'[i] \in Holders
    <3> TAKE i \in Index
    <3>1. CASE \E s \in ExpiredOf(n, "reroll") : requests[s].handed_in_index = i
      <4> DEFINE s0 == CHOOSE s \in ExpiredOf(n, "reroll") : requests[s].handed_in_index = i
      <4>1. s0 \in ExpiredOf(n, "reroll")
        BY <3>1
      <4>2. owner'[i] = requests[s0].user
        BY <2>1, <3>1
      <4> HIDE DEF s0
      <4> QED BY <2>2, <2>3, <4>1, <4>2
    <3>2. CASE ~ \E s \in ExpiredOf(n, "reroll") : requests[s].handed_in_index = i
      BY <2>1, <2>3, <3>2
    <3> QED BY <3>1, <3>2
  <2> QED BY <2>1, <2>4
<1>10. TypeOK'
  BY <1>1, <1>2, <1>3, <1>5, <1>6, <1>7, <1>8, <1>9 DEF TypeOK, world
<1>11. DrawsFit'
  <2>1. total(pool') + vault'.pending_rerolls + vault'.assets_outside = N
    <3>1. /\ total(pool) \in Nat /\ vault.pending_rerolls \in Nat
          /\ vault.assets_outside \in Nat
          /\ total(pool) + vault.pending_rerolls + vault.assets_outside = N
      BY <1>3, PoolFacts DEF DrawsFit
    <3> HIDE DEF c, d
    <3> QED BY <1>2, <1>4, <1>5, <3>1
  <2>2. \A s \in Pending' :
          /\ requests'[s].revealed => requests'[s].value \in Values
          /\ requests'[s].kind = "reroll" => requests'[s].handed_in_index \in Index
    BY <1>3, <1>6 DEF DrawsFit
  <2> QED BY <2>1, <2>2 DEF DrawsFit
<1> QED BY <1>10, <1>11 DEF IInv

(* A release takes one NFT from outside and counts itself.                 *)
LEMMA ReleasedVaultType ==
  ASSUME vault \in VaultType, NEW i,
         vault' = ReleasedBooks(i).vault, vault'.assets_outside >= 0
  PROVE  /\ vault' \in VaultType
         /\ vault'.next_seq = vault.next_seq
         /\ vault'.next_settle_seq = vault.next_settle_seq
         /\ vault'.pending_captures = vault.pending_captures
         /\ vault'.pending_rerolls = vault.pending_rerolls
         /\ vault'.assets_outside = vault.assets_outside - 1
         /\ vault'.total_captures = vault.total_captures
         /\ vault'.total_rerolls = vault.total_rerolls
         /\ vault'.total_unwraps = vault.total_unwraps + 1
         /\ vault'.total_expired = vault.total_expired
<1> DEFINE v1 == [vault EXCEPT !.total_unwraps = @ + 1]
           v2 == [v1 EXCEPT !.assets_outside = vault.assets_outside - 1]
<1>1. vault' = v2
  BY DEF ReleasedBooks, Books, VaultType
<1>2. /\ v2.next_seq = vault.next_seq /\ v2.next_settle_seq = vault.next_settle_seq
      /\ v2.pending_captures = vault.pending_captures
      /\ v2.pending_rerolls = vault.pending_rerolls
      /\ v2.assets_outside = vault.assets_outside - 1
      /\ v2.total_captures = vault.total_captures /\ v2.total_rerolls = vault.total_rerolls
      /\ v2.total_unwraps = vault.total_unwraps + 1
      /\ v2.total_expired = vault.total_expired
  BY DEF VaultType
<1>3. vault.assets_outside - 1 \in Nat
  BY <1>1, <1>2 DEF VaultType
<1>4. v1 \in VaultType
  BY DEF VaultType
<1>5. v2 \in VaultType
  <2> HIDE DEF v1
  <2> QED BY <1>3, <1>4 DEF VaultType
<1> HIDE DEF v2
<1> QED BY <1>1, <1>2, <1>5

(* handle_unwrap keeps it: one NFT comes back to the incoming FIFO.        *)
LEMMA UnwrapType ==
  ASSUME IInv, NEW u \in Users, NEW i \in Index, Unwrap(u, i)
  PROVE  IInv'
<1>1. /\ owner' = [owner EXCEPT ![i] = VaultAuthority]
      /\ wallet' = [wallet EXCEPT ![u] = @ + Ratio]
      /\ UNCHANGED <<draws, world>>
      /\ NoUnderflow(ReleasedBooks(i))
      /\ vault' = ReleasedBooks(i).vault
  BY DEF Unwrap, Write
<1>2. pool' = incoming_push(pool, i, vault.next_seq) /\ vault_tokens' = vault_tokens - Ratio
  BY DEF Unwrap, Write, ReleasedBooks, Books, ReleaseTag
<1>3. TypeOK /\ DrawsFit
  BY DEF IInv
<1>4. /\ vault' \in VaultType
      /\ vault'.next_seq = vault.next_seq
      /\ vault'.next_settle_seq = vault.next_settle_seq
      /\ vault'.pending_rerolls = vault.pending_rerolls
      /\ vault'.assets_outside = vault.assets_outside - 1
  <2>1. vault'.assets_outside >= 0
    BY <1>1 DEF NoUnderflow
  <2>2. vault \in VaultType
    BY <1>3 DEF TypeOK
  <2> QED BY <1>1, <2>1, <2>2, ReleasedVaultType
<1>5. pool' \in PoolType(Index) /\ total(pool') = total(pool) + 1
  <2>1. pool \in PoolType(Index) /\ vault.next_seq \in Nat
    BY <1>3, PoolFacts, QueueFacts
  <2>2. /\ pool' \in PoolType(Index)
        /\ incoming_len(pool') = incoming_len(pool) + 1
        /\ pool'.slots = pool.slots
    BY <1>2, <2>1, IncomingPushType
  <2>3. pool_len(pool') = pool_len(pool)
    BY <2>2 DEF pool_len
  <2>4. total(pool') = pool_len(pool) + (incoming_len(pool) + 1)
    BY <2>2, <2>3 DEF total
  <2> QED BY <1>3, <2>2, <2>4, PoolFacts
<1>6. vault_tokens' \in Nat
  <2>1. vault_tokens' >= 0
    BY <1>2 DEF Unwrap, Write, NoUnderflow, ReleasedBooks, Books
  <2> QED BY <1>2, <1>3, <2>1, ConstantFacts DEF TypeOK
<1>7. wallet' \in [Users -> Nat] /\ owner' \in [Index -> Holders]
  BY <1>1, <1>3, ConstantFacts DEF TypeOK, Holders
<1>8. Pending' = Pending
  BY <1>4 DEF Pending
<1>9. TypeOK'
  BY <1>1, <1>3, <1>4, <1>5, <1>6, <1>7, <1>8 DEF TypeOK, PoolType, draws, world
<1>10. DrawsFit'
  <2>1. total(pool') + vault'.pending_rerolls + vault'.assets_outside = N
    BY <1>3, <1>4, <1>5, PoolFacts DEF DrawsFit
  <2> QED BY <1>1, <1>3, <1>8, <2>1 DEF DrawsFit, draws
<1> QED BY <1>9, <1>10 DEF IInv

(* The steps of the world around the program.                              *)
LEMMA EnvironmentType == IInv /\ Environment => IInv'
<1> SUFFICES ASSUME IInv, Environment PROVE IInv'
  OBVIOUS
<1>1. TypeOK /\ DrawsFit
  BY DEF IInv
<1>2. CASE Tick
  <2>1. slot' = slot + 1 /\ UNCHANGED <<accounts, draws, oracle_state, curr_idx, launch_supported>>
    BY <1>2 DEF Tick
  <2>2. Pending' = Pending
    BY <2>1 DEF Pending, accounts
  <2> QED BY <1>1, <2>1, <2>2 DEF IInv, TypeOK, DrawsFit, accounts, draws
<1>3. CASE \E u \in Users, i \in Index, to \in Users \cup Sinks : TransferNft(u, i, to)
  <2>1. PICK u \in Users, i \in Index, to \in Users \cup Sinks : TransferNft(u, i, to)
    BY <1>3
  <2>2. /\ owner' = [owner EXCEPT ![i] = to]
        /\ UNCHANGED <<vault, pool, vault_tokens, wallet, draws, world>>
    BY <2>1 DEF TransferNft
  <2>3. owner' \in [Index -> Holders]
    BY <1>1, <2>2 DEF TypeOK, Holders
  <2>4. Pending' = Pending
    BY <2>2 DEF Pending
  <2> QED BY <1>1, <2>2, <2>3, <2>4 DEF IInv, TypeOK, DrawsFit, draws, world
<1>4. CASE \E u \in Users : Donate(u)
  <2>1. PICK u \in Users : Donate(u)
    BY <1>4
  <2>2. /\ wallet[u] > 0 /\ wallet' = [wallet EXCEPT ![u] = @ - 1]
        /\ vault_tokens' = vault_tokens + 1
        /\ UNCHANGED <<vault, pool, owner, draws, world>>
    BY <2>1 DEF Donate
  <2>3. wallet' \in [Users -> Nat] /\ vault_tokens' \in Nat
    BY <1>1, <2>2 DEF TypeOK
  <2>4. Pending' = Pending
    BY <2>2 DEF Pending
  <2> QED BY <1>1, <2>2, <2>3, <2>4 DEF IInv, TypeOK, DrawsFit, draws, world
<1>5. CASE \E o \in Oracles, h \in Heartbeats : Heartbeat(o, h)
  <2>1. PICK o \in Oracles, h \in Heartbeats : Heartbeat(o, h)
    BY <1>5
  <2>2. /\ oracle_state' = [oracle_state EXCEPT ![o] = h]
        /\ UNCHANGED <<accounts, draws, slot, curr_idx, launch_supported>>
    BY <2>1 DEF Heartbeat
  <2>3. oracle_state' \in [Oracles -> {"live", "stale", "closed"}]
    BY <1>1, <2>2, OracleAssumption DEF TypeOK, Heartbeats
  <2>4. Pending' = Pending
    BY <2>2 DEF Pending, accounts
  <2> QED BY <1>1, <2>2, <2>3, <2>4 DEF IInv, TypeOK, DrawsFit, accounts, draws
<1>6. CASE RotateQueue
  <2>1. /\ Len(oracle_keys) > 1
        /\ curr_idx' = (curr_idx + 1) % Len(oracle_keys)
        /\ UNCHANGED <<accounts, draws, slot, oracle_state, launch_supported>>
    BY <1>6 DEF RotateQueue
  <2>2. Len(oracle_keys) \in Nat
    BY OracleAssumption, LenProperties
  <2>3. curr_idx' \in Nat
    BY <1>1, <2>1, <2>2 DEF TypeOK
  <2>4. Pending' = Pending
    BY <2>1 DEF Pending, accounts
  <2> QED BY <1>1, <2>1, <2>3, <2>4 DEF IInv, TypeOK, DrawsFit, accounts, draws
<1>7. CASE UpgradeLaunch
  <2>1. /\ launch_supported' = FALSE
        /\ UNCHANGED <<accounts, draws, slot, oracle_state, curr_idx>>
    BY <1>7 DEF UpgradeLaunch
  <2>2. Pending' = Pending
    BY <2>1 DEF Pending, accounts
  <2> QED BY <1>1, <2>1, <2>2 DEF IInv, TypeOK, DrawsFit, accounts, draws
<1> QED BY <1>2, <1>3, <1>4, <1>5, <1>6, <1>7 DEF Environment

(* Every step keeps the strengthened invariant.                            *)
LEMMA TypeStep == IInv /\ [Next]_vars => IInv'
<1> SUFFICES ASSUME IInv, [Next]_vars PROVE IInv'
  OBVIOUS
<1>1. CASE OpenVault
  BY <1>1, OpenVaultType
<1>2. CASE Request
  BY <1>2, RequestCaptureType, RequestRerollType DEF Request
<1>3. CASE \E r \in RandAccounts : InitRandomness(r)
  BY <1>3, InitRandomnessType
<1>4. CASE Reveal
  BY <1>4, RevealRandomnessType DEF Reveal
<1>5. CASE Recommit
  BY <1>5, RecommitRandomnessType DEF Recommit
<1>6. CASE SettleHead
  BY <1>6, SettleType DEF SettleHead
<1>7. CASE Merge
  BY <1>7, MergeIncomingType DEF Merge
<1>8. CASE ExpireRequest
  BY <1>8, ExpireHeadsType DEF ExpireRequest
<1>9. CASE ExpireRequests
  <2>1. PICK n \in 1..MAX_EXPIRE_PER_CALL : ExpireHeads(n)
    BY <1>9 DEF ExpireRequests
  <2> QED BY <2>1, BoundAssumption, ExpireHeadsType
<1>10. CASE \E u \in Users, i \in Index : Unwrap(u, i)
  BY <1>10, UnwrapType
<1>11. CASE Environment
  BY <1>11, EnvironmentType
<1>12. CASE UNCHANGED vars
  <2>1. Pending' = Pending
    BY <1>12 DEF vars, accounts, Pending
  <2> QED BY <1>12, <2>1 DEF IInv, TypeOK, DrawsFit, vars, accounts, draws, world
<1> QED BY <1>1, <1>2, <1>3, <1>4, <1>5, <1>6, <1>7, <1>8, <1>9, <1>10, <1>11, <1>12
        DEF Next

(* The strengthened invariant holds in every reachable state.              *)
THEOREM Inductive == Spec => []IInv
BY TypeInit, TypeStep, PTL DEF Spec

(* The accounts keep their shape, counters never go below zero, the FIFO's *)
(* head never passes its tail, and a Request account exists exactly for    *)
(* each seq between them (state.rs; request.rs, settle.rs and expire.rs    *)
(* create and close them).                                                 *)
THEOREM TypeCorrect == Spec => []TypeOK
<1>1. IInv => TypeOK
  BY DEF IInv
<1> QED BY <1>1, Inductive, PTL

-----------------------------------------------------------------------------
(***************************************************************************)
(* What follows from the types and from the shape of the steps: the oracle *)
(* of a commit is forced, a reveal is final, the lifetime totals audit the *)
(* counters, no payment is larger than the claim it ends, and the accounts *)
(* of a pending request agree.                                             *)
(***************************************************************************)
(* Two callers who could commit for the same request would commit the same *)
(* oracle: a stale proof names a stale oracle, the oracle committed is     *)
(* live, so neither caller can have proved the other's oracle stale        *)
(* (randomness.rs commit_for_request and select_oracle).                   *)
LEMMA CommitForced ==
  ASSUME NEW r, NEW seq, NEW used, NEW a \in Oracles, NEW b \in Oracles,
         CanCommit(r, seq, used, a), CanCommit(r, seq, used, b)
  PROVE  a = b /\ \A j \in 1..Len(used) : used[j] # a
<1>1. PICK proven \in SUBSET {o \in Oracles : oracle_state[o] = "stale"} :
        IsSelected(oracle_keys, curr_idx, Spread(seq), used, proven, a)
  BY DEF CanCommit
<1>2. PICK other \in SUBSET {o \in Oracles : oracle_state[o] = "stale"} :
        IsSelected(oracle_keys, curr_idx, Spread(seq), used, other, b)
  BY DEF CanCommit
<1>3. oracle_state[a] = "live" /\ oracle_state[b] = "live"
  BY DEF CanCommit
<1>4. a \notin proven /\ b \notin proven /\ a \notin other /\ b \notin other
  BY <1>3
<1>5. Len(oracle_keys) \in Nat
  BY OracleAssumption
<1>6. a = b
  BY <1>1, <1>2, <1>4, <1>5, SelectionUnique
<1>7. \A j \in 1..Len(used) : used[j] # a
  BY <1>1, SelectionUnused
<1> QED BY <1>6, <1>7

(* No caller of request or recommit_randomness ever has a choice of oracle. *)
THEOREM OracleIsForced == Spec => []OracleForced
<1>1. OracleForced
  <2> SUFFICES ASSUME NEW r \in DOMAIN randomness
               PROVE  /\ \A a, b \in Oracles :
                           CanCommit(r, vault.next_seq, << >>, a)
                             /\ CanCommit(r, vault.next_seq, << >>, b) => a = b
                      /\ \A s \in Pending, a, b \in Oracles :
                           CanCommit(r, s, requests[s].oracles, a)
                             /\ CanCommit(r, s, requests[s].oracles, b)
                             => a = b /\ \A j \in 1..commits(requests[s]) :
                                           requests[s].oracles[j] # a
    BY DEF OracleForced
  <2>1. \A a, b \in Oracles :
          CanCommit(r, vault.next_seq, << >>, a) /\ CanCommit(r, vault.next_seq, << >>, b)
            => a = b
    BY CommitForced
  <2>2. \A s \in Pending, a, b \in Oracles :
          CanCommit(r, s, requests[s].oracles, a) /\ CanCommit(r, s, requests[s].oracles, b)
            => a = b /\ \A j \in 1..commits(requests[s]) : requests[s].oracles[j] # a
    BY CommitForced DEF commits
  <2> QED BY <2>1, <2>2
<1> QED BY <1>1, PTL

-----------------------------------------------------------------------------
(* A reveal is final.                                                      *)

(* What a step may do to a revealed request.                               *)
FinalStep ==
  \A s \in Pending : requests[s].revealed =>
    IF s \in Pending' THEN requests'[s] = requests[s]
    ELSE s = HeadSeq /\ vault'.total_expired = vault.total_expired

(* A step that moves neither the FIFO nor a request touches none.          *)
LEMMA FinalUntouched ==
  ASSUME vault'.next_seq = vault.next_seq,
         vault'.next_settle_seq = vault.next_settle_seq, requests' = requests
  PROVE  FinalStep
BY DEF FinalStep, Pending

(* A new request is appended behind those that exist.                      *)
LEMMA FinalRequest ==
  ASSUME IInv, Request
  PROVE  FinalStep
<1>1. TypeOK
  BY DEF IInv
<1>2. PICK r \in RandAccounts, oracle \in Oracles, u \in Users :
        \/ RequestCapture(u, r, oracle)
        \/ \E i \in Index : RequestReroll(u, i, r, oracle)
  BY DEF Request
<1>3. CASE RequestCapture(u, r, oracle)
  <2>1. /\ RequestRefusals(r, oracle)
        /\ OpenRequest("capture", u, r, oracle, NoHandedIn)
        /\ vault' = RequestedVault("capture")
    BY <1>3 DEF RequestCapture, Write, RequestedBooks, Books
  <2>2. /\ Pending' = Pending \cup {vault.next_seq}
        /\ \A s \in Pending : requests'[s] = requests[s]
    BY <1>1, <2>1, OpenRequestType
  <2> QED BY <2>2 DEF FinalStep
<1>4. CASE \E i \in Index : RequestReroll(u, i, r, oracle)
  <2>1. PICK i \in Index : RequestReroll(u, i, r, oracle)
    BY <1>4
  <2>2. /\ RequestRefusals(r, oracle)
        /\ OpenRequest("reroll", u, r, oracle, i)
        /\ vault' = RequestedVault("reroll")
    BY <2>1 DEF RequestReroll, Write, RequestedBooks, Books
  <2>3. /\ Pending' = Pending \cup {vault.next_seq}
        /\ \A s \in Pending : requests'[s] = requests[s]
    BY <1>1, <2>2, OpenRequestType
  <2> QED BY <2>3 DEF FinalStep
<1> QED BY <1>2, <1>3, <1>4

(* A reveal and a re-commit change one request that is not yet revealed.   *)
LEMMA FinalRandomness ==
  ASSUME IInv, Reveal \/ Recommit
  PROVE  FinalStep
<1>1. requests \in [Pending -> RequestType] /\ vault \in VaultType
  BY DEF IInv, TypeOK
<1>2. CASE Reveal
  <2>1. PICK s \in Pending, value \in Values : RevealRandomness(s, value)
    BY <1>2 DEF Reveal
  <2>2. /\ ~requests[s].revealed /\ UNCHANGED vault
        /\ requests' = [requests EXCEPT ![s].revealed = TRUE, ![s].value = value]
    BY <2>1 DEF RevealRandomness, accounts
  <2>3. Pending' = Pending /\ \A x \in Pending : x # s => requests'[x] = requests[x]
    BY <1>1, <2>2 DEF Pending
  <2> QED BY <2>2, <2>3 DEF FinalStep
<1>3. CASE Recommit
  <2>1. PICK s \in Pending, oracle \in Oracles : RecommitRandomness(s, oracle)
    BY <1>3 DEF Recommit
  <2>2. /\ ~requests[s].revealed
        /\ requests' = [requests EXCEPT ![s] = Recommitted(requests[s], oracle)]
        /\ vault' = [vault EXCEPT !.total_recommits = @ + 1]
    BY <2>1 DEF RecommitRandomness, MayRecommit
  <2>3. Pending' = Pending /\ \A x \in Pending : x # s => requests'[x] = requests[x]
    BY <1>1, <2>2 DEF Pending, VaultType
  <2> QED BY <2>2, <2>3 DEF FinalStep
<1> QED BY <1>2, <1>3

(* Settle moves the head by one and counts no expiry.                      *)
LEMMA SettleCounts ==
  ASSUME IInv, NEW k \in 0..incoming_len(pool), Settle(k)
  PROVE  /\ vault'.next_seq = vault.next_seq
         /\ vault'.next_settle_seq = vault.next_settle_seq + 1
         /\ vault'.total_expired = vault.total_expired
<1>1. /\ SettleRefusals(k) /\ pool_len(Merged(pool, k)) > 0
      /\ NoUnderflow(SettledBooks(k))
      /\ vault' = SettledBooks(k).vault
  BY DEF Settle, Write
<1>2. TypeOK /\ HeadSeq \in Pending /\ vault \in VaultType
  BY <1>1 DEF IInv, TypeOK, SettleRefusals
<1>3. requests[HeadSeq].kind \in {"capture", "reroll"} /\ HeadSeq \in Nat
  BY <1>2, HeadFacts, RequestFacts
<1> DEFINE mint == PickedIndex(k) \notin pool.minted
<1>4. vault' = SettledVault(requests[HeadSeq].kind, mint)
  BY <1>1, SettledPoolType
<1>5. vault'.pending_captures >= 0 /\ vault'.pending_rerolls >= 0
  BY <1>1 DEF NoUnderflow
<1> HIDE DEF mint
<1>6. mint \in BOOLEAN
  BY DEF mint
<1> QED BY <1>2, <1>3, <1>4, <1>5, <1>6, SettledVaultType

(* Settle closes the head.                                                 *)
LEMMA FinalSettle ==
  ASSUME IInv, NEW k \in 0..incoming_len(pool), Settle(k)
  PROVE  FinalStep
<1>1. SettleRefusals(k) /\ CloseRequests({HeadSeq})
  BY DEF Settle
<1>2. TypeOK /\ HeadSeq \in Pending
  BY <1>1 DEF IInv, SettleRefusals
<1>3. HeadSeq \in Nat
  BY <1>2, HeadFacts
<1>4. /\ vault'.next_seq = vault.next_seq
      /\ vault'.next_settle_seq = vault.next_settle_seq + 1
      /\ vault'.total_expired = vault.total_expired
  BY SettleCounts
<1>5. HeadSeq..(HeadSeq + 1 - 1) = {HeadSeq}
  BY <1>3
<1>6. /\ Pending' = Pending \ {HeadSeq}
      /\ \A s \in Pending' : s \in Pending /\ requests'[s] = requests[s]
  BY <1>1, <1>2, <1>4, <1>5, CloseRequestsType
<1> QED BY <1>4, <1>6 DEF FinalStep

(* An expiry closes heads that were never revealed.                        *)
LEMMA FinalExpire ==
  ASSUME IInv, NEW n \in Nat \ {0}, ExpireHeads(n)
  PROVE  FinalStep
<1> DEFINE heads == HeadSeq..(HeadSeq + n - 1)
<1>1. /\ heads \subseteq Pending /\ \A s \in heads : ~requests[s].revealed
      /\ CloseRequests(heads)
  BY DEF ExpireHeads, ExpireRefusals, Expirable
<1>2. /\ NoUnderflow(ExpiredBooks(n)) /\ vault' = ExpiredVault(n)
  BY DEF ExpireHeads, Write, ExpiredBooks, Books
<1>3. TypeOK /\ vault \in VaultType
  BY DEF IInv, TypeOK
<1>4. /\ vault'.next_seq = vault.next_seq
      /\ vault'.next_settle_seq = vault.next_settle_seq + n
  <2>1. vault'.pending_captures >= 0 /\ vault'.pending_rerolls >= 0
    BY <1>2 DEF NoUnderflow, ExpiredBooks, Books
  <2> QED BY <1>1, <1>2, <1>3, <2>1, ExpiredCounts, ExpiredVaultType
<1>5. /\ Pending' = Pending \ heads
      /\ \A s \in Pending' : s \in Pending /\ requests'[s] = requests[s]
  BY <1>1, <1>3, <1>4, CloseRequestsType
<1> HIDE DEF heads
<1> QED BY <1>1, <1>5 DEF FinalStep

(* Every step leaves the requests that are revealed alone, or settles one. *)
LEMMA FinalNext == IInv /\ [Next]_vars => FinalStep
<1> SUFFICES ASSUME IInv, [Next]_vars PROVE FinalStep
  OBVIOUS
<1>1. CASE OpenVault
  <2>1. vault \in VaultType /\ vault' = [vault EXCEPT !.open = TRUE] /\ requests' = requests
    BY <1>1 DEF OpenVault, Write, Books, draws, IInv, TypeOK
  <2>2. vault'.next_seq = vault.next_seq /\ vault'.next_settle_seq = vault.next_settle_seq
    BY <2>1 DEF VaultType
  <2> QED BY <2>1, <2>2, FinalUntouched
<1>2. CASE Request
  BY <1>2, FinalRequest
<1>3. CASE \E r \in RandAccounts : InitRandomness(r)
  BY <1>3, FinalUntouched DEF InitRandomness, accounts
<1>4. CASE Reveal \/ Recommit
  BY <1>4, FinalRandomness
<1>5. CASE SettleHead
  BY <1>5, FinalSettle DEF SettleHead
<1>6. CASE Merge
  BY <1>6, FinalUntouched DEF Merge, MergeIncoming, draws
<1>7. CASE ExpireRequest
  BY <1>7, FinalExpire DEF ExpireRequest
<1>8. CASE ExpireRequests
  <2>1. PICK n \in 1..MAX_EXPIRE_PER_CALL : ExpireHeads(n)
    BY <1>8 DEF ExpireRequests
  <2> QED BY <2>1, BoundAssumption, FinalExpire
<1>9. CASE \E u \in Users, i \in Index : Unwrap(u, i)
  <2>1. PICK u \in Users, i \in Index : Unwrap(u, i)
    BY <1>9
  <2>2. /\ requests' = requests /\ vault' = ReleasedBooks(i).vault
        /\ NoUnderflow(ReleasedBooks(i)) /\ vault \in VaultType
    BY <2>1 DEF Unwrap, Write, draws, IInv, TypeOK
  <2>3. vault'.assets_outside >= 0
    BY <2>2 DEF NoUnderflow
  <2>4. vault'.next_seq = vault.next_seq /\ vault'.next_settle_seq = vault.next_settle_seq
    BY <2>2, <2>3, ReleasedVaultType
  <2> QED BY <2>2, <2>4, FinalUntouched
<1>10. CASE Environment
  <2>1. vault' = vault /\ requests' = requests
    BY <1>10 DEF Environment, Tick, TransferNft, Donate, Heartbeat, RotateQueue,
                 UpgradeLaunch, accounts, draws
  <2> QED BY <2>1, FinalUntouched
<1>11. CASE UNCHANGED vars
  BY <1>11, FinalUntouched DEF vars, accounts, draws
<1> QED BY <1>1, <1>2, <1>3, <1>4, <1>5, <1>6, <1>7, <1>8, <1>9, <1>10, <1>11 DEF Next

(* Once reveal_randomness has recorded a value for a request, no re-commit *)
(* or expiry can undo it: the request keeps every field until settle pays  *)
(* it out at the head of the FIFO.                                         *)
THEOREM RevealIsFinal == Spec => RevealedIsFinal
<1>1. IInv /\ [Next]_vars =>
        [\A s \in Pending : requests[s].revealed =>
           IF s \in Pending' THEN requests'[s] = requests[s]
           ELSE s = HeadSeq /\ vault'.total_expired = vault.total_expired]_vars
  BY FinalNext DEF FinalStep
<1> QED BY <1>1, Inductive, PTL DEF Spec, RevealedIsFinal

-----------------------------------------------------------------------------
(* The lifetime totals audit the live counters.                            *)

(* The counters are numbers, so that they can be added.                    *)
Numbers ==
  /\ vault.next_seq \in Nat /\ vault.next_settle_seq \in Nat
  /\ vault.total_captures \in Nat /\ vault.total_rerolls \in Nat
  /\ vault.total_expired \in Nat /\ vault.total_unwraps \in Nat
  /\ vault.pending_captures \in Nat /\ vault.pending_rerolls \in Nat
  /\ vault.assets_outside \in Nat

LEMMA CounterFacts ==
  ASSUME vault \in VaultType
  PROVE  Numbers
BY DEF VaultType, Numbers

(* A step that leaves the counters alone leaves the audit true.            *)
LEMMA AuditUntouched ==
  ASSUME CountersAudit,
         vault'.next_seq = vault.next_seq, vault'.next_settle_seq = vault.next_settle_seq,
         vault'.total_captures = vault.total_captures,
         vault'.total_rerolls = vault.total_rerolls,
         vault'.total_expired = vault.total_expired,
         vault'.total_unwraps = vault.total_unwraps,
         vault'.pending_captures = vault.pending_captures,
         vault'.pending_rerolls = vault.pending_rerolls,
         vault'.assets_outside = vault.assets_outside
  PROVE  CountersAudit'
BY DEF CountersAudit

(* A request is one more pending; a re-roll's NFT is no longer outside.    *)
LEMMA AuditRequest ==
  ASSUME IInv, CountersAudit, NEW kind \in {"capture", "reroll"}, Write(RequestedBooks(kind))
  PROVE  CountersAudit'
<1>1. vault \in VaultType /\ vault' = RequestedVault(kind) /\ NoUnderflow(RequestedBooks(kind))
  BY DEF IInv, TypeOK, Write, RequestedBooks, Books
<1>2. vault'.assets_outside >= 0
  BY <1>1 DEF NoUnderflow, RequestedBooks, Books
<1>3. /\ vault'.next_seq = vault.next_seq + 1
      /\ vault'.next_settle_seq = vault.next_settle_seq
      /\ kind = "capture" => /\ vault'.pending_captures = vault.pending_captures + 1
                             /\ vault'.pending_rerolls = vault.pending_rerolls
                             /\ vault'.assets_outside = vault.assets_outside
      /\ kind = "reroll" => /\ vault'.pending_captures = vault.pending_captures
                            /\ vault'.pending_rerolls = vault.pending_rerolls + 1
                            /\ vault'.assets_outside = vault.assets_outside - 1
  BY <1>1, <1>2, RequestedVaultType
<1>4. /\ vault'.total_captures = vault.total_captures
      /\ vault'.total_rerolls = vault.total_rerolls
      /\ vault'.total_expired = vault.total_expired
      /\ vault'.total_unwraps = vault.total_unwraps
  BY <1>1 DEF RequestedVault, VaultType
<1>5. Numbers
  BY <1>1, CounterFacts
<1>6. CASE kind = "capture"
  BY <1>3, <1>4, <1>5, <1>6 DEF CountersAudit, Numbers
<1>7. CASE kind = "reroll"
  <2>1. vault.pending_captures + (vault.pending_rerolls + 1)
          = (vault.next_seq + 1) - vault.next_settle_seq
    <3>1. vault.pending_captures + vault.pending_rerolls
            = vault.next_seq - vault.next_settle_seq
      BY DEF CountersAudit
    <3> QED BY <1>5, <3>1 DEF Numbers
  <2>2. vault.total_captures
          = vault.total_unwraps + (vault.assets_outside - 1) + (vault.pending_rerolls + 1)
    BY <1>5 DEF CountersAudit, Numbers
  <2>3. /\ vault'.pending_captures = vault.pending_captures
        /\ vault'.pending_rerolls = vault.pending_rerolls + 1
        /\ vault'.assets_outside = vault.assets_outside - 1
    BY <1>3, <1>7
  <2> QED BY <1>3, <1>4, <2>1, <2>2, <2>3 DEF CountersAudit
<1> QED BY <1>6, <1>7

(* A settle is one less pending and one more settled.                      *)
LEMMA AuditSettle ==
  ASSUME IInv, CountersAudit, NEW k \in 0..incoming_len(pool), Settle(k)
  PROVE  CountersAudit'
<1> DEFINE kind == requests[HeadSeq].kind
           mint == PickedIndex(k) \notin pool.minted
<1>1. /\ SettleRefusals(k) /\ pool_len(Merged(pool, k)) > 0
      /\ NoUnderflow(SettledBooks(k)) /\ vault' = SettledBooks(k).vault
  BY DEF Settle, Write
<1>2. HeadSeq \in Pending /\ vault \in VaultType
  BY <1>1 DEF IInv, TypeOK, SettleRefusals
<1>3. kind \in {"capture", "reroll"}
  BY <1>2, HeadFacts, RequestFacts
<1>4. vault' = SettledVault(kind, mint)
  BY <1>1, SettledPoolType
<1>5. vault'.pending_captures >= 0 /\ vault'.pending_rerolls >= 0
  BY <1>1 DEF NoUnderflow
<1>6. mint \in BOOLEAN
  OBVIOUS
<1> HIDE DEF mint, kind
<1>7. /\ vault'.next_seq = vault.next_seq
      /\ vault'.next_settle_seq = vault.next_settle_seq + 1
      /\ vault'.assets_outside = vault.assets_outside + 1
      /\ kind = "capture" => /\ vault'.pending_captures = vault.pending_captures - 1
                             /\ vault'.total_captures = vault.total_captures + 1
                             /\ vault'.pending_rerolls = vault.pending_rerolls
                             /\ vault'.total_rerolls = vault.total_rerolls
      /\ kind = "reroll" => /\ vault'.pending_captures = vault.pending_captures
                            /\ vault'.total_captures = vault.total_captures
                            /\ vault'.pending_rerolls = vault.pending_rerolls - 1
                            /\ vault'.total_rerolls = vault.total_rerolls + 1
      /\ vault'.total_unwraps = vault.total_unwraps
      /\ vault'.total_expired = vault.total_expired
  BY <1>2, <1>3, <1>4, <1>5, <1>6, SettledVaultType
<1>8. Numbers
  BY <1>2, CounterFacts
<1>9. CASE kind = "capture"
  BY <1>7, <1>8, <1>9 DEF CountersAudit, Numbers
<1>10. CASE kind = "reroll"
  <2>1. /\ vault'.next_seq = vault.next_seq
        /\ vault'.next_settle_seq = vault.next_settle_seq + 1
        /\ vault'.assets_outside = vault.assets_outside + 1
        /\ vault'.pending_captures = vault.pending_captures
        /\ vault'.pending_rerolls = vault.pending_rerolls - 1
        /\ vault'.total_captures = vault.total_captures
        /\ vault'.total_rerolls = vault.total_rerolls + 1
        /\ vault'.total_unwraps = vault.total_unwraps
        /\ vault'.total_expired = vault.total_expired
    BY <1>7, <1>10
  <2>2. vault.total_captures + (vault.total_rerolls + 1) + vault.total_expired
          = vault.next_settle_seq + 1
    BY <1>8 DEF CountersAudit, Numbers
  <2>3. vault.pending_captures + (vault.pending_rerolls - 1)
          = vault.next_seq - (vault.next_settle_seq + 1)
    BY <1>8 DEF CountersAudit, Numbers
  <2>4. vault.total_captures
          = vault.total_unwraps + (vault.assets_outside + 1) + (vault.pending_rerolls - 1)
    BY <1>8 DEF CountersAudit, Numbers
  <2> QED BY <2>1, <2>2, <2>3, <2>4 DEF CountersAudit
<1> QED BY <1>3, <1>9, <1>10

(* An expiry of n heads is n less pending, each of one kind, and its       *)
(* re-rolls put their NFTs outside again.                                  *)
LEMMA AuditExpire ==
  ASSUME IInv, CountersAudit, NEW n \in Nat \ {0}, ExpireHeads(n)
  PROVE  CountersAudit'
<1> DEFINE c == Cardinality(ExpiredOf(n, "capture"))
           d == Cardinality(ExpiredOf(n, "reroll"))
<1>1. HeadSeq..(HeadSeq + n - 1) \subseteq Pending /\ TypeOK /\ vault \in VaultType
  BY DEF ExpireHeads, ExpireRefusals, IInv, TypeOK
<1>2. vault' = ExpiredVault(n) /\ vault'.pending_captures >= 0 /\ vault'.pending_rerolls >= 0
  BY DEF ExpireHeads, Write, NoUnderflow, ExpiredBooks, Books
<1>3. c \in Nat /\ d \in Nat /\ c + d = n /\ n \in Nat
  BY <1>1, ExpiredCounts
<1>4. /\ vault'.next_seq = vault.next_seq
      /\ vault'.next_settle_seq = vault.next_settle_seq + n
      /\ vault'.total_expired = vault.total_expired + n
      /\ vault'.pending_captures = vault.pending_captures - c
      /\ vault'.pending_rerolls = vault.pending_rerolls - d
      /\ vault'.assets_outside = vault.assets_outside + d
      /\ vault'.total_captures = vault.total_captures
      /\ vault'.total_rerolls = vault.total_rerolls
      /\ vault'.total_unwraps = vault.total_unwraps
  BY <1>1, <1>2, <1>3, ExpiredVaultType
<1>5. Numbers
  BY <1>1, CounterFacts
<1> HIDE DEF c, d
<1>6. vault.total_captures + vault.total_rerolls + (vault.total_expired + n)
        = vault.next_settle_seq + n
  BY <1>3, <1>5 DEF CountersAudit, Numbers
<1>7. (vault.pending_captures - c) + (vault.pending_rerolls - d)
        = vault.next_seq - (vault.next_settle_seq + n)
  <2>1. vault.pending_captures + vault.pending_rerolls
          = vault.next_seq - vault.next_settle_seq
    BY DEF CountersAudit
  <2> QED BY <1>3, <1>5, <2>1 DEF Numbers
<1>8. vault.total_captures
        = vault.total_unwraps + (vault.assets_outside + d) + (vault.pending_rerolls - d)
  BY <1>3, <1>5 DEF CountersAudit, Numbers
<1> QED BY <1>4, <1>6, <1>7, <1>8 DEF CountersAudit

(* A release is one less outside and one more released.                    *)
LEMMA AuditUnwrap ==
  ASSUME IInv, CountersAudit, NEW u \in Users, NEW i \in Index, Unwrap(u, i)
  PROVE  CountersAudit'
<1>1. /\ vault' = ReleasedBooks(i).vault /\ NoUnderflow(ReleasedBooks(i))
      /\ vault \in VaultType
  BY DEF Unwrap, Write, IInv, TypeOK
<1>2. vault'.assets_outside >= 0
  BY <1>1 DEF NoUnderflow
<1>3. /\ vault'.next_seq = vault.next_seq
      /\ vault'.next_settle_seq = vault.next_settle_seq
      /\ vault'.pending_captures = vault.pending_captures
      /\ vault'.pending_rerolls = vault.pending_rerolls
      /\ vault'.assets_outside = vault.assets_outside - 1
      /\ vault'.total_captures = vault.total_captures
      /\ vault'.total_rerolls = vault.total_rerolls
      /\ vault'.total_unwraps = vault.total_unwraps + 1
      /\ vault'.total_expired = vault.total_expired
  BY <1>1, <1>2, ReleasedVaultType
<1>4. Numbers
  BY <1>1, CounterFacts
<1> QED BY <1>3, <1>4 DEF CountersAudit, Numbers

(* Every step keeps the audit.                                             *)
LEMMA AuditStep == IInv /\ CountersAudit /\ [Next]_vars => CountersAudit'
<1> SUFFICES ASSUME IInv, CountersAudit, [Next]_vars PROVE CountersAudit'
  OBVIOUS
<1>1. vault \in VaultType
  BY DEF IInv, TypeOK
<1>2. CASE OpenVault
  <2>1. vault' = [vault EXCEPT !.open = TRUE]
    BY <1>2 DEF OpenVault, Write, Books
  <2> QED BY <1>1, <2>1, AuditUntouched DEF VaultType
<1>3. CASE Request
  BY <1>3, AuditRequest DEF Request, RequestCapture, RequestReroll
<1>4. CASE Recommit
  <2>1. vault' = [vault EXCEPT !.total_recommits = @ + 1]
    BY <1>4 DEF Recommit, RecommitRandomness
  <2> QED BY <1>1, <2>1, AuditUntouched DEF VaultType
<1>5. CASE SettleHead
  BY <1>5, AuditSettle DEF SettleHead
<1>6. CASE ExpireRequest
  BY <1>6, AuditExpire DEF ExpireRequest
<1>7. CASE ExpireRequests
  <2>1. PICK n \in 1..MAX_EXPIRE_PER_CALL : ExpireHeads(n)
    BY <1>7 DEF ExpireRequests
  <2> QED BY <2>1, BoundAssumption, AuditExpire
<1>8. CASE \E u \in Users, i \in Index : Unwrap(u, i)
  BY <1>8, AuditUnwrap
<1>9. CASE \/ \E r \in RandAccounts : InitRandomness(r)
           \/ Reveal \/ Merge \/ Environment \/ UNCHANGED vars
  <2>1. vault' = vault
    BY <1>9 DEF InitRandomness, Reveal, RevealRandomness, Merge, MergeIncoming, Environment,
                Tick, TransferNft, Donate, Heartbeat, RotateQueue, UpgradeLaunch,
                accounts, vars
  <2> QED BY <2>1, AuditUntouched
<1> QED BY <1>2, <1>3, <1>4, <1>5, <1>6, <1>7, <1>8, <1>9 DEF Next

(* The counters that five handlers update by hand always balance: every    *)
(* request made is settled, expired or pending, and the NFTs outside or    *)
(* handed in are the captures that were not released.                      *)
THEOREM CountersAlwaysAudit == Spec => []CountersAudit
<1>1. Init => CountersAudit
  BY DEF Init, CountersAudit
<1>2. IInv /\ CountersAudit /\ [Next]_vars => CountersAudit'
  BY AuditStep
<1> QED BY <1>1, <1>2, Inductive, PTL DEF Spec

-----------------------------------------------------------------------------
(* No payment is larger than the claim it ends.                            *)

(* What the vault owes for, in units of the ratio.                         *)
Claims == vault.assets_outside + vault.pending_captures + vault.pending_rerolls

LEMMA SurplusFacts ==
  ASSUME TypeOK
  PROVE  /\ Claims \in Nat /\ vault_tokens \in Nat
         /\ Surplus = vault_tokens - Ratio * Claims /\ Surplus \in Int
<1>1. Claims \in Nat /\ vault_tokens \in Nat
  BY DEF Claims, TypeOK, VaultType
<1>2. Surplus = vault_tokens - Ratio * Claims
  BY DEF Surplus, Claims
<1>3. Ratio * Claims \in Nat
  BY <1>1, ConstantFacts
<1> QED BY <1>1, <1>2, <1>3

(* Tokens that move with the claims they stand for leave the surplus.      *)
LEMMA SurplusMoves ==
  ASSUME TypeOK, NEW n \in Int,
         Claims' = Claims + n, vault_tokens' = vault_tokens + Ratio * n
  PROVE  Surplus' = Surplus
<1>1. Surplus' = vault_tokens' - Ratio * Claims'
  BY DEF Surplus, Claims
<1>2. Ratio * (Claims + n) = Ratio * Claims + Ratio * n
  BY SurplusFacts, ConstantFacts
<1>3. Ratio * Claims \in Int /\ Ratio * n \in Int
  BY SurplusFacts, ConstantFacts
<1>4. (vault_tokens + Ratio * n) - (Ratio * Claims + Ratio * n) = vault_tokens - Ratio * Claims
  BY <1>3, SurplusFacts
<1> QED BY <1>1, <1>2, <1>4, SurplusFacts

(* A step that leaves the claims and the tokens alone leaves the surplus.  *)
LEMMA SurplusUntouched ==
  ASSUME vault'.assets_outside = vault.assets_outside,
         vault'.pending_captures = vault.pending_captures,
         vault'.pending_rerolls = vault.pending_rerolls,
         vault_tokens' = vault_tokens
  PROVE  Surplus' = Surplus
BY DEF Surplus

(* A capture pays for one claim; a re-roll's NFT was a claim already.      *)
LEMMA SurplusRequest ==
  ASSUME IInv, NEW kind \in {"capture", "reroll"}, Write(RequestedBooks(kind))
  PROVE  Surplus' = Surplus
<1>1. /\ vault \in VaultType /\ TypeOK /\ vault' = RequestedVault(kind)
      /\ NoUnderflow(RequestedBooks(kind))
      /\ vault_tokens' = IF kind = "capture" THEN vault_tokens + Ratio ELSE vault_tokens
  BY DEF IInv, TypeOK, Write, RequestedBooks, Books
<1>2. vault'.assets_outside >= 0
  BY <1>1 DEF NoUnderflow, RequestedBooks, Books
<1>3. Numbers
  BY <1>1, CounterFacts
<1>4. CASE kind = "capture"
  <2>1. /\ vault'.pending_captures = vault.pending_captures + 1
        /\ vault'.pending_rerolls = vault.pending_rerolls
        /\ vault'.assets_outside = vault.assets_outside
    BY <1>1, <1>2, <1>4, RequestedVaultType
  <2>2. Claims' = Claims + 1
    BY <1>3, <2>1 DEF Claims, Numbers
  <2>3. vault_tokens' = vault_tokens + Ratio * 1
    BY <1>1, <1>4, ConstantFacts
  <2> QED BY <1>1, <2>2, <2>3, SurplusMoves
<1>5. CASE kind = "reroll"
  <2>1. /\ vault'.pending_captures = vault.pending_captures
        /\ vault'.pending_rerolls = vault.pending_rerolls + 1
        /\ vault'.assets_outside = vault.assets_outside - 1
    BY <1>1, <1>2, <1>5, RequestedVaultType
  <2>2. Claims' = Claims + 0
    BY <1>3, <2>1 DEF Claims, Numbers
  <2>3. vault_tokens' = vault_tokens + Ratio * 0
    BY <1>1, <1>5, ConstantFacts, SurplusFacts
  <2> QED BY <1>1, <2>2, <2>3, SurplusMoves
<1> QED BY <1>4, <1>5

(* A settle turns a pending claim into an NFT outside and moves no token.  *)
LEMMA SurplusSettle ==
  ASSUME IInv, NEW k \in 0..incoming_len(pool), Settle(k)
  PROVE  Surplus' = Surplus
<1> DEFINE kind == requests[HeadSeq].kind
           mint == PickedIndex(k) \notin pool.minted
<1>1. /\ SettleRefusals(k) /\ pool_len(Merged(pool, k)) > 0
      /\ NoUnderflow(SettledBooks(k)) /\ vault' = SettledBooks(k).vault
      /\ vault_tokens' = SettledBooks(k).tokens
  BY DEF Settle, Write
<1>2. HeadSeq \in Pending /\ vault \in VaultType /\ TypeOK
  BY <1>1 DEF IInv, TypeOK, SettleRefusals
<1>3. kind \in {"capture", "reroll"}
  BY <1>2, HeadFacts, RequestFacts
<1>4. vault' = SettledVault(kind, mint) /\ vault_tokens' = vault_tokens
  BY <1>1, SettledPoolType
<1>5. vault'.pending_captures >= 0 /\ vault'.pending_rerolls >= 0
  BY <1>1 DEF NoUnderflow
<1>6. mint \in BOOLEAN
  OBVIOUS
<1> HIDE DEF mint, kind
<1>7. /\ vault'.assets_outside = vault.assets_outside + 1
      /\ kind = "capture" => /\ vault'.pending_captures = vault.pending_captures - 1
                             /\ vault'.pending_rerolls = vault.pending_rerolls
      /\ kind = "reroll" => /\ vault'.pending_captures = vault.pending_captures
                            /\ vault'.pending_rerolls = vault.pending_rerolls - 1
  BY <1>2, <1>3, <1>4, <1>5, <1>6, SettledVaultType
<1>8. Numbers
  BY <1>2, CounterFacts
<1>9. Claims' = Claims + 0
  <2>1. CASE kind = "capture"
    BY <1>7, <1>8, <2>1 DEF Claims, Numbers
  <2>2. CASE kind = "reroll"
    BY <1>7, <1>8, <2>2 DEF Claims, Numbers
  <2> QED BY <1>3, <2>1, <2>2
<1>10. vault_tokens' = vault_tokens + Ratio * 0
  BY <1>2, <1>4, ConstantFacts, SurplusFacts
<1> QED BY <1>2, <1>9, <1>10, SurplusMoves

(* An expiry pays the captures of the batch and nobody else.               *)
LEMMA SurplusExpire ==
  ASSUME IInv, NEW n \in Nat \ {0}, ExpireHeads(n)
  PROVE  Surplus' = Surplus
<1> DEFINE c == Cardinality(ExpiredOf(n, "capture"))
           d == Cardinality(ExpiredOf(n, "reroll"))
<1>1. HeadSeq..(HeadSeq + n - 1) \subseteq Pending /\ TypeOK /\ vault \in VaultType
  BY DEF ExpireHeads, ExpireRefusals, IInv, TypeOK
<1>2. /\ vault' = ExpiredVault(n) /\ vault'.pending_captures >= 0
      /\ vault'.pending_rerolls >= 0 /\ vault_tokens' = vault_tokens - Ratio * c
  BY DEF ExpireHeads, Write, NoUnderflow, ExpiredBooks, Books
<1>3. c \in Nat /\ d \in Nat
  BY <1>1, ExpiredCounts
<1>4. /\ vault'.pending_captures = vault.pending_captures - c
      /\ vault'.pending_rerolls = vault.pending_rerolls - d
      /\ vault'.assets_outside = vault.assets_outside + d
  BY <1>1, <1>2, <1>3, ExpiredVaultType
<1>5. Numbers
  BY <1>1, CounterFacts
<1> HIDE DEF c, d
<1>6. Claims' = Claims + (0 - c)
  <2>1. (vault.assets_outside + d) + (vault.pending_captures - c) + (vault.pending_rerolls - d)
          = Claims + (0 - c)
    BY <1>3, <1>5 DEF Claims, Numbers
  <2> QED BY <1>4, <2>1 DEF Claims
<1>7. vault_tokens' = vault_tokens + Ratio * (0 - c)
  <2>1. Ratio * (0 - c) = 0 - Ratio * c /\ Ratio * c \in Int
    BY <1>3, ConstantFacts
  <2> QED BY <1>1, <1>2, <2>1, SurplusFacts
<1> QED BY <1>1, <1>3, <1>6, <1>7, SurplusMoves

(* A release pays one ratio for the one claim it ends.                     *)
LEMMA SurplusUnwrap ==
  ASSUME IInv, NEW u \in Users, NEW i \in Index, Unwrap(u, i)
  PROVE  Surplus' = Surplus
<1>1. /\ vault' = ReleasedBooks(i).vault /\ NoUnderflow(ReleasedBooks(i))
      /\ vault_tokens' = vault_tokens - Ratio
      /\ vault \in VaultType /\ TypeOK
  BY DEF Unwrap, Write, ReleasedBooks, Books, IInv, TypeOK
<1>2. vault'.assets_outside >= 0
  BY <1>1 DEF NoUnderflow
<1>3. /\ vault'.pending_captures = vault.pending_captures
      /\ vault'.pending_rerolls = vault.pending_rerolls
      /\ vault'.assets_outside = vault.assets_outside - 1
  BY <1>1, <1>2, ReleasedVaultType
<1>4. Numbers
  BY <1>1, CounterFacts
<1>5. Claims' = Claims + (0 - 1)
  BY <1>3, <1>4 DEF Claims, Numbers
<1>6. vault_tokens' = vault_tokens + Ratio * (0 - 1)
  BY <1>1, ConstantFacts, SurplusFacts
<1> QED BY <1>1, <1>5, <1>6, SurplusMoves

(* Every step keeps the surplus; only a donation adds to it.               *)
LEMMA SurplusStep == IInv /\ [Next]_vars => Surplus' >= Surplus
<1> SUFFICES ASSUME IInv, [Next]_vars PROVE Surplus' >= Surplus
  OBVIOUS
<1>1. vault \in VaultType /\ TypeOK
  BY DEF IInv, TypeOK
<1>2. Surplus \in Int
  BY <1>1, SurplusFacts
<1>3. CASE OpenVault
  <2>1. vault' = [vault EXCEPT !.open = TRUE] /\ vault_tokens' = vault_tokens
    BY <1>3 DEF OpenVault, Write, Books
  <2>2. /\ vault'.assets_outside = vault.assets_outside
        /\ vault'.pending_captures = vault.pending_captures
        /\ vault'.pending_rerolls = vault.pending_rerolls
    BY <1>1, <2>1 DEF VaultType
  <2>3. Surplus' = Surplus
    BY <2>1, <2>2, SurplusUntouched
  <2> QED BY <1>2, <2>3
<1>4. CASE Request
  BY <1>2, <1>4, SurplusRequest DEF Request, RequestCapture, RequestReroll
<1>5. CASE Recommit
  <2>1. vault' = [vault EXCEPT !.total_recommits = @ + 1] /\ vault_tokens' = vault_tokens
    BY <1>5 DEF Recommit, RecommitRandomness
  <2>2. /\ vault'.assets_outside = vault.assets_outside
        /\ vault'.pending_captures = vault.pending_captures
        /\ vault'.pending_rerolls = vault.pending_rerolls
    BY <1>1, <2>1 DEF VaultType
  <2>3. Surplus' = Surplus
    BY <2>1, <2>2, SurplusUntouched
  <2> QED BY <1>2, <2>3
<1>6. CASE SettleHead
  BY <1>2, <1>6, SurplusSettle DEF SettleHead
<1>7. CASE ExpireRequest
  BY <1>2, <1>7, SurplusExpire DEF ExpireRequest
<1>8. CASE ExpireRequests
  <2>1. PICK n \in 1..MAX_EXPIRE_PER_CALL : ExpireHeads(n)
    BY <1>8 DEF ExpireRequests
  <2> QED BY <1>2, <2>1, BoundAssumption, SurplusExpire
<1>9. CASE \E u \in Users, i \in Index : Unwrap(u, i)
  BY <1>2, <1>9, SurplusUnwrap
<1>10. CASE \E u \in Users : Donate(u)
  <2>1. vault' = vault /\ vault_tokens' = vault_tokens + 1
    BY <1>10 DEF Donate
  <2>2. Surplus' = Surplus + 1
    <3>1. Surplus' = (vault_tokens + 1) - Ratio * Claims
      BY <2>1 DEF Surplus, Claims
    <3>2. Ratio * Claims \in Int
      BY <1>1, SurplusFacts, ConstantFacts
    <3> QED BY <1>1, <3>1, <3>2, SurplusFacts
  <2> QED BY <1>2, <2>2
<1>11. CASE \/ \E r \in RandAccounts : InitRandomness(r)
            \/ Reveal \/ Merge \/ UNCHANGED vars
            \/ Environment /\ ~ \E u \in Users : Donate(u)
  <2>1. vault' = vault /\ vault_tokens' = vault_tokens
    BY <1>11 DEF InitRandomness, Reveal, RevealRandomness, Merge, MergeIncoming, Environment,
                 Tick, TransferNft, Heartbeat, RotateQueue, UpgradeLaunch, accounts, vars
  <2>2. Surplus' = Surplus
    BY <2>1, SurplusUntouched
  <2> QED BY <1>2, <2>2
<1> QED BY <1>3, <1>4, <1>5, <1>6, <1>7, <1>8, <1>9, <1>10, <1>11 DEF Next

(* request, settle, expire, batch expire and unwrap never pay out more     *)
(* tokens than the claims they end are worth.                              *)
THEOREM SurplusIsKept == Spec => SurplusNeverSpent
BY SurplusStep, Inductive, PTL DEF Spec, SurplusNeverSpent

-----------------------------------------------------------------------------
(* The accounts of a pending request agree.                                *)

(* What RandomnessAgrees says of one request.                              *)
AgreesAbout(s) ==
  LET req == requests[s]
  IN  /\ req.randomness \in DOMAIN randomness
      /\ rand_lock[req.randomness] = s
      /\ randomness[req.randomness].seed_slot = req.seed_slot
      /\ req.seed_slot < slot
      /\ randomness[req.randomness].oracle = req.oracles[commits(req)]
      /\ req.revealed <=> is_revealed(randomness[req.randomness], req.seed_slot)
      /\ req.revealed => req.value = randomness[req.randomness].value

LEMMA AgreesSplit ==
  RandomnessAgrees <=> /\ escrow = Pending
                       /\ DOMAIN rand_lock = {requests[s].randomness : s \in Pending}
                       /\ \A s \in Pending : AgreesAbout(s)
BY DEF RandomnessAgrees, AgreesAbout

(* A step that leaves a request and its accounts alone leaves them agreed. *)
LEMMA AgreesKept ==
  ASSUME TypeOK, NEW s, AgreesAbout(s), requests'[s] = requests[s],
         rand_lock'[requests[s].randomness] = rand_lock[requests[s].randomness],
         requests[s].randomness \in DOMAIN randomness',
         randomness'[requests[s].randomness] = randomness[requests[s].randomness],
         slot' = slot \/ slot' = slot + 1, requests[s].seed_slot \in Nat
  PROVE  AgreesAbout(s)'
<1>1. slot \in Nat
  BY DEF TypeOK
<1>2. requests[s].seed_slot < slot'
  BY <1>1 DEF AgreesAbout
<1> QED BY <1>2 DEF AgreesAbout, is_revealed, commits

(* A step of the clock, of the counters or of another's account.           *)
LEMMA AgreesUntouched ==
  ASSUME TypeOK, RandomnessAgrees, Pending' = Pending, requests' = requests,
         rand_lock' = rand_lock, escrow' = escrow,
         \A r \in DOMAIN randomness :
           r \in DOMAIN randomness' /\ randomness'[r] = randomness[r],
         slot' = slot \/ slot' = slot + 1
  PROVE  RandomnessAgrees'
<1>1. ASSUME NEW s \in Pending
      PROVE  AgreesAbout(s)'
  <2>1. AgreesAbout(s) /\ requests[s].randomness \in DOMAIN randomness
    BY <1>1, AgreesSplit DEF AgreesAbout
  <2>2. requests[s].seed_slot \in Nat
    BY <1>1, QueueFacts, RequestFacts
  <2> QED BY <2>1, <2>2, AgreesKept
<1> QED BY <1>1 DEF RandomnessAgrees, AgreesAbout

(* No two pending requests wait for the same account.                      *)
LEMMA AccountsApart ==
  ASSUME RandomnessAgrees, NEW s \in Pending, NEW t \in Pending,
         requests[s].randomness = requests[t].randomness
  PROVE  s = t
BY DEF RandomnessAgrees

(* finish_request: an account that no pending request waits for is         *)
(* committed to and locked; no other account is touched.                   *)
LEMMA AgreesRequest ==
  ASSUME IInv, RandomnessAgrees, NEW kind \in {"capture", "reroll"}, NEW u \in Users,
         NEW r \in RandAccounts, NEW oracle \in Oracles,
         NEW h \in Index \cup {NoHandedIn},
         RequestRefusals(r, oracle), OpenRequest(kind, u, r, oracle, h),
         vault' = RequestedVault(kind), slot' = slot
  PROVE  RandomnessAgrees'
<1>0. PICK seq \in Nat : seq = vault.next_seq
  BY QueueFacts DEF IInv
<1> DEFINE req == NewRequest(kind, u, r, oracle, h)
<1>1. TypeOK /\ slot \in Nat \ {0}
  BY DEF IInv, TypeOK
<1>2. /\ r \notin DOMAIN rand_lock /\ r \in DOMAIN randomness
      /\ IsFreshCommit(SbCommit(randomness[r], oracle, slot), slot)
  BY DEF RequestRefusals, CanCommit
<1>3. /\ Pending' = Pending \cup {seq} /\ seq \notin Pending
      /\ requests'[seq] = req /\ \A s \in Pending : requests'[s] = requests[s]
  BY <1>0, <1>1, OpenRequestType
<1>4. /\ rand_lock' = [x \in DOMAIN rand_lock \cup {r} |->
                         IF x = r THEN seq ELSE rand_lock[x]]
      /\ escrow' = escrow \cup {seq} /\ randomness' = Committed(r, oracle)
  BY <1>0 DEF OpenRequest
<1>5. /\ DOMAIN randomness' = DOMAIN randomness
      /\ randomness'[r].seed_slot = slot - 1 /\ randomness'[r].oracle = oracle
      /\ \A x \in DOMAIN randomness : x # r => randomness'[x] = randomness[x]
  BY <1>1, <1>2, <1>4, CommittedType
<1>6. randomness'[r] = SbCommit(randomness[r], oracle, slot)
  BY <1>2, <1>4 DEF Committed
<1>7. /\ req.randomness = r /\ req.seed_slot = slot - 1 /\ ~req.revealed
      /\ req.oracles = <<oracle>>
  BY <1>4, <1>5 DEF NewRequest
<1> HIDE DEF req
<1>8. AgreesAbout(seq)'
  <2>1. randomness'[r].reveal_slot <= randomness'[r].seed_slot
    BY <1>2, <1>6 DEF IsFreshCommit
  <2>2. randomness'[r].reveal_slot \in Nat
    BY <1>1, <1>2, <1>4, CommittedType DEF TypeOK, RandomnessType
  <2>3. ~is_revealed(randomness'[r], slot - 1)
    BY <1>1, <1>5, <2>1, <2>2 DEF is_revealed
  <2>4. rand_lock'[r] = seq
    BY <1>4
  <2>5. req.oracles[Len(req.oracles)] = oracle
    BY <1>7
  <2> QED BY <1>1, <1>2, <1>3, <1>5, <1>7, <2>3, <2>4, <2>5 DEF AgreesAbout, commits
<1>9. ASSUME NEW s \in Pending
      PROVE  AgreesAbout(s)'
  <2>1. AgreesAbout(s) /\ requests[s].randomness \in DOMAIN rand_lock
    BY <1>9, AgreesSplit
  <2>2. requests[s].randomness # r /\ requests[s].randomness \in DOMAIN randomness
    BY <1>2, <2>1 DEF AgreesAbout
  <2>3. rand_lock'[requests[s].randomness] = rand_lock[requests[s].randomness]
    BY <1>4, <2>1, <2>2
  <2>4. requests[s].seed_slot \in Nat
    BY <1>1, <1>9, QueueFacts, RequestFacts
  <2> QED BY <1>1, <1>3, <1>5, <1>9, <2>1, <2>2, <2>3, <2>4, AgreesKept
<1>10. DOMAIN rand_lock' = {requests'[s].randomness : s \in Pending'}
  <2>1. DOMAIN rand_lock = {requests[s].randomness : s \in Pending}
    BY AgreesSplit
  <2>2. DOMAIN rand_lock' = DOMAIN rand_lock \cup {r}
    BY <1>4
  <2> QED BY <1>3, <1>7, <2>1, <2>2
<1>11. escrow' = Pending'
  BY <1>3, <1>4 DEF RandomnessAgrees
<1> QED BY <1>3, <1>8, <1>9, <1>10, <1>11 DEF RandomnessAgrees, AgreesAbout

(* A reveal or a re-commit changes one request and its own account.        *)
LEMMA AgreesOneChanged ==
  ASSUME TypeOK, RandomnessAgrees, NEW s \in Pending, Pending' = Pending,
         \A t \in Pending : t # s => requests'[t] = requests[t],
         requests'[s].randomness = requests[s].randomness,
         UNCHANGED <<rand_lock, escrow, slot>>,
         DOMAIN randomness' = DOMAIN randomness,
         \A r \in DOMAIN randomness :
           r # requests[s].randomness => randomness'[r] = randomness[r],
         AgreesAbout(s)'
  PROVE  RandomnessAgrees'
<1>1. ASSUME NEW t \in Pending, t # s
      PROVE  AgreesAbout(t)'
  <2>1. AgreesAbout(t) /\ requests[t].randomness \in DOMAIN randomness
    BY <1>1, AgreesSplit DEF AgreesAbout
  <2>2. requests[t].randomness # requests[s].randomness
    BY <1>1, AccountsApart
  <2>3. requests[t].seed_slot \in Nat
    BY <1>1, QueueFacts, RequestFacts
  <2> QED BY <1>1, <2>1, <2>2, <2>3, AgreesKept
<1>2. \A t \in Pending : requests'[t].randomness = requests[t].randomness
  OBVIOUS
<1>3. DOMAIN rand_lock' = {requests'[t].randomness : t \in Pending'}
  BY <1>2 DEF RandomnessAgrees
<1>4. escrow' = Pending'
  BY DEF RandomnessAgrees
<1>5. \A t \in Pending' : AgreesAbout(t)'
  BY <1>1
<1> QED BY <1>3, <1>4, <1>5 DEF RandomnessAgrees, AgreesAbout

(* reveal_randomness records the value of the account at the same time.    *)
LEMMA AgreesReveal ==
  ASSUME IInv, RandomnessAgrees, NEW s \in Pending, NEW value \in Values,
         RevealRandomness(s, value)
  PROVE  RandomnessAgrees'
<1> DEFINE r == requests[s].randomness
<1>1. TypeOK /\ requests[s] \in RequestType /\ requests \in [Pending -> RequestType]
  BY QueueFacts DEF IInv, TypeOK
<1>2. /\ randomness' = [randomness EXCEPT ![r] = SbReveal(@, value, slot)]
      /\ requests' = [requests EXCEPT ![s].revealed = TRUE, ![s].value = value]
      /\ is_revealed(SbReveal(randomness[r], value, slot), requests[s].seed_slot)
      /\ UNCHANGED <<accounts, rand_lock, escrow, world>>
  BY DEF RevealRandomness
<1>3. AgreesAbout(s) /\ r \in DOMAIN randomness
  BY AgreesSplit DEF AgreesAbout
<1>4. Pending' = Pending /\ slot' = slot
  BY <1>2 DEF Pending, accounts, world
<1>5. randomness[r] \in RandomnessType
  BY <1>1, <1>3 DEF TypeOK
<1>6. /\ randomness'[r] = SbReveal(randomness[r], value, slot)
      /\ randomness'[r].seed_slot = randomness[r].seed_slot
      /\ randomness'[r].oracle = randomness[r].oracle /\ randomness'[r].value = value
      /\ DOMAIN randomness' = DOMAIN randomness
      /\ \A x \in DOMAIN randomness : x # r => randomness'[x] = randomness[x]
  BY <1>2, <1>3, <1>5 DEF SbReveal, RandomnessType
<1>7. /\ requests'[s].revealed = TRUE /\ requests'[s].value = value
      /\ requests'[s].randomness = r /\ requests'[s].seed_slot = requests[s].seed_slot
      /\ requests'[s].oracles = requests[s].oracles
      /\ \A t \in Pending : t # s => requests'[t] = requests[t]
  BY <1>1, <1>2 DEF RequestType
<1>8. AgreesAbout(s)'
  BY <1>2, <1>3, <1>4, <1>6, <1>7 DEF AgreesAbout, commits
<1> QED BY <1>1, <1>2, <1>4, <1>6, <1>7, <1>8, AgreesOneChanged

(* recommit_randomness replaces the commit in both places.                 *)
LEMMA AgreesRecommit ==
  ASSUME IInv, RandomnessAgrees, NEW s \in Pending, NEW oracle \in Oracles,
         RecommitRandomness(s, oracle)
  PROVE  RandomnessAgrees'
<1> DEFINE r == requests[s].randomness
<1>1. TypeOK /\ requests[s] \in RequestType /\ requests \in [Pending -> RequestType]
      /\ slot \in Nat \ {0}
  BY QueueFacts DEF IInv, TypeOK
<1>2. /\ randomness' = Committed(r, oracle) /\ r \in DOMAIN randomness
      /\ requests' = [requests EXCEPT ![s] = Recommitted(requests[s], oracle)]
      /\ vault' = [vault EXCEPT !.total_recommits = @ + 1]
      /\ IsFreshCommit(SbCommit(randomness[r], oracle, slot), slot)
      /\ ~requests[s].revealed
      /\ UNCHANGED <<rand_lock, escrow, world>>
  BY DEF RecommitRandomness, CanCommit, MayRecommit
<1>3. Pending' = Pending /\ slot' = slot
  BY <1>2 DEF Pending, IInv, TypeOK, VaultType, world
<1>4. /\ DOMAIN randomness' = DOMAIN randomness
      /\ randomness'[r].seed_slot = slot - 1 /\ randomness'[r].oracle = oracle
      /\ randomness'[r].reveal_slot = randomness[r].reveal_slot
      /\ \A x \in DOMAIN randomness : x # r => randomness'[x] = randomness[x]
  BY <1>1, <1>2, CommittedType
<1>5. ~is_revealed(randomness'[r], slot - 1)
  <2>1. randomness'[r] = SbCommit(randomness[r], oracle, slot)
    BY <1>2 DEF Committed
  <2>2. randomness'[r].reveal_slot <= randomness'[r].seed_slot
    BY <1>2, <2>1 DEF IsFreshCommit
  <2>3. randomness'[r].reveal_slot \in Nat
    BY <1>1, <1>2, <1>4 DEF TypeOK, RandomnessType
  <2> QED BY <1>1, <1>4, <2>2, <2>3 DEF is_revealed
<1>6. /\ requests'[s].randomness = r /\ requests'[s].seed_slot = slot - 1
      /\ requests'[s].oracles = Append(requests[s].oracles, oracle)
      /\ ~requests'[s].revealed
      /\ \A t \in Pending : t # s => requests'[t] = requests[t]
  <2>1. requests'[s] = Recommitted(requests[s], oracle)
    BY <1>1, <1>2
  <2>2. Committed(r, oracle)[r].seed_slot = slot - 1
    BY <1>1, <1>2, CommittedType
  <2>3. requests[s].revealed \in BOOLEAN
    BY <1>1, RequestFacts
  <2>4. /\ Recommitted(requests[s], oracle).randomness = r
        /\ Recommitted(requests[s], oracle).seed_slot = slot - 1
        /\ Recommitted(requests[s], oracle).oracles = Append(requests[s].oracles, oracle)
        /\ Recommitted(requests[s], oracle).revealed = requests[s].revealed
    BY <1>1, <2>2 DEF Recommitted, RequestType
  <2>5. \A t \in Pending : t # s => requests'[t] = requests[t]
    BY <1>1, <1>2
  <2> QED BY <1>2, <2>1, <2>4, <2>5
<1>7. requests'[s].oracles[Len(requests'[s].oracles)] = oracle
  <2>1. requests[s].oracles \in Seq(Oracles)
    BY <1>1, RequestFacts
  <2>2. /\ Len(requests'[s].oracles) = Len(requests[s].oracles) + 1
        /\ requests'[s].oracles[Len(requests[s].oracles) + 1] = oracle
    BY <1>6, <2>1, AppendProperties
  <2> QED BY <2>2
<1>8. AgreesAbout(s)'
  <2>1. rand_lock'[r] = s
    BY <1>2, AgreesSplit DEF AgreesAbout
  <2>2. slot - 1 < slot'
    BY <1>1, <1>3
  <2> QED BY <1>2, <1>4, <1>5, <1>6, <1>7, <2>1, <2>2 DEF AgreesAbout, commits
<1> QED BY <1>1, <1>2, <1>3, <1>4, <1>6, <1>8, AgreesOneChanged

(* settle and expire close requests, their locks and their escrows alike.  *)
LEMMA AgreesClose ==
  ASSUME TypeOK, RandomnessAgrees, NEW n \in Nat, HeadSeq..(HeadSeq + n - 1) \subseteq Pending,
         CloseRequests(HeadSeq..(HeadSeq + n - 1)),
         vault'.next_seq = vault.next_seq,
         vault'.next_settle_seq = vault.next_settle_seq + n,
         UNCHANGED <<randomness, slot>>
  PROVE  RandomnessAgrees'
<1> DEFINE heads == HeadSeq..(HeadSeq + n - 1)
<1>1. /\ Pending' = Pending \ heads
      /\ \A s \in Pending' : s \in Pending /\ requests'[s] = requests[s]
  BY CloseRequestsType
<1>2. /\ rand_lock' = [r \in DOMAIN rand_lock \ {requests[s].randomness : s \in heads}
                         |-> rand_lock[r]]
      /\ escrow' = escrow \ heads
  BY DEF CloseRequests
<1> HIDE DEF heads
<1>3. ASSUME NEW s \in Pending'
      PROVE  /\ requests[s].randomness \in DOMAIN rand_lock'
             /\ rand_lock'[requests[s].randomness] = rand_lock[requests[s].randomness]
             /\ AgreesAbout(s)'
  <2>1. s \in Pending /\ s \notin heads /\ requests'[s] = requests[s]
    BY <1>1, <1>3
  <2>2. AgreesAbout(s) /\ requests[s].randomness \in DOMAIN rand_lock
    BY <2>1, AgreesSplit
  <2>3. requests[s].randomness \notin {requests[t].randomness : t \in heads}
    BY <2>1, AccountsApart DEF heads
  <2>4. /\ requests[s].randomness \in DOMAIN rand_lock'
        /\ rand_lock'[requests[s].randomness] = rand_lock[requests[s].randomness]
    BY <1>2, <2>2, <2>3
  <2>5. requests[s].randomness \in DOMAIN randomness' /\ requests[s].seed_slot \in Nat
    BY <2>1, <2>2, QueueFacts, RequestFacts DEF AgreesAbout
  <2> QED BY <2>1, <2>2, <2>4, <2>5, AgreesKept
<1>4. DOMAIN rand_lock' = {requests'[s].randomness : s \in Pending'}
  <2>1. DOMAIN rand_lock = {requests[s].randomness : s \in Pending}
    BY AgreesSplit
  <2>2. DOMAIN rand_lock' = DOMAIN rand_lock \ {requests[s].randomness : s \in heads}
    BY <1>2
  <2>3. DOMAIN rand_lock' \subseteq {requests'[s].randomness : s \in Pending'}
    BY <1>1, <2>1, <2>2
  <2>4. {requests'[s].randomness : s \in Pending'} \subseteq DOMAIN rand_lock'
    BY <1>1, <1>3
  <2> QED BY <2>3, <2>4
<1>5. escrow' = Pending'
  BY <1>1, <1>2 DEF RandomnessAgrees
<1> QED BY <1>3, <1>4, <1>5 DEF RandomnessAgrees, AgreesAbout

LEMMA AgreesSettle ==
  ASSUME IInv, RandomnessAgrees, NEW k \in 0..incoming_len(pool), Settle(k)
  PROVE  RandomnessAgrees'
<1>1. /\ CloseRequests({HeadSeq}) /\ UNCHANGED <<randomness, world>>
      /\ HeadSeq \in Pending /\ TypeOK /\ HeadSeq \in Nat
  BY QueueFacts DEF Settle, SettleRefusals, IInv
<1>2. /\ vault'.next_seq = vault.next_seq
      /\ vault'.next_settle_seq = vault.next_settle_seq + 1
  BY SettleCounts
<1>3. HeadSeq..(HeadSeq + 1 - 1) = {HeadSeq}
  BY <1>1
<1> QED BY <1>1, <1>2, <1>3, AgreesClose DEF world

LEMMA AgreesExpire ==
  ASSUME IInv, RandomnessAgrees, NEW n \in Nat \ {0}, ExpireHeads(n)
  PROVE  RandomnessAgrees'
<1>1. /\ HeadSeq..(HeadSeq + n - 1) \subseteq Pending
      /\ CloseRequests(HeadSeq..(HeadSeq + n - 1)) /\ UNCHANGED <<randomness, world>>
      /\ TypeOK /\ vault \in VaultType
  BY DEF ExpireHeads, ExpireRefusals, IInv, TypeOK
<1>2. /\ vault' = ExpiredVault(n) /\ vault'.pending_captures >= 0
      /\ vault'.pending_rerolls >= 0
  BY DEF ExpireHeads, Write, NoUnderflow, ExpiredBooks, Books
<1>3. /\ vault'.next_seq = vault.next_seq
      /\ vault'.next_settle_seq = vault.next_settle_seq + n
  BY <1>1, <1>2, ExpiredCounts, ExpiredVaultType
<1> QED BY <1>1, <1>3, AgreesClose DEF world

LEMMA AgreesStep == IInv /\ RandomnessAgrees /\ [Next]_vars => RandomnessAgrees'
<1> SUFFICES ASSUME IInv, RandomnessAgrees, [Next]_vars PROVE RandomnessAgrees'
  OBVIOUS
<1>0. TypeOK /\ vault \in VaultType
  BY DEF IInv, TypeOK
<1>1. CASE OpenVault
  <2>1. /\ vault' = [vault EXCEPT !.open = TRUE] /\ UNCHANGED <<draws, world>>
    BY <1>1 DEF OpenVault, Write, Books
  <2>2. Pending' = Pending
    BY <1>0, <2>1 DEF Pending, VaultType
  <2> QED BY <1>0, <2>1, <2>2, AgreesUntouched DEF draws, world
<1>2. CASE Request
  <2>1. PICK r \in RandAccounts, oracle \in Oracles, u \in Users :
          \/ RequestCapture(u, r, oracle)
          \/ \E i \in Index : RequestReroll(u, i, r, oracle)
    BY <1>2 DEF Request
  <2>2. PICK kind \in {"capture", "reroll"}, h \in Index \cup {NoHandedIn} :
          /\ RequestRefusals(r, oracle) /\ OpenRequest(kind, u, r, oracle, h)
          /\ vault' = RequestedVault(kind) /\ UNCHANGED world
    BY <2>1 DEF RequestCapture, RequestReroll, Write, RequestedBooks, Books
  <2> QED BY <2>2, AgreesRequest DEF world
<1>3. CASE \E r \in RandAccounts : InitRandomness(r)
  <2>1. PICK r \in RandAccounts : InitRandomness(r)
    BY <1>3
  <2>2. /\ r \notin DOMAIN randomness
        /\ randomness' = [x \in DOMAIN randomness \cup {r} |->
                            IF x = r THEN FreshAccount ELSE randomness[x]]
        /\ UNCHANGED <<accounts, requests, rand_lock, escrow, world>>
    BY <2>1 DEF InitRandomness
  <2>3. Pending' = Pending
    BY <2>2 DEF Pending, accounts
  <2> QED BY <1>0, <2>2, <2>3, AgreesUntouched DEF world
<1>4. CASE Reveal
  BY <1>4, AgreesReveal DEF Reveal
<1>5. CASE Recommit
  BY <1>5, AgreesRecommit DEF Recommit
<1>6. CASE SettleHead
  BY <1>6, AgreesSettle DEF SettleHead
<1>7. CASE ExpireRequest
  BY <1>7, AgreesExpire DEF ExpireRequest
<1>8. CASE ExpireRequests
  <2>1. PICK n \in 1..MAX_EXPIRE_PER_CALL : ExpireHeads(n)
    BY <1>8 DEF ExpireRequests
  <2> QED BY <2>1, BoundAssumption, AgreesExpire
<1>9. CASE \E u \in Users, i \in Index : Unwrap(u, i)
  <2>1. PICK u \in Users, i \in Index : Unwrap(u, i)
    BY <1>9
  <2>2. /\ vault' = ReleasedBooks(i).vault /\ NoUnderflow(ReleasedBooks(i))
        /\ UNCHANGED <<draws, world>>
    BY <2>1 DEF Unwrap, Write
  <2>3. vault'.assets_outside >= 0
    BY <2>2 DEF NoUnderflow
  <2>4. vault'.next_seq = vault.next_seq /\ vault'.next_settle_seq = vault.next_settle_seq
    BY <1>0, <2>2, <2>3, ReleasedVaultType
  <2>5. Pending' = Pending
    BY <2>4 DEF Pending
  <2> QED BY <1>0, <2>2, <2>5, AgreesUntouched DEF draws, world
<1>10. CASE Merge \/ Environment \/ UNCHANGED vars
  <2>1. /\ vault' = vault /\ UNCHANGED draws /\ (slot' = slot \/ slot' = slot + 1)
    BY <1>10 DEF Merge, MergeIncoming, Environment, Tick, TransferNft, Donate, Heartbeat,
                 RotateQueue, UpgradeLaunch, accounts, draws, world, vars
  <2>2. Pending' = Pending
    BY <2>1 DEF Pending
  <2> QED BY <1>0, <2>1, <2>2, AgreesUntouched DEF draws
<1> QED BY <1>1, <1>2, <1>3, <1>4, <1>5, <1>6, <1>7, <1>8, <1>9, <1>10 DEF Next

(* Every pending request has its own randomness account, its lock and its  *)
(* escrow; the account carries its last commit, and no reveal is ever left *)
(* in Switchboard that the request has not recorded, nor the reverse.      *)
THEOREM RandomnessAlwaysAgrees == Spec => []RandomnessAgrees
<1>1. Init => RandomnessAgrees
  <2>1. Init => Pending = {}
    BY DEF Init, Pending
  <2> QED BY <2>1 DEF Init, RandomnessAgrees
<1>2. IInv /\ RandomnessAgrees /\ [Next]_vars => RandomnessAgrees'
  BY AgreesStep
<1> QED BY <1>1, <1>2, Inductive, PTL DEF Spec

=============================================================================
