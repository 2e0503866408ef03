--------------------------- MODULE TraitCommitment ---------------------------
(* merkle.rs and check_leaf of asset_source.rs: the creator commits at
   init_vault to a root, any 32 bytes; settle draws an asset, and the settler who
   mints it supplies what its leaf was made of and a proof, from which the
   asset's URI is set.  The pool is that of a first mint: untouched, so that the
   position that uniform_below draws is the asset's index.

   Hashes are terms, so that two are equal only when their preimages are; what
   is hashed is a tuple that starts with the domain, like the code's 0x00 and
   0x01 bytes.  A payload stands for the trait values, salt, digests and URI, of
   which check_leaf asks two things.  Nobody asks them at init_vault, which sees
   the root alone: build hashes a leaf with any URI.                         *)
EXTENDS Selection, Sequences, FiniteSets

CONSTANTS Sizes,              \* sizes of the collections
          Payloads,           \* what a settler may claim a leaf is made of
          ShortUris,          \* payloads whose URI has at most MAX_URI_LEN bytes
          AddressedUris,      \* payloads whose URI is_content_addressed
          Roots,              \* hashes that creators who do not use build commit to
          MAX_MERKLE_DEPTH    \* the longest proof, 2^17 > 100,000 in the code

VARIABLES root,               \* what the vault stores
          committed,          \* the leaves, if build made the root; else <<>>
          accepted            \* payloads that check_leaf accepts for what was drawn

leaf_hash(index, payload) == <<"leaf", index, payload>>
node_hash(left, right) == <<"node", left, right>>

\* 1 << d, for the d up to a limit.
Shifted(limit) ==
    LET shl[d \in 0..limit] == IF d = 0 THEN 1 ELSE 2 * shl[d - 1]
    IN  shl

\* A slip: the loop compares with <=.
depth_for_TooDeep(m) ==
    CHOOSE d \in 0..m : Shifted(m)[d] > m /\ \A e \in 0..(d - 1) : Shifted(m)[e] <= m

\* The loop's result: the least d with 1 << d >= m.
depth_for(m) ==
    CHOOSE d \in 0..m : Shifted(m)[d] >= m /\ \A e \in 0..(d - 1) : Shifted(m)[e] < m

\* No collection needs a proof that check_leaf finds too long.
ASSUME DepthAssumption ==
    /\ Sizes \subseteq Nat \ {0}
    /\ MAX_MERKLE_DEPTH \in Nat
    /\ \A m \in Sizes : depth_for(m) <= MAX_MERKLE_DEPTH

\* i >>= 1, once per level: where the ancestors of a leaf are in their levels.
Ancestors(index, depth) ==
    LET i[k \in 0..depth] == IF k = 0 THEN index ELSE i[k - 1] \div 2
    IN  i

\* The loop over the proof: the hash after each of its siblings.
Path(leaf, index, proof) ==
    LET i == Ancestors(index, Len(proof))
        node[k \in 0..Len(proof)] ==
            IF k = 0 THEN leaf
            ELSE IF i[k - 1] % 2 = 0
                 THEN node_hash(node[k - 1], proof[k])
                 ELSE node_hash(proof[k], node[k - 1])
    IN  node

Climb(leaf, index, proof) == Path(leaf, index, proof)[Len(proof)]

\* A slip: the length of the proof does not bind the position.
verify_AnyLength(leaf, index, m, proof, r) ==
    index < m /\ Climb(leaf, index, proof) = r

verify(leaf, index, m, proof, r) ==
    /\ index < m
    /\ Len(proof) = depth_for(m)
    /\ Climb(leaf, index, proof) = r

check_leaf(r, m, index, payload, proof) ==
    /\ index < m
    /\ payload \in ShortUris
    /\ payload \in AddressedUris
    /\ Len(proof) <= MAX_MERKLE_DEPTH
    /\ verify(leaf_hash(index, payload), index, m, proof, r)

\* One level of the tree above another: pairs, an odd last one with itself.
Above(level) ==
    [i \in 1..((Len(level) + 1) \div 2) |->
        node_hash(level[(2 * i) - 1],
                  IF 2 * i <= Len(level) THEN level[2 * i] ELSE level[(2 * i) - 1])]

\* levels[k], from the leaves, k = 0, and how high the first level of one hash is.
Levels(leaves) ==
    LET level[k \in 0..Len(leaves)] == IF k = 0 THEN leaves ELSE Above(level[k - 1])
    IN  level

Top(leaves) ==
    CHOOSE k \in 0..Len(leaves) :
        /\ Len(Levels(leaves)[k]) = 1
        /\ \A j \in 0..(k - 1) : Len(Levels(leaves)[j]) > 1

build_root(leaves) == Levels(leaves)[Top(leaves)][1]

\* The sibling of a hash that is at position i, from 0, of its level.
Sibling(level, i) ==
    LET j == IF i % 2 = 0 THEN i + 1 ELSE i - 1
    IN  IF j < Len(level) THEN level[j + 1] ELSE level[i + 1]

\* The proof of the leaf at an index that counts from 0.
build_proof(leaves, index) ==
    [k \in 1..Top(leaves) |->
        Sibling(Levels(leaves)[k - 1], Ancestors(index, Top(leaves))[k - 1])]

LeavesOf(payloads) == [i \in 1..Len(payloads) |-> leaf_hash(i - 1, payloads[i])]

\* The hashes on the first MAX_MERKLE_DEPTH levels below a term.
Children(term) == IF term[1] = "node" THEN {term[2], term[3]} ELSE {}
Subterms(term) ==
    LET below[k \in 0..MAX_MERKLE_DEPTH] ==
            IF k = 0 THEN {term}
            ELSE below[k - 1] \cup UNION {Children(t) : t \in below[k - 1]}
    IN  below[MAX_MERKLE_DEPTH]

\* A proof that leads to the root is made of hashes that are in the root.
Proofs == UNION {[1..d -> Subterms(root)] : d \in 0..MAX_MERKLE_DEPTH}

Commit ==
    \/ /\ committed \in [1..n -> Payloads]
       /\ root = build_root(LeavesOf(committed))
    \/ /\ committed = <<>>
       /\ root \in Roots

MintInit == /\ Init /\ n \in Sizes
            /\ Commit
            /\ accepted = {}

\* A step of uniform_below on the revealed value.
Draw == Next /\ UNCHANGED <<root, committed, accepted>>

\* A settler tries a leaf and a proof for the index that was drawn.
Submit(payload, proof) ==
    /\ result # -1
    /\ check_leaf(root, n, result, payload, proof)
    /\ accepted' = accepted \cup {payload}
    /\ UNCHANGED <<vars, root, committed>>

MintNext ==
    \/ Draw
    \/ \E payload \in Payloads : \E proof \in Proofs : Submit(payload, proof)

MintSpec == MintInit /\ [][MintNext]_<<vars, root, committed, accepted>>

(* Whatever root the creator committed to, the settler has no choice: all leaves
   that are ever accepted for the index that was drawn are one and the same.  An
   asset's URI is decided when the vault is made, not when somebody settles. *)
OneLeafPerIndex == Cardinality(accepted) <= 1

(* For a root that build made, an index that a draw can give has a proof that is
   accepted, also in a collection whose size is no power of two, exactly when the
   creator committed to an acceptable URI for it.  Where he did not, no settler can
   ever mint it, which stops the queue behind a revealed request.  And nothing but
   the committed leaf is accepted.                                          *)
CommittedAccepted ==
    committed # <<>> /\ result # -1 =>
        LET leaf == committed[result + 1]
        IN  /\ check_leaf(root, n, result, leaf, build_proof(LeavesOf(committed), result))
                  <=> leaf \in ShortUris \cap AddressedUris
            /\ leaf \notin ShortUris \cap AddressedUris => accepted = {}
            /\ accepted \subseteq {leaf}
==============================================================================
