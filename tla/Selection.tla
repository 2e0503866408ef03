------------------------------ MODULE Selection ------------------------------
(* selection.rs, uniform_below: a uniform index below n by rejection sampling
   on the words of a block, hashing the block again when every word of it was
   rejected.  The hash is external: it may give any words.  U64_MAX stands for
   2^64 - 1.                                                                *)
EXTENDS Integers

CONSTANTS U64_MAX, Words,     \* words of a block: 4
          MaxBlocks           \* bound: blocks that are looked at

ASSUME WidthAssumption == U64_MAX \in Nat /\ Words \in Nat \ {0} /\ MaxBlocks \in Nat

VARIABLES n,                  \* size of the pool
          block, chunk,       \* position of the next word
          result              \* the index, or -1 while there is none

vars == <<n, block, chunk, result>>

Init == /\ n \in 1..U64_MAX
        /\ block = 1 /\ chunk = 0
        /\ result = -1

\* Slips: the + 1 is forgotten; the usual x < MAX / n * n, which rejects a whole
\* round when n divides 2^64.
zone_NoPlusOne(m) == U64_MAX - (U64_MAX % m)
zone_Floor(m) == (U64_MAX \div m) * m - 1

\* The last word that is accepted; zone + 1 should be a multiple of m.
zone(m) == U64_MAX - (((U64_MAX % m) + 1) % m)

Accepted(m, x) == x <= zone(m)

Accept(x) == /\ result = -1 /\ chunk < Words
             /\ Accepted(n, x)
             /\ result' = x % n
             /\ UNCHANGED <<n, block, chunk>>

Reject(x) == /\ result = -1 /\ chunk < Words
             /\ ~Accepted(n, x)
             /\ chunk' = chunk + 1
             /\ UNCHANGED <<n, block, result>>

Resample == /\ result = -1 /\ chunk = Words
            /\ block < MaxBlocks
            /\ block' = block + 1 /\ chunk' = 0
            /\ UNCHANGED <<n, result>>

Next == \/ \E x \in 0..U64_MAX : Accept(x)
        \/ \E x \in 0..U64_MAX : Reject(x)
        \/ Resample

Spec == Init /\ [][Next]_vars

\* The words that lead to an index.
WordsFor(m, index) == {x \in 0..U64_MAX : Accepted(m, x) /\ x % m = index}

\* How many whole rounds of m words the accepted words make.
Rounds(m) == (zone(m) + 1) \div m

(* Every index is below n, and no index is likelier than another: the words that
   lead to it are one per round of n words, for each index the same number.  The
   comparison x <= zone with zone = MAX - (MAX % n + 1) % n must neither leave a
   round unfinished nor start another, at any n.                            *)
Unbiased ==
    /\ result \in -1..(n - 1)
    /\ \A index \in 0..(n - 1) :
           WordsFor(n, index) = {index + (j * n) : j \in 0..(Rounds(n) - 1)}

(* Less than half of the words are rejected, and fewer than n: a draw never has
   to reject more than uniformity asks for, so that a settle, which computes it
   inside one transaction, ends.                                            *)
FewRejected == /\ U64_MAX - zone(n) < n
               /\ 2 * (U64_MAX - zone(n)) < U64_MAX + 1
==============================================================================
