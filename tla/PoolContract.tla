---------------------------- MODULE PoolContract ----------------------------
(***************************************************************************)
(* What the instructions ask of a pool, on the record of DrawPool: draw an *)
(* entry, perhaps against a hand-in, and mark it minted; queue a returned  *)
(* one under the vault's next_seq; merge the front of the queue.           *)
(* PoolLayout, the bytes of the account, implements this.                  *)
(***************************************************************************)
EXTENDS DrawPool

CONSTANTS
  capacity,          \* number of entries (collection_size)
  MaxTag,            \* bound: how far next_seq goes
  MaxMerge           \* the largest max that merge is called with

VARIABLES
  pool,
  held,              \* indices that are not in the pool: outside or handed in
  next_seq           \* the vault's counter, the tag of the next return

contract == <<pool, held, next_seq>>

Init == pool = FreshPool(capacity) /\ held = {} /\ next_seq = 0

(* settle: a re-roll's hand-in becomes drawable after the draw; what is    *)
(* drawn for the first time is minted.                                     *)
Draw(pos, handed_in) ==
  LET picked == pool_get(pool, pos)
      left == pool_swap_remove(pool, pos)
      joined == IF handed_in = {} THEN left
                ELSE pool_push(left, CHOOSE index \in handed_in : TRUE)
  IN  /\ pos < pool_len(pool)
      /\ pool' = IF picked \in pool.minted THEN joined ELSE mark_minted(joined, picked)
      /\ held' = (held \ handed_in) \cup {picked}
      /\ UNCHANGED next_seq

(* unwrap: a released asset comes back.                                    *)
Return(index) ==
  /\ pool' = incoming_push(pool, index, next_seq)
  /\ held' = held \ {index}
  /\ UNCHANGED next_seq

Merge(max_tag, max) ==
  /\ \E k \in 0..incoming_len(pool) :
       MergeMoves(pool, max_tag, max, k) /\ pool' = Merged(pool, k)
  /\ UNCHANGED <<held, next_seq>>

NewRequest ==
  /\ next_seq < MaxTag
  /\ next_seq' = next_seq + 1
  /\ UNCHANGED <<pool, held>>

AtMostOne(S) == {{}} \cup {{x} : x \in S}

Next ==
  \/ \E pos \in 0..(capacity - 1), handed_in \in AtMostOne(held) : Draw(pos, handed_in)
  \/ \E index \in held : Return(index)
  \/ \E max_tag \in 0..next_seq, max \in 1..MaxMerge : Merge(max_tag, max)
  \/ NewRequest

Spec == Init /\ [][Next]_contract

=============================================================================
