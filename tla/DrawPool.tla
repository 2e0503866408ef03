------------------------------ MODULE DrawPool ------------------------------
(***************************************************************************)
(* The draw pool of a vault (hybrid_vault/src/pool.rs) as operators on a   *)
(* record:                                                                 *)
(*   slots    - the drawable asset indices, in slot order;                 *)
(*   incoming - the returned assets, a FIFO of [index, tag], where tag is  *)
(*              the vault's next_seq when the asset came back;             *)
(*   minted   - the indices whose NFT exists (the bitmap).                 *)
(* The byte layout behind it is the business of a module of its own.       *)
(***************************************************************************)
EXTENDS Naturals, Sequences

(* A pool just initialised: every index is drawable, slot i holds index i. *)
FreshPool(n) ==
  [slots |-> [i \in 1..n |-> i - 1], incoming |-> << >>, minted |-> {}]

pool_len(p) == Len(p.slots)
incoming_len(p) == Len(p.incoming)
total(p) == pool_len(p) + incoming_len(p)

pool_push(p, index) == [p EXCEPT !.slots = Append(@, index)]

(* Slip: the last entry is dropped, not moved into the hole.               *)
pool_swap_remove_DropLast(p, pos) == [p EXCEPT !.slots = SubSeq(@, 1, Len(@) - 1)]

(* Position pos (from 0) leaves the pool and the last entry takes its place. *)
pool_get(p, pos) == p.slots[pos + 1]
pool_swap_remove(p, pos) ==
  LET last == pool_len(p)
  IN  [p EXCEPT !.slots = [i \in 1..(last - 1) |->
                             IF i = pos + 1 THEN p.slots[last] ELSE p.slots[i]]]

incoming_push(p, index, tag) ==
  [p EXCEPT !.incoming = Append(@, [index |-> index, tag |-> tag])]

(* Tags are non-decreasing from front to back, so the oldest is the least. *)
NoTagBeyond(p, tag) == incoming_len(p) > 0 => p.incoming[incoming_len(p)].tag <= tag
FrontTagAbove(p, seq) == incoming_len(p) > 0 => p.incoming[1].tag > seq

(***************************************************************************)
(* merge(max_tag, max) moves entries from the front of the FIFO into the   *)
(* pool while their tag is at most max_tag and fewer than max have moved.  *)
(* MergeMoves says that this loop stops after exactly k entries.           *)
(***************************************************************************)
MergeMoves(p, max_tag, max, k) ==
  /\ k \in 0..incoming_len(p)
  /\ k <= max
  /\ \A i \in 1..k : p.incoming[i].tag <= max_tag
  /\ (k < max /\ k < incoming_len(p)) => p.incoming[k + 1].tag > max_tag

(* Slip: the ring's head does not advance.                                 *)
Merged_NotPopped(p, k) ==
  [p EXCEPT !.slots = @ \o [i \in 1..k |-> p.incoming[i].index]]

Merged(p, k) ==
  [p EXCEPT !.slots = @ \o [i \in 1..k |-> p.incoming[i].index],
            !.incoming = SubSeq(@, k + 1, Len(@))]

(* mark_minted refuses an index whose bit is set already (AlreadyMinted). *)
mark_minted(p, index) == [p EXCEPT !.minted = @ \cup {index}]

=============================================================================
