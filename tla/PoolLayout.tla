----------------------------- MODULE PoolLayout -----------------------------
(***************************************************************************)
(* The pool account byte by byte (hybrid_vault/src/pool.rs): a header, a   *)
(* u32 per slot where 0 stands for the slot's own position, a ring of      *)
(* 12-byte returns, a bitmap.  The buffer d is a function from offsets to  *)
(* bytes, read and written little endian, so that regions that overlap,    *)
(* stale bytes behind pool_len and a ring that wraps do what they do in    *)
(* the account.                                                            *)
(***************************************************************************)
EXTENDS Integers, Sequences, FiniteSets

CONSTANTS capacity, MaxTag, MaxMerge

(* A capacity is a u32, at most 2^31 (a launch allows far less), so        *)
(* that the sum of head and length fits; a tag is a u64.  In 16-bit digits, *)
(* because the powers are beyond TLC's integers.                           *)
ASSUME LayoutAssumption ==
  /\ capacity \in Nat \ {0} /\ capacity \div 65536 < 32768
  /\ MaxTag \in Nat /\ ((MaxTag \div 65536) \div 65536) \div 65536 < 65536
  /\ MaxMerge \in Nat \ {0}

VARIABLES d, held, next_seq

layout == <<d, held, next_seq>>

POOL_HEADER == 64
INCOMING_ENTRY == 12
div_ceil(a, b) == (a + b - 1) \div b
pool_account_size == POOL_HEADER + 16 * capacity + div_ceil(capacity, 8)

-----------------------------------------------------------------------------
(* Little endian.  A u64 is two u32; its weight is written 65536 * 65536.  *)

rd_u32(b, o) == b[o] + 256 * b[o + 1] + 65536 * (b[o + 2] + 256 * b[o + 3])
wr_u32(b, o, v) ==
  [b EXCEPT ![o] = v % 256,
            ![o + 1] = (v \div 256) % 256,
            ![o + 2] = (v \div 2^16) % 256,
            ![o + 3] = (v \div 2^24) % 256]

rd_u64(b, o) == rd_u32(b, o) + 65536 * (65536 * rd_u32(b, o + 4))
wr_u64(b, o, v) == wr_u32(wr_u32(b, o, v), o + 4, (v \div 65536) \div 65536)

-----------------------------------------------------------------------------
(* PoolView: the fields, and the entries.                                  *)

pool_len(b) == rd_u32(b, 44)
incoming_head(b) == rd_u32(b, 48)
incoming_len(b) == rd_u32(b, 52)
total(b) == pool_len(b) + incoming_len(b)

pool_off(i) == POOL_HEADER + 4 * i

inc_off(ring_i) == POOL_HEADER + 4 * capacity + INCOMING_ENTRY * ring_i
bitmap_off == POOL_HEADER + 16 * capacity

(* Slip: the entry is stored without the + 1 that tells it from identity.  *)
pool_set_Raw(b, i, asset_index) == wr_u32(b, pool_off(i), asset_index)

pool_get(b, i) ==
  LET v == rd_u32(b, pool_off(i)) IN IF v = 0 THEN i ELSE v - 1
pool_set(b, i, asset_index) == wr_u32(b, pool_off(i), asset_index + 1)

Bit(byte, k) == (byte \div 2^k) % 2
is_minted(b, index) ==
  index < capacity /\ Bit(b[bitmap_off + (index \div 8)], index % 8) = 1

-----------------------------------------------------------------------------
(* The operations: the buffer they leave, and when they refuse.            *)

MarkAllowed(b, index) == index < capacity /\ ~is_minted(b, index)
MarkMinted(b, index) ==                     \* the bit is clear
  [b EXCEPT ![bitmap_off + (index \div 8)] = @ + 2^(index % 8)]

PushAllowed(b, asset_index) == total(b) < capacity /\ asset_index < capacity
Pushed(b, asset_index) ==
  LET len == pool_len(b) IN wr_u32(pool_set(b, len, asset_index), 44, len + 1)

Joined(b, handed_in) ==
  IF handed_in = {} THEN b ELSE Pushed(b, CHOOSE index \in handed_in : TRUE)

RemoveAllowed(b, i) == i < pool_len(b)
SwapRemoved(b, i) ==
  LET len == pool_len(b)
  IN  wr_u32(pool_set(b, i, pool_get(b, len - 1)), 44, len - 1)

(* The slot behind the newest return, and the newest itself.               *)
back(b) == (incoming_head(b) + incoming_len(b) - 1) % capacity

(* Slip: the ring is not wrapped.                                          *)
free_slot_NoWrap(b) == incoming_head(b) + incoming_len(b)

free_slot(b) == (incoming_head(b) + incoming_len(b)) % capacity

ReturnAllowed(b, tag) ==
  /\ total(b) < capacity
  /\ incoming_len(b) > 0 => tag >= rd_u64(b, inc_off(back(b)) + 4)

Returned(b, asset_index, tag) ==
  LET o == inc_off(free_slot(b))
  IN  wr_u32(wr_u64(wr_u32(b, o, asset_index), o + 4, tag), 52, incoming_len(b) + 1)

FrontEligible(b, max_tag) ==
  incoming_len(b) > 0 /\ rd_u64(b, inc_off(incoming_head(b)) + 4) <= max_tag

FrontIndex(b) == rd_u32(b, inc_off(incoming_head(b)))

(* One round of the loop of merge: pop the front, then push it.            *)
Popped(b) ==
  wr_u32(wr_u32(b, 48, (incoming_head(b) + 1) % capacity), 52, incoming_len(b) - 1)

(* Slip: the front is pushed while it still counts as returning.           *)
RoomForFront_PushFirst(b) == PushAllowed(b, FrontIndex(b))

RoomForFront(b) == PushAllowed(Popped(b), FrontIndex(b))

(* The buffer after at most max rounds; a push that is refused refuses the *)
(* whole instruction.                                                      *)
MergeRounds(b, max_tag, max) ==
  LET after[k \in 0..max] ==
        IF k = 0 THEN b
        ELSE IF FrontEligible(after[k - 1], max_tag)
             THEN Pushed(Popped(after[k - 1]), FrontIndex(after[k - 1]))
             ELSE after[k - 1]
  IN  after

MergeAllowed(b, max_tag, max) ==
  LET after == MergeRounds(b, max_tag, max)
  IN  \A k \in 0..(max - 1) :
        FrontEligible(after[k], max_tag) => RoomForFront(after[k])

MergedBytes(b, max_tag, max) == MergeRounds(b, max_tag, max)[max]

-----------------------------------------------------------------------------
(* init, on the zeroed buffer; bytes 0..39 (discriminator, vault) stay out *)
(* of the model: load compares them, nothing writes them again.            *)
Init ==
  /\ LET zeroed == [o \in 40..(pool_account_size - 1) |-> 0]
     IN  d = wr_u32(wr_u32(zeroed, 40, capacity), 44, capacity)
  /\ held = {}
  /\ next_seq = 0

(* handle_settle after its merge: swap-remove, push the asset that a       *)
(* re-roll handed in (handed_in is empty for a capture), mint what was     *)
(* never minted.  Its merge is a Merge, as merge_incoming sends it too.    *)
Draw(pos, handed_in) ==
  LET picked == pool_get(d, pos)
      left == SwapRemoved(d, pos)
      joined == Joined(left, handed_in)
  IN  /\ RemoveAllowed(d, pos)
      /\ \A index \in handed_in : PushAllowed(left, index)
      /\ is_minted(joined, picked) \/ MarkAllowed(joined, picked)
      /\ d' = IF is_minted(joined, picked) THEN joined ELSE MarkMinted(joined, picked)
      /\ held' = (held \ handed_in) \cup {picked}
      /\ UNCHANGED next_seq

(* handle_unwrap.                                                          *)
Return(index) ==
  /\ ReturnAllowed(d, next_seq)
  /\ d' = Returned(d, index, next_seq)
  /\ held' = held \ {index}
  /\ UNCHANGED next_seq

(* merge_incoming, and the beginning of a settle.                          *)
Merge(max_tag, max) ==
  /\ MergeAllowed(d, max_tag, max)
  /\ d' = MergedBytes(d, max_tag, max)
  /\ UNCHANGED <<held, next_seq>>

(* The vault's counter moves on.                                           *)
NewRequest ==
  /\ next_seq < MaxTag                      \* bound
  /\ next_seq' = next_seq + 1
  /\ UNCHANGED <<d, held>>

AtMostOne(S) == {{}} \cup {{x} : x \in S}

Next ==
  \/ \E pos \in 0..(capacity - 1), handed_in \in AtMostOne(held) : Draw(pos, handed_in)
  \/ \E index \in held : Return(index)
  \/ \E max_tag \in 0..next_seq, max \in 1..MaxMerge : Merge(max_tag, max)
  \/ NewRequest

Spec == Init /\ [][Next]_layout

-----------------------------------------------------------------------------
(* Properties.                                                             *)

(* The record of DrawPool that the bytes stand for.                        *)
PoolOf(b) ==
  [slots |-> [i \in 1..pool_len(b) |-> pool_get(b, i - 1)],
   incoming |-> [i \in 1..incoming_len(b) |->
                   LET o == inc_off((incoming_head(b) + i - 1) % capacity)
                   IN  [index |-> rd_u32(b, o), tag |-> rd_u64(b, o + 4)]],
   minted |-> {i \in 0..(capacity - 1) : is_minted(b, i)}]

(* Bytes, the capacity that load reads back, and a head inside the ring.   *)
LayoutTypeOK ==
  /\ d \in [40..(pool_account_size - 1) -> 0..255]
  /\ rd_u32(d, 40) = capacity
  /\ incoming_head(d) < capacity
  /\ held \subseteq 0..(capacity - 1)
  /\ next_seq \in 0..MaxTag

(* No operation of a caller that holds what it gives back is refused: a    *)
(* return finds room and no tag beyond its own, a hand-in finds room after *)
(* the draw, and so does every entry that a merge moves.                   *)
NeverRefused ==
  /\ held # {} => ReturnAllowed(d, next_seq)
  /\ \A pos \in 0..(pool_len(d) - 1), index \in held : PushAllowed(SwapRemoved(d, pos), index)
  /\ \A max_tag \in 0..next_seq : MergeAllowed(d, max_tag, MaxMerge)

(* Each index is in one slot, in one ring entry, or with a caller: a lazy  *)
(* slot never stands for an index that a draw has moved elsewhere.         *)
EveryIndexOnce ==
  LET p == PoolOf(d)
      places(i) == Cardinality({j \in DOMAIN p.slots : p.slots[j] = i})
                     + Cardinality({j \in DOMAIN p.incoming : p.incoming[j].index = i})
  IN  \A i \in 0..(capacity - 1) : places(i) = (IF i \in held THEN 0 ELSE 1)

(* The bytes do what the record does, operation by operation.              *)
Contract == INSTANCE PoolContract WITH pool <- PoolOf(d)
ImplementsPool == Contract!Spec

=============================================================================
