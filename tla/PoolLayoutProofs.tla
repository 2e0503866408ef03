--------------------------- MODULE PoolLayoutProofs ---------------------------
(***************************************************************************)
(* Proofs about PoolLayout, for every capacity: the bytes of the pool      *)
(* account implement the record that the vault's other modules use.        *)
(*                                                                         *)
(* The argument goes through words.  All u32 of the account are aligned,   *)
(* so a write changes one word and leaves the others and the bitmap        *)
(* (WriteWord).  A buffer whose fields fit (Sound) shows slots, a ring and *)
(* bits; one lemma per operation says what they are afterwards             *)
(* (PushedRecord, ..., MergedRecord), and another that this is the         *)
(* operation of the record (PushIsPush, ..., MergeIsMerge).                *)
(***************************************************************************)
EXTENDS PoolLayout, FiniteSetTheorems, SequenceTheorems, WellFoundedInduction, TLAPS

-----------------------------------------------------------------------------
(* Words of four bytes.                                                    *)

U32 == {v \in Nat : v <= 4294967295}
Byte == {v \in Nat : v <= 255}
Bytes == [40..(pool_account_size - 1) -> Byte]

(* All u32 of the account are aligned: the a-th word starts at byte 4 * a. *)
WordsOf == 10..(15 + 4 * capacity)
word(b, a) == rd_u32(b, 4 * a)

(* The account in bytes; the bitmap lies behind every word.                *)
LEMMA Sizes ==
  /\ capacity \in Nat \ {0} /\ capacity \in U32
  /\ pool_account_size \in Nat /\ bitmap_off = 64 + 16 * capacity
  /\ bitmap_off < pool_account_size
  /\ \A i \in 0..(capacity - 1) : bitmap_off + (i \div 8) < pool_account_size
<1>1. capacity \in Nat \ {0} /\ capacity \div 65536 < 32768
  BY LayoutAssumption
<1>2. capacity <= 4294967295
  <2>1. capacity = 65536 * (capacity \div 65536) + (capacity % 65536) /\ capacity % 65536 < 65536
    BY <1>1, SMT
  <2> QED BY <1>1, <2>1, SMT
<1>3. capacity \in Nat \ {0}
  BY <1>1
<1>4. \A i \in 0..(capacity - 1) : i \div 8 \in Nat /\ i \div 8 < (capacity + 8 - 1) \div 8
  BY <1>3, SMT
<1>5. /\ pool_account_size = 64 + 16 * capacity + ((capacity + 8 - 1) \div 8)
      /\ bitmap_off = 64 + 16 * capacity
  BY <1>3, SMT DEF pool_account_size, div_ceil, POOL_HEADER, bitmap_off
<1>6. (capacity + 8 - 1) \div 8 \in Nat \ {0}
  BY <1>3, SMT
<1>7. capacity \in U32
  BY <1>2, <1>3, SMT DEF U32
<1>8. \A i \in 0..(capacity - 1) : bitmap_off + (i \div 8) < pool_account_size
  BY <1>3, <1>4, <1>5, <1>6, SMT
<1> QED BY <1>2, <1>3, <1>5, <1>6, <1>7, <1>8, SMT

(* The weights of the bytes that wr_u32 writes.                            *)
LEMMA Powers == 2^16 = 65536 /\ 2^24 = 16777216
BY Z3

(* What is written little endian is read back.                             *)
LEMMA Digits ==
  ASSUME NEW v \in U32
  PROVE  /\ v % 256 \in Byte /\ (v \div 256) % 256 \in Byte
         /\ (v \div 2^16) % 256 \in Byte /\ (v \div 2^24) % 256 \in Byte
         /\ (v % 256) + 256 * ((v \div 256) % 256)
              + 65536 * (((v \div 2^16) % 256) + 256 * ((v \div 2^24) % 256)) = v
<1>1. v \in Nat /\ v <= 4294967295
  BY DEF U32
<1> DEFINE q1 == v \div 256
           q2 == v \div 65536
           q3 == v \div 16777216
<1>2. /\ q1 \in Nat /\ q2 \in Nat /\ q3 \in Byte
      /\ v % 256 \in Byte /\ v = 256 * q1 + (v % 256)
  BY <1>1, SMT DEF Byte
<1>3. q1 \div 256 = q2 /\ q2 \div 256 = q3
  BY <1>1, SMT
<1> HIDE DEF q1, q2, q3
<1>4. /\ q1 = 256 * q2 + (q1 % 256) /\ q1 % 256 \in Byte
      /\ q2 = 256 * q3 + (q2 % 256) /\ q2 % 256 \in Byte
      /\ q3 % 256 = q3
  BY <1>2, <1>3, SMT DEF Byte
<1>5. (v % 256) + 256 * (q1 % 256) + 65536 * ((q2 % 256) + 256 * (q3 % 256)) = v
  BY <1>1, <1>2, <1>4, SMT DEF Byte
<1> QED BY <1>2, <1>4, <1>5, Powers DEF q1, q2, q3

(* A write to one word leaves every other word and the bitmap.             *)
LEMMA WriteWord ==
  ASSUME NEW b \in Bytes, NEW a \in WordsOf, NEW v \in U32
  PROVE  /\ wr_u32(b, 4 * a, v) \in Bytes
         /\ \A c \in WordsOf : word(wr_u32(b, 4 * a, v), c) = IF c = a THEN v ELSE word(b, c)
         /\ \A o \in bitmap_off..(pool_account_size - 1) : wr_u32(b, 4 * a, v)[o] = b[o]
<1> DEFINE w == wr_u32(b, 4 * a, v)
           E == pool_account_size - 1
           b0 == v % 256
           b1 == (v \div 256) % 256
           b2 == (v \div 2^16) % 256
           b3 == (v \div 2^24) % 256
<1>1. capacity \in Nat \ {0} /\ E \in Nat /\ bitmap_off = 64 + 16 * capacity /\ bitmap_off <= E
  BY Sizes
<1>2. ASSUME NEW c \in WordsOf
      PROVE  /\ {4 * c, 4 * c + 1, 4 * c + 2, 4 * c + 3} \subseteq 40..E
             /\ c \in Nat /\ 4 * c + 3 < bitmap_off
  BY <1>1 DEF WordsOf
<1>3. /\ b0 \in Byte /\ b1 \in Byte /\ b2 \in Byte /\ b3 \in Byte
      /\ b0 + 256 * b1 + 65536 * (b2 + 256 * b3) = v
  BY Digits
<1>4. w = [b EXCEPT ![4 * a] = b0, ![4 * a + 1] = b1, ![4 * a + 2] = b2, ![4 * a + 3] = b3]
  BY DEF wr_u32
<1>5. b \in [40..E -> Byte]
  BY DEF Bytes
<1> HIDE DEF w, E, b0, b1, b2, b3
<1>6. /\ w \in [40..E -> Byte]
      /\ w[4 * a] = b0 /\ w[4 * a + 1] = b1 /\ w[4 * a + 2] = b2 /\ w[4 * a + 3] = b3
      /\ \A o \in 40..E : o \notin {4 * a, 4 * a + 1, 4 * a + 2, 4 * a + 3} => w[o] = b[o]
  <2>1. /\ 4 * a \in 40..E /\ 4 * a + 1 \in 40..E /\ 4 * a + 2 \in 40..E /\ 4 * a + 3 \in 40..E
        /\ 4 * a # 4 * a + 1 /\ 4 * a # 4 * a + 2 /\ 4 * a # 4 * a + 3
        /\ 4 * a + 1 # 4 * a + 2 /\ 4 * a + 1 # 4 * a + 3 /\ 4 * a + 2 # 4 * a + 3
    BY <1>2
  <2>2. b0 \in Byte /\ b1 \in Byte /\ b2 \in Byte /\ b3 \in Byte
    BY <1>3
  <2> QED BY <1>4, <1>5, <2>1, <2>2
<1>7. word(w, a) = v
  BY <1>3, <1>6 DEF word, rd_u32
<1>8. ASSUME NEW c \in WordsOf, c # a
      PROVE  word(w, c) = word(b, c)
  <2>1. ASSUME NEW o \in {4 * c, 4 * c + 1, 4 * c + 2, 4 * c + 3}
        PROVE  w[o] = b[o]
    <3>1. a \in Nat /\ c \in Nat
      BY <1>1, <1>2
    <3>2. o \notin {4 * a, 4 * a + 1, 4 * a + 2, 4 * a + 3}
      BY <1>8, <3>1
    <3> QED BY <1>2, <1>6, <3>2
  <2> QED BY <2>1 DEF word, rd_u32
<1>9. ASSUME NEW o \in bitmap_off..E
      PROVE  w[o] = b[o]
  <2>1. a \in Nat /\ 4 * a + 3 < bitmap_off
    BY <1>2
  <2>2. o \in 40..E /\ o \notin {4 * a, 4 * a + 1, 4 * a + 2, 4 * a + 3}
    BY <1>1, <2>1
  <2> QED BY <1>6, <2>2
<1>10. w \in Bytes
  BY <1>6 DEF Bytes, E
<1> QED BY <1>7, <1>8, <1>9, <1>10 DEF w, E

(* A word is a u32.                                                        *)
LEMMA WordType ==
  ASSUME NEW b \in Bytes, NEW a \in WordsOf
  PROVE  word(b, a) \in U32
<1>1. {4 * a, 4 * a + 1, 4 * a + 2, 4 * a + 3} \subseteq 40..(pool_account_size - 1)
  BY Sizes DEF WordsOf
<1>2. b[4 * a] \in Byte /\ b[4 * a + 1] \in Byte /\ b[4 * a + 2] \in Byte /\ b[4 * a + 3] \in Byte
  BY <1>1 DEF Bytes
<1> QED BY <1>2 DEF word, rd_u32, U32, Byte

(* A value of any width leaves its low 32 bits.                            *)
LEMMA LowWord ==
  ASSUME NEW b, NEW o, NEW v \in Nat
  PROVE  v % 4294967296 \in U32 /\ wr_u32(b, o, v) = wr_u32(b, o, v % 4294967296)
<1> DEFINE w == v % 4294967296
<1>1. w \in Nat /\ w <= 4294967295
  OBVIOUS
<1>2. v % 256 = w % 256 /\ (v \div 256) % 256 = (w \div 256) % 256
  BY SMT
<1>3. (v \div 65536) % 256 = (w \div 65536) % 256
  BY SMT
<1>4. (v \div 16777216) % 256 = (w \div 16777216) % 256
  BY SMT
<1> HIDE DEF w
<1>5. (v \div 2^16) % 256 = (w \div 2^16) % 256 /\ (v \div 2^24) % 256 = (w \div 2^24) % 256
  BY <1>3, <1>4, Powers, SMT
<1>6. wr_u32(b, o, v) = wr_u32(b, o, w)
  BY <1>2, <1>5, ZenonT(30) DEF wr_u32
<1> QED BY <1>1, <1>6, SMT DEF w, U32

(* Within two rounds, the remainder is a subtraction.                      *)
LEMMA Wrap ==
  ASSUME NEW x \in Nat, x < 2 * capacity
  PROVE  x % capacity = IF x < capacity THEN x ELSE x - capacity
<1>1. capacity \in Nat \ {0}
  BY Sizes
<1>2. CASE x < capacity
  BY <1>1, <1>2
<1>3. CASE x >= capacity
  <2>1. x - capacity \in Nat /\ x - capacity < capacity
    BY <1>1, <1>3
  <2>2. x = capacity * 1 + (x - capacity)
    BY <1>1
  <2> QED BY <1>1, <1>3, <2>1, <2>2
<1> QED BY <1>1, <1>2, <1>3

Index == 0..(capacity - 1)
ring_at(b, i) == (incoming_head(b) + i - 1) % capacity
IndexAt(b, r) == word(b, 16 + capacity + 3 * r)
TagAt(b, r) == word(b, 17 + capacity + 3 * r) + 65536 * (65536 * word(b, 18 + capacity + 3 * r))

(* The fields as words.                                                    *)
LEMMA Fields ==
  ASSUME NEW b
  PROVE  /\ pool_len(b) = word(b, 11) /\ incoming_head(b) = word(b, 12)
         /\ incoming_len(b) = word(b, 13) /\ total(b) = word(b, 11) + word(b, 13)
         /\ rd_u32(b, 40) = word(b, 10)
BY DEF pool_len, incoming_head, incoming_len, total, word

(* Where the fields, the slots and the entries are, in words.              *)
LEMMA Offsets ==
  /\ \A i \in 0..(capacity - 1) : pool_off(i) = 4 * (16 + i) /\ 16 + i \in WordsOf
  /\ \A r \in 0..(capacity - 1) :
       /\ inc_off(r) = 4 * (16 + capacity + 3 * r) /\ 16 + capacity + 3 * r \in WordsOf
       /\ inc_off(r) + 4 = 4 * (17 + capacity + 3 * r) /\ 17 + capacity + 3 * r \in WordsOf
       /\ inc_off(r) + 8 = 4 * (18 + capacity + 3 * r) /\ 18 + capacity + 3 * r \in WordsOf
  /\ {10, 11, 12, 13} \subseteq WordsOf
  /\ 44 = 4 * 11 /\ 48 = 4 * 12 /\ 52 = 4 * 13
BY Sizes DEF pool_off, inc_off, WordsOf, POOL_HEADER, INCOMING_ENTRY

(* A slot and an entry of the ring, read as words.                         *)
LEMMA Entries ==
  ASSUME NEW b \in Bytes, NEW i \in Index
  PROVE  /\ pool_get(b, i) = IF word(b, 16 + i) = 0 THEN i ELSE word(b, 16 + i) - 1
         /\ rd_u32(b, inc_off(i)) = IndexAt(b, i)
         /\ rd_u64(b, inc_off(i) + 4) = TagAt(b, i)
         /\ IndexAt(b, i) \in Nat /\ TagAt(b, i) \in Nat
<1>1. i \in 0..(capacity - 1) /\ i \in Nat /\ capacity \in Nat
  BY Sizes DEF Index
<1>2. /\ word(b, 17 + capacity + 3 * i) \in Nat /\ word(b, 18 + capacity + 3 * i) \in Nat
      /\ word(b, 16 + capacity + 3 * i) \in Nat
  BY <1>1, Offsets, WordType DEF U32
<1>3. TagAt(b, i) \in Nat
  BY <1>2 DEF TagAt
<1>4. rd_u64(b, inc_off(i) + 4) = TagAt(b, i)
  <2>1. /\ inc_off(i) + 4 = 4 * (17 + capacity + 3 * i)
        /\ inc_off(i) + 4 + 4 = 4 * (18 + capacity + 3 * i)
    BY <1>1, Sizes DEF inc_off, POOL_HEADER, INCOMING_ENTRY
  <2> QED BY <2>1 DEF rd_u64, TagAt, word
<1>5. rd_u32(b, inc_off(i)) = IndexAt(b, i)
  BY <1>1, Offsets DEF IndexAt, word
<1>6. pool_get(b, i) = IF word(b, 16 + i) = 0 THEN i ELSE word(b, 16 + i) - 1
  BY <1>1, Offsets DEF pool_get, word
<1> QED BY <1>2, <1>3, <1>4, <1>5, <1>6 DEF IndexAt

(* What the record shows of a buffer.                                      *)
Slots(b) == [i \in 1..pool_len(b) |-> pool_get(b, i - 1)]
Ring(b) == [i \in 1..incoming_len(b) |->
              [index |-> IndexAt(b, ring_at(b, i)), tag |-> TagAt(b, ring_at(b, i))]]
Bits(b) == {i \in Index : is_minted(b, i)}

(* A buffer whose fields fit the account and whose entries are indices.    *)
Sound(b) ==
  /\ b \in Bytes
  /\ word(b, 10) = capacity
  /\ incoming_head(b) < capacity
  /\ total(b) <= capacity
  /\ \A i \in 1..pool_len(b) : Slots(b)[i] \in Index
  /\ \A i \in 1..incoming_len(b) : Ring(b)[i].index \in Index

(* The fields of a sound buffer, and its ring without the remainder.       *)
LEMMA SoundFields ==
  ASSUME NEW b, Sound(b)
  PROVE  /\ capacity \in Nat \ {0} /\ b \in Bytes
         /\ pool_len(b) \in Nat /\ incoming_len(b) \in Nat /\ incoming_head(b) \in Index
         /\ pool_len(b) + incoming_len(b) <= capacity
         /\ total(b) = pool_len(b) + incoming_len(b)
         /\ pool_len(b) = word(b, 11) /\ incoming_head(b) = word(b, 12)
         /\ incoming_len(b) = word(b, 13)
         /\ \A i \in 1..(capacity + 1) : ring_at(b, i) =
              IF incoming_head(b) + i - 1 < capacity THEN incoming_head(b) + i - 1
              ELSE (incoming_head(b) + i - 1) - capacity
         /\ \A i \in 1..(capacity + 1) : ring_at(b, i) \in Index
<1>1. b \in Bytes /\ capacity \in Nat \ {0}
  BY Sizes DEF Sound
<1>2. {10, 11, 12, 13} \subseteq WordsOf
  BY Offsets
<1>3. word(b, 11) \in Nat /\ word(b, 12) \in Nat /\ word(b, 13) \in Nat
  BY <1>1, <1>2, WordType DEF U32
<1>4. incoming_head(b) \in Index
  BY <1>1, <1>3, Fields DEF Sound, Index
<1>5. ASSUME NEW i \in 1..(capacity + 1)
      PROVE  /\ ring_at(b, i) =
                  IF incoming_head(b) + i - 1 < capacity THEN incoming_head(b) + i - 1
                  ELSE (incoming_head(b) + i - 1) - capacity
             /\ ring_at(b, i) \in Index
  <2>1. incoming_head(b) + i - 1 \in 0..(2 * capacity - 1)
    BY <1>1, <1>4 DEF Index
  <2>2. ring_at(b, i) = IF incoming_head(b) + i - 1 < capacity THEN incoming_head(b) + i - 1
                        ELSE (incoming_head(b) + i - 1) - capacity
    <3> DEFINE x == incoming_head(b) + i - 1
    <3>1. ring_at(b, i) = x % capacity
      BY DEF ring_at
    <3>2. x \in Nat /\ x < 2 * capacity
      BY <1>1, <2>1
    <3> HIDE DEF x
    <3>3. x % capacity = IF x < capacity THEN x ELSE x - capacity
      BY <3>2, Wrap, Zenon
    <3> QED BY <3>1, <3>3 DEF x
  <2> QED BY <1>1, <1>4, <2>1, <2>2 DEF Index
<1> QED BY <1>1, <1>3, <1>4, <1>5, Fields DEF Sound, total

(* ... and it is a record of the types of DrawPool.                        *)
Returnee == [index : Index, tag : Nat]

(* A function on 1..m is a sequence of length m.                           *)
LEMMA SeqOfFcn ==
  ASSUME NEW S, NEW m \in Nat, NEW f \in [1..m -> S]
  PROVE  f \in Seq(S) /\ Len(f) = m
<1>1. f \in Seq(S)
  BY SeqDef
<1>2. DOMAIN f = 1..Len(f) /\ Len(f) \in Nat
  BY <1>1, LenProperties
<1>3. DOMAIN f = 1..m
  OBVIOUS
<1> QED BY <1>1, <1>2, <1>3

(* What a sound buffer shows is a pool of the types of DrawPool.           *)
LEMMA SoundRecord ==
  ASSUME NEW b, Sound(b)
  PROVE  /\ PoolOf(b) = [slots |-> Slots(b), incoming |-> Ring(b), minted |-> Bits(b)]
         /\ Slots(b) \in Seq(Index) /\ Len(Slots(b)) = pool_len(b)
         /\ Ring(b) \in Seq(Returnee) /\ Len(Ring(b)) = incoming_len(b)
         /\ Slots(b) \in [1..pool_len(b) -> Index]
         /\ Ring(b) \in [1..incoming_len(b) -> Returnee]
         /\ Bits(b) \subseteq Index
<1>1. /\ b \in Bytes /\ pool_len(b) \in Nat /\ incoming_len(b) \in Nat
      /\ incoming_len(b) <= capacity /\ capacity \in Nat
      /\ \A i \in 1..(capacity + 1) : ring_at(b, i) \in Index
  BY SoundFields
<1>2. Slots(b) \in [1..pool_len(b) -> Index]
  <2>1. \A i \in 1..pool_len(b) : Slots(b)[i] \in Index
    BY DEF Sound
  <2>2. Slots(b) = [i \in 1..pool_len(b) |-> Slots(b)[i]]
    BY DEF Slots
  <2> QED BY <2>1, <2>2
<1>3. \A i \in 1..incoming_len(b) : i \in 1..(capacity + 1)
  BY <1>1
<1>4. Ring(b) \in [1..incoming_len(b) -> Returnee]
  <2>1. ASSUME NEW i \in 1..incoming_len(b) PROVE Ring(b)[i] \in Returnee
    <3>1. Ring(b)[i] = [index |-> IndexAt(b, ring_at(b, i)), tag |-> TagAt(b, ring_at(b, i))]
      BY DEF Ring
    <3>2. TagAt(b, ring_at(b, i)) \in Nat
      BY <1>1, <1>3, Entries
    <3>3. IndexAt(b, ring_at(b, i)) \in Index
      BY <3>1 DEF Sound
    <3> QED BY <3>1, <3>2, <3>3 DEF Returnee
  <2>2. Ring(b) = [i \in 1..incoming_len(b) |-> Ring(b)[i]]
    BY DEF Ring
  <2> QED BY <2>1, <2>2
<1>5. PoolOf(b) = [slots |-> Slots(b), incoming |-> Ring(b), minted |-> Bits(b)]
  <2>1. ASSUME NEW i \in 1..incoming_len(b)
        PROVE  /\ rd_u32(b, inc_off(ring_at(b, i))) = IndexAt(b, ring_at(b, i))
               /\ rd_u64(b, inc_off(ring_at(b, i)) + 4) = TagAt(b, ring_at(b, i))
    BY <1>1, <1>3, Entries
  <2>2. Ring(b) = [i \in 1..incoming_len(b) |->
                     [index |-> rd_u32(b, inc_off(ring_at(b, i))),
                      tag |-> rd_u64(b, inc_off(ring_at(b, i)) + 4)]]
    BY <2>1 DEF Ring
  <2> QED BY <2>2 DEF PoolOf, Slots, Bits, Index, ring_at
<1> QED BY <1>1, <1>2, <1>4, <1>5, SeqOfFcn DEF Bits

(* Which words are slots and which are returns.                            *)
EntryWords(r) == {16 + capacity + 3 * r, 17 + capacity + 3 * r, 18 + capacity + 3 * r}

LEMMA Apart ==
  /\ \A i \in Index : 16 + i \notin {10, 11, 12, 13} /\ 16 + i \in WordsOf
  /\ \A r \in Index : \A c \in EntryWords(r) :
       c \in WordsOf /\ c \notin {10, 11, 12, 13} /\ \A i \in Index : c # 16 + i
  /\ \A i, j \in Index : 16 + i = 16 + j => i = j
<1>1. capacity \in Nat \ {0}
  BY Sizes
<1>2. ASSUME NEW r \in Index, NEW c \in EntryWords(r)
      PROVE  c \in WordsOf /\ c \notin {10, 11, 12, 13} /\ \A i \in Index : c # 16 + i
  <2>1. /\ c \in Nat /\ 16 + capacity <= c /\ c <= 18 + capacity + 3 * r
        /\ r \in Nat /\ r <= capacity - 1
    BY <1>1 DEF Index, EntryWords
  <2> QED BY <1>1, <2>1 DEF Index, WordsOf
<1>3. ASSUME NEW i \in Index PROVE 16 + i \notin {10, 11, 12, 13} /\ 16 + i \in WordsOf
  BY <1>1 DEF Index, WordsOf
<1>4. \A i, j \in Index : 16 + i = 16 + j => i = j
  BY DEF Index
<1> QED BY <1>2, <1>3, <1>4

(* What an operation does not write stays as the record shows it.          *)
LEMMA SlotsKept ==
  ASSUME NEW b \in Bytes, NEW w \in Bytes, pool_len(b) \in 0..capacity,
         pool_len(w) = pool_len(b), \A i \in Index : word(w, 16 + i) = word(b, 16 + i)
  PROVE  Slots(w) = Slots(b)
<1>1. ASSUME NEW i \in 1..pool_len(b)
      PROVE  pool_get(w, i - 1) = pool_get(b, i - 1)
  <2>1. i - 1 \in Index
    BY Sizes DEF Index
  <2> QED BY <2>1, Entries
<1> QED BY <1>1 DEF Slots

(* The ring stays when no word of an entry is written.                     *)
LEMMA RingKept ==
  ASSUME NEW b, NEW w \in Bytes, Sound(b), incoming_len(w) = incoming_len(b),
         incoming_head(w) = incoming_head(b),
         \A r \in Index : \A c \in EntryWords(r) : word(w, c) = word(b, c)
  PROVE  Ring(w) = Ring(b)
<1>1. ASSUME NEW i \in 1..incoming_len(b)
      PROVE  ring_at(w, i) = ring_at(b, i) /\ ring_at(b, i) \in Index
  <2>1. i \in 1..(capacity + 1)
    BY SoundFields
  <2> QED BY <2>1, SoundFields DEF ring_at
<1>2. ASSUME NEW r \in Index
      PROVE  IndexAt(w, r) = IndexAt(b, r) /\ TagAt(w, r) = TagAt(b, r)
  BY DEF EntryWords, IndexAt, TagAt
<1> QED BY <1>1, <1>2 DEF Ring

(* The bitmap stays when no byte of it is written.                         *)
LEMMA BitsKept ==
  ASSUME NEW b, NEW w, \A o \in bitmap_off..(pool_account_size - 1) : w[o] = b[o]
  PROVE  Bits(w) = Bits(b) /\ \A i \in Index : is_minted(w, i) <=> is_minted(b, i)
<1>1. ASSUME NEW i \in Index
      PROVE  w[bitmap_off + (i \div 8)] = b[bitmap_off + (i \div 8)]
  <2>1. bitmap_off + (i \div 8) \in bitmap_off..(pool_account_size - 1)
    BY Sizes DEF Index
  <2> QED BY <2>1
<1>2. \A i \in Index : is_minted(w, i) <=> is_minted(b, i)
  BY <1>1 DEF is_minted
<1> QED BY <1>2 DEF Bits

(* WriteWord, for an offset that is four times a word.                     *)
LEMMA WriteField ==
  ASSUME NEW b \in Bytes, NEW a \in WordsOf, NEW v \in U32, NEW o, o = 4 * a
  PROVE  /\ wr_u32(b, o, v) \in Bytes
         /\ \A c \in WordsOf : word(wr_u32(b, o, v), c) = IF c = a THEN v ELSE word(b, c)
         /\ \A x \in bitmap_off..(pool_account_size - 1) : wr_u32(b, o, v)[x] = b[x]
BY WriteWord

(* pool_set.                                                               *)
LEMMA SetWords ==
  ASSUME NEW b \in Bytes, NEW i \in Index, NEW x \in Index
  PROVE  /\ pool_set(b, i, x) \in Bytes
         /\ \A c \in WordsOf : word(pool_set(b, i, x), c) = IF c = 16 + i THEN x + 1 ELSE word(b, c)
         /\ \A o \in bitmap_off..(pool_account_size - 1) : pool_set(b, i, x)[o] = b[o]
<1>1. pool_off(i) = 4 * (16 + i) /\ 16 + i \in WordsOf
  BY Offsets DEF Index
<1>2. x + 1 \in U32
  BY Sizes DEF Index, U32
<1> QED BY <1>1, <1>2, WriteField DEF pool_set

(* pool_push appends to the slots and touches nothing else.                *)
LEMMA PushedRecord ==
  ASSUME NEW b, Sound(b), NEW x \in Index, total(b) < capacity
  PROVE  /\ Sound(Pushed(b, x))
         /\ Slots(Pushed(b, x)) = Append(Slots(b), x)
         /\ Ring(Pushed(b, x)) = Ring(b)
         /\ Bits(Pushed(b, x)) = Bits(b)
         /\ incoming_len(Pushed(b, x)) = incoming_len(b)
         /\ pool_len(Pushed(b, x)) = pool_len(b) + 1
<1> DEFINE n == pool_len(b)
           s == pool_set(b, n, x)
           w == Pushed(b, x)
<1>1. /\ capacity \in Nat \ {0} /\ b \in Bytes /\ n \in Nat /\ n = word(b, 11)
      /\ incoming_len(b) \in Nat /\ n + incoming_len(b) < capacity
      /\ incoming_head(b) \in Index
  BY SoundFields
<1>2. n \in Index /\ n + 1 \in U32
  <2>1. capacity <= 4294967295
    BY Sizes DEF U32
  <2> QED BY <1>1, <2>1 DEF Index, U32
<1>3. w = wr_u32(s, 44, n + 1)
  BY DEF Pushed
<1>4. /\ s \in Bytes
      /\ \A c \in WordsOf : word(s, c) = IF c = 16 + n THEN x + 1 ELSE word(b, c)
      /\ \A o \in bitmap_off..(pool_account_size - 1) : s[o] = b[o]
  <2> HIDE DEF n
  <2>1. b \in Bytes /\ n \in Index
    BY <1>1, <1>2
  <2> QED BY ONLY <2>1, x \in Index, SetWords DEF s
<1> HIDE DEF n, s, w
<1>5. /\ w \in Bytes
      /\ \A c \in WordsOf : word(w, c) = IF c = 11 THEN n + 1 ELSE word(s, c)
      /\ \A o \in bitmap_off..(pool_account_size - 1) : w[o] = s[o]
  <2>1. 11 \in WordsOf /\ 44 = 4 * 11
    BY Offsets
  <2> QED BY <1>2, <1>3, <1>4, <2>1, WriteField
<1>6. \A c \in WordsOf : word(w, c) = IF c = 11 THEN n + 1
                                      ELSE IF c = 16 + n THEN x + 1 ELSE word(b, c)
  BY <1>4, <1>5
<1>7. /\ pool_len(w) = n + 1 /\ incoming_head(w) = incoming_head(b)
      /\ incoming_len(w) = incoming_len(b) /\ word(w, 10) = word(b, 10)
  BY <1>1, <1>2, <1>6, Offsets, Apart, Fields
<1>8. Bits(w) = Bits(b)
  BY <1>4, <1>5, BitsKept
<1>9. Ring(w) = Ring(b)
  <2>1. ASSUME NEW r \in Index, NEW c \in EntryWords(r)
        PROVE  word(w, c) = word(b, c)
    BY <1>2, <1>6, Apart
  <2> QED BY <1>5, <1>7, <2>1, RingKept
<1>10. \A i \in 0..n : pool_get(w, i) = IF i = n THEN x ELSE pool_get(b, i)
  <2>1. ASSUME NEW i \in 0..n PROVE pool_get(w, i) = IF i = n THEN x ELSE pool_get(b, i)
    <3>1. i \in Index
      BY <1>1, <1>2 DEF Index
    <3>2. word(w, 16 + i) = IF i = n THEN x + 1 ELSE word(b, 16 + i)
      BY <1>2, <1>6, <3>1, Apart
    <3>3. x + 1 # 0 /\ (x + 1) - 1 = x
      BY DEF Index
    <3> QED BY <1>1, <1>5, <3>1, <3>2, <3>3, Entries
  <2> QED BY <2>1
<1>11. Slots(w) = Append(Slots(b), x)
  <2>1. Slots(b) \in Seq(Index) /\ Len(Slots(b)) = n
    BY SoundRecord DEF n
  <2>2. /\ Append(Slots(b), x) \in Seq(Index) /\ Len(Append(Slots(b), x)) = n + 1
        /\ \A i \in 1..n : Append(Slots(b), x)[i] = Slots(b)[i]
        /\ Append(Slots(b), x)[n + 1] = x
    BY <2>1, AppendProperties
  <2>3. Append(Slots(b), x) = [i \in 1..(n + 1) |-> Append(Slots(b), x)[i]]
    BY <2>2, LenProperties
  <2>4. \A i \in 1..n : Slots(b)[i] = pool_get(b, i - 1)
    BY DEF Slots, n
  <2>5. ASSUME NEW i \in 1..(n + 1)
        PROVE  pool_get(w, i - 1) = Append(Slots(b), x)[i]
    <3>1. CASE i = n + 1
      <4>1. i - 1 = n /\ n \in 0..n
        BY <1>1, <3>1
      <4> QED BY <1>10, <2>2, <3>1, <4>1
    <3>2. CASE i # n + 1
      <4>1. i \in 1..n /\ i - 1 \in 0..n /\ i - 1 # n
        BY <1>1, <3>2
      <4> QED BY <1>10, <2>2, <2>4, <4>1
    <3> QED BY <3>1, <3>2
  <2>6. Slots(w) = [i \in 1..(n + 1) |-> pool_get(w, i - 1)]
    BY <1>7 DEF Slots
  <2> QED BY <2>3, <2>5, <2>6
<1>12. Sound(w)
  <2>1. ASSUME NEW i \in 1..pool_len(w) PROVE Slots(w)[i] \in Index
    <3>1. Slots(b) \in Seq(Index) /\ Len(Slots(b)) = n
      BY SoundRecord DEF n
    <3>2. /\ Append(Slots(b), x) \in Seq(Index) /\ Len(Append(Slots(b), x)) = n + 1
      BY <3>1, AppendProperties
    <3> QED BY <1>7, <1>11, <3>2, ElementOfSeq
  <2>2. total(w) <= capacity
    BY <1>1, <1>7 DEF total
  <2> QED BY <1>5, <1>7, <1>9, <2>1, <2>2 DEF Sound
<1> QED BY <1>7, <1>8, <1>9, <1>11, <1>12 DEF w, n

(* pool_swap_remove fills the hole with the last slot.                     *)
LEMMA SwapRemovedRecord ==
  ASSUME NEW b, Sound(b), NEW i \in Nat, i < pool_len(b)
  PROVE  /\ Sound(SwapRemoved(b, i))
         /\ Slots(SwapRemoved(b, i)) =
              [j \in 1..(pool_len(b) - 1) |->
                 IF j = i + 1 THEN Slots(b)[pool_len(b)] ELSE Slots(b)[j]]
         /\ Ring(SwapRemoved(b, i)) = Ring(b)
         /\ Bits(SwapRemoved(b, i)) = Bits(b)
         /\ incoming_len(SwapRemoved(b, i)) = incoming_len(b)
         /\ pool_len(SwapRemoved(b, i)) = pool_len(b) - 1
<1> DEFINE n == pool_len(b)
           x == pool_get(b, n - 1)
           s == pool_set(b, i, x)
           w == SwapRemoved(b, i)
<1>1. /\ capacity \in Nat \ {0} /\ b \in Bytes /\ n \in Nat /\ n = word(b, 11)
      /\ incoming_len(b) \in Nat /\ n + incoming_len(b) <= capacity
      /\ incoming_head(b) \in Index
  BY SoundFields
<1>2. i \in Index /\ n - 1 \in Nat /\ n - 1 \in U32 /\ n \in 1..n /\ i < n
  BY <1>1, Sizes DEF Index, U32
<1>3. x = Slots(b)[n] /\ x \in Index
  BY <1>2 DEF Slots, Sound
<1>4. w = wr_u32(s, 44, n - 1)
  BY DEF SwapRemoved
<1>5. /\ s \in Bytes
      /\ \A c \in WordsOf : word(s, c) = IF c = 16 + i THEN x + 1 ELSE word(b, c)
      /\ \A o \in bitmap_off..(pool_account_size - 1) : s[o] = b[o]
  BY <1>1, <1>2, <1>3, SetWords
<1> HIDE DEF n, x, s, w
<1>6. /\ w \in Bytes
      /\ \A c \in WordsOf : word(w, c) = IF c = 11 THEN n - 1 ELSE word(s, c)
      /\ \A o \in bitmap_off..(pool_account_size - 1) : w[o] = s[o]
  <2>1. 11 \in WordsOf /\ 44 = 4 * 11
    BY Offsets
  <2> QED BY <1>2, <1>4, <1>5, <2>1, WriteField
<1>7. \A c \in WordsOf : word(w, c) = IF c = 11 THEN n - 1
                                      ELSE IF c = 16 + i THEN x + 1 ELSE word(b, c)
  BY <1>5, <1>6
<1>8. /\ pool_len(w) = n - 1 /\ incoming_head(w) = incoming_head(b)
      /\ incoming_len(w) = incoming_len(b) /\ word(w, 10) = word(b, 10)
  BY <1>1, <1>2, <1>7, Offsets, Apart, Fields
<1>9. Bits(w) = Bits(b)
  BY <1>5, <1>6, BitsKept
<1>10. Ring(w) = Ring(b)
  <2>1. ASSUME NEW r \in Index, NEW c \in EntryWords(r)
        PROVE  word(w, c) = word(b, c)
    BY <1>2, <1>7, Apart
  <2> QED BY <1>6, <1>8, <2>1, RingKept
<1>11. ASSUME NEW j \in 1..(n - 1)
       PROVE  pool_get(w, j - 1) = IF j = i + 1 THEN Slots(b)[n] ELSE Slots(b)[j]
  <2>1. j - 1 \in Index /\ (j - 1 = i <=> j = i + 1) /\ j \in 1..n
    BY <1>1, <1>2 DEF Index
  <2>2. word(w, 16 + (j - 1)) = IF j - 1 = i THEN x + 1 ELSE word(b, 16 + (j - 1))
    BY <1>2, <1>7, <2>1, Apart
  <2>3. x + 1 # 0 /\ (x + 1) - 1 = x
    BY <1>3 DEF Index
  <2>4. pool_get(w, j - 1) = IF j - 1 = i THEN x ELSE pool_get(b, j - 1)
    <3> DEFINE k == j - 1
    <3>1. k \in Index
      BY <2>1
    <3> HIDE DEF k
    <3>2. /\ pool_get(w, k) = IF word(w, 16 + k) = 0 THEN k ELSE word(w, 16 + k) - 1
          /\ pool_get(b, k) = IF word(b, 16 + k) = 0 THEN k ELSE word(b, 16 + k) - 1
      BY <1>1, <1>6, <3>1, Entries
    <3> QED BY <2>2, <2>3, <3>2 DEF k
  <2>5. Slots(b)[j] = pool_get(b, j - 1)
    BY <2>1 DEF Slots, n
  <2> QED BY <1>3, <2>1, <2>4, <2>5
<1>12. Slots(w) = [j \in 1..(n - 1) |-> IF j = i + 1 THEN Slots(b)[n] ELSE Slots(b)[j]]
  BY <1>8, <1>11 DEF Slots
<1>13. Sound(w)
  <2>1. ASSUME NEW j \in 1..pool_len(w) PROVE Slots(w)[j] \in Index
    <3>1. Slots(b)[n] \in Index /\ \A k \in 1..n : Slots(b)[k] \in Index
      BY <1>2 DEF Sound, n
    <3>2. j \in 1..(n - 1) /\ j \in 1..n
      BY <1>1, <1>8
    <3> QED BY <1>12, <3>1, <3>2
  <2>2. total(w) <= capacity
    BY <1>1, <1>2, <1>8 DEF total
  <2>3. word(b, 10) = capacity /\ incoming_head(b) < capacity
        /\ \A k \in 1..incoming_len(b) : Ring(b)[k].index \in Index
    BY DEF Sound
  <2> QED BY <1>6, <1>8, <1>10, <2>1, <2>2, <2>3 DEF Sound
<1> QED BY <1>8, <1>9, <1>10, <1>12, <1>13 DEF w, n

(* A tag as two words.                                                     *)
LEMMA TagDigits ==
  ASSUME NEW tag \in Nat, tag <= MaxTag
  PROVE  /\ (tag \div 65536) \div 65536 \in U32
         /\ (tag % 4294967296) + 65536 * (65536 * ((tag \div 65536) \div 65536)) = tag
<1>1. MaxTag \in Nat /\ ((MaxTag \div 65536) \div 65536) \div 65536 < 65536
  BY LayoutAssumption
<1> DEFINE a == tag \div 65536
           h == (tag \div 65536) \div 65536
           H == (MaxTag \div 65536) \div 65536
<1>2. a \in Nat /\ tag % 65536 \in Nat /\ tag % 65536 < 65536 /\ tag = 65536 * a + (tag % 65536)
  BY SMT
<1>3. h \in Nat /\ a % 65536 \in Nat /\ a % 65536 < 65536 /\ a = 65536 * h + (a % 65536)
  BY <1>2, SMT
<1>4. H \in Nat /\ h <= H
  <2>1. a <= MaxTag \div 65536 /\ MaxTag \div 65536 \in Nat
    BY <1>1, SMT
  <2> HIDE DEF a
  <2> DEFINE A == MaxTag \div 65536
  <2>2. a \in Nat /\ A \in Nat /\ a <= A
    BY <1>2, <2>1
  <2> HIDE DEF A
  <2>3. a \div 65536 <= A \div 65536 /\ A \div 65536 \in Nat
    BY <2>2, SMT
  <2> QED BY <2>3, SMT DEF a, A
<1>5. H \div 65536 < 65536
  BY <1>1
<1> HIDE DEF h, H, a
<1>6. H < 4294967296
  <2>1. H = 65536 * (H \div 65536) + (H % 65536) /\ H % 65536 < 65536
    BY <1>4, SMT
  <2> QED BY <1>4, <1>5, <2>1, SMT
<1>7. h \in U32
  BY <1>3, <1>4, <1>6, SMT DEF U32
<1>8. tag % 4294967296 = 65536 * (a % 65536) + (tag % 65536)
  <2> DEFINE q == 65536 * (a % 65536) + (tag % 65536)
  <2>1. tag = 4294967296 * h + q /\ q \in Nat /\ q < 4294967296
    BY <1>2, <1>3, SMT
  <2> HIDE DEF q
  <2>2. tag % 4294967296 = q
    <3>1. tag \div 4294967296 = h
      BY <1>3, <2>1, SMT
    <3>2. tag = 4294967296 * (tag \div 4294967296) + (tag % 4294967296)
      BY SMT
    <3> QED BY <1>3, <2>1, <3>1, <3>2, SMT
  <2> QED BY <2>2, SMT DEF q
<1>9. (tag % 4294967296) + 65536 * (65536 * h) = tag
  BY <1>2, <1>3, <1>8, SMT
<1> QED BY <1>7, <1>9, SMT DEF h

(* The entries of the ring are apart, and so are their words.              *)
LEMMA RingApart ==
  ASSUME NEW b, Sound(b), NEW i \in 1..capacity, NEW j \in 1..capacity, i # j
  PROVE  ring_at(b, i) # ring_at(b, j)
<1>1. capacity \in Nat \ {0} /\ incoming_head(b) \in Index
  BY SoundFields
<1>2. i \in 1..(capacity + 1) /\ j \in 1..(capacity + 1)
  BY <1>1
<1>3. /\ ring_at(b, i) = IF incoming_head(b) + i - 1 < capacity THEN incoming_head(b) + i - 1
                         ELSE (incoming_head(b) + i - 1) - capacity
      /\ ring_at(b, j) = IF incoming_head(b) + j - 1 < capacity THEN incoming_head(b) + j - 1
                         ELSE (incoming_head(b) + j - 1) - capacity
  BY <1>2, SoundFields
<1> QED BY <1>1, <1>3 DEF Index

(* Two entries share no word.                                              *)
LEMMA WordsApart ==
  ASSUME NEW r \in Index, NEW p \in Index, r # p
  PROVE  \A c \in EntryWords(p) : c \notin EntryWords(r)
BY Sizes DEF Index, EntryWords

(* The words of an entry that is written.                                  *)
LEMMA EntryWritten ==
  ASSUME NEW b \in Bytes, NEW r \in Index, NEW x \in Index, NEW tag \in Nat, tag <= MaxTag
  PROVE  LET w == wr_u64(wr_u32(b, inc_off(r), x), inc_off(r) + 4, tag)
         IN  /\ w \in Bytes
             /\ \A c \in WordsOf : c \notin EntryWords(r) => word(w, c) = word(b, c)
             /\ IndexAt(w, r) = x /\ TagAt(w, r) = tag
             /\ \A o \in bitmap_off..(pool_account_size - 1) : w[o] = b[o]
<1> DEFINE a == 16 + capacity + 3 * r
           a1 == 17 + capacity + 3 * r
           a2 == 18 + capacity + 3 * r
           lo == tag % 4294967296
           hi == (tag \div 65536) \div 65536
           s == wr_u32(b, inc_off(r), x)
           t == wr_u32(s, inc_off(r) + 4, lo)
           w == wr_u32(t, inc_off(r) + 8, hi)
<1>1. /\ inc_off(r) = 4 * a /\ a \in WordsOf
      /\ inc_off(r) + 4 = 4 * a1 /\ a1 \in WordsOf
      /\ inc_off(r) + 8 = 4 * a2 /\ a2 \in WordsOf
  BY Offsets DEF Index
<1>2. a # a1 /\ a # a2 /\ a1 # a2
  BY Sizes DEF Index
<1>3. x \in U32
  <2>1. x \in Nat /\ x < capacity
    BY Sizes DEF Index
  <2>2. capacity \in Nat /\ capacity <= 4294967295
    BY Sizes, SMT DEF U32
  <2> QED BY <2>1, <2>2, SMT DEF U32
<1>4. hi \in U32 /\ lo + 65536 * (65536 * hi) = tag
  BY TagDigits
<1>5. lo \in U32 /\ wr_u32(s, inc_off(r) + 4, tag) = t
  <2> DEFINE o == inc_off(r) + 4
  <2> HIDE DEF o, s
  <2>1. tag % 4294967296 \in U32 /\ wr_u32(s, o, tag) = wr_u32(s, o, tag % 4294967296)
    BY LowWord
  <2> QED BY <2>1, SMT DEF o
<1>6. wr_u64(s, inc_off(r) + 4, tag) = w
  <2>1. inc_off(r) + 4 + 4 = inc_off(r) + 8
    BY Sizes DEF Index, inc_off, POOL_HEADER, INCOMING_ENTRY
  <2> HIDE DEF s
  <2> QED BY <1>5, <2>1, SMT DEF wr_u64
<1> HIDE DEF a, a1, a2, lo, hi, s, t, w
<1>7. /\ s \in Bytes
      /\ \A c \in WordsOf : word(s, c) = IF c = a THEN x ELSE word(b, c)
      /\ \A o \in bitmap_off..(pool_account_size - 1) : s[o] = b[o]
  BY <1>1, <1>3, WriteField DEF s
<1>8. /\ t \in Bytes
      /\ \A c \in WordsOf : word(t, c) = IF c = a1 THEN lo ELSE word(s, c)
      /\ \A o \in bitmap_off..(pool_account_size - 1) : t[o] = s[o]
  BY <1>1, <1>5, <1>7, WriteField DEF t
<1>9. /\ w \in Bytes
      /\ \A c \in WordsOf : word(w, c) = IF c = a2 THEN hi ELSE word(t, c)
      /\ \A o \in bitmap_off..(pool_account_size - 1) : w[o] = t[o]
  BY <1>1, <1>4, <1>8, WriteField DEF w
<1>10. word(w, a) = x /\ word(w, a1) = lo /\ word(w, a2) = hi
  BY <1>1, <1>2, <1>7, <1>8, <1>9
<1>11. ASSUME NEW c \in WordsOf, c \notin EntryWords(r)
       PROVE  word(w, c) = word(b, c)
  <2>1. c # a /\ c # a1 /\ c # a2
    BY <1>11 DEF EntryWords, a, a1, a2
  <2> QED BY <1>7, <1>8, <1>9, <2>1
<1>12. IndexAt(w, r) = x
  BY <1>10 DEF IndexAt, a
<1>13. TagAt(w, r) = tag
  <2>1. TagAt(w, r) = word(w, a1) + 65536 * (65536 * word(w, a2))
    BY DEF TagAt, a1, a2
  <2> QED BY <1>4, <1>10, <2>1
<1>14. \A o \in bitmap_off..(pool_account_size - 1) : w[o] = b[o]
  BY <1>7, <1>8, <1>9
<1> QED BY <1>6, <1>9, <1>11, <1>12, <1>13, <1>14 DEF s

(* incoming_push appends to the ring.                                      *)
LEMMA ReturnedRecord ==
  ASSUME NEW b, Sound(b), NEW x \in Index, NEW tag \in Nat, tag <= MaxTag, total(b) < capacity
  PROVE  /\ Sound(Returned(b, x, tag))
         /\ Slots(Returned(b, x, tag)) = Slots(b)
         /\ Ring(Returned(b, x, tag)) = Append(Ring(b), [index |-> x, tag |-> tag])
         /\ Bits(Returned(b, x, tag)) = Bits(b)
         /\ incoming_len(Returned(b, x, tag)) = incoming_len(b) + 1
         /\ pool_len(Returned(b, x, tag)) = pool_len(b)
<1> DEFINE m == incoming_len(b)
           r == ring_at(b, m + 1)
           s == wr_u64(wr_u32(b, inc_off(r), x), inc_off(r) + 4, tag)
           w == Returned(b, x, tag)
           e == [index |-> x, tag |-> tag]
<1>1. /\ capacity \in Nat \ {0} /\ b \in Bytes /\ m \in Nat /\ m = word(b, 13)
      /\ pool_len(b) \in Nat /\ pool_len(b) + m < capacity
      /\ incoming_head(b) \in Index /\ pool_len(b) = word(b, 11)
      /\ incoming_head(b) = word(b, 12)
  BY SoundFields
<1>2. r \in Index /\ m + 1 \in U32
  <2>1. m + 1 \in 1..(capacity + 1) /\ m + 1 <= capacity
    BY <1>1
  <2>2. capacity <= 4294967295
    BY Sizes DEF U32
  <2>3. m + 1 \in U32
    BY <1>1, <2>1, <2>2 DEF U32
  <2> QED BY <2>1, <2>3, SoundFields
<1>3. w = wr_u32(s, 52, m + 1)
  <2>1. incoming_head(b) + (m + 1) - 1 = incoming_head(b) + m
    BY <1>1 DEF Index
  <2>2. free_slot(b) = r
    BY <2>1 DEF free_slot, ring_at
  <2> QED BY <2>2 DEF Returned
<1>4. /\ s \in Bytes
      /\ \A c \in WordsOf : c \notin EntryWords(r) => word(s, c) = word(b, c)
      /\ IndexAt(s, r) = x /\ TagAt(s, r) = tag
      /\ \A o \in bitmap_off..(pool_account_size - 1) : s[o] = b[o]
  BY <1>1, <1>2, EntryWritten
<1> HIDE DEF m, r, s, w
<1>5. /\ w \in Bytes
      /\ \A c \in WordsOf : word(w, c) = IF c = 13 THEN m + 1 ELSE word(s, c)
      /\ \A o \in bitmap_off..(pool_account_size - 1) : w[o] = s[o]
  <2>1. 13 \in WordsOf /\ 52 = 4 * 13
    BY Offsets
  <2> QED BY <1>2, <1>3, <1>4, <2>1, WriteField
<1>6. \A c \in WordsOf : c # 13 /\ c \notin EntryWords(r) => word(w, c) = word(b, c)
  BY <1>4, <1>5
<1>7. /\ pool_len(w) = pool_len(b) /\ incoming_head(w) = incoming_head(b)
      /\ incoming_len(w) = m + 1 /\ word(w, 10) = word(b, 10)
  <2>1. \A c \in {10, 11, 12, 13} : c \in WordsOf /\ c \notin EntryWords(r)
    BY <1>2, Apart, Offsets
  <2>2. word(w, 10) = word(b, 10) /\ word(w, 11) = word(b, 11) /\ word(w, 12) = word(b, 12)
    BY <1>6, <2>1
  <2>3. word(w, 13) = m + 1
    BY <1>5, <2>1
  <2> QED BY <1>1, <2>2, <2>3, Fields
<1>8. Bits(w) = Bits(b)
  BY <1>4, <1>5, BitsKept
<1>9. Slots(w) = Slots(b)
  <2>1. ASSUME NEW i \in Index PROVE word(w, 16 + i) = word(b, 16 + i)
    <3>1. 16 + i \in WordsOf /\ 16 + i # 13 /\ 16 + i \notin EntryWords(r)
      BY <1>2, Apart
    <3> QED BY <1>6, <3>1
  <2>2. pool_len(b) \in 0..capacity
    BY <1>1
  <2> QED BY <1>1, <1>5, <1>7, <2>1, <2>2, SlotsKept
<1>10. ASSUME NEW i \in 1..m
       PROVE  /\ ring_at(w, i) = ring_at(b, i)
              /\ IndexAt(w, ring_at(b, i)) = IndexAt(b, ring_at(b, i))
              /\ TagAt(w, ring_at(b, i)) = TagAt(b, ring_at(b, i))
  <2>1. i \in 1..capacity /\ m + 1 \in 1..capacity /\ i # m + 1 /\ i \in 1..(capacity + 1)
    BY <1>1
  <2>2. ring_at(b, i) # r /\ ring_at(b, i) \in Index
    BY <2>1, RingApart, SoundFields DEF r
  <2>3. ASSUME NEW c \in EntryWords(ring_at(b, i)) PROVE word(w, c) = word(b, c)
    <3>1. c \in WordsOf /\ c # 13 /\ c \notin EntryWords(r)
      BY <1>2, <2>2, Apart, WordsApart
    <3> QED BY <1>6, <3>1
  <2>4. ring_at(w, i) = ring_at(b, i)
    BY <1>7 DEF ring_at
  <2> QED BY <2>3, <2>4 DEF EntryWords, IndexAt, TagAt
<1>11. ring_at(w, m + 1) = r /\ IndexAt(w, r) = x /\ TagAt(w, r) = tag
  <2>1. ring_at(w, m + 1) = r
    BY <1>7 DEF ring_at, r
  <2>2. ASSUME NEW c \in EntryWords(r) PROVE word(w, c) = word(s, c)
    BY <1>2, <1>5, Apart
  <2> QED BY <1>4, <2>1, <2>2 DEF EntryWords, IndexAt, TagAt
<1>12. Ring(w) = Append(Ring(b), e)
  <2>1. Ring(b) \in Seq(Returnee) /\ Len(Ring(b)) = m
    BY SoundRecord DEF m
  <2>2. e \in Returnee
    BY DEF Returnee
  <2> HIDE DEF e
  <2>3. /\ Append(Ring(b), e) \in Seq(Returnee) /\ Len(Append(Ring(b), e)) = m + 1
        /\ \A i \in 1..m : Append(Ring(b), e)[i] = Ring(b)[i]
        /\ Append(Ring(b), e)[m + 1] = e
    BY <2>1, <2>2, AppendProperties
  <2>4. Append(Ring(b), e) = [i \in 1..(m + 1) |-> Append(Ring(b), e)[i]]
    BY <2>3, LenProperties
  <2>5. ASSUME NEW i \in 1..(m + 1)
        PROVE  [index |-> IndexAt(w, ring_at(w, i)), tag |-> TagAt(w, ring_at(w, i))]
                 = Append(Ring(b), e)[i]
    <3>1. CASE i = m + 1
      BY <1>11, <2>3, <3>1 DEF e
    <3>2. CASE i # m + 1
      <4>1. i \in 1..m
        BY <1>1, <3>2
      <4>2. Ring(b)[i] = [index |-> IndexAt(b, ring_at(b, i)), tag |-> TagAt(b, ring_at(b, i))]
        BY <4>1 DEF Ring, m
      <4> QED BY <1>10, <2>3, <4>1, <4>2
    <3> QED BY <3>1, <3>2
  <2>6. Ring(w) = [i \in 1..(m + 1) |->
                     [index |-> IndexAt(w, ring_at(w, i)), tag |-> TagAt(w, ring_at(w, i))]]
    BY <1>7 DEF Ring
  <2> QED BY <2>4, <2>5, <2>6
<1>13. Sound(w)
  <2>1. ASSUME NEW i \in 1..incoming_len(w) PROVE Ring(w)[i].index \in Index
    <3>1. Ring(b) \in Seq(Returnee) /\ Len(Ring(b)) = m
      BY SoundRecord DEF m
    <3>2. e \in Returnee
      BY DEF Returnee
    <3>3. Append(Ring(b), e) \in Seq(Returnee) /\ Len(Append(Ring(b), e)) = m + 1
      BY <3>1, <3>2, AppendProperties
    <3>4. Ring(w)[i] \in Returnee
      BY <1>7, <1>12, <3>3, ElementOfSeq
    <3> QED BY <3>4 DEF Returnee
  <2>2. total(w) <= capacity
    BY <1>1, <1>7 DEF total
  <2>3. word(b, 10) = capacity /\ incoming_head(b) < capacity
        /\ \A k \in 1..pool_len(b) : Slots(b)[k] \in Index
    BY DEF Sound
  <2> QED BY <1>5, <1>7, <1>9, <2>1, <2>2, <2>3 DEF Sound
<1> QED BY <1>7, <1>8, <1>9, <1>12, <1>13 DEF w, m

(* The front of the ring.                                                  *)
LEMMA Front ==
  ASSUME NEW b, Sound(b), incoming_len(b) > 0
  PROVE  /\ rd_u64(b, inc_off(incoming_head(b)) + 4) = Ring(b)[1].tag
         /\ FrontIndex(b) = Ring(b)[1].index /\ FrontIndex(b) \in Index
         /\ Ring(b)[1].tag \in Nat
<1>1. /\ capacity \in Nat \ {0} /\ b \in Bytes /\ incoming_head(b) \in Index
      /\ incoming_len(b) \in Nat
  BY SoundFields
<1>2. 1 \in 1..incoming_len(b) /\ 1 \in 1..(capacity + 1)
  BY <1>1
<1>3. ring_at(b, 1) = incoming_head(b)
  <2>1. ring_at(b, 1) = IF incoming_head(b) + 1 - 1 < capacity THEN incoming_head(b) + 1 - 1
                        ELSE (incoming_head(b) + 1 - 1) - capacity
    BY <1>2, SoundFields
  <2> QED BY <1>1, <2>1 DEF Index
<1>4. Ring(b)[1] = [index |-> IndexAt(b, incoming_head(b)), tag |-> TagAt(b, incoming_head(b))]
  BY <1>2, <1>3 DEF Ring
<1>5. /\ rd_u64(b, inc_off(incoming_head(b)) + 4) = TagAt(b, incoming_head(b))
      /\ rd_u32(b, inc_off(incoming_head(b))) = IndexAt(b, incoming_head(b))
      /\ TagAt(b, incoming_head(b)) \in Nat
  BY <1>1, Entries
<1>6. Ring(b)[1].index \in Index
  BY <1>2 DEF Sound
<1> QED BY <1>4, <1>5, <1>6 DEF FrontIndex

(* The first half of a round of merge takes the front off the ring.        *)
LEMMA PoppedRecord ==
  ASSUME NEW b, Sound(b), incoming_len(b) > 0
  PROVE  /\ Sound(Popped(b))
         /\ Slots(Popped(b)) = Slots(b)
         /\ Ring(Popped(b)) = [i \in 1..(incoming_len(b) - 1) |-> Ring(b)[i + 1]]
         /\ Bits(Popped(b)) = Bits(b)
         /\ incoming_len(Popped(b)) = incoming_len(b) - 1
         /\ pool_len(Popped(b)) = pool_len(b)
<1> DEFINE m == incoming_len(b)
           h == (incoming_head(b) + 1) % capacity
           s == wr_u32(b, 48, h)
           w == Popped(b)
<1>1. /\ capacity \in Nat \ {0} /\ b \in Bytes /\ m \in Nat /\ m = word(b, 13) /\ m > 0
      /\ pool_len(b) \in Nat /\ pool_len(b) + m <= capacity
      /\ incoming_head(b) \in Index /\ pool_len(b) = word(b, 11)
      /\ incoming_head(b) = word(b, 12)
  BY SoundFields
<1>2. capacity <= 4294967295
  BY Sizes DEF U32
<1>3. /\ h = IF incoming_head(b) + 1 < capacity THEN incoming_head(b) + 1
             ELSE (incoming_head(b) + 1) - capacity
      /\ h \in Index
  <2> DEFINE z == incoming_head(b) + 1
  <2>1. z \in Nat /\ z < 2 * capacity /\ z <= capacity
    BY <1>1 DEF Index
  <2> HIDE DEF z
  <2>2. z % capacity = IF z < capacity THEN z ELSE z - capacity
    BY <2>1, Wrap
  <2>3. z % capacity \in Index
    BY <1>1, <2>1, <2>2 DEF Index
  <2> QED BY <2>2, <2>3 DEF z
<1>4. w = wr_u32(s, 52, m - 1)
  BY DEF Popped
<1>5. h \in U32 /\ m - 1 \in U32
  <2>1. h \in Nat /\ h < capacity /\ m - 1 \in Nat /\ m - 1 < capacity
    BY <1>1, <1>3 DEF Index
  <2> HIDE DEF h, m
  <2> QED BY <1>1, <1>2, <2>1 DEF U32
<1>6. {10, 11, 12, 13} \subseteq WordsOf /\ 48 = 4 * 12 /\ 52 = 4 * 13
  BY Offsets
<1> HIDE DEF m, h, s, w
<1>7. /\ s \in Bytes
      /\ \A c \in WordsOf : word(s, c) = IF c = 12 THEN h ELSE word(b, c)
      /\ \A o \in bitmap_off..(pool_account_size - 1) : s[o] = b[o]
  BY <1>1, <1>5, <1>6, WriteField DEF s
<1>8. /\ w \in Bytes
      /\ \A c \in WordsOf : word(w, c) = IF c = 13 THEN m - 1 ELSE word(s, c)
      /\ \A o \in bitmap_off..(pool_account_size - 1) : w[o] = s[o]
  BY <1>4, <1>5, <1>6, <1>7, WriteField
<1>9. \A c \in WordsOf : c # 12 /\ c # 13 => word(w, c) = word(b, c)
  BY <1>7, <1>8
<1>10. /\ pool_len(w) = pool_len(b) /\ incoming_head(w) = h
       /\ incoming_len(w) = m - 1 /\ word(w, 10) = word(b, 10)
  <2>1. word(w, 10) = word(b, 10) /\ word(w, 11) = word(b, 11)
    BY <1>6, <1>9
  <2>2. word(w, 12) = h /\ word(w, 13) = m - 1
    BY <1>6, <1>7, <1>8
  <2> QED BY <1>1, <2>1, <2>2, Fields
<1>11. Bits(w) = Bits(b)
  BY <1>7, <1>8, BitsKept
<1>12. Slots(w) = Slots(b)
  <2>1. ASSUME NEW i \in Index PROVE word(w, 16 + i) = word(b, 16 + i)
    BY <1>9, Apart
  <2>2. pool_len(b) \in 0..capacity
    BY <1>1
  <2> QED BY <1>1, <1>8, <1>10, <2>1, <2>2, SlotsKept
<1>13. ASSUME NEW i \in 1..(m - 1)
       PROVE  /\ ring_at(w, i) = ring_at(b, i + 1)
              /\ IndexAt(w, ring_at(b, i + 1)) = IndexAt(b, ring_at(b, i + 1))
              /\ TagAt(w, ring_at(b, i + 1)) = TagAt(b, ring_at(b, i + 1))
              /\ i + 1 \in 1..m
  <2>1. i + 1 \in 1..m /\ i + 1 \in 1..(capacity + 1) /\ i \in Nat /\ i < capacity /\ i > 0
    BY <1>1
  <2>2. /\ ring_at(b, i + 1) = IF incoming_head(b) + (i + 1) - 1 < capacity
                               THEN incoming_head(b) + (i + 1) - 1
                               ELSE (incoming_head(b) + (i + 1) - 1) - capacity
        /\ ring_at(b, i + 1) \in Index
    BY <2>1, SoundFields
  <2>3. ASSUME NEW c \in EntryWords(ring_at(b, i + 1)) PROVE word(w, c) = word(b, c)
    BY <1>9, <2>2, Apart
  <2>4. ring_at(w, i) = ring_at(b, i + 1)
    <3> DEFINE z == h + i - 1
    <3>1. z \in Nat /\ z < 2 * capacity
      BY <1>1, <1>3, <2>1 DEF Index
    <3>2. ring_at(w, i) = z % capacity
      BY <1>10 DEF ring_at
    <3>3. (IF z < capacity THEN z ELSE z - capacity) = ring_at(b, i + 1)
      BY <1>1, <1>3, <2>1, <2>2 DEF Index
    <3> HIDE DEF z
    <3>4. z % capacity = IF z < capacity THEN z ELSE z - capacity
      BY <3>1, Wrap
    <3> QED BY <3>2, <3>3, <3>4
  <2> QED BY <2>1, <2>3, <2>4 DEF EntryWords, IndexAt, TagAt
<1>14. Ring(w) = [i \in 1..(m - 1) |-> Ring(b)[i + 1]]
  <2>1. ASSUME NEW i \in 1..(m - 1)
        PROVE  [index |-> IndexAt(w, ring_at(w, i)), tag |-> TagAt(w, ring_at(w, i))]
                 = Ring(b)[i + 1]
    <3>1. Ring(b)[i + 1] = [index |-> IndexAt(b, ring_at(b, i + 1)),
                            tag |-> TagAt(b, ring_at(b, i + 1))]
      BY <1>13 DEF Ring, m
    <3> QED BY <1>13, <3>1
  <2>2. Ring(w) = [i \in 1..(m - 1) |->
                     [index |-> IndexAt(w, ring_at(w, i)), tag |-> TagAt(w, ring_at(w, i))]]
    BY <1>10 DEF Ring
  <2> QED BY <2>1, <2>2
<1>15. Sound(w)
  <2>1. ASSUME NEW i \in 1..incoming_len(w) PROVE Ring(w)[i].index \in Index
    <3>1. i \in 1..(m - 1) /\ i + 1 \in 1..incoming_len(b)
      BY <1>10, <1>13 DEF m
    <3>2. Ring(w)[i] = Ring(b)[i + 1]
      BY <1>14, <3>1
    <3> QED BY <3>1, <3>2 DEF Sound
  <2>2. total(w) <= capacity
    BY <1>1, <1>10 DEF total
  <2>3. word(b, 10) = capacity /\ \A k \in 1..pool_len(b) : Slots(b)[k] \in Index
    BY DEF Sound
  <2>4. incoming_head(w) < capacity
    BY <1>1, <1>3, <1>10 DEF Index
  <2> QED BY <1>8, <1>10, <1>12, <2>1, <2>2, <2>3, <2>4 DEF Sound
<1> QED BY <1>10, <1>11, <1>12, <1>14, <1>15 DEF w, m

(* The weights of the eight bits of a byte.                                *)
LEMMA PowersOfTwo ==
  /\ 2^0 = 1 /\ 2^1 = 2 /\ 2^2 = 4 /\ 2^3 = 8
  /\ 2^4 = 16 /\ 2^5 = 32 /\ 2^6 = 64 /\ 2^7 = 128
BY Z3

Weights == {1, 2, 4, 8, 16, 32, 64, 128}

(* Adding the weight of a clear bit changes that bit and no other.         *)
LEMMA NoCarry ==
  ASSUME NEW y \in Byte, NEW p \in Weights, NEW q \in Weights, (y \div p) % 2 # 1
  PROVE  y + p \in Byte /\ ((y + p) \div q) % 2 = IF p = q THEN 1 ELSE (y \div q) % 2
<1>1. CASE q = 1
  BY <1>1, SMT DEF Byte, Weights
<1>2. CASE q = 2
  BY <1>2, SMT DEF Byte, Weights
<1>3. CASE q = 4
  BY <1>3, SMT DEF Byte, Weights
<1>4. CASE q = 8
  BY <1>4, SMT DEF Byte, Weights
<1>5. CASE q = 16
  BY <1>5, SMT DEF Byte, Weights
<1>6. CASE q = 32
  BY <1>6, SMT DEF Byte, Weights
<1>7. CASE q = 64
  BY <1>7, SMT DEF Byte, Weights
<1>8. CASE q = 128
  BY <1>8, SMT DEF Byte, Weights
<1> QED BY <1>1, <1>2, <1>3, <1>4, <1>5, <1>6, <1>7, <1>8 DEF Weights

PlaceOf(p) ==
  IF p = 1 THEN 0 ELSE IF p = 2 THEN 1 ELSE IF p = 4 THEN 2 ELSE IF p = 8 THEN 3
  ELSE IF p = 16 THEN 4 ELSE IF p = 32 THEN 5 ELSE IF p = 64 THEN 6 ELSE 7

(* Different places have different weights.                                *)
LEMMA WeightOf ==
  ASSUME NEW k \in 0..7
  PROVE  2^k \in Weights /\ PlaceOf(2^k) = k
<1>1. k \in {0, 1, 2, 3, 4, 5, 6, 7}
  BY SMT
<1>2. CASE k = 0
  BY <1>2, PowersOfTwo DEF Weights, PlaceOf
<1>3. CASE k = 1
  BY <1>3, PowersOfTwo DEF Weights, PlaceOf
<1>4. CASE k = 2
  BY <1>4, PowersOfTwo DEF Weights, PlaceOf
<1>5. CASE k = 3
  BY <1>5, PowersOfTwo DEF Weights, PlaceOf
<1>6. CASE k = 4
  BY <1>6, PowersOfTwo DEF Weights, PlaceOf
<1>7. CASE k = 5
  BY <1>7, PowersOfTwo DEF Weights, PlaceOf
<1>8. CASE k = 6
  BY <1>8, PowersOfTwo DEF Weights, PlaceOf
<1>9. CASE k = 7
  BY <1>9, PowersOfTwo DEF Weights, PlaceOf
<1> QED BY <1>1, <1>2, <1>3, <1>4, <1>5, <1>6, <1>7, <1>8, <1>9

(* Setting a clear bit, as mark_minted does.                               *)
LEMMA BitSet ==
  ASSUME NEW y \in Byte, NEW k \in 0..7, NEW j \in 0..7, Bit(y, k) # 1
  PROVE  y + 2^k \in Byte /\ (Bit(y + 2^k, j) = 1 <=> j = k \/ Bit(y, j) = 1)
<1>1. 2^k \in Weights /\ 2^j \in Weights /\ (2^k = 2^j <=> k = j)
  <2>1. 2^k \in Weights /\ 2^j \in Weights /\ PlaceOf(2^k) = k /\ PlaceOf(2^j) = j
    BY WeightOf
  <2> QED BY <2>1, Zenon
<1>2. y + 2^k \in Byte /\ ((y + 2^k) \div 2^j) % 2 = IF 2^k = 2^j THEN 1 ELSE (y \div 2^j) % 2
  BY <1>1, NoCarry DEF Bit
<1> QED BY <1>1, <1>2 DEF Bit

(* mark_minted sets one bit of the bitmap, behind all the words.           *)
LEMMA MarkedRecord ==
  ASSUME NEW b, Sound(b), NEW index \in Index, ~is_minted(b, index)
  PROVE  /\ Sound(MarkMinted(b, index))
         /\ Slots(MarkMinted(b, index)) = Slots(b)
         /\ Ring(MarkMinted(b, index)) = Ring(b)
         /\ Bits(MarkMinted(b, index)) = Bits(b) \cup {index}
         /\ incoming_len(MarkMinted(b, index)) = incoming_len(b)
         /\ pool_len(MarkMinted(b, index)) = pool_len(b)
<1> DEFINE E == pool_account_size - 1
           at(i) == bitmap_off + (i \div 8)
           w == MarkMinted(b, index)
<1>1. /\ capacity \in Nat \ {0} /\ b \in Bytes /\ bitmap_off \in Nat
      /\ bitmap_off = 64 + 16 * capacity
      /\ \A i \in Index : at(i) \in bitmap_off..E /\ at(i) \in 40..E
      /\ pool_len(b) \in 0..capacity
  <2>1. /\ capacity \in Nat \ {0} /\ b \in Bytes /\ bitmap_off \in Nat
        /\ bitmap_off = 64 + 16 * capacity /\ pool_len(b) \in 0..capacity
    BY SoundFields, Sizes
  <2>2. ASSUME NEW i \in Index PROVE at(i) \in bitmap_off..E /\ at(i) \in 40..E
    <3>1. i \in Nat /\ i \div 8 \in Nat
      BY DEF Index
    <3>2. bitmap_off + (i \div 8) < pool_account_size /\ pool_account_size \in Nat
      BY Sizes DEF Index
    <3> QED BY <2>1, <3>1, <3>2
  <2> QED BY <2>1, <2>2
<1>2. \A i \in Index : is_minted(b, i) <=> Bit(b[at(i)], i % 8) = 1
  <2>1. \A i \in Index : i < capacity
    BY <1>1 DEF Index
  <2> QED BY <2>1, Zenon DEF is_minted
<1>3. /\ b[at(index)] \in Byte /\ Bit(b[at(index)], index % 8) # 1
      /\ \A i \in Index : i % 8 \in 0..7
      /\ \A i \in Index : b[at(i)] \in Byte
  <2>1. \A i \in Index : b[at(i)] \in Byte
    BY <1>1 DEF Bytes
  <2>2. \A i \in Index : i % 8 \in 0..7
    BY DEF Index
  <2> QED BY <1>2, <2>1, <2>2
<1>4. w = [b EXCEPT ![at(index)] = b[at(index)] + 2^(index % 8)]
  BY DEF MarkMinted
<1>5. b[at(index)] + 2^(index % 8) \in Byte
  BY <1>3, BitSet
<1>6. \A i \in Index : is_minted(w, i) <=> Bit(w[at(i)], i % 8) = 1
  <2>1. \A i \in Index : i < capacity
    BY <1>1 DEF Index
  <2> QED BY <2>1, Zenon DEF is_minted
<1> HIDE DEF w
<1>7. /\ w \in Bytes /\ w[at(index)] = b[at(index)] + 2^(index % 8)
      /\ \A o \in 40..E : o # at(index) => w[o] = b[o]
  BY <1>1, <1>4, <1>5 DEF Bytes
<1>8. ASSUME NEW c \in WordsOf
      PROVE  word(w, c) = word(b, c)
  <2>1. c \in Nat /\ 4 * c + 3 < bitmap_off /\ 10 <= c
    BY <1>1 DEF WordsOf
  <2>2. ASSUME NEW o \in {4 * c, 4 * c + 1, 4 * c + 2, 4 * c + 3}
        PROVE  w[o] = b[o]
    <3>1. at(index) \in bitmap_off..E /\ E \in Int
      BY <1>1, Sizes
    <3> HIDE DEF at, E
    <3>2. o \in 40..E /\ o # at(index)
      BY <1>1, <2>1, <3>1
    <3> QED BY <1>7, <3>2
  <2> QED BY <2>2 DEF word, rd_u32
<1>9. /\ pool_len(w) = pool_len(b) /\ incoming_head(w) = incoming_head(b)
      /\ incoming_len(w) = incoming_len(b) /\ word(w, 10) = word(b, 10)
      /\ total(w) = total(b)
  BY <1>8, Offsets, Fields
<1>10. Slots(w) = Slots(b)
  <2>1. \A i \in Index : word(w, 16 + i) = word(b, 16 + i)
    BY <1>8, Apart
  <2> QED BY <1>1, <1>7, <1>9, <2>1, SlotsKept
<1>11. Ring(w) = Ring(b)
  <2>1. \A r \in Index : \A c \in EntryWords(r) : word(w, c) = word(b, c)
    BY <1>8, Apart
  <2> QED BY <1>7, <1>9, <2>1, RingKept
<1>12. ASSUME NEW i \in Index
       PROVE  is_minted(w, i) <=> i = index \/ is_minted(b, i)
  <2>1. CASE i \div 8 = index \div 8
    <3>1. i % 8 = index % 8 <=> i = index
      BY <2>1 DEF Index
    <3>2. at(i) = at(index)
      BY <2>1
    <3>3. Bit(w[at(i)], i % 8) = 1 <=> i % 8 = index % 8 \/ Bit(b[at(i)], i % 8) = 1
      <4> HIDE DEF at
      <4>1. Bit(b[at(index)] + 2^(index % 8), i % 8) = 1
              <=> i % 8 = index % 8 \/ Bit(b[at(index)], i % 8) = 1
        BY <1>3, BitSet
      <4> QED BY <1>7, <3>2, <4>1
    <3> QED BY <1>2, <1>6, <3>1, <3>3
  <2>2. CASE i \div 8 # index \div 8
    <3>1. at(i) # at(index) /\ i # index
      BY <1>1, <2>2 DEF Index
    <3>2. w[at(i)] = b[at(i)]
      BY <1>1, <1>7, <3>1
    <3> QED BY <1>2, <1>6, <3>1, <3>2
  <2> QED BY <2>1, <2>2
<1>13. Bits(w) = Bits(b) \cup {index}
  BY <1>12 DEF Bits
<1>14. Sound(w)
  BY <1>7, <1>9, <1>10, <1>11 DEF Sound
<1> QED BY <1>9, <1>10, <1>11, <1>13, <1>14 DEF w

(* A set that holds 0 and with k also k + 1 holds every number up to n0.   *)
LEMMA CountUp ==
  ASSUME NEW n0 \in Nat, NEW S, 0 \in S, \A k \in 0..(n0 - 1) : k \in S => k + 1 \in S
  PROVE  0..n0 \subseteq S
<1> DEFINE R == OpToRel(<, Nat)
           T == {k \in 0..n0 : k \notin S}
<1> SUFFICES ASSUME T # {} PROVE FALSE
  OBVIOUS
<1>1. IsWellFoundedOn(R, Nat)
  BY NatLessThanWellFounded
<1>2. \A x, y \in Nat : <<x, y>> \in R <=> x < y
  BY DEF OpToRel
<1> HIDE DEF R
<1>3. PICK x \in T : \A y \in T : ~(<<y, x>> \in R)
  <2>1. T \subseteq Nat
    OBVIOUS
  <2> HIDE DEF T
  <2> QED BY <1>1, <2>1, WFMin
<1>4. x \in 0..n0 /\ x \notin S /\ x # 0
  BY <1>3
<1>5. x - 1 \in 0..(n0 - 1) /\ x - 1 \in Nat /\ x \in Nat /\ x - 1 < x
  BY <1>4
<1>6. x - 1 \in S
  <2>1. SUFFICES ASSUME x - 1 \notin S PROVE FALSE
    OBVIOUS
  <2>2. x - 1 \in T
    BY <1>5, <2>1
  <2>3. <<x - 1, x>> \in R
    BY <1>2, <1>5
  <2> QED BY <1>3, <2>2, <2>3
<1>7. x - 1 + 1 = x
  BY <1>5
<1> QED BY <1>4, <1>5, <1>6, <1>7


(* One round of the loop of merge.                                         *)
Round(b, max_tag) ==
  IF FrontEligible(b, max_tag) THEN Pushed(Popped(b), FrontIndex(b)) ELSE b

(* The recursive function of MergeRounds exists, and is what it says.      *)
LEMMA RoundsRec ==
  ASSUME NEW b, NEW max_tag, NEW max \in Nat
  PROVE  MergeRounds(b, max_tag, max) =
           [k \in 0..max |-> IF k = 0 THEN b ELSE Round(MergeRounds(b, max_tag, max)[k - 1], max_tag)]
<1> DEFINE Is(f, j) == f = [k \in 0..j |-> IF k = 0 THEN b ELSE Round(f[k - 1], max_tag)]
           S == {j \in 0..max : \E f : Is(f, j)}
<1>1. 0 \in S
  <2>1. Is([k \in 0..0 |-> b], 0)
    OBVIOUS
  <2> HIDE DEF Is
  <2> QED BY <2>1
<1>2. ASSUME NEW j \in 0..(max - 1), j \in S PROVE j + 1 \in S
  <2>1. PICK f : Is(f, j)
    BY <1>2
  <2> DEFINE g == [k \in 0..(j + 1) |-> IF k = j + 1 THEN Round(f[j], max_tag) ELSE f[k]]
  <2>2. Is(g, j + 1)
    BY <2>1
  <2> HIDE DEF Is, g
  <2> QED BY <2>2
<1>3. max \in S
  <2> HIDE DEF S
  <2> QED BY <1>1, <1>2, CountUp
<1>4. \E f : Is(f, max)
  BY <1>3
<1> DEFINE a == CHOOSE f : Is(f, max)
<1>5. Is(a, max)
  <2> HIDE DEF Is
  <2> QED BY <1>4
<1>6. a = MergeRounds(b, max_tag, max)
  BY DEF MergeRounds, Round
<1> QED BY <1>5, <1>6

(* The sequences of a buffer from whose ring j entries have moved.         *)
MovedSlots(b, j) ==
  [i \in 1..(pool_len(b) + j) |->
     IF i <= pool_len(b) THEN Slots(b)[i] ELSE Ring(b)[i - pool_len(b)].index]
MovedRing(b, j) == [i \in 1..(incoming_len(b) - j) |-> Ring(b)[i + j]]

After(b, c, j) ==
  /\ Sound(c)
  /\ Slots(c) = MovedSlots(b, j) /\ Ring(c) = MovedRing(b, j) /\ Bits(c) = Bits(b)
  /\ pool_len(c) = pool_len(b) + j /\ incoming_len(c) = incoming_len(b) - j

(* A round moves one entry and finds room for it.                          *)
LEMMA OneRound ==
  ASSUME NEW b, Sound(b), NEW c, NEW j \in 0..incoming_len(b), After(b, c, j),
         NEW max_tag \in Nat
  PROVE  /\ FrontEligible(c, max_tag) <=> j < incoming_len(b) /\ Ring(b)[j + 1].tag <= max_tag
         /\ FrontEligible(c, max_tag) => /\ RoomForFront(c)
                                         /\ After(b, Pushed(Popped(c), FrontIndex(c)), j + 1)
<1> DEFINE n == pool_len(b)
           m == incoming_len(b)
           p == Popped(c)
           x == FrontIndex(c)
           w == Pushed(p, x)
<1>1. /\ n \in Nat /\ m \in Nat /\ n + m <= capacity /\ capacity \in Nat \ {0}
      /\ Sound(c) /\ pool_len(c) = n + j /\ incoming_len(c) = m - j /\ j \in Nat /\ j <= m
  BY SoundFields DEF After
<1>2. FrontEligible(c, max_tag) <=> j < m /\ Ring(b)[j + 1].tag <= max_tag
  <2>1. CASE j = m
    BY <1>1, <2>1 DEF FrontEligible
  <2>2. CASE j < m
    <3>1. incoming_len(c) > 0 /\ 1 \in 1..(m - j)
      BY <1>1, <2>2
    <3>2. Ring(c)[1] = Ring(b)[j + 1]
      BY <1>1, <3>1 DEF After, MovedRing
    <3>3. rd_u64(c, inc_off(incoming_head(c)) + 4) = Ring(c)[1].tag
      BY <1>1, <3>1, Front
    <3> QED BY <2>2, <3>1, <3>2, <3>3 DEF FrontEligible
  <2> QED BY <1>1, <2>1, <2>2
<1>3. ASSUME FrontEligible(c, max_tag) PROVE RoomForFront(c) /\ After(b, w, j + 1)
  <2>1. j < m /\ incoming_len(c) > 0 /\ 1 \in 1..(m - j)
    BY <1>1, <1>2, <1>3
  <2>2. x = Ring(b)[j + 1].index /\ x \in Index
    <3>1. Ring(c)[1] = Ring(b)[j + 1]
      BY <1>1, <2>1 DEF After, MovedRing
    <3> QED BY <1>1, <2>1, <3>1, Front
  <2>3. /\ Sound(p) /\ Slots(p) = Slots(c) /\ Bits(p) = Bits(c)
        /\ Ring(p) = [i \in 1..(incoming_len(c) - 1) |-> Ring(c)[i + 1]]
        /\ incoming_len(p) = incoming_len(c) - 1 /\ pool_len(p) = pool_len(c)
    BY <1>1, <2>1, PoppedRecord
  <2> HIDE DEF n, m, p, x, w
  <2>4. total(p) < capacity
    BY <1>1, <2>1, <2>3 DEF total
  <2>5. RoomForFront(c)
    BY <2>2, <2>4, <1>1 DEF RoomForFront, PushAllowed, p, x, Index
  <2>6. /\ Sound(w) /\ Slots(w) = Append(Slots(p), x) /\ Ring(w) = Ring(p) /\ Bits(w) = Bits(p)
        /\ incoming_len(w) = incoming_len(p) /\ pool_len(w) = pool_len(p) + 1
    BY <2>2, <2>3, <2>4, PushedRecord DEF w
  <2>7. pool_len(w) = n + (j + 1) /\ incoming_len(w) = m - (j + 1)
    BY <1>1, <2>3, <2>6
  <2>8. Ring(w) = MovedRing(b, j + 1)
    <3>1. ASSUME NEW i \in 1..(m - (j + 1))
          PROVE  Ring(c)[i + 1] = Ring(b)[i + (j + 1)]
      <4>1. i + 1 \in 1..(m - j) /\ (i + 1) + j = i + (j + 1)
        BY <1>1
      <4> QED BY <4>1 DEF After, MovedRing, m
    <3>2. Ring(w) = [i \in 1..(m - (j + 1)) |-> Ring(c)[i + 1]]
      <4>1. incoming_len(c) - 1 = m - (j + 1)
        BY <1>1
      <4> QED BY <2>3, <2>6, <4>1
    <3> QED BY <3>1, <3>2 DEF MovedRing, m
  <2>9. Slots(w) = MovedSlots(b, j + 1)
    <3>1. Slots(c) \in Seq(Index) /\ Len(Slots(c)) = n + j
      BY <1>1, SoundRecord
    <3>2. /\ Append(Slots(c), x) \in Seq(Index) /\ Len(Append(Slots(c), x)) = n + (j + 1)
          /\ \A i \in 1..(n + j) : Append(Slots(c), x)[i] = Slots(c)[i]
          /\ Append(Slots(c), x)[n + (j + 1)] = x
      <4>1. (n + j) + 1 = n + (j + 1)
        BY <1>1
      <4> QED BY <2>2, <3>1, <4>1, AppendProperties
    <3>3. Append(Slots(c), x) = [i \in 1..(n + (j + 1)) |-> Append(Slots(c), x)[i]]
      BY <3>2, LenProperties
    <3>4. ASSUME NEW i \in 1..(n + (j + 1))
          PROVE  Append(Slots(c), x)[i] = IF i <= n THEN Slots(b)[i] ELSE Ring(b)[i - n].index
      <4>1. CASE i = n + (j + 1)
        <5>1. i - n = j + 1 /\ ~(i <= n)
          BY <1>1, <4>1
        <5> QED BY <2>2, <3>2, <4>1, <5>1
      <4>2. CASE i # n + (j + 1)
        <5>1. i \in 1..(n + j)
          BY <1>1, <4>2
        <5>2. Slots(c)[i] = IF i <= n THEN Slots(b)[i] ELSE Ring(b)[i - n].index
          BY <5>1 DEF After, MovedSlots, n
        <5> QED BY <3>2, <5>1, <5>2
      <4> QED BY <4>1, <4>2
    <3> QED BY <2>3, <2>6, <3>3, <3>4 DEF MovedSlots, n
  <2>10. Bits(w) = Bits(b)
    BY <2>3, <2>6 DEF After
  <2> QED BY <2>5, <2>6, <2>7, <2>8, <2>9, <2>10 DEF After, n, m
<1> QED BY <1>2, <1>3

(* The rounds together: merge always has room, and moves what it should.   *)
LEMMA MergedRecord ==
  ASSUME NEW b, Sound(b), NEW max_tag \in Nat, NEW max \in Nat
  PROVE  /\ MergeAllowed(b, max_tag, max)
         /\ \E j \in 0..incoming_len(b) :
              /\ After(b, MergedBytes(b, max_tag, max), j) /\ j <= max
              /\ \A i \in 1..j : Ring(b)[i].tag <= max_tag
              /\ j < max /\ j < incoming_len(b) => Ring(b)[j + 1].tag > max_tag
<1> DEFINE after == MergeRounds(b, max_tag, max)
           m == incoming_len(b)
           Reached(k) == \E j \in 0..m :
                           /\ After(b, after[k], j) /\ j <= k
                           /\ \A i \in 1..j : Ring(b)[i].tag <= max_tag
                           /\ j < k /\ j < m => ~(Ring(b)[j + 1].tag <= max_tag)
           S == {k \in 0..max : Reached(k)}
<1>1. after = [k \in 0..max |-> IF k = 0 THEN b ELSE Round(after[k - 1], max_tag)]
  BY RoundsRec
<1>2. m \in Nat /\ pool_len(b) \in Nat
  BY SoundFields
<1> HIDE DEF after
<1>3. after[0] = b /\ \A k \in 0..(max - 1) : after[k + 1] = Round(after[k], max_tag)
  <2>1. after[0] = b
    BY <1>1
  <2>2. ASSUME NEW k \in 0..(max - 1) PROVE after[k + 1] = Round(after[k], max_tag)
    <3>1. k + 1 \in 0..max /\ k + 1 # 0 /\ (k + 1) - 1 = k
      OBVIOUS
    <3> QED BY <1>1, <3>1
  <2> QED BY <2>1, <2>2
<1>4. 0 \in S
  <2>1. Slots(b) = MovedSlots(b, 0)
    <3>1. Slots(b) \in [1..pool_len(b) -> Index]
      BY SoundRecord
    <3>2. pool_len(b) + 0 = pool_len(b) /\ \A i \in 1..pool_len(b) : i <= pool_len(b)
      BY <1>2
    <3> QED BY <3>1, <3>2 DEF MovedSlots
  <2>2. Ring(b) = MovedRing(b, 0)
    <3>1. Ring(b) \in [1..m -> Returnee]
      BY SoundRecord
    <3>2. m - 0 = m /\ \A i \in 1..m : i + 0 = i
      BY <1>2
    <3> QED BY <3>1, <3>2 DEF MovedRing
  <2>3. After(b, b, 0)
    BY <1>2, <2>1, <2>2 DEF After
  <2>4. Reached(0)
    BY <1>2, <1>3, <2>3
  <2> QED BY <2>4
<1>5. ASSUME NEW k \in 0..(max - 1), k \in S PROVE k + 1 \in S
  <2>1. PICK j \in 0..m : /\ After(b, after[k], j) /\ j <= k
                          /\ \A i \in 1..j : Ring(b)[i].tag <= max_tag
                          /\ j < k /\ j < m => ~(Ring(b)[j + 1].tag <= max_tag)
    BY <1>5
  <2> DEFINE c == after[k]
  <2>2. /\ FrontEligible(c, max_tag) <=> j < m /\ Ring(b)[j + 1].tag <= max_tag
        /\ FrontEligible(c, max_tag) => After(b, Pushed(Popped(c), FrontIndex(c)), j + 1)
    BY <2>1, OneRound
  <2>3. after[k + 1] = IF FrontEligible(c, max_tag) THEN Pushed(Popped(c), FrontIndex(c)) ELSE c
    BY <1>3 DEF Round
  <2> HIDE DEF c
  <2>4. CASE FrontEligible(c, max_tag)
    <3>1. j = k /\ j + 1 \in 0..m /\ j + 1 <= k + 1 /\ ~(j + 1 < k + 1)
      BY <1>2, <2>1, <2>2, <2>4
    <3>2. After(b, after[k + 1], j + 1)
      BY <2>2, <2>3, <2>4
    <3>3. \A i \in 1..(j + 1) : Ring(b)[i].tag <= max_tag
      <4>1. \A i \in 1..(j + 1) : i \in 1..j \/ i = j + 1
        BY <1>2
      <4> QED BY <2>1, <2>2, <2>4, <4>1
    <3>4. Reached(k + 1)
      BY <3>1, <3>2, <3>3
    <3> QED BY <3>4
  <2>5. CASE ~FrontEligible(c, max_tag)
    <3>1. After(b, after[k + 1], j) /\ j <= k + 1
      BY <1>2, <2>1, <2>3, <2>5 DEF c
    <3>2. j < m => ~(Ring(b)[j + 1].tag <= max_tag)
      BY <2>2, <2>5
    <3>3. Reached(k + 1)
      BY <2>1, <3>1, <3>2
    <3> QED BY <3>3
  <2> QED BY <2>4, <2>5
<1>6. \A k \in 0..max : Reached(k)
  <2>1. 0..max \subseteq S
    <3> HIDE DEF S
    <3> QED BY <1>4, <1>5, CountUp
  <2> QED BY <2>1
<1>7. MergeAllowed(b, max_tag, max)
  <2>1. ASSUME NEW k \in 0..(max - 1) PROVE FrontEligible(after[k], max_tag) => RoomForFront(after[k])
    <3>1. Reached(k)
      BY <1>6
    <3> QED BY <3>1, OneRound
  <2> QED BY <2>1 DEF MergeAllowed, after
<1>8. Reached(max) /\ after[max] = MergedBytes(b, max_tag, max)
  BY <1>6 DEF MergedBytes, after
<1>9. PICK j \in 0..m : /\ After(b, after[max], j) /\ j <= max
                        /\ \A i \in 1..j : Ring(b)[i].tag <= max_tag
                        /\ j < max /\ j < m => ~(Ring(b)[j + 1].tag <= max_tag)
  BY <1>8
<1>10. j < max /\ j < m => Ring(b)[j + 1].tag > max_tag
  <2>1. SUFFICES ASSUME j < max, j < m PROVE Ring(b)[j + 1].tag > max_tag
    OBVIOUS
  <2>2. j + 1 \in 1..m
    BY <1>2, <2>1
  <2>3. Ring(b)[j + 1] \in Returnee
    BY <2>2, SoundRecord
  <2>4. Ring(b)[j + 1].tag \in Nat
    BY <2>3 DEF Returnee
  <2> QED BY <1>9, <2>1, <2>4
<1> QED BY <1>7, <1>8, <1>9, <1>10

-----------------------------------------------------------------------------
(* Each operation of the bytes is the operation of the record.             *)

(* pool_push.                                                              *)
LEMMA PushIsPush ==
  ASSUME NEW b, Sound(b), NEW x \in Index, total(b) < capacity
  PROVE  PoolOf(Pushed(b, x)) = Contract!pool_push(PoolOf(b), x)
<1>1. PoolOf(b) = [slots |-> Slots(b), incoming |-> Ring(b), minted |-> Bits(b)]
  BY SoundRecord
<1>2. Sound(Pushed(b, x))
  BY PushedRecord
<1>3. PoolOf(Pushed(b, x)) =
        [slots |-> Append(Slots(b), x), incoming |-> Ring(b), minted |-> Bits(b)]
  BY <1>2, SoundRecord, PushedRecord
<1> DEFINE p == PoolOf(b)
           slots == Append(Slots(b), x)
<1>4. p.slots = Slots(b)
  BY <1>1
<1> HIDE DEF p
<1>5. Contract!pool_push(p, x) = [p EXCEPT !.slots = slots]
  BY <1>4, Zenon DEF Contract!pool_push
<1> HIDE DEF slots
<1>6. Contract!pool_push(p, x) = [slots |-> slots, incoming |-> Ring(b), minted |-> Bits(b)]
  BY <1>1, <1>5 DEF p
<1> QED BY <1>3, <1>6 DEF p, slots

(* pool_swap_remove and pool_get.                                          *)
LEMMA RemoveIsRemove ==
  ASSUME NEW b, Sound(b), NEW i \in Nat, i < pool_len(b)
  PROVE  /\ PoolOf(SwapRemoved(b, i)) = Contract!pool_swap_remove(PoolOf(b), i)
         /\ Contract!pool_get(PoolOf(b), i) = pool_get(b, i)
<1>1. PoolOf(b) = [slots |-> Slots(b), incoming |-> Ring(b), minted |-> Bits(b)]
      /\ Len(Slots(b)) = pool_len(b)
  BY SoundRecord
<1>2. Sound(SwapRemoved(b, i))
  BY SwapRemovedRecord
<1>3. PoolOf(SwapRemoved(b, i)) =
        [slots |-> [j \in 1..(pool_len(b) - 1) |->
                      IF j = i + 1 THEN Slots(b)[pool_len(b)] ELSE Slots(b)[j]],
         incoming |-> Ring(b), minted |-> Bits(b)]
  BY <1>2, SoundRecord, SwapRemovedRecord
<1>4. Slots(b)[i + 1] = pool_get(b, i)
  <2>1. i + 1 \in 1..pool_len(b) /\ (i + 1) - 1 = i
    BY SoundFields
  <2> QED BY <2>1 DEF Slots
<1> DEFINE p == PoolOf(b)
           left == [j \in 1..(pool_len(b) - 1) |->
                      IF j = i + 1 THEN Slots(b)[pool_len(b)] ELSE Slots(b)[j]]
<1>5. p.slots = Slots(b) /\ Len(p.slots) = pool_len(b)
  BY <1>1
<1> HIDE DEF p
<1>6. Contract!pool_swap_remove(p, i) = [p EXCEPT !.slots = left]
  BY <1>5, Zenon DEF Contract!pool_swap_remove, Contract!pool_len
<1> HIDE DEF left
<1>7. Contract!pool_swap_remove(p, i) = [slots |-> left, incoming |-> Ring(b), minted |-> Bits(b)]
  BY <1>1, <1>6 DEF p
<1> QED BY <1>3, <1>4, <1>5, <1>7, Zenon DEF p, left, Contract!pool_get

(* incoming_push.                                                          *)
LEMMA ReturnIsReturn ==
  ASSUME NEW b, Sound(b), NEW x \in Index, NEW tag \in Nat, tag <= MaxTag, total(b) < capacity
  PROVE  PoolOf(Returned(b, x, tag)) = Contract!incoming_push(PoolOf(b), x, tag)
<1>1. PoolOf(b) = [slots |-> Slots(b), incoming |-> Ring(b), minted |-> Bits(b)]
  BY SoundRecord
<1>2. Sound(Returned(b, x, tag))
  BY ReturnedRecord
<1>3. PoolOf(Returned(b, x, tag)) =
        [slots |-> Slots(b), incoming |-> Append(Ring(b), [index |-> x, tag |-> tag]),
         minted |-> Bits(b)]
  BY <1>2, SoundRecord, ReturnedRecord
<1> DEFINE p == PoolOf(b)
           ring == Append(Ring(b), [index |-> x, tag |-> tag])
<1>4. p.incoming = Ring(b)
  BY <1>1
<1> HIDE DEF p
<1>5. Contract!incoming_push(p, x, tag) = [p EXCEPT !.incoming = ring]
  BY <1>4, Zenon DEF Contract!incoming_push
<1> HIDE DEF ring
<1>6. Contract!incoming_push(p, x, tag) = [slots |-> Slots(b), incoming |-> ring, minted |-> Bits(b)]
  BY <1>1, <1>5 DEF p
<1> QED BY <1>3, <1>6 DEF p, ring

(* mark_minted.                                                            *)
LEMMA MarkIsMark ==
  ASSUME NEW b, Sound(b), NEW index \in Index, ~is_minted(b, index)
  PROVE  PoolOf(MarkMinted(b, index)) = Contract!mark_minted(PoolOf(b), index)
<1>1. PoolOf(b) = [slots |-> Slots(b), incoming |-> Ring(b), minted |-> Bits(b)]
  BY SoundRecord
<1>2. Sound(MarkMinted(b, index))
  BY MarkedRecord
<1>3. PoolOf(MarkMinted(b, index)) =
        [slots |-> Slots(b), incoming |-> Ring(b), minted |-> Bits(b) \cup {index}]
  BY <1>2, SoundRecord, MarkedRecord
<1> QED BY <1>1, <1>3 DEF Contract!mark_minted

(* merge stops after the number of entries that the record allows.         *)
LEMMA MergeIsMerge ==
  ASSUME NEW b, Sound(b), NEW max_tag \in Nat, NEW max \in Nat
  PROVE  \E j \in 0..Contract!incoming_len(PoolOf(b)) :
           /\ Contract!MergeMoves(PoolOf(b), max_tag, max, j)
           /\ PoolOf(MergedBytes(b, max_tag, max)) = Contract!Merged(PoolOf(b), j)
<1> DEFINE c == MergedBytes(b, max_tag, max)
           n == pool_len(b)
           m == incoming_len(b)
<1>1. PICK j \in 0..m :
              /\ After(b, c, j) /\ j <= max
              /\ \A i \in 1..j : Ring(b)[i].tag <= max_tag
              /\ j < max /\ j < m => Ring(b)[j + 1].tag > max_tag
  BY MergedRecord
<1>2. n \in Nat /\ m \in Nat
  BY SoundFields
<1> HIDE DEF c, n, m
<1>3. /\ PoolOf(b) = [slots |-> Slots(b), incoming |-> Ring(b), minted |-> Bits(b)]
      /\ Slots(b) \in Seq(Index) /\ Len(Slots(b)) = n
      /\ Ring(b) \in Seq(Returnee) /\ Len(Ring(b)) = m
      /\ Ring(b) \in [1..m -> Returnee]
  BY SoundRecord DEF n, m
<1>4. PoolOf(c) = [slots |-> MovedSlots(b, j), incoming |-> MovedRing(b, j), minted |-> Bits(b)]
  BY <1>1, SoundRecord DEF After
<1> DEFINE mv == [i \in 1..j |-> Ring(b)[i].index]
<1>5. MovedSlots(b, j) = Slots(b) \o mv
  <2>1. \A i \in 1..j : i \in 1..m
    BY <1>2
  <2>2. mv \in [1..j -> Index]
    BY <1>3, <2>1 DEF Returnee
  <2>3. mv \in Seq(Index) /\ Len(mv) = j
    <3> HIDE DEF mv
    <3> QED BY <2>2, SeqOfFcn
  <2> HIDE DEF mv
  <2>4. /\ Slots(b) \o mv \in Seq(Index) /\ Len(Slots(b) \o mv) = n + j
        /\ \A i \in 1..(n + j) : (Slots(b) \o mv)[i] = IF i <= n THEN Slots(b)[i] ELSE mv[i - n]
    BY <1>3, <2>3, ConcatProperties
  <2>5. Slots(b) \o mv = [i \in 1..(n + j) |-> (Slots(b) \o mv)[i]]
    BY <2>4, LenProperties
  <2>6. ASSUME NEW i \in 1..(n + j)
        PROVE  (Slots(b) \o mv)[i] = IF i <= n THEN Slots(b)[i] ELSE Ring(b)[i - n].index
    <3>1. CASE i <= n
      BY <2>4, <3>1
    <3>2. CASE ~(i <= n)
      <4>1. i - n \in 1..j
        BY <1>2, <3>2
      <4> QED BY <2>4, <3>2, <4>1 DEF mv
    <3> QED BY <3>1, <3>2
  <2> QED BY <2>5, <2>6 DEF MovedSlots, n
<1>6. MovedRing(b, j) = SubSeq(Ring(b), j + 1, Len(Ring(b)))
  <2> DEFINE q == SubSeq(Ring(b), j + 1, m)
  <2>1. \A i \in (j + 1)..m : Ring(b)[i] \in Returnee
    BY <1>2, <1>3
  <2>2. /\ q \in Seq(Returnee)
        /\ Len(q) = IF j + 1 <= m THEN m - (j + 1) + 1 ELSE 0
        /\ \A i \in 1..(m - (j + 1) + 1) : q[i] = Ring(b)[(j + 1) + i - 1]
    BY <1>2, <2>1, SubSeqProperties
  <2> HIDE DEF q
  <2>3. m - (j + 1) + 1 = m - j /\ Len(q) = m - j
    BY <1>2, <2>2
  <2>4. ASSUME NEW i \in 1..(m - j) PROVE q[i] = Ring(b)[i + j]
    <3>1. (j + 1) + i - 1 = i + j
      BY <1>2
    <3> QED BY <2>2, <2>3, <3>1
  <2>5. q = [i \in 1..(m - j) |-> q[i]]
    BY <2>2, <2>3, LenProperties
  <2>6. q = MovedRing(b, j)
    BY <2>4, <2>5 DEF MovedRing, m
  <2> QED BY <1>3, <2>6 DEF q
<1>7. PoolOf(c) = Contract!Merged(PoolOf(b), j)
  <2> DEFINE p == PoolOf(b)
             slots == Slots(b) \o mv
             ring == SubSeq(Ring(b), j + 1, Len(Ring(b)))
  <2>1. p.slots = Slots(b) /\ p.incoming = Ring(b)
    BY <1>3
  <2> HIDE DEF p
  <2>2. Contract!Merged(p, j) = [p EXCEPT !.slots = slots, !.incoming = ring]
    BY <2>1, Zenon DEF Contract!Merged
  <2> HIDE DEF slots, ring
  <2>3. Contract!Merged(p, j) = [slots |-> slots, incoming |-> ring, minted |-> Bits(b)]
    <3>1. p = [slots |-> Slots(b), incoming |-> Ring(b), minted |-> Bits(b)]
      BY <1>3 DEF p
    <3> QED BY <2>2, <3>1
  <2> HIDE DEF mv
  <2> QED BY <1>4, <1>5, <1>6, <2>3 DEF p, slots, ring
<1>8. Contract!MergeMoves(PoolOf(b), max_tag, max, j)
  BY <1>1, <1>3 DEF Contract!MergeMoves, Contract!incoming_len
<1>9. j \in 0..Contract!incoming_len(PoolOf(b))
  BY <1>3 DEF Contract!incoming_len
<1> QED BY <1>7, <1>8, <1>9 DEF c

-----------------------------------------------------------------------------
(* Where the indices are: in one slot, in one entry of the ring, or held.  *)
InSlot(b, x) == \E i \in 1..pool_len(b) : Slots(b)[i] = x
InRing(b, x) == \E i \in 1..incoming_len(b) : Ring(b)[i].index = x

Placed(b, h) ==
  /\ \A i, j \in 1..pool_len(b) : Slots(b)[i] = Slots(b)[j] => i = j
  /\ \A i, j \in 1..incoming_len(b) : Ring(b)[i].index = Ring(b)[j].index => i = j
  /\ \A x \in Index : ~(InSlot(b, x) /\ InRing(b, x))
  /\ \A x \in Index : x \in h <=> ~InSlot(b, x) /\ ~InRing(b, x)

(* An index that is held leaves room for itself.                           *)
LEMMA Room ==
  ASSUME NEW b, Sound(b), NEW h, Placed(b, h), NEW x \in Index, x \in h
  PROVE  total(b) < capacity
<1> DEFINE n == pool_len(b)
           m == incoming_len(b)
           f == [i \in 1..capacity |-> IF i <= n THEN Slots(b)[i] ELSE Ring(b)[i - n].index]
           T == Index \ {x}
<1>1. /\ capacity \in Nat \ {0} /\ n \in Nat /\ m \in Nat /\ n + m <= capacity
      /\ total(b) = n + m
  BY SoundFields
<1>2. SUFFICES ASSUME n + m = capacity PROVE FALSE
  BY <1>1
<1>3. ~InSlot(b, x) /\ ~InRing(b, x)
  BY DEF Placed
<1>4. ASSUME NEW i \in 1..capacity
      PROVE f[i] \in T /\ (i <= n => i \in 1..n) /\ (~(i <= n) => i - n \in 1..m)
  <2>1. CASE i <= n
    <3>1. i \in 1..n
      BY <2>1
    <3>2. f[i] = Slots(b)[i]
      BY <2>1
    <3>3. Slots(b)[i] # x
      BY <1>3, <3>1 DEF InSlot
    <3>4. Slots(b)[i] \in Index
      BY <3>1 DEF Sound
    <3> QED BY <2>1, <3>1, <3>2, <3>3, <3>4
  <2>2. CASE ~(i <= n)
    <3>1. i - n \in 1..m
      BY <1>1, <1>2, <2>2
    <3>2. f[i] = Ring(b)[i - n].index
      BY <2>2
    <3>3. Ring(b)[i - n].index # x
      BY <1>3, <3>1 DEF InRing
    <3>4. Ring(b)[i - n].index \in Index
      BY <3>1 DEF Sound
    <3> QED BY <2>2, <3>1, <3>2, <3>3, <3>4
  <2> QED BY <2>1, <2>2
<1>5. ASSUME NEW i \in 1..capacity, NEW j \in 1..capacity, f[i] = f[j] PROVE i = j
  <2>1. CASE i <= n /\ j <= n
    BY <1>4, <1>5, <2>1 DEF Placed
  <2>2. CASE ~(i <= n) /\ ~(j <= n)
    <3>1. i - n \in 1..m /\ j - n \in 1..m
      BY <1>4, <2>2
    <3>2. Ring(b)[i - n].index = Ring(b)[j - n].index
      BY <1>5, <2>2
    <3>3. i - n = j - n
      BY <3>1, <3>2 DEF Placed
    <3> QED BY <1>1, <3>3
  <2>3. CASE i <= n /\ ~(j <= n)
    <3>1. i \in 1..n /\ j - n \in 1..m /\ Slots(b)[i] = Ring(b)[j - n].index /\ Slots(b)[i] \in Index
      BY <1>4, <1>5, <2>3
    <3> QED BY <3>1 DEF Placed, InSlot, InRing
  <2>4. CASE ~(i <= n) /\ j <= n
    <3>1. j \in 1..n /\ i - n \in 1..m /\ Slots(b)[j] = Ring(b)[i - n].index /\ Slots(b)[j] \in Index
      BY <1>4, <1>5, <2>4
    <3> QED BY <3>1 DEF Placed, InSlot, InRing
  <2> QED BY <2>1, <2>2, <2>3, <2>4
<1>6. f \in [1..capacity -> T]
  BY <1>4
<1>7. IsFiniteSet(1..capacity) /\ Cardinality(1..capacity) = capacity
  BY <1>1, FS_Interval
<1>8. IsFiniteSet(Index) /\ Cardinality(Index) = capacity
  <2>1. 0 \in Int /\ capacity - 1 \in Int /\ ~(0 > capacity - 1) /\ ((capacity - 1) - 0) + 1 = capacity
    BY <1>1
  <2>2. /\ IsFiniteSet(0..(capacity - 1))
        /\ Cardinality(0..(capacity - 1)) =
             IF 0 > capacity - 1 THEN 0 ELSE ((capacity - 1) - 0) + 1
    BY <2>1, FS_Interval, Zenon
  <2> QED BY <2>1, <2>2, Zenon DEF Index
<1>9. IsFiniteSet(T) /\ Cardinality(T) < Cardinality(1..capacity)
  <2>1. IsFiniteSet(T) /\ Cardinality(T) = Cardinality(Index) - 1
    BY <1>8, FS_RemoveElement
  <2> HIDE DEF T
  <2>2. Cardinality(Index) = Cardinality(1..capacity) /\ Cardinality(Index) \in Nat
    BY <1>1, <1>7, <1>8
  <2> QED BY <2>1, <2>2
<1> HIDE DEF f, T
<1>10. \E i, j \in 1..capacity : i # j /\ f[i] = f[j]
  BY <1>6, <1>7, <1>9, FS_PigeonHole
<1> QED BY <1>5, <1>10

(* A draw takes an index from its slot.                                    *)
LEMMA RemovedPlaced ==
  ASSUME NEW b, Sound(b), NEW h, Placed(b, h), NEW pos \in Nat, pos < pool_len(b)
  PROVE  Placed(SwapRemoved(b, pos), h \cup {pool_get(b, pos)})
<1> DEFINE n == pool_len(b)
           w == SwapRemoved(b, pos)
           x == pool_get(b, pos)
<1>1. /\ n \in Nat /\ pos + 1 \in 1..n /\ n \in 1..n
      /\ pool_len(w) = n - 1 /\ incoming_len(w) = incoming_len(b) /\ Ring(w) = Ring(b)
      /\ Slots(w) = [j \in 1..(n - 1) |-> IF j = pos + 1 THEN Slots(b)[n] ELSE Slots(b)[j]]
  BY SoundFields, SwapRemovedRecord
<1>2. x = Slots(b)[pos + 1] /\ x \in Index
  <2>1. (pos + 1) - 1 = pos
    OBVIOUS
  <2> QED BY <1>1, <2>1 DEF Slots, Sound
<1>3. \A i, j \in 1..n : Slots(b)[i] = Slots(b)[j] => i = j
  BY DEF Placed
<1> HIDE DEF n, w, x
<1>4. ASSUME NEW i \in 1..(n - 1), NEW j \in 1..(n - 1), Slots(w)[i] = Slots(w)[j] PROVE i = j
  <2>1. i \in 1..n /\ j \in 1..n /\ i # n /\ j # n
    BY <1>1
  <2> QED BY <1>1, <1>3, <1>4, <2>1
<1>5. ASSUME NEW y \in Index PROVE InSlot(w, y) <=> InSlot(b, y) /\ y # x
  <2>1. ASSUME NEW i \in 1..(n - 1) PROVE Slots(w)[i] # x /\ \E j \in 1..n : Slots(w)[i] = Slots(b)[j]
    <3>1. i \in 1..n /\ i # n
      BY <1>1
    <3>2. CASE i = pos + 1
      BY <1>1, <1>2, <1>3, <3>1, <3>2
    <3>3. CASE i # pos + 1
      BY <1>1, <1>2, <1>3, <3>1, <3>3
    <3> QED BY <3>2, <3>3
  <2>2. ASSUME NEW j \in 1..n, Slots(b)[j] # x PROVE \E i \in 1..(n - 1) : Slots(w)[i] = Slots(b)[j]
    <3>1. j # pos + 1
      BY <1>2, <2>2
    <3>2. CASE j = n
      <4>1. pos + 1 \in 1..(n - 1) /\ Slots(w)[pos + 1] = Slots(b)[n]
        BY <1>1, <3>1, <3>2
      <4> QED BY <3>2, <4>1
    <3>3. CASE j # n
      <4>1. j \in 1..(n - 1)
        BY <1>1, <3>3
      <4> QED BY <1>1, <3>1, <4>1
    <3> QED BY <3>2, <3>3
  <2> QED BY <1>1, <2>1, <2>2 DEF InSlot, n
<1>6. InSlot(b, x)
  BY <1>1, <1>2 DEF InSlot, n
<1>7. \A y : InRing(w, y) <=> InRing(b, y)
  BY <1>1 DEF InRing
<1>8. \A i, j \in 1..pool_len(w) : Slots(w)[i] = Slots(w)[j] => i = j
  BY <1>1, <1>4
<1> QED BY <1>1, <1>2, <1>5, <1>6, <1>7, <1>8 DEF Placed, w, x

(* A hand-in goes into a new slot.                                         *)
LEMMA PushedPlaced ==
  ASSUME NEW b, Sound(b), NEW h, Placed(b, h), NEW x \in Index, x \in h, total(b) < capacity
  PROVE  Placed(Pushed(b, x), h \ {x})
<1> DEFINE n == pool_len(b)
           w == Pushed(b, x)
<1>1. /\ n \in Nat /\ pool_len(w) = n + 1
      /\ incoming_len(w) = incoming_len(b) /\ Ring(w) = Ring(b)
      /\ Slots(w) = Append(Slots(b), x)
      /\ Slots(b) \in Seq(Index) /\ Len(Slots(b)) = n
  BY SoundFields, SoundRecord, PushedRecord
<1>2. (\A i \in 1..n : Slots(w)[i] = Slots(b)[i]) /\ Slots(w)[n + 1] = x
  BY <1>1, AppendProperties
<1>3. (\A i \in 1..n : Slots(b)[i] # x) /\ ~InRing(b, x)
  BY DEF Placed, InSlot
<1>4. \A i, j \in 1..n : Slots(b)[i] = Slots(b)[j] => i = j
  BY DEF Placed
<1> HIDE DEF n, w
<1>5. ASSUME NEW i \in 1..(n + 1), NEW j \in 1..(n + 1), Slots(w)[i] = Slots(w)[j] PROVE i = j
  <2>1. (i \in 1..n \/ i = n + 1) /\ (j \in 1..n \/ j = n + 1)
    BY <1>1
  <2> QED BY <1>2, <1>3, <1>4, <1>5, <2>1
<1>6. ASSUME NEW y \in Index PROVE InSlot(w, y) <=> InSlot(b, y) \/ y = x
  <2>1. \A i : i \in 1..(n + 1) <=> i \in 1..n \/ i = n + 1
    BY <1>1
  <2> QED BY <1>1, <1>2, <2>1 DEF InSlot, n
<1>7. \A y : InRing(w, y) <=> InRing(b, y)
  BY <1>1 DEF InRing
<1>8. \A i, j \in 1..pool_len(w) : Slots(w)[i] = Slots(w)[j] => i = j
  BY <1>1, <1>5
<1> QED BY <1>1, <1>3, <1>6, <1>7, <1>8 DEF Placed, w

(* A return goes into a new entry of the ring.                             *)
LEMMA ReturnedPlaced ==
  ASSUME NEW b, Sound(b), NEW h, Placed(b, h), NEW x \in Index, x \in h,
         NEW tag \in Nat, tag <= MaxTag, total(b) < capacity
  PROVE  Placed(Returned(b, x, tag), h \ {x})
<1> DEFINE m == incoming_len(b)
           w == Returned(b, x, tag)
           e == [index |-> x, tag |-> tag]
<1>1. /\ m \in Nat /\ incoming_len(w) = m + 1
      /\ pool_len(w) = pool_len(b) /\ Slots(w) = Slots(b)
      /\ Ring(w) = Append(Ring(b), e)
      /\ Ring(b) \in Seq(Returnee) /\ Len(Ring(b)) = m
  BY SoundFields, SoundRecord, ReturnedRecord
<1>2. e \in Returnee /\ e.index = x
  BY DEF Returnee
<1> HIDE DEF e
<1>3. (\A i \in 1..m : Ring(w)[i] = Ring(b)[i]) /\ Ring(w)[m + 1] = e
  BY <1>1, <1>2, AppendProperties
<1>4. (\A i \in 1..m : Ring(b)[i].index # x) /\ ~InSlot(b, x)
  BY DEF Placed, InRing
<1>5. \A i, j \in 1..m : Ring(b)[i].index = Ring(b)[j].index => i = j
  BY DEF Placed
<1> HIDE DEF m, w
<1>6. ASSUME NEW i \in 1..(m + 1), NEW j \in 1..(m + 1), Ring(w)[i].index = Ring(w)[j].index
      PROVE  i = j
  <2>1. (i \in 1..m \/ i = m + 1) /\ (j \in 1..m \/ j = m + 1)
    BY <1>1
  <2> QED BY <1>2, <1>3, <1>4, <1>5, <1>6, <2>1
<1>7. ASSUME NEW y \in Index PROVE InRing(w, y) <=> InRing(b, y) \/ y = x
  <2>1. \A i : i \in 1..(m + 1) <=> i \in 1..m \/ i = m + 1
    BY <1>1
  <2> QED BY <1>1, <1>2, <1>3, <2>1 DEF InRing, m
<1>8. \A y : InSlot(w, y) <=> InSlot(b, y)
  BY <1>1 DEF InSlot
<1>9. \A i, j \in 1..incoming_len(w) : Ring(w)[i].index = Ring(w)[j].index => i = j
  BY <1>1, <1>6
<1> QED BY <1>1, <1>4, <1>7, <1>8, <1>9 DEF Placed, w

(* A merge takes indices from the ring to the slots.                       *)
LEMMA MergedPlaced ==
  ASSUME NEW b, Sound(b), NEW h, Placed(b, h), NEW c, NEW j \in 0..incoming_len(b), After(b, c, j)
  PROVE  Placed(c, h)
<1> DEFINE n == pool_len(b)
           m == incoming_len(b)
<1>1. /\ n \in Nat /\ m \in Nat /\ j \in Nat /\ j <= m
      /\ pool_len(c) = n + j /\ incoming_len(c) = m - j
  BY SoundFields DEF After
<1>2. \A i \in 1..(n + j) : Slots(c)[i] = IF i <= n THEN Slots(b)[i] ELSE Ring(b)[i - n].index
  BY DEF After, MovedSlots
<1>3. \A i \in 1..(m - j) : Ring(c)[i] = Ring(b)[i + j]
  BY DEF After, MovedRing
<1>4. /\ \A i, k \in 1..n : Slots(b)[i] = Slots(b)[k] => i = k
      /\ \A i, k \in 1..m : Ring(b)[i].index = Ring(b)[k].index => i = k
  BY DEF Placed
<1>5. ASSUME NEW i \in 1..n, NEW k \in 1..m PROVE Slots(b)[i] # Ring(b)[k].index
  <2>1. Slots(b)[i] \in Index
    BY DEF Sound
  <2> QED BY <2>1 DEF Placed, InSlot, InRing
<1> HIDE DEF n, m
<1>6. ASSUME NEW i \in 1..(n + j), NEW k \in 1..(n + j), Slots(c)[i] = Slots(c)[k] PROVE i = k
  <2>1. /\ i <= n => i \in 1..n
        /\ ~(i <= n) => i - n \in 1..m
        /\ k <= n => k \in 1..n
        /\ ~(k <= n) => k - n \in 1..m
        /\ i - n = k - n => i = k
    BY <1>1
  <2> QED BY <1>2, <1>4, <1>5, <1>6, <2>1
<1>7. ASSUME NEW i \in 1..(m - j), NEW k \in 1..(m - j), Ring(c)[i].index = Ring(c)[k].index
      PROVE  i = k
  <2>1. i + j \in 1..m /\ k + j \in 1..m /\ (i + j = k + j => i = k)
    BY <1>1
  <2> QED BY <1>3, <1>4, <1>7, <2>1
<1>8. ASSUME NEW y \in Index
      PROVE  InSlot(c, y) <=> InSlot(b, y) \/ \E i \in 1..j : Ring(b)[i].index = y
  <2>1. ASSUME InSlot(c, y) PROVE InSlot(b, y) \/ \E i \in 1..j : Ring(b)[i].index = y
    <3>1. PICK i \in 1..(n + j) : Slots(c)[i] = y
      BY <1>1, <2>1 DEF InSlot
    <3>2. CASE i <= n
      <4>1. i \in 1..n /\ Slots(b)[i] = y
        BY <1>1, <1>2, <3>1, <3>2
      <4> QED BY <4>1 DEF InSlot, n
    <3>3. CASE ~(i <= n)
      <4>1. i - n \in 1..j /\ Ring(b)[i - n].index = y
        BY <1>1, <1>2, <3>1, <3>3
      <4> QED BY <4>1
    <3> QED BY <3>2, <3>3
  <2>2. ASSUME NEW i \in 1..n, Slots(b)[i] = y PROVE InSlot(c, y)
    <3>1. i \in 1..(n + j) /\ Slots(c)[i] = y
      BY <1>1, <1>2, <2>2
    <3> QED BY <1>1, <3>1 DEF InSlot
  <2>3. ASSUME NEW i \in 1..j, Ring(b)[i].index = y PROVE InSlot(c, y)
    <3>1. i + n \in 1..(n + j) /\ ~(i + n <= n) /\ (i + n) - n = i
      BY <1>1
    <3>2. Slots(c)[i + n] = y
      BY <1>2, <2>3, <3>1
    <3> QED BY <1>1, <3>1, <3>2 DEF InSlot
  <2> QED BY <2>1, <2>2, <2>3 DEF InSlot, n
<1>9. ASSUME NEW y \in Index
      PROVE  InRing(c, y) <=> \E i \in 1..m : ~(i <= j) /\ Ring(b)[i].index = y
  <2>1. ASSUME NEW i \in 1..(m - j), Ring(c)[i].index = y
        PROVE  \E k \in 1..m : ~(k <= j) /\ Ring(b)[k].index = y
    <3>1. i + j \in 1..m /\ ~(i + j <= j)
      BY <1>1
    <3> QED BY <1>3, <2>1, <3>1
  <2>2. ASSUME NEW i \in 1..m, ~(i <= j), Ring(b)[i].index = y
        PROVE  \E k \in 1..(m - j) : Ring(c)[k].index = y
    <3>1. i - j \in 1..(m - j) /\ (i - j) + j = i
      BY <1>1, <2>2
    <3> QED BY <1>3, <2>2, <3>1
  <2> QED BY <1>1, <2>1, <2>2 DEF InRing
<1>10. ASSUME NEW y \in Index
       PROVE  /\ ~(InSlot(c, y) /\ InRing(c, y))
              /\ InSlot(c, y) \/ InRing(c, y) <=> InSlot(b, y) \/ InRing(b, y)
  <2>1. \A i \in 1..j : i \in 1..m /\ i <= j
    BY <1>1
  <2>2. \A i \in 1..m : i <= j => i \in 1..j
    BY <1>1
  <2>3. InSlot(b, y) <=> \E i \in 1..n : Slots(b)[i] = y
    BY DEF InSlot, n
  <2>4. InRing(b, y) <=> \E i \in 1..m : Ring(b)[i].index = y
    BY DEF InRing, m
  <2>5. ~(InSlot(c, y) /\ InRing(c, y))
    BY <1>4, <1>5, <1>8, <1>9, <2>1, <2>3
  <2>6. InSlot(c, y) \/ InRing(c, y) <=> InSlot(b, y) \/ InRing(b, y)
    BY <1>8, <1>9, <2>1, <2>2, <2>3, <2>4
  <2> QED BY <2>5, <2>6
<1>11. /\ \A i, k \in 1..pool_len(c) : Slots(c)[i] = Slots(c)[k] => i = k
       /\ \A i, k \in 1..incoming_len(c) : Ring(c)[i].index = Ring(c)[k].index => i = k
  BY <1>1, <1>6, <1>7
<1>12. \A x \in Index : x \in h <=> ~InSlot(c, x) /\ ~InRing(c, x)
  <2>1. \A x \in Index : x \in h <=> ~InSlot(b, x) /\ ~InRing(b, x)
    BY DEF Placed
  <2> QED BY <1>10, <2>1
<1> QED BY <1>10, <1>11, <1>12 DEF Placed

-----------------------------------------------------------------------------
(* A pool just initialised: no slot is written, no bit is set.             *)
zeroed == [o \in 40..(pool_account_size - 1) |-> 0]
fresh == wr_u32(wr_u32(zeroed, 40, capacity), 44, capacity)

(* It is sound, and the record of a pool just initialised.                 *)
LEMMA FreshRecord ==
  /\ Sound(fresh) /\ PoolOf(fresh) = Contract!FreshPool(capacity)
  /\ Placed(fresh, {}) /\ incoming_len(fresh) = 0
<1> DEFINE s == wr_u32(zeroed, 40, capacity)
           E == pool_account_size - 1
<1>1. capacity \in Nat \ {0} /\ capacity \in U32
  BY Sizes
<1>2. zeroed \in Bytes
  BY DEF zeroed, Bytes, Byte
<1>3. ASSUME NEW c \in WordsOf PROVE word(zeroed, c) = 0
  <2>1. {4 * c, 4 * c + 1, 4 * c + 2, 4 * c + 3} \subseteq 40..(pool_account_size - 1)
    BY Sizes DEF WordsOf
  <2> QED BY <2>1 DEF word, rd_u32, zeroed
<1>4. {10, 11, 12, 13} \subseteq WordsOf /\ 44 = 4 * 11 /\ 40 = 4 * 10
  BY Offsets
<1>5. /\ s \in Bytes
      /\ \A c \in WordsOf : word(s, c) = IF c = 10 THEN capacity ELSE word(zeroed, c)
      /\ \A o \in bitmap_off..E : s[o] = zeroed[o]
  BY <1>1, <1>2, <1>4, WriteField
<1> HIDE DEF s, E
<1>6. /\ fresh \in Bytes
      /\ \A c \in WordsOf : word(fresh, c) = IF c = 11 THEN capacity ELSE word(s, c)
      /\ \A o \in bitmap_off..E : fresh[o] = s[o]
  BY <1>1, <1>4, <1>5, WriteField DEF fresh, s, E
<1>7. \A c \in WordsOf : word(fresh, c) = IF c = 10 \/ c = 11 THEN capacity ELSE 0
  BY <1>3, <1>5, <1>6
<1>8. /\ pool_len(fresh) = capacity /\ incoming_head(fresh) = 0 /\ incoming_len(fresh) = 0
      /\ word(fresh, 10) = capacity
  BY <1>4, <1>7, Fields
<1>9. ASSUME NEW i \in Index PROVE pool_get(fresh, i) = i
  <2>1. word(fresh, 16 + i) = 0
    BY <1>7, Apart
  <2> QED BY <1>6, <2>1, Entries
<1>10. Slots(fresh) = [i \in 1..capacity |-> i - 1]
  <2>1. ASSUME NEW i \in 1..capacity PROVE pool_get(fresh, i - 1) = i - 1
    <3>1. i - 1 \in Index
      BY <1>1 DEF Index
    <3> QED BY <1>9, <3>1
  <2> QED BY <1>8, <2>1 DEF Slots
<1>11. Sound(fresh)
  <2>1. \A i \in 1..pool_len(fresh) : Slots(fresh)[i] \in Index
    BY <1>1, <1>8, <1>10 DEF Index
  <2>2. \A i \in 1..incoming_len(fresh) : FALSE
    BY <1>8
  <2>3. total(fresh) <= capacity /\ incoming_head(fresh) < capacity
    BY <1>1, <1>8 DEF total
  <2> QED BY <1>6, <1>8, <2>1, <2>2, <2>3 DEF Sound
<1>12. Ring(fresh) = << >>
  <2>1. Ring(fresh) \in Seq(Returnee) /\ Len(Ring(fresh)) = 0
    BY <1>8, <1>11, SoundRecord
  <2> QED BY <2>1, EmptySeq
<1>13. Bits(fresh) = {}
  <2>1. ASSUME NEW i \in Index PROVE ~is_minted(fresh, i)
    <3>1. bitmap_off + (i \div 8) \in bitmap_off..E /\ bitmap_off + (i \div 8) \in 40..E
      BY Sizes DEF Index, E
    <3>2. fresh[bitmap_off + (i \div 8)] = 0
      BY <1>5, <1>6, <3>1 DEF zeroed, E
    <3>3. 2^(i % 8) \in Weights
      <4>1. i % 8 \in 0..7
        BY DEF Index
      <4> QED BY <4>1, WeightOf
    <3>4. \A p \in Weights : (0 \div p) % 2 # 1
      BY DEF Weights
    <3> QED BY <3>2, <3>3, <3>4 DEF is_minted, Bit
  <2> QED BY <2>1 DEF Bits
<1>14. PoolOf(fresh) = Contract!FreshPool(capacity)
  <2>1. PoolOf(fresh) = [slots |-> Slots(fresh), incoming |-> Ring(fresh), minted |-> Bits(fresh)]
    BY <1>11, SoundRecord
  <2> QED BY <1>10, <1>12, <1>13, <2>1 DEF Contract!FreshPool
<1>15. Placed(fresh, {})
  <2>1. \A x : ~InRing(fresh, x)
    BY <1>8 DEF InRing
  <2>2. ASSUME NEW x \in Index PROVE InSlot(fresh, x)
    <3>1. x + 1 \in 1..capacity /\ (x + 1) - 1 = x
      BY <1>1 DEF Index
    <3> QED BY <1>8, <1>10, <3>1 DEF InSlot
  <2>3. \A i, j \in 1..pool_len(fresh) : Slots(fresh)[i] = Slots(fresh)[j] => i = j
    BY <1>1, <1>8, <1>10
  <2>4. \A i, j \in 1..incoming_len(fresh) : Ring(fresh)[i].index = Ring(fresh)[j].index => i = j
    BY <1>8
  <2> QED BY <2>1, <2>2, <2>3, <2>4 DEF Placed
<1> QED BY <1>8, <1>11, <1>14, <1>15

-----------------------------------------------------------------------------
(* The inductive invariant.                                                *)
PoolInv ==
  /\ Sound(d) /\ held \subseteq Index /\ next_seq \in 0..MaxTag
  /\ Placed(d, held)
  /\ \A i \in 1..incoming_len(d) : Ring(d)[i].tag <= next_seq

(* It holds when the pool is initialised.                                  *)
LEMMA PoolInit == Init => PoolInv /\ Contract!Init
<1> SUFFICES ASSUME Init PROVE PoolInv /\ Contract!Init
  OBVIOUS
<1>1. d = fresh /\ held = {} /\ next_seq = 0
  BY DEF Init, fresh, zeroed
<1>2. MaxTag \in Nat
  BY LayoutAssumption
<1>3. PoolInv
  <2>1. \A i \in 1..incoming_len(d) : FALSE
    BY <1>1, FreshRecord
  <2> QED BY <1>1, <1>2, <2>1, FreshRecord DEF PoolInv
<1> QED BY <1>1, <1>3, FreshRecord DEF Contract!Init

(* Each step keeps the invariant and is a step of the contract.            *)
LEMMA DrawStep ==
  ASSUME PoolInv, NEW pos \in 0..(capacity - 1), NEW handed_in \in AtMostOne(held),
         Draw(pos, handed_in)
  PROVE  PoolInv' /\ Contract!Draw(pos, handed_in)
<1> DEFINE picked == pool_get(d, pos)
           left == SwapRemoved(d, pos)
           joined == Joined(left, handed_in)
           h == (held \ handed_in) \cup {picked}
           ring_ok(b) == incoming_len(b) = incoming_len(d) /\ Ring(b) = Ring(d)
<1>1. /\ Sound(d) /\ held \subseteq Index /\ next_seq \in 0..MaxTag /\ Placed(d, held)
      /\ \A i \in 1..incoming_len(d) : Ring(d)[i].tag <= next_seq
  BY DEF PoolInv
<1>2. /\ pos < pool_len(d) /\ pos \in Nat
      /\ \A index \in handed_in : PushAllowed(left, index)
      /\ d' = IF is_minted(joined, picked) THEN joined ELSE MarkMinted(joined, picked)
      /\ held' = h /\ next_seq' = next_seq
  BY DEF Draw, RemoveAllowed
<1>3. picked \in Index
  <2>1. pos + 1 \in 1..pool_len(d) /\ (pos + 1) - 1 = pos
    BY <1>1, <1>2, SoundFields
  <2> QED BY <1>1, <2>1 DEF Sound, Slots
<1>4. /\ Sound(left) /\ ring_ok(left) /\ Bits(left) = Bits(d)
      /\ Placed(left, held \cup {picked})
      /\ PoolOf(left) = Contract!pool_swap_remove(PoolOf(d), pos)
      /\ Contract!pool_get(PoolOf(d), pos) = picked
  BY <1>1, <1>2, SwapRemovedRecord, RemovedPlaced, RemoveIsRemove
<1> HIDE DEF picked, left
<1> DEFINE P == Contract!pool_swap_remove(PoolOf(d), pos)
           J == IF handed_in = {} THEN P
                ELSE Contract!pool_push(P, CHOOSE index \in handed_in : TRUE)
<1>5. /\ Sound(joined) /\ ring_ok(joined) /\ Bits(joined) = Bits(d)
      /\ Placed(joined, h)
      /\ PoolOf(joined) = J
  <2>1. CASE handed_in = {}
    <3>1. joined = left /\ h = held \cup {picked} /\ J = P
      BY <2>1 DEF Joined
    <3> QED BY <1>4, <3>1
  <2>2. CASE handed_in # {}
    <3>1. PICK x \in held : handed_in = {x}
      BY <2>2 DEF AtMostOne
    <3>2. (CHOOSE index \in handed_in : TRUE) = x
      BY <3>1
    <3>3. joined = Pushed(left, x) /\ J = Contract!pool_push(P, x)
      BY <2>2, <3>2 DEF Joined
    <3>4. x \in Index /\ total(left) < capacity
      BY <1>1, <1>2, <3>1 DEF PushAllowed
    <3>5. /\ Sound(joined) /\ ring_ok(joined) /\ Bits(joined) = Bits(d)
          /\ Placed(joined, (held \cup {picked}) \ {x})
          /\ PoolOf(joined) = J
      <4>1. Sound(Pushed(left, x)) /\ Ring(Pushed(left, x)) = Ring(left)
            /\ Bits(Pushed(left, x)) = Bits(left)
            /\ incoming_len(Pushed(left, x)) = incoming_len(left)
        BY <1>4, <3>4, PushedRecord
      <4>2. Placed(Pushed(left, x), (held \cup {picked}) \ {x})
        BY <1>4, <3>1, <3>4, PushedPlaced
      <4>3. PoolOf(Pushed(left, x)) = Contract!pool_push(PoolOf(left), x)
        BY <1>4, <3>4, PushIsPush
      <4> HIDE DEF J, joined, P
      <4> QED BY <1>4, <3>3, <4>1, <4>2, <4>3 DEF P
    <3>6. x # picked
      <4>1. pos + 1 \in 1..pool_len(d) /\ (pos + 1) - 1 = pos
        BY <1>1, <1>2, SoundFields
      <4>2. InSlot(d, picked)
        BY <4>1 DEF InSlot, Slots, picked
      <4> QED BY <1>1, <1>3, <3>1, <4>2 DEF Placed
    <3>7. (held \cup {picked}) \ {x} = h
      BY <3>1, <3>6
    <3> QED BY <3>5, <3>7
  <2> QED BY <2>1, <2>2
<1>6. is_minted(joined, picked) <=> picked \in Bits(d)
  BY <1>3, <1>5 DEF Bits
<1> HIDE DEF joined, h, J
<1>7. /\ Sound(d') /\ ring_ok(d') /\ Placed(d', h)
      /\ PoolOf(d') = IF picked \in Bits(d) THEN J ELSE Contract!mark_minted(J, picked)
  <2>1. CASE is_minted(joined, picked)
    BY <1>2, <1>5, <1>6, <2>1
  <2>2. CASE ~is_minted(joined, picked)
    <3>1. d' = MarkMinted(joined, picked)
      BY <1>2, <2>2
    <3>2. /\ Sound(d') /\ Slots(d') = Slots(joined) /\ Ring(d') = Ring(joined)
          /\ pool_len(d') = pool_len(joined) /\ incoming_len(d') = incoming_len(joined)
      BY <1>3, <1>5, <2>2, <3>1, MarkedRecord
    <3>3. Placed(d', h)
      BY <1>5, <3>2 DEF Placed, InSlot, InRing
    <3>4. PoolOf(d') = Contract!mark_minted(J, picked)
      BY <1>3, <1>5, <2>2, <3>1, MarkIsMark
    <3> QED BY <1>5, <1>6, <2>2, <3>2, <3>3, <3>4
  <2> QED BY <2>1, <2>2
<1>8. h \subseteq Index
  BY <1>1, <1>3 DEF h
<1>9. PoolInv'
  BY <1>1, <1>2, <1>7, <1>8 DEF PoolInv
<1>10. Contract!Draw(pos, handed_in)
  <2>1. PoolOf(d).minted = Bits(d) /\ Contract!pool_len(PoolOf(d)) = pool_len(d)
    BY <1>1, SoundRecord DEF Contract!pool_len
  <2> QED BY <1>2, <1>4, <1>7, <2>1 DEF Contract!Draw, J, h
<1> QED BY <1>9, <1>10

(* What a return finds.                                                    *)
LEMMA ReturnFits ==
  ASSUME PoolInv, NEW index \in held
  PROVE  ReturnAllowed(d, next_seq)
<1>1. /\ Sound(d) /\ held \subseteq Index /\ next_seq \in 0..MaxTag /\ Placed(d, held)
      /\ \A i \in 1..incoming_len(d) : Ring(d)[i].tag <= next_seq
  BY DEF PoolInv
<1>2. total(d) < capacity
  BY <1>1, Room
<1>3. ASSUME incoming_len(d) > 0 PROVE next_seq >= rd_u64(d, inc_off(back(d)) + 4)
  <2> DEFINE m == incoming_len(d)
  <2>1. m \in 1..m /\ m \in 1..(capacity + 1) /\ m \in Nat
    BY <1>1, <1>3, SoundFields
  <2>2. ring_at(d, m) = back(d)
    BY DEF ring_at, back
  <2>3. rd_u64(d, inc_off(ring_at(d, m)) + 4) = TagAt(d, ring_at(d, m))
    BY <1>1, <2>1, SoundFields, Entries
  <2>4. Ring(d)[m].tag = TagAt(d, ring_at(d, m))
    BY <2>1 DEF Ring
  <2>5. Ring(d)[m] \in Returnee
    BY <1>1, <2>1, SoundRecord
  <2>6. Ring(d)[m].tag \in Nat /\ Ring(d)[m].tag <= next_seq
    BY <1>1, <2>1, <2>5 DEF Returnee
  <2> QED BY <1>1, <2>2, <2>3, <2>4, <2>6
<1> QED BY <1>2, <1>3 DEF ReturnAllowed

(* handle_unwrap.                                                          *)
LEMMA ReturnStep ==
  ASSUME PoolInv, NEW index \in held, Return(index)
  PROVE  PoolInv' /\ Contract!Return(index)
<1>1. /\ Sound(d) /\ held \subseteq Index /\ next_seq \in 0..MaxTag /\ Placed(d, held)
      /\ \A i \in 1..incoming_len(d) : Ring(d)[i].tag <= next_seq
  BY DEF PoolInv
<1>2. /\ d' = Returned(d, index, next_seq) /\ held' = held \ {index} /\ next_seq' = next_seq
      /\ total(d) < capacity
  BY DEF Return, ReturnAllowed
<1>3. index \in Index /\ next_seq \in Nat /\ next_seq <= MaxTag
  BY <1>1, LayoutAssumption
<1> DEFINE e == [index |-> index, tag |-> next_seq]
<1>4. /\ Sound(d') /\ Ring(d') = Append(Ring(d), e)
      /\ incoming_len(d') = incoming_len(d) + 1
  BY <1>1, <1>2, <1>3, ReturnedRecord
<1>5. Placed(d', held')
  BY <1>1, <1>2, <1>3, ReturnedPlaced
<1>6. ASSUME NEW i \in 1..incoming_len(d') PROVE Ring(d')[i].tag <= next_seq
  <2>1. Ring(d) \in Seq(Returnee) /\ Len(Ring(d)) = incoming_len(d) /\ e \in Returnee
        /\ e.tag = next_seq
    BY <1>1, <1>3, SoundRecord DEF Returnee
  <2> HIDE DEF e
  <2>2. /\ \A j \in 1..incoming_len(d) : Append(Ring(d), e)[j] = Ring(d)[j]
        /\ Append(Ring(d), e)[incoming_len(d) + 1] = e
    BY <2>1, AppendProperties
  <2>3. i \in 1..incoming_len(d) \/ i = incoming_len(d) + 1
    BY <1>1, <1>4, SoundFields
  <2> QED BY <1>1, <1>3, <1>4, <2>1, <2>2, <2>3
<1>7. held' \subseteq Index
  BY <1>1, <1>2
<1>8. PoolInv'
  BY <1>1, <1>2, <1>4, <1>5, <1>6, <1>7 DEF PoolInv
<1>9. PoolOf(d') = Contract!incoming_push(PoolOf(d), index, next_seq)
  BY <1>1, <1>2, <1>3, ReturnIsReturn
<1> QED BY <1>2, <1>8, <1>9 DEF Contract!Return

(* merge_incoming.                                                         *)
LEMMA MergeStep ==
  ASSUME PoolInv, NEW max_tag \in 0..next_seq, NEW max \in 1..MaxMerge, Merge(max_tag, max)
  PROVE  PoolInv' /\ Contract!Merge(max_tag, max)
<1>1. /\ Sound(d) /\ held \subseteq Index /\ next_seq \in 0..MaxTag /\ Placed(d, held)
      /\ \A i \in 1..incoming_len(d) : Ring(d)[i].tag <= next_seq
  BY DEF PoolInv
<1>2. d' = MergedBytes(d, max_tag, max) /\ held' = held /\ next_seq' = next_seq
  BY DEF Merge
<1>3. max_tag \in Nat /\ max \in Nat
  OBVIOUS
<1>4. PICK j \in 0..incoming_len(d) : After(d, d', j)
  BY <1>1, <1>2, <1>3, MergedRecord
<1>5. Placed(d', held)
  BY <1>1, <1>4, MergedPlaced
<1>6. ASSUME NEW i \in 1..incoming_len(d') PROVE Ring(d')[i].tag <= next_seq
  <2>1. i \in 1..(incoming_len(d) - j) /\ i + j \in 1..incoming_len(d)
    BY <1>1, <1>4, SoundFields DEF After
  <2>2. Ring(d')[i] = Ring(d)[i + j]
    BY <1>4, <2>1 DEF After, MovedRing
  <2> QED BY <1>1, <2>1, <2>2
<1>7. Sound(d')
  BY <1>4 DEF After
<1>8. PoolInv'
  BY <1>1, <1>2, <1>5, <1>6, <1>7 DEF PoolInv
<1>9. \E k \in 0..Contract!incoming_len(PoolOf(d)) :
        Contract!MergeMoves(PoolOf(d), max_tag, max, k) /\ PoolOf(d') = Contract!Merged(PoolOf(d), k)
  BY <1>1, <1>2, <1>3, MergeIsMerge
<1> QED BY <1>2, <1>8, <1>9 DEF Contract!Merge

(* The counter moves on; no tag is later than it was.                      *)
LEMMA NewRequestStep ==
  ASSUME PoolInv, NewRequest
  PROVE  PoolInv' /\ Contract!NewRequest
<1>1. /\ Sound(d) /\ held \subseteq Index /\ next_seq \in 0..MaxTag /\ Placed(d, held)
      /\ \A i \in 1..incoming_len(d) : Ring(d)[i].tag <= next_seq
  BY DEF PoolInv
<1>2. d' = d /\ held' = held /\ next_seq' = next_seq + 1 /\ next_seq < MaxTag
  BY DEF NewRequest
<1>3. next_seq' \in 0..MaxTag
  BY <1>1, <1>2, LayoutAssumption
<1>4. ASSUME NEW i \in 1..incoming_len(d) PROVE Ring(d)[i].tag <= next_seq + 1
  <2>1. Ring(d)[i] \in Returnee
    BY <1>1, SoundRecord
  <2>2. Ring(d)[i].tag \in Nat
    BY <2>1 DEF Returnee
  <2> QED BY <1>1, <2>2
<1>5. PoolInv'
  BY <1>1, <1>2, <1>3, <1>4 DEF PoolInv
<1>6. PoolOf(d') = PoolOf(d)
  BY <1>2
<1> QED BY <1>2, <1>5, <1>6 DEF Contract!NewRequest

(* All steps together, and the ones that change nothing.                   *)
LEMMA PoolStep ==
  PoolInv /\ [Next]_layout => PoolInv' /\ [Contract!Next]_(Contract!contract)
<1> SUFFICES ASSUME PoolInv, [Next]_layout
             PROVE  PoolInv' /\ [Contract!Next]_(Contract!contract)
  OBVIOUS
<1>1. ASSUME NEW pos \in 0..(capacity - 1), NEW handed_in \in AtMostOne(held), Draw(pos, handed_in)
      PROVE  PoolInv' /\ Contract!Next
  <2>1. PoolInv' /\ Contract!Draw(pos, handed_in)
    BY <1>1, DrawStep
  <2>2. handed_in \in Contract!AtMostOne(held)
    BY DEF AtMostOne, Contract!AtMostOne
  <2> QED BY <2>1, <2>2 DEF Contract!Next
<1>2. ASSUME NEW index \in held, Return(index)
      PROVE  PoolInv' /\ Contract!Next
  BY <1>2, ReturnStep DEF Contract!Next
<1>3. ASSUME NEW max_tag \in 0..next_seq, NEW max \in 1..MaxMerge, Merge(max_tag, max)
      PROVE  PoolInv' /\ Contract!Next
  BY <1>3, MergeStep DEF Contract!Next
<1>4. CASE NewRequest
  BY <1>4, NewRequestStep DEF Contract!Next
<1>5. CASE UNCHANGED layout
  <2>1. d' = d /\ held' = held /\ next_seq' = next_seq
    BY <1>5 DEF layout
  <2>2. PoolInv'
    BY <2>1 DEF PoolInv
  <2>3. PoolOf(d') = PoolOf(d)
    BY <2>1
  <2> QED BY <2>1, <2>2, <2>3 DEF Contract!contract
<1> QED BY <1>1, <1>2, <1>3, <1>4, <1>5 DEF Next

-----------------------------------------------------------------------------
(* The theorems.                                                           *)

(* So it holds in every state.                                             *)
LEMMA PoolInductive == Spec => []PoolInv
<1>1. PoolInv /\ [Next]_layout => PoolInv'
  BY PoolStep
<1> QED BY PoolInit, <1>1, PTL DEF Spec

(* The bytes of the account do what the record does, operation by          *)
(* operation, whatever the capacity: fields that overlap, a ring that      *)
(* wraps, lazy slots and the bitmap never show (pool.rs).                  *)
THEOREM BytesImplementPool == Spec => ImplementsPool
<1>1. PoolInv /\ [Next]_layout => [Contract!Next]_(Contract!contract)
  BY PoolStep
<1> QED BY PoolInit, <1>1, PoolInductive, PTL DEF Spec, ImplementsPool, Contract!Spec

(* The buffer stays bytes, keeps the capacity it was made for and a head   *)
(* inside the ring.                                                        *)
THEOREM LayoutTyped == Spec => []LayoutTypeOK
<1>1. PoolInv => LayoutTypeOK
  <2> SUFFICES ASSUME PoolInv PROVE LayoutTypeOK
    OBVIOUS
  <2>1. d \in Bytes /\ rd_u32(d, 40) = capacity /\ incoming_head(d) < capacity
    BY Fields DEF PoolInv, Sound
  <2>2. \A n \in Nat : {v \in Nat : v <= n} = 0..n
    OBVIOUS
  <2>3. Byte = 0..255
    BY <2>2 DEF Byte
  <2> QED BY <2>1, <2>3 DEF LayoutTypeOK, PoolInv, Bytes, Index
<1> QED BY <1>1, PoolInductive, PTL

(* A caller that holds what it gives back is never refused: there is room  *)
(* for a return behind tags that are no later, for a hand-in after the     *)
(* draw, and for every entry that a merge moves.                           *)
THEOREM CallersNeverRefused == Spec => []NeverRefused
<1>1. PoolInv => NeverRefused
  <2> SUFFICES ASSUME PoolInv PROVE NeverRefused
    OBVIOUS
  <2>1. held # {} => ReturnAllowed(d, next_seq)
    BY ReturnFits
  <2>2. ASSUME NEW pos \in 0..(pool_len(d) - 1), NEW index \in held
        PROVE  PushAllowed(SwapRemoved(d, pos), index)
    <3>1. Sound(d) /\ index \in Index /\ pos \in Nat
      BY DEF PoolInv
    <3>2. pos < pool_len(d) /\ pool_len(d) \in Nat /\ incoming_len(d) \in Nat
          /\ pool_len(d) + incoming_len(d) <= capacity /\ capacity \in Nat
      BY <3>1, SoundFields
    <3>3. /\ pool_len(SwapRemoved(d, pos)) = pool_len(d) - 1
          /\ incoming_len(SwapRemoved(d, pos)) = incoming_len(d)
      BY <3>1, <3>2, SwapRemovedRecord
    <3> QED BY <3>1, <3>2, <3>3 DEF PushAllowed, total, Index
  <2>3. \A max_tag \in 0..next_seq : MergeAllowed(d, max_tag, MaxMerge)
    BY MergedRecord, LayoutAssumption DEF PoolInv
  <2> QED BY <2>1, <2>2, <2>3 DEF NeverRefused
<1> QED BY <1>1, PoolInductive, PTL

(* Every index is in one slot, in one entry of the ring, or with a caller, *)
(* although a slot that was never written stands for its own position.     *)
THEOREM IndicesOnce == Spec => []EveryIndexOnce
<1>1. PoolInv => EveryIndexOnce
  <2> SUFFICES ASSUME PoolInv,
                      NEW i \in 0..(capacity - 1)
               PROVE  Cardinality({j \in DOMAIN PoolOf(d).slots : PoolOf(d).slots[j] = i})
                        + Cardinality({j \in DOMAIN PoolOf(d).incoming :
                                         PoolOf(d).incoming[j].index = i})
                        = (IF i \in held THEN 0 ELSE 1)
    BY Zenon DEF EveryIndexOnce
  <2> DEFINE A == {j \in 1..pool_len(d) : Slots(d)[j] = i}
             B == {j \in 1..incoming_len(d) : Ring(d)[j].index = i}
  <2>1. Sound(d) /\ Placed(d, held) /\ i \in Index
    BY DEF PoolInv, Index
  <2>2. /\ {j \in DOMAIN PoolOf(d).slots : PoolOf(d).slots[j] = i} = A
        /\ {j \in DOMAIN PoolOf(d).incoming : PoolOf(d).incoming[j].index = i} = B
    <3>1. /\ PoolOf(d).slots = Slots(d) /\ PoolOf(d).incoming = Ring(d)
          /\ DOMAIN Slots(d) = 1..pool_len(d) /\ DOMAIN Ring(d) = 1..incoming_len(d)
      BY <2>1, SoundRecord
    <3> QED BY <3>1
  <2>3. ASSUME InSlot(d, i) PROVE \E j : A = {j}
    <3>1. PICK j \in 1..pool_len(d) : Slots(d)[j] = i
      BY <2>3 DEF InSlot
    <3>2. \A k \in 1..pool_len(d) : Slots(d)[k] = i => k = j
      BY <2>1, <3>1 DEF Placed
    <3>3. A = {j}
      BY <3>1, <3>2
    <3> QED BY <3>3
  <2>4. ASSUME InRing(d, i) PROVE \E j : B = {j}
    <3>1. PICK j \in 1..incoming_len(d) : Ring(d)[j].index = i
      BY <2>4 DEF InRing
    <3>2. \A k \in 1..incoming_len(d) : Ring(d)[k].index = i => k = j
      BY <2>1, <3>1 DEF Placed
    <3>3. B = {j}
      BY <3>1, <3>2
    <3> QED BY <3>3
  <2>5. (~InSlot(d, i) => A = {}) /\ (~InRing(d, i) => B = {})
    BY DEF InSlot, InRing
  <2> HIDE DEF A, B
  <2>6. Cardinality({}) = 0 /\ \A x : Cardinality({x}) = 1
    BY FS_EmptySet, FS_Singleton
  <2>7. /\ ~(InSlot(d, i) /\ InRing(d, i))
        /\ i \in held <=> ~InSlot(d, i) /\ ~InRing(d, i)
    BY <2>1 DEF Placed
  <2>8. /\ Cardinality(A) = IF InSlot(d, i) THEN 1 ELSE 0
        /\ Cardinality(B) = IF InRing(d, i) THEN 1 ELSE 0
    BY <2>3, <2>4, <2>5, <2>6
  <2>9. Cardinality(A) + Cardinality(B) = (IF i \in held THEN 0 ELSE 1)
    <3>1. CASE InSlot(d, i)
      BY <2>7, <2>8, <3>1
    <3>2. CASE InRing(d, i)
      BY <2>7, <2>8, <3>2
    <3>3. CASE ~InSlot(d, i) /\ ~InRing(d, i)
      BY <2>7, <2>8, <3>3
    <3> QED BY <3>1, <3>2, <3>3
  <2> QED BY <2>2, <2>9, Zenon
<1> QED BY <1>1, PoolInductive, PTL

=============================================================================
