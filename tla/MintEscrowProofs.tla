--------------------------- MODULE MintEscrowProofs ---------------------------
(* Theorems of MintEscrow for every collection, number of requests and prices. *)
EXTENDS MintEscrow, FiniteSetTheorems, TLAPS

\* A request that was never made has nothing spent or returned in its name.
Fresh == \A s \in Seqs : phase[s] = "none" => spent[s] = 0 /\ returned[s] = 0

EInv == TypeOK /\ OwnMintOnly /\ Fresh

-----------------------------------------------------------------------------

(* The request at the head has been made and is not the last that will be.   *)
LEMMA HeadIsWaiting ==
  ASSUME TypeOK, NEW s \in Seqs, NEW state \in {"pending", "revealed"}, IsHead(s, state)
  PROVE  /\ Waiting(s) /\ s = next_settle_seq
         /\ s \in Nat /\ s < next_seq /\ next_settle_seq + 1 \in 1..next_seq
<1>1. s \in Nat /\ next_seq \in Nat /\ next_settle_seq \in Nat /\ s >= 1
  BY EscrowAssumption DEF TypeOK, Seqs
<1>2. phase[s] # "none" /\ Waiting(s) /\ s = next_settle_seq
  BY DEF IsHead, Waiting
<1>3. s < next_seq
  BY <1>1, <1>2 DEF TypeOK
<1> QED BY <1>1, <1>2, <1>3

(* Whatever way a request ends, its account balances: what the outcome cost is
   taken from what is at its own address, and the rest goes to its user.     *)
LEMMA CloseKeeps ==
  ASSUME EInv, NEW s \in Seqs, NEW state \in {"pending", "revealed"}, IsHead(s, state),
         NEW outcome \in {"settled", "expired"}, NEW drained \in Nat, NEW cost \in Nat,
         cost <= escrow[s] + drained, outcome = "expired" => cost = 0,
         Close(s, outcome, drained, cost),
         outside' \subseteq Assets, minted' \subseteq Assets, dust' \in [Assets -> Nat]
  PROVE  EInv'
<1>1. /\ Waiting(s) /\ s = next_settle_seq
      /\ s \in Nat /\ s < next_seq /\ next_settle_seq + 1 \in 1..next_seq
  BY HeadIsWaiting DEF EInv
<1>2. /\ escrow[s] \in Nat /\ put_in[s] \in Nat /\ spent[s] = 0 /\ returned[s] = 0
      /\ escrow[s] >= MINT_ESCROW /\ put_in[s] = escrow[s]
  BY <1>1 DEF EInv, OwnMintOnly, TypeOK
<1>3. PICK back \in Nat : back = (escrow[s] + drained) - cost
  BY <1>2
<1>4. /\ phase' = [phase EXCEPT ![s] = outcome]
      /\ put_in' = [put_in EXCEPT ![s] = @ + drained]
      /\ spent' = [spent EXCEPT ![s] = @ + cost]
      /\ returned' = [returned EXCEPT ![s] = @ + back]
      /\ escrow' = [escrow EXCEPT ![s] = 0]
      /\ next_settle_seq' = next_settle_seq + 1
      /\ UNCHANGED <<next_seq, handed_in, rent, core_fee>>
  BY <1>3 DEF Close, prices
<1>5. /\ phase'[s] = outcome /\ put_in'[s] = put_in[s] + drained /\ spent'[s] = cost
      /\ returned'[s] = back /\ escrow'[s] = 0
      /\ \A q \in Seqs : q # s =>
           /\ phase'[q] = phase[q] /\ put_in'[q] = put_in[q] /\ spent'[q] = spent[q]
           /\ returned'[q] = returned[q] /\ escrow'[q] = escrow[q]
  BY <1>2, <1>3, <1>4 DEF EInv, TypeOK
<1>6. TypeOK'
  <2>1. /\ put_in' \in [Seqs -> Nat] /\ spent' \in [Seqs -> Nat]
        /\ returned' \in [Seqs -> Nat] /\ escrow' \in [Seqs -> Nat]
    BY <1>2, <1>3, <1>4 DEF EInv, TypeOK
  <2>2. phase' \in [Seqs -> {"none", "pending", "revealed", "settled", "expired"}]
    BY <1>4 DEF EInv, TypeOK
  <2>3. ASSUME NEW q \in Seqs
        PROVE  /\ (phase'[q] = "none") <=> (q >= next_seq')
               /\ (phase'[q] \in {"settled", "expired"}) <=> (q < next_settle_seq')
    <3>1. q \in Nat /\ next_seq \in Nat /\ next_settle_seq \in Nat
      BY EscrowAssumption DEF Seqs, EInv, TypeOK
    <3>2. CASE q = s
      BY <1>1, <1>4, <1>5, <3>1, <3>2
    <3>3. CASE q # s
      <4>1. (phase[q] = "none") <=> (q >= next_seq)
        BY DEF EInv, TypeOK
      <4>2. (phase[q] \in {"settled", "expired"}) <=> (q < next_settle_seq)
        BY DEF EInv, TypeOK
      <4>3. (q < next_settle_seq) <=> (q < next_settle_seq + 1)
        BY <1>1, <3>1, <3>3
      <4> QED BY <1>4, <1>5, <3>3, <4>1, <4>2, <4>3
    <3> QED BY <3>2, <3>3
  <2> QED BY <1>1, <1>4, <2>1, <2>2, <2>3 DEF EInv, TypeOK
<1>7. Fresh'
  BY <1>5 DEF EInv, Fresh
<1>8. OwnMintOnly'
  <2>1. ASSUME NEW q \in Seqs
        PROVE  /\ put_in'[q] = escrow'[q] + spent'[q] + returned'[q]
               /\ Waiting(q)' => escrow'[q] >= MINT_ESCROW /\ spent'[q] = 0 /\ returned'[q] = 0
               /\ phase'[q] = "expired" => spent'[q] = 0
               /\ Closed(q)' => returned'[q] + spent'[q] >= MINT_ESCROW
    <3>1. CASE q = s
      <4>1. put_in'[s] = escrow'[s] + spent'[s] + returned'[s]
        BY <1>2, <1>3, <1>5
      <4>2. returned'[s] + spent'[s] >= MINT_ESCROW
        BY <1>2, <1>3, <1>5, EscrowAssumption
      <4>3. ~Waiting(s)' /\ (phase'[s] = "expired" => spent'[s] = 0)
        BY <1>5 DEF Waiting
      <4> QED BY <3>1, <4>1, <4>2, <4>3
    <3>2. CASE q # s
      BY <1>5, <3>2 DEF EInv, OwnMintOnly, Waiting, Closed
    <3> QED BY <3>1, <3>2
  <2> QED BY <2>1 DEF OwnMintOnly
<1> QED BY <1>6, <1>7, <1>8 DEF EInv

-----------------------------------------------------------------------------
(* One lemma per way a request ends.                                         *)

LEMMA DeliverKeeps ==
  ASSUME EInv, NEW s \in Seqs, NEW i \in Assets, SettleDeliver(s, i)
  PROVE  EInv'
<1>1. /\ IsHead(s, "revealed") /\ Close(s, "settled", 0, 0)
      /\ outside' \subseteq Assets /\ minted' \subseteq Assets /\ dust' \in [Assets -> Nat]
  BY DEF SettleDeliver, EInv, TypeOK
<1>2. escrow[s] \in Nat
  BY DEF EInv, TypeOK
<1>3. 0 <= escrow[s] + 0
  BY <1>2
<1> QED BY <1>1, <1>3, CloseKeeps

LEMMA MintKeeps ==
  ASSUME EInv, NEW s \in Seqs, NEW i \in Assets, SettleMint(s, i)
  PROVE  EInv'
<1>1. /\ IsHead(s, "revealed") /\ Close(s, "settled", dust[i], rent + core_fee)
      /\ outside' \subseteq Assets /\ minted' \subseteq Assets /\ dust' \in [Assets -> Nat]
  BY DEF SettleMint, Marked, EInv, TypeOK
<1>2. dust[i] \in Nat /\ rent + core_fee \in Nat
  BY EscrowAssumption DEF EInv, TypeOK
<1>3. rent + core_fee <= escrow[s] + dust[i]
  <2>1. escrow[s] \in Nat
    BY DEF EInv, TypeOK
  <2> QED BY <1>2, <2>1 DEF SettleMint, MintAllowed
<1> QED BY <1>1, <1>2, <1>3, CloseKeeps

LEMMA ExpireKeeps ==
  ASSUME EInv, NEW s \in Seqs, Expire(s)
  PROVE  EInv'
<1>1. /\ IsHead(s, "pending") /\ Close(s, "expired", 0, 0)
      /\ outside' \subseteq Assets /\ minted' \subseteq Assets /\ dust' \in [Assets -> Nat]
  BY DEF Expire, ExpireAllowed, EInv, TypeOK
<1>2. escrow[s] \in Nat
  BY DEF EInv, TypeOK
<1>3. 0 <= escrow[s] + 0
  BY <1>2
<1> QED BY <1>1, <1>3, CloseKeeps

(* Every other step puts lamports in or leaves all accounts as they are.     *)

LEMMA RequestKeeps ==
  ASSUME EInv, NEW hand \in {{}} \cup {{i} : i \in Assets}, Request(hand)
  PROVE  EInv'
<1>1. PICK s \in Seqs : s = next_seq
  BY DEF Request
<1>2. /\ phase' = [phase EXCEPT ![s] = "pending"]
      /\ handed_in' = [handed_in EXCEPT ![s] = hand]
      /\ escrow' = [escrow EXCEPT ![s] = @ + MINT_ESCROW]
      /\ put_in' = [put_in EXCEPT ![s] = @ + MINT_ESCROW]
      /\ outside' = outside \ hand /\ next_seq' = next_seq + 1
      /\ UNCHANGED <<next_settle_seq, spent, returned, minted, dust, rent, core_fee>>
  BY <1>1 DEF Request, prices
<1>3. s \in Nat /\ s <= MaxSeq /\ s >= 1 /\ MaxSeq \in Nat /\ next_settle_seq \in 1..s
  BY <1>1, EscrowAssumption DEF Seqs, EInv, TypeOK
<1>4. phase[s] = "none" /\ spent[s] = 0 /\ returned[s] = 0
  BY <1>1, <1>3 DEF EInv, TypeOK, Fresh
<1>5. escrow[s] \in Nat /\ put_in[s] = escrow[s]
  BY <1>4 DEF EInv, OwnMintOnly, TypeOK
<1>6. /\ phase'[s] = "pending" /\ put_in'[s] = put_in[s] + MINT_ESCROW
      /\ escrow'[s] = escrow[s] + MINT_ESCROW /\ spent'[s] = 0 /\ returned'[s] = 0
      /\ \A q \in Seqs : q # s =>
           /\ phase'[q] = phase[q] /\ put_in'[q] = put_in[q] /\ spent'[q] = spent[q]
           /\ returned'[q] = returned[q] /\ escrow'[q] = escrow[q]
  BY <1>2, <1>4 DEF EInv, TypeOK
<1>7. TypeOK'
  <2>1. put_in' \in [Seqs -> Nat] /\ escrow' \in [Seqs -> Nat]
    BY <1>2, EscrowAssumption DEF EInv, TypeOK
  <2>2. /\ phase' \in [Seqs -> {"none", "pending", "revealed", "settled", "expired"}]
        /\ handed_in' \in [Seqs -> SUBSET Assets]
    BY <1>2 DEF EInv, TypeOK
  <2>3. next_seq' \in 1..(MaxSeq + 1) /\ next_settle_seq' \in 1..next_seq'
    BY <1>1, <1>2, <1>3
  <2>4. ASSUME NEW q \in Seqs
        PROVE  /\ (phase'[q] = "none") <=> (q >= next_seq')
               /\ (phase'[q] \in {"settled", "expired"}) <=> (q < next_settle_seq')
    <3>1. q \in Nat
      BY EscrowAssumption DEF Seqs
    <3>2. CASE q = s
      BY <1>1, <1>2, <1>3, <1>6, <3>1, <3>2
    <3>3. CASE q # s
      <4>1. (phase[q] = "none") <=> (q >= next_seq)
        BY DEF EInv, TypeOK
      <4>2. (phase[q] \in {"settled", "expired"}) <=> (q < next_settle_seq)
        BY DEF EInv, TypeOK
      <4>3. (q >= next_seq) <=> (q >= next_seq + 1)
        BY <1>1, <1>3, <3>1, <3>3
      <4> QED BY <1>2, <1>6, <3>3, <4>1, <4>2, <4>3
    <3> QED BY <3>2, <3>3
  <2> QED BY <1>2, <2>1, <2>2, <2>3, <2>4 DEF EInv, TypeOK
<1>8. Fresh'
  BY <1>6 DEF EInv, Fresh
<1>9. OwnMintOnly'
  <2>1. ASSUME NEW q \in Seqs
        PROVE  /\ put_in'[q] = escrow'[q] + spent'[q] + returned'[q]
               /\ Waiting(q)' => escrow'[q] >= MINT_ESCROW /\ spent'[q] = 0 /\ returned'[q] = 0
               /\ phase'[q] = "expired" => spent'[q] = 0
               /\ Closed(q)' => returned'[q] + spent'[q] >= MINT_ESCROW
    <3>1. CASE q = s
      <4>1. escrow'[s] >= MINT_ESCROW /\ put_in'[s] = escrow'[s] + spent'[s] + returned'[s]
        BY <1>5, <1>6, EscrowAssumption
      <4> QED BY <3>1, <4>1, <1>6 DEF Closed
    <3>2. CASE q # s
      BY <1>6, <3>2 DEF EInv, OwnMintOnly, Waiting, Closed
    <3> QED BY <3>1, <3>2
  <2> QED BY <2>1 DEF OwnMintOnly
<1> QED BY <1>7, <1>8, <1>9 DEF EInv

LEMMA RevealKeeps ==
  ASSUME EInv, NEW s \in Seqs, Reveal(s)
  PROVE  EInv'
<1> USE DEF Reveal, money, prices
<1>1. /\ phase'[s] = "revealed" /\ phase[s] = "pending"
      /\ \A q \in Seqs : q # s => phase'[q] = phase[q]
  BY DEF EInv, TypeOK
<1>2. TypeOK'
  <2>1. phase' \in [Seqs -> {"none", "pending", "revealed", "settled", "expired"}]
    BY DEF EInv, TypeOK
  <2>2. ASSUME NEW q \in Seqs
        PROVE  /\ (phase'[q] = "none") <=> (phase[q] = "none")
               /\ (phase'[q] \in {"settled", "expired"}) <=> (phase[q] \in {"settled", "expired"})
    BY <1>1
  <2> QED BY <2>1, <2>2 DEF EInv, TypeOK
<1>3. Fresh'
  BY <1>1 DEF EInv, Fresh
<1>4. OwnMintOnly'
  BY <1>1 DEF EInv, OwnMintOnly, Waiting, Closed
<1> QED BY <1>2, <1>3, <1>4 DEF EInv

LEMMA TopUpKeeps ==
  ASSUME EInv, NEW s \in Seqs, TopUp(s)
  PROVE  EInv'
<1> USE DEF TopUp, queue, prices
<1>1. escrow[s] \in Nat /\ put_in[s] \in Nat /\ spent[s] \in Nat /\ returned[s] \in Nat
  BY DEF EInv, TypeOK
<1>2. /\ escrow'[s] = escrow[s] + 1 /\ put_in'[s] = put_in[s] + 1
      /\ \A q \in Seqs : q # s => escrow'[q] = escrow[q] /\ put_in'[q] = put_in[q]
  BY DEF EInv, TypeOK
<1>3. TypeOK'
  BY DEF EInv, TypeOK
<1>4. Fresh'
  BY DEF EInv, Fresh
<1>5. OwnMintOnly'
  <2>1. ASSUME NEW q \in Seqs
        PROVE  /\ put_in'[q] = escrow'[q] + spent'[q] + returned'[q]
               /\ Waiting(q)' => escrow'[q] >= MINT_ESCROW /\ spent'[q] = 0 /\ returned'[q] = 0
               /\ phase'[q] = "expired" => spent'[q] = 0
               /\ Closed(q)' => returned'[q] + spent'[q] >= MINT_ESCROW
    <3>1. CASE q = s
      <4>1. put_in[s] = escrow[s] + spent[s] + returned[s]
        BY DEF EInv, OwnMintOnly
      <4>2. put_in'[s] = escrow'[s] + spent'[s] + returned'[s]
        BY <1>1, <1>2, <4>1
      <4>3. Waiting(s) => escrow'[s] >= MINT_ESCROW
        BY <1>1, <1>2, EscrowAssumption DEF EInv, OwnMintOnly
      <4> QED BY <3>1, <4>2, <4>3 DEF EInv, OwnMintOnly, Waiting, Closed
    <3>2. CASE q # s
      BY <1>2, <3>2 DEF EInv, OwnMintOnly, Waiting, Closed
    <3> QED BY <3>1, <3>2
  <2> QED BY <2>1 DEF OwnMintOnly
<1> QED BY <1>3, <1>4, <1>5 DEF EInv

LEMMA OthersKeep ==
  ASSUME EInv,
         \/ \E i \in Assets : Unwrap(i) \/ Prefund(i)
         \/ PricesMove \/ UNCHANGED vars
  PROVE  EInv'
<1>1. /\ UNCHANGED <<next_seq, next_settle_seq, phase, handed_in,
                     escrow, put_in, spent, returned, minted>>
      /\ outside' \subseteq Assets /\ dust' \in [Assets -> Nat]
      /\ rent' \in Rents /\ core_fee' \in CoreFees
  <2> USE DEF queue, money, prices, vars
  <2>1. CASE \E i \in Assets : Unwrap(i)
    BY <2>1 DEF Unwrap, EInv, TypeOK
  <2>2. CASE \E i \in Assets : Prefund(i)
    BY <2>2 DEF Prefund, EInv, TypeOK
  <2>3. CASE PricesMove \/ UNCHANGED vars
    BY <2>3 DEF PricesMove, EInv, TypeOK
  <2> QED BY <2>1, <2>2, <2>3
<1>2. TypeOK'
  BY <1>1 DEF EInv, TypeOK
<1>3. Fresh' /\ OwnMintOnly'
  BY <1>1 DEF EInv, Fresh, OwnMintOnly, Waiting, Closed
<1> QED BY <1>2, <1>3 DEF EInv

-----------------------------------------------------------------------------

LEMMA InitTypes ==
  ASSUME Init
  PROVE  TypeOK
<1>1. \A s \in Seqs : s >= 1 /\ s \in Nat
  BY EscrowAssumption DEF Seqs
<1> QED BY <1>1, EscrowAssumption DEF Init, TypeOK

LEMMA EInvKept ==
  ASSUME EInv, [Next]_vars
  PROVE  EInv'
BY DeliverKeeps, MintKeeps, ExpireKeeps, RequestKeeps, RevealKeeps, TopUpKeeps, OthersKeep
   DEF Next

LEMMA EscrowInductive == Spec => []EInv
<1>1. Init => EInv
  <2>1. Init => Fresh /\ OwnMintOnly
    BY DEF Init, Fresh, OwnMintOnly, Waiting, Closed
  <2> QED BY <2>1, InitTypes DEF EInv
<1>2. EInv /\ [Next]_vars => EInv'
  BY EInvKept
<1> QED BY <1>1, <1>2, PTL DEF Spec

(* The queue of requests, their accounts and the bitmap have the types the code
   gives them; in particular no balance of refund_escrow ever goes negative.  *)
THEOREM EscrowTypes == Spec => []TypeOK
<1>1. EInv => TypeOK
  BY DEF EInv
<1> QED BY <1>1, EscrowInductive, PTL

(* Whatever is minted, refunded, given or repriced, a request pays for its own
   mint from its own escrow and its user gets all the rest back.             *)
THEOREM PaysItsOwnMint == Spec => []OwnMintOnly
<1>1. EInv => OwnMintOnly
  BY DEF EInv
<1> QED BY <1>1, EscrowInductive, PTL

(* The step that closes a request leaves nothing at its escrow.              *)
THEOREM NothingLeftBehind == Spec => ClosedEmpty
<1>1. ASSUME EInv, [Next]_vars
      PROVE  [\A s \in Seqs : Waiting(s) /\ ~Waiting(s)' => escrow'[s] = 0]_vars
  <2>1. SUFFICES ASSUME NEW q \in Seqs, Waiting(q), ~Waiting(q)', Next
                 PROVE  escrow'[q] = 0
    BY <1>1 DEF vars, queue, money, prices
  <2>2. ASSUME NEW s \in Seqs, NEW outcome, NEW drained, NEW cost,
               Close(s, outcome, drained, cost)
        PROVE  escrow'[q] = 0
    BY <1>1, <2>1, <2>2 DEF Close, Waiting, EInv, TypeOK
  <2>3. CASE \E s \in Seqs, i \in Assets : SettleDeliver(s, i)
    BY <2>2, <2>3 DEF SettleDeliver
  <2>4. CASE \E s \in Seqs, i \in Assets : SettleMint(s, i)
    BY <2>2, <2>4 DEF SettleMint
  <2>5. CASE \E s \in Seqs : Expire(s)
    BY <2>2, <2>5 DEF Expire
  <2>6. CASE \E hand \in {{}} \cup {{i} : i \in Assets} : Request(hand)
    BY <1>1, <2>1, <2>6 DEF Request, Waiting, EInv, TypeOK
  <2>7. CASE \E s \in Seqs : Reveal(s)
    BY <1>1, <2>1, <2>7 DEF Reveal, Waiting, EInv, TypeOK
  <2>8. CASE \/ \E i \in Assets : Unwrap(i) \/ Prefund(i)
             \/ \E s \in Seqs : TopUp(s)
             \/ PricesMove
    BY <2>1, <2>8 DEF Unwrap, Prefund, TopUp, PricesMove, Waiting, queue
  <2> QED BY <2>1, <2>3, <2>4, <2>5, <2>6, <2>7, <2>8 DEF Next
<1> QED BY <1>1, EscrowInductive, PTL DEF Spec, ClosedEmpty
-----------------------------------------------------------------------------
(* What a closing step does to the accounts when it mints and when it does not. *)

LEMMA CloseEffect ==
  ASSUME EInv, NEW s \in Seqs, NEW state \in {"pending", "revealed"}, IsHead(s, state),
         NEW outcome \in {"settled", "expired"}, NEW drained \in Nat, NEW cost \in Nat,
         Close(s, outcome, drained, cost)
  PROVE  /\ spent[s] = 0 /\ spent'[s] = cost
         /\ \A q \in Seqs : q # s => spent'[q] = spent[q] /\ (Waiting(q)' <=> Waiting(q))
         /\ Waiting(s) /\ ~Waiting(s)' /\ handed_in' = handed_in
         /\ next_seq' - next_settle_seq' = (next_seq - next_settle_seq) - 1
<1>1. Waiting(s) /\ spent[s] = 0
  BY HeadIsWaiting DEF EInv, OwnMintOnly
<1>2. /\ spent' = [spent EXCEPT ![s] = @ + cost] /\ spent \in [Seqs -> Nat]
      /\ phase' = [phase EXCEPT ![s] = outcome] /\ DOMAIN phase = Seqs
      /\ handed_in' = handed_in /\ next_seq' = next_seq
      /\ next_settle_seq' = next_settle_seq + 1
  BY DEF Close, EInv, TypeOK
<1>3. next_seq \in Int /\ next_settle_seq \in Int
  BY EscrowAssumption DEF EInv, TypeOK
<1>4. spent'[s] = cost
  BY <1>1, <1>2
<1>5. phase'[s] = outcome /\ \A q \in Seqs : q # s => spent'[q] = spent[q] /\ phase'[q] = phase[q]
  BY <1>2
<1> QED BY <1>1, <1>2, <1>3, <1>4, <1>5 DEF Waiting

-----------------------------------------------------------------------------
(* Each asset is paid for once.                                              *)

\* What a re-roll hands in has been in a user's hands, and was minted before.
Paid == PaidOncePerAsset /\ \A s \in Seqs : handed_in[s] \subseteq minted

LEMMA PaidKept ==
  ASSUME EInv, Paid, [Next]_vars
  PROVE  Paid'
<1> USE DEF money, prices, queue
<1> DEFINE Payers == {s \in Seqs : spent[s] > 0}
<1>1. IsFiniteSet(Payers) /\ IsFiniteSet(minted)
  <2>1. IsFiniteSet(Seqs)
    BY EscrowAssumption, FS_Interval DEF Seqs
  <2> QED BY <2>1, EscrowAssumption, FS_Subset DEF EInv, TypeOK
<1>2. ASSUME UNCHANGED <<spent, minted>>, outside' \subseteq minted,
             \A s \in Seqs : handed_in'[s] \subseteq minted
      PROVE  Paid'
  BY <1>2 DEF Paid, PaidOncePerAsset
<1>3. ASSUME NEW s \in Seqs, NEW state \in {"pending", "revealed"}, IsHead(s, state),
             NEW outcome \in {"settled", "expired"}, Close(s, outcome, 0, 0)
      PROVE  spent' = spent /\ handed_in' = handed_in
  BY <1>3 DEF Close, EInv, TypeOK
<1>4. CASE \E s \in Seqs, i \in Assets : SettleDeliver(s, i)
  <2>1. PICK s \in Seqs, i \in Assets : SettleDeliver(s, i)
    BY <1>4
  <2> QED BY <1>2, <1>3, <2>1 DEF SettleDeliver, Paid, PaidOncePerAsset
<1>5. CASE \E s \in Seqs : Expire(s)
  <2>1. PICK s \in Seqs : Expire(s)
    BY <1>5
  <2> QED BY <1>2, <1>3, <2>1 DEF Expire, ExpireAllowed, Paid, PaidOncePerAsset
<1>6. CASE \E s \in Seqs, i \in Assets : SettleMint(s, i)
  <2>1. PICK s \in Seqs, i \in Assets : SettleMint(s, i)
    BY <1>6
  <2>2. /\ IsHead(s, "revealed") /\ Close(s, "settled", dust[i], rent + core_fee)
        /\ i \notin minted /\ minted' = minted \cup {i} /\ outside' = outside \cup {i}
    BY <2>1 DEF SettleMint, Marked
  <2>3. dust[i] \in Nat /\ rent + core_fee \in Nat /\ rent + core_fee > 0
    BY EscrowAssumption DEF EInv, TypeOK
  <2>4. /\ spent[s] = 0 /\ spent'[s] = rent + core_fee /\ handed_in' = handed_in
        /\ \A q \in Seqs : q # s => spent'[q] = spent[q]
    BY <2>2, <2>3, CloseEffect
  <2>5. s \notin Payers /\ Payers' = Payers \cup {s}
    BY <2>3, <2>4
  <2>6. /\ Cardinality(Payers') = Cardinality(Payers) + 1
        /\ Cardinality(minted') = Cardinality(minted) + 1
    BY <1>1, <2>2, <2>5, FS_AddElement
  <2>7. PaidOncePerAsset'
    BY <2>2, <2>6 DEF Paid, PaidOncePerAsset
  <2> QED BY <2>2, <2>4, <2>7 DEF Paid
<1>7. CASE \E hand \in {{}} \cup {{i} : i \in Assets} : Request(hand)
  <2>1. PICK hand \in {{}} \cup {{i} : i \in Assets} : Request(hand)
    BY <1>7
  <2>2. hand \subseteq outside /\ outside \subseteq minted
    BY <2>1 DEF Request, Paid, PaidOncePerAsset
  <2>3. \A s \in Seqs : handed_in'[s] \subseteq minted
    BY <2>1, <2>2 DEF Request, Paid, EInv, TypeOK
  <2> QED BY <1>2, <2>1, <2>2, <2>3 DEF Request
<1>8. CASE \/ \E s \in Seqs : Reveal(s) \/ TopUp(s)
           \/ \E i \in Assets : Unwrap(i) \/ Prefund(i)
           \/ PricesMove \/ UNCHANGED vars
  <2>1. UNCHANGED <<spent, minted, handed_in>> /\ outside' \subseteq outside
    BY <1>8 DEF Reveal, TopUp, Unwrap, Prefund, PricesMove, vars
  <2> QED BY <1>2, <2>1 DEF Paid, PaidOncePerAsset
<1> QED BY <1>4, <1>5, <1>6, <1>7, <1>8 DEF Next

(* Whatever is drawn, returned, drawn again or handed in, no asset is minted twice
   and nobody holds one that no escrow paid for.                             *)
THEOREM MintedOnce == Spec => []PaidOncePerAsset
<1>1. ASSUME Init
      PROVE  Paid
  <2>1. {s \in Seqs : spent[s] > 0} = {} /\ minted = {}
    BY <1>1 DEF Init
  <2> QED BY <1>1, <2>1 DEF Init, Paid, PaidOncePerAsset
<1>2. Init => Paid
  BY <1>1
<1>3. EInv /\ Paid /\ [Next]_vars => Paid'
  BY PaidKept
<1>4. Paid => PaidOncePerAsset
  BY DEF Paid
<1> QED BY <1>2, <1>3, <1>4, EscrowInductive, PTL DEF Spec

-----------------------------------------------------------------------------
(* Whoever is admitted finds something to draw.                              *)

Promised == Cardinality(drawable) >= next_seq - next_settle_seq

LEMMA DrawableFinite ==
  ASSUME TypeOK
  PROVE  IsFiniteSet(drawable) /\ Cardinality(drawable) \in Nat
<1>1. IsFiniteSet(drawable)
  BY EscrowAssumption, FS_Subset DEF drawable
<1> QED BY <1>1, FS_CardinalityType

(* A draw takes one asset away from the others, every other step takes none.   *)
LEMMA DrawableShrinksByOne ==
  ASSUME EInv, [Next]_vars
  PROVE  \/ /\ drawable \subseteq drawable'
            /\ next_seq' - next_settle_seq' <= next_seq - next_settle_seq
         \/ /\ \E i \in Assets : drawable \ {i} \subseteq drawable'
            /\ next_seq' - next_settle_seq' = (next_seq - next_settle_seq) - 1
         \/ /\ drawable \subseteq drawable'
            /\ next_seq' - next_settle_seq' = (next_seq - next_settle_seq) + 1
            /\ Cardinality(drawable) - (next_seq - next_settle_seq) > pool_floor
<1> USE DEF money, prices, queue
<1> DEFINE Held == UNION {handed_in[s] : s \in {q \in Seqs : Waiting(q)}}
<1>0. next_seq \in Int /\ next_settle_seq \in Int
  BY EscrowAssumption DEF EInv, TypeOK
<1>1. ASSUME NEW s \in Seqs, Waiting(s), handed_in' = handed_in,
             \A q \in Seqs : q # s => (Waiting(q)' <=> Waiting(q))
      PROVE  Held' \subseteq Held /\ Held \subseteq Held' \cup handed_in[s]
  BY <1>1
<1>2. CASE \E s \in Seqs, i \in Assets : SettleDeliver(s, i) \/ SettleMint(s, i)
  <2>1. PICK s \in Seqs, i \in Assets : SettleDeliver(s, i) \/ SettleMint(s, i)
    BY <1>2
  <2>2. PICK drained \in Nat, cost \in Nat :
           /\ IsHead(s, "revealed") /\ Close(s, "settled", drained, cost)
           /\ outside' = outside \cup {i}
    <3>1. CASE SettleDeliver(s, i)
      BY <3>1 DEF SettleDeliver
    <3>2. CASE SettleMint(s, i)
      <4>1. dust[i] \in Nat /\ rent + core_fee \in Nat
        BY EscrowAssumption DEF EInv, TypeOK
      <4> QED BY <3>2, <4>1 DEF SettleMint
    <3> QED BY <2>1, <3>1, <3>2
  <2>3. /\ Waiting(s) /\ handed_in' = handed_in
        /\ \A q \in Seqs : q # s => (Waiting(q)' <=> Waiting(q))
        /\ next_seq' - next_settle_seq' = (next_seq - next_settle_seq) - 1
    BY <2>2, CloseEffect
  <2>4. Held' \subseteq Held
    BY <1>1, <2>3
  <2>5. drawable \ {i} \subseteq drawable'
    BY <2>2, <2>4 DEF drawable
  <2> QED BY <2>3, <2>5
<1>3. CASE \E s \in Seqs : Expire(s)
  <2>1. PICK s \in Seqs : Expire(s)
    BY <1>3
  <2>2. /\ IsHead(s, "pending") /\ Close(s, "expired", 0, 0)
        /\ outside' = outside \cup handed_in[s]
    BY <2>1 DEF Expire, ExpireAllowed
  <2>3. /\ Waiting(s) /\ handed_in' = handed_in
        /\ \A q \in Seqs : q # s => (Waiting(q)' <=> Waiting(q))
        /\ next_seq' - next_settle_seq' = (next_seq - next_settle_seq) - 1
    BY <2>2, CloseEffect
  <2>4. Held' \subseteq Held /\ handed_in[s] \subseteq Held
    BY <1>1, <2>3
  <2>5. drawable \subseteq drawable'
    BY <2>2, <2>4 DEF drawable
  <2> QED BY <1>0, <2>3, <2>5
<1>4. CASE \E hand \in {{}} \cup {{i} : i \in Assets} : Request(hand)
  <2>1. PICK hand \in {{}} \cup {{i} : i \in Assets} : Request(hand)
    BY <1>4
  <2>2. PICK s \in Seqs : s = next_seq
    BY <2>1 DEF Request
  <2>3. /\ handed_in' = [handed_in EXCEPT ![s] = hand] /\ outside' = outside \ hand
        /\ phase' = [phase EXCEPT ![s] = "pending"] /\ hand \subseteq outside
        /\ next_seq' = next_seq + 1 /\ next_settle_seq' = next_settle_seq
        /\ Cardinality(drawable) - (next_seq - next_settle_seq) > pool_floor
    BY <2>1, <2>2 DEF Request
  <2>4. ASSUME NEW q \in Seqs, Waiting(q)'
        PROVE  handed_in'[q] \subseteq hand \cup Held
    BY <2>3, <2>4 DEF Waiting, EInv, TypeOK
  <2>5. Held' \subseteq hand \cup Held
    BY <2>4
  <2>6. drawable \subseteq drawable'
    BY <2>3, <2>5 DEF drawable
  <2> QED BY <1>0, <2>3, <2>6
<1>5. CASE \E s \in Seqs : Reveal(s)
  <2>1. PICK s \in Seqs : Reveal(s)
    BY <1>5
  <2>2. /\ \A q \in Seqs : Waiting(q)' <=> Waiting(q)
        /\ UNCHANGED <<handed_in, outside, next_seq, next_settle_seq>>
    BY <2>1 DEF Reveal, Waiting, EInv, TypeOK
  <2>3. Held' = Held
    BY <2>2
  <2> QED BY <1>0, <2>2, <2>3 DEF drawable
<1>6. CASE \/ \E s \in Seqs : TopUp(s)
           \/ \E i \in Assets : Unwrap(i) \/ Prefund(i)
           \/ PricesMove \/ UNCHANGED vars
  <2>1. UNCHANGED <<phase, handed_in, next_seq, next_settle_seq>> /\ outside' \subseteq outside
    BY <1>6 DEF TopUp, Unwrap, Prefund, PricesMove, vars
  <2>2. Held' = Held
    BY <2>1 DEF Waiting
  <2> QED BY <1>0, <2>1, <2>2 DEF drawable
<1> QED BY <1>2, <1>3, <1>4, <1>5, <1>6 DEF Next

LEMMA PromiseKept ==
  ASSUME EInv, Promised, [Next]_vars
  PROVE  Promised'
<1>1. EInv'
  BY EInvKept
<1>2. /\ IsFiniteSet(drawable) /\ Cardinality(drawable) \in Nat
      /\ IsFiniteSet(drawable') /\ Cardinality(drawable') \in Nat
  <2>1. drawable' \subseteq Assets
    BY DEF drawable
  <2>2. IsFiniteSet(drawable')
    BY <2>1, EscrowAssumption, FS_Subset
  <2>3. Cardinality(drawable') \in Nat
    BY <2>2, FS_CardinalityType
  <2> QED BY <2>2, <2>3, DrawableFinite DEF EInv
<1>3. PICK waits \in Int, waits_then \in Int :
        waits = next_seq - next_settle_seq /\ waits_then = next_seq' - next_settle_seq'
  <2>1. next_seq - next_settle_seq \in Int
    BY EscrowAssumption DEF EInv, TypeOK
  <2>2. next_seq' - next_settle_seq' \in Int
    BY <1>1, EscrowAssumption DEF EInv, TypeOK
  <2> QED BY <2>1, <2>2
<1>4. Cardinality(drawable) >= waits
  BY <1>3 DEF Promised
<1>5. SUFFICES Cardinality(drawable') >= waits_then
  BY <1>3 DEF Promised
<1>6. CASE /\ \E i \in Assets : drawable \ {i} \subseteq drawable'
           /\ waits_then = waits - 1
  <2>1. PICK i \in Assets : drawable \ {i} \subseteq drawable'
    BY <1>6
  <2>2. /\ IsFiniteSet(drawable \ {i}) /\ Cardinality(drawable \ {i}) \in Nat
        /\ Cardinality(drawable \ {i}) >= Cardinality(drawable) - 1
    <3>1. IsFiniteSet(drawable \ {i})
      BY <1>2, FS_RemoveElement
    <3>2. Cardinality(drawable \ {i}) \in Nat
      BY <3>1, FS_CardinalityType
    <3>3. \/ Cardinality(drawable \ {i}) = Cardinality(drawable) - 1
          \/ Cardinality(drawable \ {i}) = Cardinality(drawable)
      BY <1>2, FS_RemoveElement, Zenon
    <3> QED BY <1>2, <3>1, <3>2, <3>3
  <2>3. Cardinality(drawable \ {i}) <= Cardinality(drawable')
    BY <1>2, <2>1, FS_Subset
  <2> QED BY <1>2, <1>4, <1>6, <2>2, <2>3
<1>7. CASE drawable \subseteq drawable' /\ waits_then <= waits
  <2>1. Cardinality(drawable) <= Cardinality(drawable')
    BY <1>2, <1>7, FS_Subset
  <2> QED BY <1>2, <1>4, <1>7, <2>1
<1>8. CASE /\ drawable \subseteq drawable' /\ waits_then = waits + 1
           /\ Cardinality(drawable) - waits > pool_floor
  <2>1. Cardinality(drawable) <= Cardinality(drawable')
    BY <1>2, <1>8, FS_Subset
  <2> QED BY <1>2, <1>8, <2>1, EscrowAssumption
<1> QED BY <1>3, <1>6, <1>7, <1>8, DrawableShrinksByOne

(* Within the margin of the deposit, a revealed head can be settled whatever asset is
   drawn whose leaf somebody has: something is left to draw, the escrow pays for the
   mint, and no dust stands in the way.                                      *)
THEOREM HeadCanSettle == Spec => []MintSound
<1>1. ASSUME Init
      PROVE  Promised
  <2>1. TypeOK
    BY <1>1, InitTypes
  <2>2. Cardinality(drawable) \in Nat
    BY <2>1, DrawableFinite
  <2> QED BY <1>1, <2>2 DEF Init, Promised
<1>2. ASSUME EInv, Promised
      PROVE  MintSound
  <2>1. SUFFICES ASSUME NEW s \in Seqs, IsHead(s, "revealed"), WithinMargin
                 PROVE  /\ drawable # {}
                        /\ \A i \in drawable : i \in Published \cup minted => SettleAllowed(s, i)
    BY DEF MintSound
  <2>2. Waiting(s) /\ s = next_settle_seq /\ s \in Nat /\ s < next_seq
    BY <1>2, <2>1, HeadIsWaiting DEF EInv
  <2>3. drawable # {}
    <3>1. Cardinality(drawable) \in Nat /\ next_seq \in Nat
      BY <1>2, DrawableFinite, EscrowAssumption DEF EInv, TypeOK
    <3>2. Cardinality(drawable) > 0
      BY <1>2, <2>2, <3>1 DEF Promised
    <3> QED BY <3>2, FS_EmptySet
  <2>4. ASSUME NEW i \in drawable, i \in Published
        PROVE  MintAllowed(s, i)
    <3>1. i \in Assets
      BY DEF drawable
    <3>2. /\ escrow[s] \in Nat /\ dust[i] \in Nat /\ rent \in Nat /\ core_fee \in Nat
          /\ escrow[s] >= MINT_ESCROW /\ MINT_ESCROW \in Nat /\ CORE_FEE \in Nat
      BY <1>2, <2>2, <3>1, EscrowAssumption DEF EInv, OwnMintOnly, TypeOK
    <3> QED BY <2>1, <2>4, <3>2 DEF MintAllowed, AddressFree, WithinMargin
  <2> QED BY <2>1, <2>3, <2>4 DEF SettleAllowed
<1>3. Init => Promised
  BY <1>1
<1>4. EInv /\ Promised /\ [Next]_vars => Promised'
  BY PromiseKept
<1>5. EInv /\ Promised => MintSound
  BY <1>2
<1> QED BY <1>3, <1>4, <1>5, EscrowInductive, PTL DEF Spec
==============================================================================
