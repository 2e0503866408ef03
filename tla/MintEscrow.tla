----------------------------- MODULE MintEscrow ------------------------------
(* Who pays for a first mint: escrow_mint_cost of request.rs, the minting and
   refunding half of settle.rs and expire.rs, and asset_source.rs.  Nothing is
   minted in advance.  Each request puts a constant into an escrow account of
   its own; the settle that has to mint pays Core from it, returns the rest to the
   user and never touches another lamport.

   Randomness, clock and the order of the draws are those of HybridVault; here a
   reveal and a timeout may happen at any moment and a draw may give any asset.
   Lamports are scaled down.                                                 *)
EXTENDS Integers, FiniteSets

CONSTANTS
  Assets,                 \* indices of the collection
  MaxSeq,                 \* bound: requests that are ever made
  MINT_ESCROW,            \* MINT_ESCROW_LAMPORTS
  CORE_FEE,               \* CORE_CREATE_FEE_LAMPORTS
  Rents, CoreFees,        \* the cluster's rent of an asset, Core's fee for one
  Published,              \* assets whose committed leaf somebody has and check_leaf
                          \* accepts: TraitCommitment says which those are
  MaxGifts,               \* bound: lamports that strangers send to one address
  pool_floor

ASSUME EscrowAssumption ==
    /\ MINT_ESCROW \in Nat \ {0} /\ CORE_FEE \in Nat
    /\ Rents \subseteq Nat \ {0} /\ CoreFees \subseteq Nat
    /\ MaxSeq \in Nat /\ MaxGifts \in Nat /\ pool_floor \in Nat
    /\ Published \subseteq Assets /\ IsFiniteSet(Assets)

Seqs == 1..MaxSeq

VARIABLES
  next_seq, next_settle_seq,
  phase,                  \* of each request
  handed_in,              \* of each request, what a re-roll gave: one asset or none
  escrow,                 \* lamports at each request's escrow address
  put_in,                 \* what ever came there
  spent,                  \* what of it paid for a mint
  returned,               \* what of it was paid to the request's user
  outside,                \* assets that users hold
  minted,                 \* the bitmap
  dust,                   \* lamports at the addresses of assets not yet minted
  rent, core_fee          \* the live prices

queue == <<next_seq, next_settle_seq, phase, handed_in>>
money == <<escrow, put_in, spent, returned>>
prices == <<rent, core_fee>>
vars == <<queue, money, outside, minted, dust, prices>>

Waiting(s) == phase[s] \in {"pending", "revealed"}

\* pool and incoming together: what the vault holds, hand-ins of requests that
\* wait excepted.
drawable == Assets \ (outside \cup UNION {handed_in[s] : s \in {q \in Seqs : Waiting(q)}})

Init ==
  /\ next_seq = 1 /\ next_settle_seq = 1
  /\ phase = [s \in Seqs |-> "none"]
  /\ handed_in = [s \in Seqs |-> {}]
  /\ escrow = [s \in Seqs |-> 0] /\ put_in = [s \in Seqs |-> 0]
  /\ spent = [s \in Seqs |-> 0] /\ returned = [s \in Seqs |-> 0]
  /\ outside = {} /\ minted = {}
  /\ dust = [i \in Assets |-> 0]
  /\ rent \in Rents /\ core_fee \in CoreFees

\* MintCostConstantStale: the live price against what a request puts in.
EscrowCovers == rent + CORE_FEE <= MINT_ESCROW

\* request_capture (nothing handed in) and request_reroll.
Request(hand) ==
  /\ next_seq \in Seqs
  /\ hand = {} \/ \E i \in outside : hand = {i}
  /\ Cardinality(drawable) - (next_seq - next_settle_seq) > pool_floor
  /\ EscrowCovers
  /\ phase' = [phase EXCEPT ![next_seq] = "pending"]
  /\ handed_in' = [handed_in EXCEPT ![next_seq] = hand]
  /\ escrow' = [escrow EXCEPT ![next_seq] = @ + MINT_ESCROW]
  /\ put_in' = [put_in EXCEPT ![next_seq] = @ + MINT_ESCROW]
  /\ outside' = outside \ hand
  /\ next_seq' = next_seq + 1
  /\ UNCHANGED <<next_settle_seq, spent, returned, minted, dust, prices>>

Reveal(s) ==
  /\ phase[s] = "pending"
  /\ phase' = [phase EXCEPT ![s] = "revealed"]
  /\ UNCHANGED <<next_seq, next_settle_seq, handed_in, money, outside, minted, dust, prices>>

\* A slip: what the request put in is returned and no more.
Close_Constant(s, outcome, drained, cost) ==
  /\ phase' = [phase EXCEPT ![s] = outcome]
  /\ put_in' = [put_in EXCEPT ![s] = @ + drained]
  /\ spent' = [spent EXCEPT ![s] = @ + cost]
  /\ returned' = [returned EXCEPT ![s] = @ + (MINT_ESCROW - cost)]
  /\ escrow' = [escrow EXCEPT ![s] = @ + (drained - MINT_ESCROW)]
  /\ next_settle_seq' = next_settle_seq + 1
  /\ UNCHANGED <<next_seq, handed_in, prices>>

\* A slip: the amount recorded in the request is returned, from a fund of all.
Close_Recorded(s, outcome, drained, cost) ==
  /\ phase' = [phase EXCEPT ![s] = outcome]
  /\ put_in' = [put_in EXCEPT ![s] = @ + drained]
  /\ spent' = [spent EXCEPT ![s] = @ + cost]
  /\ returned' = [returned EXCEPT ![s] = @ + MINT_ESCROW]
  /\ escrow' = [escrow EXCEPT ![s] = 0]
  /\ next_settle_seq' = next_settle_seq + 1
  /\ UNCHANGED <<next_seq, handed_in, prices>>

\* refund_escrow: everything that is at the address; then the request is closed.
Close(s, outcome, drained, cost) ==
  /\ phase' = [phase EXCEPT ![s] = outcome]
  /\ put_in' = [put_in EXCEPT ![s] = @ + drained]
  /\ spent' = [spent EXCEPT ![s] = @ + cost]
  /\ returned' = [returned EXCEPT ![s] = @ + ((escrow[s] + drained) - cost)]
  /\ escrow' = [escrow EXCEPT ![s] = 0]
  /\ next_settle_seq' = next_settle_seq + 1
  /\ UNCHANGED <<next_seq, handed_in, prices>>

IsHead(s, state) == s = next_settle_seq /\ s \in Seqs /\ phase[s] = state

\* The pick was minted before: a transfer, the escrow goes back whole.
SettleDeliver(s, i) ==
  /\ IsHead(s, "revealed")
  /\ i \in drawable /\ i \in minted
  /\ outside' = outside \cup {i}
  /\ Close(s, "settled", 0, 0)
  /\ UNCHANGED <<minted, dust>>

\* A slip: the asset's address is taken as it is found.
AddressFree_NotDrained(i) == dust[i] = 0

\* drain_prefunded_pda: what strangers sent to the asset's address goes to the
\* escrow first, so that Core finds an empty account.
AddressFree(i) == TRUE

\* check_leaf, MintEscrowShort, then Core's own debit of the escrow.
MintAllowed(s, i) ==
  /\ i \in Published
  /\ escrow[s] >= rent + CORE_FEE
  /\ AddressFree(i)
  /\ escrow[s] + dust[i] >= rent + core_fee

\* A slip: a mint that nobody marks, so that the asset would be minted again.
Marked_Not(i) == minted

\* mark_minted.
Marked(i) == minted \cup {i}

SettleMint(s, i) ==
  /\ IsHead(s, "revealed")
  /\ i \in drawable /\ i \notin minted
  /\ MintAllowed(s, i)
  /\ outside' = outside \cup {i}
  /\ minted' = Marked(i)
  /\ dust' = [dust EXCEPT ![i] = 0]
  /\ Close(s, "settled", dust[i], rent + core_fee)

ExpireAllowed(s) == IsHead(s, "pending")

Expire(s) ==
  /\ ExpireAllowed(s)
  /\ outside' = outside \cup handed_in[s]
  /\ Close(s, "expired", 0, 0)
  /\ UNCHANGED <<minted, dust>>

\* unwrap_asset: a holder returns an asset for tokens.
Unwrap(i) ==
  /\ i \in outside
  /\ outside' = outside \ {i}
  /\ UNCHANGED <<queue, money, minted, dust, prices>>

\* Anyone sends a lamport to an escrow's address, before, while and after it is
\* used, or to the address of an asset to come.
TopUp(s) ==
  /\ put_in[s] < MINT_ESCROW + MaxGifts
  /\ escrow' = [escrow EXCEPT ![s] = @ + 1]
  /\ put_in' = [put_in EXCEPT ![s] = @ + 1]
  /\ UNCHANGED <<queue, spent, returned, outside, minted, dust, prices>>

Prefund(i) ==
  /\ i \notin minted /\ dust[i] < MaxGifts
  /\ dust' = [dust EXCEPT ![i] = @ + 1]
  /\ UNCHANGED <<queue, money, outside, minted, prices>>

PricesMove ==
  /\ rent' \in Rents /\ core_fee' \in CoreFees
  /\ UNCHANGED <<queue, money, outside, minted, dust>>

Next ==
  \/ \E hand \in {{}} \cup {{i} : i \in Assets} : Request(hand)
  \/ \E s \in Seqs : Reveal(s)
  \/ \E s \in Seqs, i \in Assets : SettleDeliver(s, i)
  \/ \E s \in Seqs, i \in Assets : SettleMint(s, i)
  \/ \E s \in Seqs : Expire(s)
  \/ \E i \in Assets : Unwrap(i)
  \/ \E s \in Seqs : TopUp(s)
  \/ \E i \in Assets : Prefund(i)
  \/ PricesMove

Spec == Init /\ [][Next]_vars

-----------------------------------------------------------------------------
(* Properties.                                                             *)

TypeOK ==
  /\ next_seq \in 1..(MaxSeq + 1) /\ next_settle_seq \in 1..next_seq
  /\ phase \in [Seqs -> {"none", "pending", "revealed", "settled", "expired"}]
  /\ \A s \in Seqs : /\ phase[s] = "none" <=> s >= next_seq
                     /\ phase[s] \in {"settled", "expired"} <=> s < next_settle_seq
  /\ handed_in \in [Seqs -> SUBSET Assets]
  /\ escrow \in [Seqs -> Nat] /\ put_in \in [Seqs -> Nat]
  /\ spent \in [Seqs -> Nat] /\ returned \in [Seqs -> Nat]
  /\ outside \subseteq Assets /\ minted \subseteq Assets
  /\ dust \in [Assets -> Nat]
  /\ rent \in Rents /\ core_fee \in CoreFees

Closed(s) == phase[s] \in {"settled", "expired"}

(* Each request pays for its own mint and for nothing else: what came to its
   escrow is there, was spent on a mint or went back to its user; only a settled
   request has spent, and its user got back all of the deposit but the price of
   one mint.  No lamport of a settler or of another request is ever needed.  *)
OwnMintOnly ==
  \A s \in Seqs :
    /\ put_in[s] = escrow[s] + spent[s] + returned[s]
    /\ Waiting(s) => escrow[s] >= MINT_ESCROW /\ spent[s] = 0 /\ returned[s] = 0
    /\ phase[s] = "expired" => spent[s] = 0
    /\ Closed(s) => returned[s] + spent[s] >= MINT_ESCROW

(* No lamport is left where nobody can sign for it again: the step that closes a
   request empties its escrow, gifts and drained dust included.             *)
ClosedEmpty ==
  [][\A s \in Seqs : Waiting(s) /\ ~Waiting(s)' => escrow'[s] = 0]_vars

(* A first mint is paid once: there are as many minted assets as requests whose
   escrow paid for one, and no asset is in a user's hands unless it was paid. *)
PaidOncePerAsset ==
  /\ Cardinality(minted) = Cardinality({s \in Seqs : spent[s] > 0})
  /\ outside \subseteq minted

\* The draw gives i: can the head be settled?
SettleAllowed(s, i) ==
  IsHead(s, "revealed") /\ i \in drawable /\ (i \in minted \/ MintAllowed(s, i))

WithinMargin == rent + CORE_FEE <= MINT_ESCROW /\ rent + core_fee <= MINT_ESCROW

(* As long as the live prices stay within the escrow's margin, whatever asset is
   drawn can be delivered or minted at once: dust at its address or at the
   escrow's does not stand in the way.                                      *)
MintSound ==
  \A s \in Seqs : IsHead(s, "revealed") /\ WithinMargin =>
    /\ drawable # {}
    /\ \A i \in drawable : i \in Published \cup minted => SettleAllowed(s, i)

(* What request.rs:224-226 says: the deposit is such "that settle never needs anyone
   else's lamports (T-HV-16) and an underfunded request can't exist": it covers
   the price of the mint it may have to pay for.                            *)
NeverUnderfunded == \A s \in Seqs : Waiting(s) => escrow[s] >= rent + CORE_FEE
==============================================================================
