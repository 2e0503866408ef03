---------------------------- MODULE HybridVault ----------------------------
(***************************************************************************)
(* The hybrid_vault program: one vault, its draw pool, its FIFO of capture *)
(* and re-roll requests, and the Switchboard randomness they wait for.     *)
(* Every action is one instruction (atomic: an error undoes all of it) or  *)
(* one step of the world around the program.                               *)
(*                                                                         *)
(* The trailing invariants::check of an instruction, the checked           *)
(* subtractions and the pool's own errors are assertions of the program:   *)
(* they are guards of the actions here, as in the code, and the ...Sound   *)
(* invariants say that no instruction is ever refused because of them.     *)
(***************************************************************************)
EXTENDS Integers, Sequences, FiniteSets, DrawPool, Randomness

CONSTANTS
  Users,             \* the people who hold tokens and NFTs
  VaultAuthority,    \* the PDA that owns the NFTs in custody
  Unminted,          \* the owner of an NFT that does not exist yet
  N,                 \* collection_size
  Ratio,             \* ratio_base: tokens behind one NFT
  Supply,            \* tokens each user starts with
  RandAccounts,      \* randomness accounts that can be created
  Oracles,           \* oracle accounts
  oracle_keys,       \* the pinned queue's key list: a sequence
  Flaky,             \* oracles whose state may change
  Lapses,            \* what may become of them: "stale", "closed" or both
  Values,            \* randomness values an oracle may reveal
  Pick(_, _, _),     \* uniform_below(request_randomness(value, vault, seq), n)
  Spread(_),         \* hash of (vault, seq) that spreads the oracle walk
  MIN_POOL_FLOOR, POOL_FLOOR_BPS, MAX_MERGE_PER_IX, MAX_MERGE_PER_CALL,
  MAX_RECOMMITS, MAX_EXPIRE_PER_CALL, REVEAL_TIMEOUT_SLOTS, EXPIRE_GRACE_SLOTS,
  MaxSeq,            \* bound: how many requests are ever made
  MaxDonated,        \* bound: tokens anyone gives to the vault for nothing
  Sinks,             \* owners other than users that an NFT may be sent to
  Upgrades           \* whether the launch program may stop being supported

ASSUME SizeAssumption == N \in Nat \ {0} /\ Ratio \in Nat \ {0}
ASSUME BoundAssumption ==
  /\ {MIN_POOL_FLOOR, POOL_FLOOR_BPS, MAX_RECOMMITS, REVEAL_TIMEOUT_SLOTS,
      EXPIRE_GRACE_SLOTS, MaxSeq, MaxDonated, Supply} \subseteq Nat
  /\ {MAX_MERGE_PER_IX, MAX_MERGE_PER_CALL, MAX_EXPIRE_PER_CALL} \subseteq Nat \ {0}
ASSUME OwnerAssumption ==
  /\ VaultAuthority \notin Users /\ Unminted \notin Users
  /\ VaultAuthority # Unminted
  /\ Unminted \notin Sinks
ASSUME OracleAssumption ==
  /\ Lapses \subseteq {"stale", "closed"}
  /\ oracle_keys \in Seq(Oracles \cup {NoKey})
  /\ NoKey \notin Oracles
  /\ NoValue \notin Values
ASSUME PickAssumption ==
  \A value \in Values, seq \in 0..MaxSeq, n \in 1..N :
    Pick(value, seq, n) \in 0..(n - 1)
ASSUME SpreadAssumption == \A seq \in 0..MaxSeq : Spread(seq) \in Nat

VARIABLES
  vault,             \* the counters of the Vault account
  pool,              \* the pool account (DrawPool)
  vault_tokens,      \* balance of the vault's token account
  wallet,            \* token balance of each user
  owner,             \* Core: owner of each asset index
  requests,          \* pending Request accounts, by seq
  rand_lock,         \* RandLock accounts: randomness account -> seq
  escrow,            \* seqs whose mint escrow PDA is funded
  randomness,        \* Switchboard randomness accounts that exist
  slot,              \* the cluster's clock
  oracle_state,      \* heartbeat of each oracle account
  curr_idx,          \* the queue's cursor
  launch_supported   \* config::econ and request_fee accept the launch config

accounts == <<vault, pool, vault_tokens, wallet, owner>>
draws == <<requests, rand_lock, escrow, randomness>>
world == <<slot, oracle_state, curr_idx, launch_supported>>
vars == <<accounts, draws, world>>

Index == 0..(N - 1)
NoHandedIn == N                     \* NO_HANDED_IN: outside every index
Heartbeats == {"live"} \cup Lapses
Pending == vault.next_settle_seq..(vault.next_seq - 1)
HeadSeq == vault.next_settle_seq
PendingOf(kind) == {s \in Pending : requests[s].kind = kind}

-----------------------------------------------------------------------------
(* What an instruction leaves in the vault, the pool and the token account *)
(* is a record of the three; invariants::check judges that record.         *)

Books(v, p, t) == [vault |-> v, pool |-> p, tokens |-> t]

InvariantsHold(b) ==
  /\ b.tokens >= Ratio * (b.vault.assets_outside + b.vault.pending_captures
                            + b.vault.pending_rerolls)
  /\ total(b.pool) + b.vault.pending_rerolls + b.vault.assets_outside = N
  /\ b.vault.minted_count <= N
  /\ b.vault.assets_outside + b.vault.pending_rerolls <= b.vault.minted_count

(* checked_sub: no counter goes below zero.                                *)
NoUnderflow(b) ==
  b.vault.assets_outside >= 0 /\ b.vault.pending_captures >= 0
    /\ b.vault.pending_rerolls >= 0 /\ b.tokens >= 0

Write(b) ==
  /\ NoUnderflow(b) /\ InvariantsHold(b)
  /\ vault' = b.vault /\ pool' = b.pool /\ vault_tokens' = b.tokens

-----------------------------------------------------------------------------
(* Opening.                                                                *)

(* The state handle_init_vault leaves: closed, all N indices drawable.     *)
Init ==
  /\ vault = [open |-> FALSE, minted_count |-> 0, assets_outside |-> 0,
              pending_captures |-> 0, pending_rerolls |-> 0,
              next_seq |-> 0, next_settle_seq |-> 0,
              total_captures |-> 0, total_rerolls |-> 0, total_unwraps |-> 0,
              total_recommits |-> 0, total_expired |-> 0]
  /\ pool = FreshPool(N)
  /\ vault_tokens = 0
  /\ wallet = [u \in Users |-> Supply]
  /\ owner = [i \in Index |-> Unminted]
  /\ requests = << >>
  /\ rand_lock = << >>
  /\ escrow = {}
  /\ randomness = << >>
  /\ slot = 1
  /\ oracle_state = [o \in Oracles |-> "live"]
  /\ curr_idx = 0
  /\ launch_supported = TRUE

(* open_vault: one way, nothing minted outside the vault, launch graduated *)
(* (the graduation proof itself is checked by the launch component).       *)
OpenVault ==
  /\ launch_supported
  /\ ~vault.open
  /\ Cardinality({i \in Index : owner[i] # Unminted}) = vault.minted_count
  /\ Write(Books([vault EXCEPT !.open = TRUE], pool, vault_tokens))
  /\ UNCHANGED <<wallet, owner, draws, world>>

-----------------------------------------------------------------------------
(* Requests.                                                               *)

pool_floor ==
  LET pct == (N * POOL_FLOOR_BPS + 9999) \div 10000
  IN  IF pct > MIN_POOL_FLOOR THEN pct ELSE MIN_POOL_FLOOR

(* Slip: the draws already promised are not set aside.                     *)
free_assets_Gross == total(pool)

free_assets == total(pool) - (vault.pending_captures + vault.pending_rerolls)

check_can_request ==
  /\ vault.open
  /\ free_assets > pool_floor

(* The caller hands over the accounts of oracles it says are stale, and    *)
(* those that are stale count: any set of them.  The oracle the program    *)
(* selects must be the caller's, and live.                                 *)
CanCommit(r, seq, used, oracle) ==
  /\ r \in DOMAIN randomness
  /\ oracle_state[oracle] = "live"
  /\ \E proven \in SUBSET {o \in Oracles : oracle_state[o] = "stale"} :
       IsSelected(oracle_keys, curr_idx, Spread(seq), used, proven, oracle)
  /\ IsFreshCommit(SbCommit(randomness[r], oracle, slot), slot)

Committed(r, oracle) == [randomness EXCEPT ![r] = SbCommit(@, oracle, slot)]

Deadline == slot + REVEAL_TIMEOUT_SLOTS

NewRequest(kind, u, r, oracle, handed_in) ==
  [kind |-> kind, user |-> u, randomness |-> r,
   seed_slot |-> Committed(r, oracle)[r].seed_slot, deadline_slot |-> Deadline,
   oracles |-> <<oracle>>, revealed |-> FALSE, value |-> NoValue,
   handed_in_index |-> handed_in]

(* Slip: the NFT handed in still counts as outside.                        *)
RequestedVault_StillOutside(kind) ==
  IF kind = "capture"
  THEN [vault EXCEPT !.next_seq = @ + 1, !.pending_captures = @ + 1]
  ELSE [vault EXCEPT !.next_seq = @ + 1, !.pending_rerolls = @ + 1]

(* finish_request, the vault's part.                                       *)
RequestedVault(kind) ==
  IF kind = "capture"
  THEN [vault EXCEPT !.next_seq = @ + 1, !.pending_captures = @ + 1]
  ELSE [vault EXCEPT !.next_seq = @ + 1, !.pending_rerolls = @ + 1,
                     !.assets_outside = @ - 1]

RequestedBooks(kind) ==
  Books(RequestedVault(kind), pool,
        IF kind = "capture" THEN vault_tokens + Ratio ELSE vault_tokens)

(* finish_request, the accounts it creates.                                *)
OpenRequest(kind, u, r, oracle, handed_in) ==
  LET seq == vault.next_seq
  IN  /\ requests' = [s \in Pending \cup {seq} |->
                        IF s = seq THEN NewRequest(kind, u, r, oracle, handed_in)
                        ELSE requests[s]]
      /\ rand_lock' = [x \in DOMAIN rand_lock \cup {r} |->
                        IF x = r THEN seq ELSE rand_lock[x]]
      /\ escrow' = escrow \cup {seq}
      /\ randomness' = Committed(r, oracle)

RequestRefusals(r, oracle) ==
  /\ vault.next_seq < MaxSeq                \* bound
  /\ launch_supported
  /\ check_can_request
  /\ r \notin DOMAIN rand_lock
  /\ CanCommit(r, vault.next_seq, << >>, oracle)

RequestCapture(u, r, oracle) ==
  /\ RequestRefusals(r, oracle)
  /\ wallet[u] >= Ratio
  /\ wallet' = [wallet EXCEPT ![u] = @ - Ratio]
  /\ OpenRequest("capture", u, r, oracle, NoHandedIn)
  /\ Write(RequestedBooks("capture"))
  /\ UNCHANGED <<owner, world>>

(* The NFT handed in is held by the vault and is not in the pool.          *)
RequestReroll(u, i, r, oracle) ==
  /\ RequestRefusals(r, oracle)
  /\ owner[i] = u
  /\ owner' = [owner EXCEPT ![i] = VaultAuthority]
  /\ OpenRequest("reroll", u, r, oracle, i)
  /\ Write(RequestedBooks("reroll"))
  /\ UNCHANGED <<wallet, world>>

-----------------------------------------------------------------------------
(* Randomness.                                                             *)

InitRandomness(r) ==
  /\ r \notin DOMAIN randomness
  /\ randomness' = [x \in DOMAIN randomness \cup {r} |->
                      IF x = r THEN FreshAccount ELSE randomness[x]]
  /\ UNCHANGED <<accounts, requests, rand_lock, escrow, world>>

(* Permissionless; only the oracle assigned at the last commit can serve.  *)
RevealRandomness(s, value) ==
  LET req == requests[s]
      r == req.randomness
  IN  /\ ~req.revealed
      /\ randomness[r].seed_slot = req.seed_slot
      /\ ~is_revealed(randomness[r], req.seed_slot)
      /\ r \in DOMAIN rand_lock
      /\ is_revealed(SbReveal(randomness[r], value, slot), req.seed_slot)
      /\ randomness' = [randomness EXCEPT ![r] = SbReveal(@, value, slot)]
      /\ requests' = [requests EXCEPT ![s].revealed = TRUE, ![s].value = value]
      /\ UNCHANGED <<accounts, rand_lock, escrow, world>>

(* A commit is spent each time: 1 + MAX_RECOMMITS in all.                  *)
commits(req) == Len(req.oracles)

(* Slip: the revealed checks are lost.                                     *)
MayRecommit_Revealed(s) ==
  /\ slot > requests[s].deadline_slot
  /\ commits(requests[s]) <= MAX_RECOMMITS

(* Slip: one re-commit too few, and expire waits for the last one.         *)
MayRecommit_OneShort(s) ==
  /\ ~requests[s].revealed
  /\ slot > requests[s].deadline_slot
  /\ commits(requests[s]) < MAX_RECOMMITS

MayRecommit(s) ==
  LET req == requests[s]
  IN  /\ ~req.revealed
      /\ slot > req.deadline_slot
      /\ commits(req) <= MAX_RECOMMITS
      /\ randomness[req.randomness].seed_slot = req.seed_slot
      /\ ~is_revealed(randomness[req.randomness], req.seed_slot)

Recommitted(req, oracle) ==
  [req EXCEPT !.seed_slot = Committed(req.randomness, oracle)[req.randomness].seed_slot,
              !.deadline_slot = Deadline,
              !.oracles = Append(@, oracle)]

RecommitRandomness(s, oracle) ==
  LET req == requests[s]
  IN  /\ MayRecommit(s)
      /\ CanCommit(req.randomness, s, req.oracles, oracle)
      /\ randomness' = Committed(req.randomness, oracle)
      /\ requests' = [requests EXCEPT ![s] = Recommitted(req, oracle)]
      /\ vault' = [vault EXCEPT !.total_recommits = @ + 1]
      /\ UNCHANGED <<pool, vault_tokens, wallet, owner, rand_lock, escrow, world>>

-----------------------------------------------------------------------------
(* Settling the head of the FIFO.                                          *)

(* Slip: a backlog that one call cannot merge is left behind.              *)
SettleRefusals_Backlog(k) ==
  /\ HeadSeq \in Pending
  /\ requests[HeadSeq].revealed
  /\ MergeMoves(pool, HeadSeq, MAX_MERGE_PER_IX, k)

SettleRefusals(k) ==
  /\ HeadSeq \in Pending
  /\ requests[HeadSeq].revealed
  /\ rand_lock[requests[HeadSeq].randomness] = HeadSeq
  /\ MergeMoves(pool, HeadSeq, MAX_MERGE_PER_IX, k)
  /\ FrontTagAbove(Merged(pool, k), HeadSeq)                     \* MergeBacklog

Position(p) == Pick(requests[HeadSeq].value, HeadSeq, pool_len(p))

(* The pool after the draw; a hand-in goes in only once the draw is made.  *)
DrawnPool(p, kind, handed_in, pos) ==
  IF kind = "reroll"
  THEN pool_push(pool_swap_remove(p, pos), handed_in)
  ELSE pool_swap_remove(p, pos)

(* Slip: a settled re-roll is counted as a capture.                        *)
SettledVault_OneTotal(kind, mint) ==
  [vault EXCEPT !.next_settle_seq = @ + 1,
                !.assets_outside = @ + 1,
                !.minted_count = IF mint THEN @ + 1 ELSE @,
                !.pending_captures = IF kind = "capture" THEN @ - 1 ELSE @,
                !.pending_rerolls = IF kind = "reroll" THEN @ - 1 ELSE @,
                !.total_captures = @ + 1]

SettledVault(kind, mint) ==
  [vault EXCEPT !.next_settle_seq = @ + 1,
                !.assets_outside = @ + 1,
                !.minted_count = IF mint THEN @ + 1 ELSE @,
                !.pending_captures = IF kind = "capture" THEN @ - 1 ELSE @,
                !.total_captures = IF kind = "capture" THEN @ + 1 ELSE @,
                !.pending_rerolls = IF kind = "reroll" THEN @ - 1 ELSE @,
                !.total_rerolls = IF kind = "reroll" THEN @ + 1 ELSE @]

SettledBooks(k) ==
  LET req == requests[HeadSeq]
      merged == Merged(pool, k)
      pos == Position(merged)
      picked == pool_get(merged, pos)
      drawn == DrawnPool(merged, req.kind, req.handed_in_index, pos)
      mint == picked \notin pool.minted
  IN  Books(SettledVault(req.kind, mint),
            IF mint THEN mark_minted(drawn, picked) ELSE drawn, vault_tokens)

PickedIndex(k) == pool_get(Merged(pool, k), Position(Merged(pool, k)))

(* The asserted outcome of the NFT movement: a minted pick is in custody,  *)
(* a pick that was never minted does not exist and its escrow pays for it. *)
PickDeliverable(i) ==
  IF i \in pool.minted THEN owner[i] = VaultAuthority
                       ELSE owner[i] = Unminted /\ HeadSeq \in escrow

(* Slip: the request account stays open.                                   *)
CloseRequests_Kept(seqs) ==
  /\ requests' = requests
  /\ rand_lock' = [r \in DOMAIN rand_lock \ {requests[s].randomness : s \in seqs}
                     |-> rand_lock[r]]
  /\ escrow' = escrow \ seqs

(* The request and its lock are closed, the rest of the escrow refunded.   *)
CloseRequests(seqs) ==
  /\ requests' = [s \in Pending \ seqs |-> requests[s]]
  /\ rand_lock' = [r \in DOMAIN rand_lock \ {requests[s].randomness : s \in seqs}
                     |-> rand_lock[r]]
  /\ escrow' = escrow \ seqs

Settle(k) ==
  /\ SettleRefusals(k)
  /\ pool_len(Merged(pool, k)) > 0
  /\ PickDeliverable(PickedIndex(k))
  /\ owner' = [owner EXCEPT ![PickedIndex(k)] = requests[HeadSeq].user]
  /\ CloseRequests({HeadSeq})
  /\ Write(SettledBooks(k))
  /\ UNCHANGED <<wallet, randomness, world>>

(* A permissionless crank that moves returned assets ahead of a settle.    *)
MergeIncoming(k, max) ==
  /\ MergeMoves(pool, HeadSeq, max, k)
  /\ k > 0                                  \* k = 0 changes nothing
  /\ pool' = Merged(pool, k)
  /\ UNCHANGED <<vault, vault_tokens, wallet, owner, draws, world>>

-----------------------------------------------------------------------------
(* Expiring the head of the FIFO, or a batch of consecutive heads.         *)

Expirable(s) ==
  LET req == requests[s]
  IN  /\ ~req.revealed
      /\ ~is_revealed(randomness[req.randomness], req.seed_slot)
      /\ commits(req) > MAX_RECOMMITS
      /\ slot > req.deadline_slot + EXPIRE_GRACE_SLOTS

ExpireRefusals(n) ==
  /\ HeadSeq..(HeadSeq + n - 1) \subseteq Pending
  /\ \A s \in HeadSeq..(HeadSeq + n - 1) : Expirable(s)

(* Slip: requests behind the batch are refunded with it.                   *)
ExpiredOf_Waiting(n, kind) == {s \in Pending : requests[s].kind = kind}

ExpiredOf(n, kind) == {s \in HeadSeq..(HeadSeq + n - 1) : requests[s].kind = kind}

(* Slip: a re-roll's NFT goes home but is not counted outside again.       *)
ExpiredVault_NotOutside(n) ==
  [vault EXCEPT !.next_settle_seq = @ + n,
                !.total_expired = @ + n,
                !.pending_captures = @ - Cardinality(ExpiredOf(n, "capture")),
                !.pending_rerolls = @ - Cardinality(ExpiredOf(n, "reroll"))]

ExpiredVault(n) ==
  [vault EXCEPT !.next_settle_seq = @ + n,
                !.total_expired = @ + n,
                !.pending_captures = @ - Cardinality(ExpiredOf(n, "capture")),
                !.pending_rerolls = @ - Cardinality(ExpiredOf(n, "reroll")),
                !.assets_outside = @ + Cardinality(ExpiredOf(n, "reroll"))]

(* Slip: every expired request is paid the ratio.                          *)
ExpiredBooks_PayAll(n) == Books(ExpiredVault(n), pool, vault_tokens - Ratio * n)

ExpiredBooks(n) ==
  Books(ExpiredVault(n), pool,
        vault_tokens - Ratio * Cardinality(ExpiredOf(n, "capture")))

HandInsHeld(n) ==
  \A s \in ExpiredOf(n, "reroll") : owner[requests[s].handed_in_index] = VaultAuthority

(* Principal only: a capture gets its ratio back, a re-roll its NFT.       *)
ExpireHeads(n) ==
  /\ ExpireRefusals(n)
  /\ HandInsHeld(n)
  /\ wallet' = [u \in Users |-> wallet[u] + Ratio *
                  Cardinality({s \in ExpiredOf(n, "capture") : requests[s].user = u})]
  /\ owner' = [i \in Index |->
                 IF \E s \in ExpiredOf(n, "reroll") : requests[s].handed_in_index = i
                 THEN requests[CHOOSE s \in ExpiredOf(n, "reroll") :
                                 requests[s].handed_in_index = i].user
                 ELSE owner[i]]
  /\ CloseRequests(HeadSeq..(HeadSeq + n - 1))
  /\ Write(ExpiredBooks(n))
  /\ UNCHANGED <<randomness, world>>

ExpireRequest == ExpireHeads(1)
ExpireRequests == \E n \in 1..MAX_EXPIRE_PER_CALL : ExpireHeads(n)

-----------------------------------------------------------------------------
(* Release: the NFT comes back, exactly Ratio tokens go out.  No open      *)
(* check, no version check: this exit is never gated.                      *)

(* Slip: a returned NFT is tagged with the head, not the tail, of the FIFO. *)
ReleaseTag_Head == vault.next_settle_seq

ReleaseTag == vault.next_seq

(* Slip: the released NFT still counts as outside.                         *)
ReleasedBooks_StillOutside(i) ==
  Books([vault EXCEPT !.total_unwraps = @ + 1],
        incoming_push(pool, i, ReleaseTag), vault_tokens - Ratio)

ReleasedBooks(i) ==
  Books([vault EXCEPT !.assets_outside = @ - 1, !.total_unwraps = @ + 1],
        incoming_push(pool, i, ReleaseTag),
        vault_tokens - Ratio)

PushAllowed(p, tag) == total(p) < N /\ NoTagBeyond(p, tag)

Unwrap(u, i) ==
  /\ owner[i] = u
  /\ PushAllowed(pool, ReleaseTag)
  /\ owner' = [owner EXCEPT ![i] = VaultAuthority]
  /\ wallet' = [wallet EXCEPT ![u] = @ + Ratio]
  /\ Write(ReleasedBooks(i))
  /\ UNCHANGED <<draws, world>>

-----------------------------------------------------------------------------
(* The world around the program.                                           *)

(* The clock need not run once every deadline it could meet has passed:    *)
(* the bound on slot.                                                      *)
ClockMatters ==
  \/ \E s \in Pending : slot <= requests[s].deadline_slot + EXPIRE_GRACE_SLOTS
  \/ \E r \in DOMAIN randomness : slot <= randomness[r].reveal_slot

Tick ==
  /\ ClockMatters
  /\ slot' = slot + 1
  /\ UNCHANGED <<accounts, draws, oracle_state, curr_idx, launch_supported>>

(* Holders trade NFTs in their wallets; Core does not ask the vault.       *)
TransferNft(u, i, to) ==
  /\ owner[i] = u /\ to # u
  /\ owner' = [owner EXCEPT ![i] = to]
  /\ UNCHANGED <<vault, pool, vault_tokens, wallet, draws, world>>

(* Anyone may send tokens to the vault's token account.                    *)
Surplus == vault_tokens - Ratio * (vault.assets_outside + vault.pending_captures
                                     + vault.pending_rerolls)

Donate(u) ==
  /\ Surplus < MaxDonated                   \* bound
  /\ wallet[u] > 0
  /\ wallet' = [wallet EXCEPT ![u] = @ - 1]
  /\ vault_tokens' = vault_tokens + 1
  /\ UNCHANGED <<vault, pool, owner, draws, world>>

(* An oracle misses its heartbeat, loses its account, or comes back.       *)
Heartbeat(o, h) ==
  /\ o \in Flaky /\ oracle_state[o] # h
  /\ oracle_state' = [oracle_state EXCEPT ![o] = h]
  /\ UNCHANGED <<accounts, draws, slot, curr_idx, launch_supported>>

(* Switchboard moves the queue's cursor.                                   *)
RotateQueue ==
  /\ Len(oracle_keys) > 1
  /\ curr_idx' = (curr_idx + 1) % Len(oracle_keys)
  /\ UNCHANGED <<accounts, draws, slot, oracle_state, launch_supported>>

(* The launch program is upgraded to a config version or a fee table that  *)
(* config::econ and request_fee refuse.                                    *)
UpgradeLaunch ==
  /\ Upgrades /\ launch_supported
  /\ launch_supported' = FALSE
  /\ UNCHANGED <<accounts, draws, slot, oracle_state, curr_idx>>

-----------------------------------------------------------------------------
Request ==
  \E r \in RandAccounts, oracle \in Oracles, u \in Users :
    \/ RequestCapture(u, r, oracle)
    \/ \E i \in Index : RequestReroll(u, i, r, oracle)

Reveal == \E s \in Pending, value \in Values : RevealRandomness(s, value)

Recommit == \E s \in Pending, oracle \in Oracles : RecommitRandomness(s, oracle)

SettleHead == \E k \in 0..incoming_len(pool) : Settle(k)

Merge == \E k \in 1..incoming_len(pool), max \in 1..MAX_MERGE_PER_CALL : MergeIncoming(k, max)

Environment ==
  \/ Tick
  \/ \E u \in Users, i \in Index, to \in Users \cup Sinks : TransferNft(u, i, to)
  \/ \E u \in Users : Donate(u)
  \/ \E o \in Oracles, h \in Heartbeats : Heartbeat(o, h)
  \/ RotateQueue
  \/ UpgradeLaunch

Next ==
  \/ OpenVault
  \/ Request
  \/ \E r \in RandAccounts : InitRandomness(r)
  \/ Reveal
  \/ Recommit
  \/ SettleHead
  \/ Merge
  \/ ExpireRequest
  \/ ExpireRequests
  \/ \E u \in Users, i \in Index : Unwrap(u, i)
  \/ Environment

Spec == Init /\ [][Next]_vars

(* Anyone can crank: the clock runs, and an instruction that anyone may    *)
(* send and that would succeed is sent in the end.  Nobody has to reveal,  *)
(* request, release or trade.                                              *)
Fairness ==
  /\ WF_vars(Tick)
  /\ WF_vars(Recommit)
  /\ WF_vars(SettleHead)
  /\ WF_vars(Merge)
  /\ WF_vars(ExpireRequest)

FairSpec == Spec /\ Fairness

-----------------------------------------------------------------------------
(* Properties.                                                             *)

Holders == Users \cup Sinks \cup {VaultAuthority, Unminted}

VaultType ==
  [open : BOOLEAN, minted_count : Nat, assets_outside : Nat,
   pending_captures : Nat, pending_rerolls : Nat, next_seq : Nat, next_settle_seq : Nat,
   total_captures : Nat, total_rerolls : Nat, total_unwraps : Nat,
   total_recommits : Nat, total_expired : Nat]

RequestType ==
  [kind : {"capture", "reroll"}, user : Users, randomness : RandAccounts,
   seed_slot : Nat, deadline_slot : Nat, oracles : Seq(Oracles),
   revealed : BOOLEAN, value : Values \cup {NoValue}, handed_in_index : Index \cup {NoHandedIn}]

RandomnessType ==
  [seed_slot : Nat, reveal_slot : Nat,
   oracle : Oracles \cup {NoKey}, value : Values \cup {NoValue}]

(* The shape of every account; the FIFO's head never passes its tail, and  *)
(* a request exists exactly for each seq between them.                     *)
TypeOK ==
  /\ vault \in VaultType
  /\ vault.next_settle_seq <= vault.next_seq /\ vault.next_seq <= MaxSeq
  /\ pool \in [slots : Seq(Index), incoming : Seq([index : Index, tag : Nat]),
               minted : SUBSET Index]
  /\ vault_tokens \in Nat
  /\ wallet \in [Users -> Nat]
  /\ owner \in [Index -> Holders]
  /\ requests \in [Pending -> RequestType]
  /\ DOMAIN rand_lock \subseteq RandAccounts /\ rand_lock \in [DOMAIN rand_lock -> Nat]
  /\ escrow \subseteq Nat
  /\ DOMAIN randomness \subseteq RandAccounts
  /\ randomness \in [DOMAIN randomness -> RandomnessType]
  /\ slot \in Nat \ {0}
  /\ oracle_state \in [Oracles -> {"live", "stale", "closed"}]
  /\ curr_idx \in Nat
  /\ launch_supported \in BOOLEAN

(* settle: the revealed head with its backlog merged is never refused by   *)
(* an empty pool, an NFT that is not where the pool says, a counter that   *)
(* underflows or the on-chain invariants.                                  *)
SettleSound ==
  \A k \in 0..incoming_len(pool) :
    SettleRefusals(k) =>
      /\ pool_len(Merged(pool, k)) > 0
      /\ PickDeliverable(PickedIndex(k))
      /\ NoUnderflow(SettledBooks(k)) /\ InvariantsHold(SettledBooks(k))

(* unwrap: whoever owns an NFT of the collection can always turn it into   *)
(* Ratio tokens, whatever is pending and whatever became of the launch     *)
(* program: the tokens are there, the ring has room, the checks pass.      *)
ReleaseSound ==
  \A i \in Index :
    owner[i] \in Users =>
      /\ PushAllowed(pool, ReleaseTag)
      /\ NoUnderflow(ReleasedBooks(i)) /\ InvariantsHold(ReleasedBooks(i))

(* expire, single and batch: heads that may expire are paid out in full,   *)
(* and no two of them are owed the same NFT.                               *)
ExpirySound ==
  \A n \in 1..MAX_EXPIRE_PER_CALL :
    ExpireRefusals(n) =>
      /\ HandInsHeld(n)
      /\ \A s, t \in ExpiredOf(n, "reroll") :
           requests[s].handed_in_index = requests[t].handed_in_index => s = t
      /\ NoUnderflow(ExpiredBooks(n)) /\ InvariantsHold(ExpiredBooks(n))

(* request_capture and request_reroll: once the floor admits a request the *)
(* books it leaves balance.                                                *)
RequestSound ==
  check_can_request =>
    /\ NoUnderflow(RequestedBooks("capture")) /\ InvariantsHold(RequestedBooks("capture"))
    /\ (\E i \in Index : owner[i] \in Users) =>
         NoUnderflow(RequestedBooks("reroll")) /\ InvariantsHold(RequestedBooks("reroll"))

Drawable == {pool.slots[i] : i \in 1..pool_len(pool)}
Returning == {pool.incoming[i].index : i \in 1..incoming_len(pool)}
HeldIn == {requests[s].handed_in_index : s \in PendingOf("reroll")}
InCustody == Drawable \cup Returning \cup HeldIn

(* INV-2 taken literally, index by index: each is drawable, returning or   *)
(* held for one re-roll, once, or else it is outside; Core agrees on who   *)
(* owns it, and the vault's counters count these sets.                     *)
Custody ==
  /\ Cardinality(Drawable) = pool_len(pool)
  /\ Cardinality(Returning) = incoming_len(pool)
  /\ Cardinality(HeldIn) = vault.pending_rerolls
  /\ Cardinality(InCustody) = total(pool) + vault.pending_rerolls
  /\ Cardinality(Index \ InCustody) = vault.assets_outside
  /\ Cardinality(PendingOf("capture")) = vault.pending_captures
  /\ pool.minted = {i \in Index : owner[i] # Unminted}
  /\ Cardinality(pool.minted) = vault.minted_count
  /\ \A i \in InCustody \cap pool.minted : owner[i] = VaultAuthority
  /\ (Index \ InCustody) \cup Returning \cup HeldIn \subseteq pool.minted

(* The pool floor checked once, at request time, lasts: when its turn      *)
(* comes each pending request finds, among the entries it may draw, one    *)
(* for itself and one for each request before it.                          *)
DrawAvailable ==
  \A s \in Pending :
    \E k \in 0..incoming_len(pool) :
      /\ \A i \in 1..k : pool.incoming[i].tag <= s
      /\ pool_len(pool) + k > (s - HeadSeq) + pool_floor

(* Every account of a pending request agrees with the others: one lock per *)
(* randomness account, one funded escrow per request, the account carries  *)
(* the request's last commit, and it is revealed exactly when the request  *)
(* has recorded the value (no reveal is ever stranded in Switchboard).     *)
RandomnessAgrees ==
  /\ escrow = Pending
  /\ DOMAIN rand_lock = {requests[s].randomness : s \in Pending}
  /\ \A s \in Pending :
       LET req == requests[s]
       IN  /\ req.randomness \in DOMAIN randomness
           /\ rand_lock[req.randomness] = s
           /\ randomness[req.randomness].seed_slot = req.seed_slot
           /\ req.seed_slot < slot
           /\ randomness[req.randomness].oracle = req.oracles[commits(req)]
           /\ req.revealed <=> is_revealed(randomness[req.randomness], req.seed_slot)
           /\ req.revealed => req.value = randomness[req.randomness].value

(* The caller of a commit cannot shop for an oracle: whichever stale       *)
(* proofs are supplied, one oracle at most can be committed.               *)
OracleForced ==
  \A r \in DOMAIN randomness :
    /\ \A a, b \in Oracles :
         CanCommit(r, vault.next_seq, << >>, a) /\ CanCommit(r, vault.next_seq, << >>, b)
           => a = b
    /\ \A s \in Pending, a, b \in Oracles :
         CanCommit(r, s, requests[s].oracles, a) /\ CanCommit(r, s, requests[s].oracles, b)
           => a = b /\ \A j \in 1..commits(requests[s]) : requests[s].oracles[j] # a

(* The lifetime totals audit the live counters: every request made is      *)
(* settled, expired or pending, and the NFTs outside or handed in are the  *)
(* captures that were not released.                                        *)
CountersAudit ==
  /\ vault.total_captures + vault.total_rerolls + vault.total_expired = vault.next_settle_seq
  /\ vault.pending_captures + vault.pending_rerolls = vault.next_seq - vault.next_settle_seq
  /\ vault.total_captures = vault.total_unwraps + vault.assets_outside + vault.pending_rerolls

(* What request s may be given, apart from what earlier requests take.     *)
Candidates(s) ==
  Drawable \cup {pool.incoming[i].index : i \in {j \in 1..incoming_len(pool) :
                                                  pool.incoming[j].tag <= s}}
           \cup {requests[t].handed_in_index : t \in {x \in PendingOf("reroll") : x < s}}

(* Nothing that happens after a request is made, no deposit, re-roll,      *)
(* merge or expiry, puts another NFT among those it may be given.          *)
CandidatesNeverGrow ==
  [][\A s \in Pending : s \in Pending' => Candidates(s)' \subseteq Candidates(s)]_vars

(* The list the head's random number indexes: the pool with the eligible   *)
(* part of the FIFO behind it, however much of that has been merged.       *)
DrawList ==
  LET eligible == {k \in 0..incoming_len(pool) :
                     \A i \in 1..k : pool.incoming[i].tag <= HeadSeq}
      k == CHOOSE k \in eligible : \A j \in eligible : j <= k
  IN  Merged(pool, k).slots

(* Cranks and other users cannot steer a draw: while a request is the head *)
(* its list is fixed, and settle gives its user the entry that the value   *)
(* revealed for it selects, not the NFT it handed in.                      *)
DrawStep ==
  LET req == requests[HeadSeq]
      won == DrawList[Pick(req.value, HeadSeq, Len(DrawList)) + 1]
  IN  /\ HeadSeq' = HeadSeq => DrawList' = DrawList
      /\ (HeadSeq' # HeadSeq /\ req.revealed) =>
           owner'[won] = req.user /\ won # req.handed_in_index

DrawDetermined == [][(HeadSeq \in Pending) => DrawStep]_vars

(* The tokens behind the claims of others are never spent: what the vault  *)
(* holds above its obligations does not shrink, so that a payment is never *)
(* larger than the claim it ends.                                          *)
SurplusNeverSpent == [][Surplus' >= Surplus]_vars

(* A revealed request is out of reach: its value, commit and user stay as  *)
(* they are until settle closes it; it is never re-committed or expired.   *)
RevealedIsFinal ==
  [][\A s \in Pending : requests[s].revealed =>
       IF s \in Pending' THEN requests'[s] = requests[s]
       ELSE s = HeadSeq /\ vault'.total_expired = vault.total_expired]_vars

(* T-HV-15 and T-HV-26 of the threat model: a head whose oracle never      *)
(* answers is expired after its deadline and grace, and the queue advances. *)
StuckHeadAdvances ==
  \A s \in 0..(MaxSeq - 1) :
    (s \in Pending /\ slot > requests[s].deadline_slot + EXPIRE_GRACE_SLOTS) ~> HeadSeq > s

(* Nobody waits for ever: a pending request is settled or expired, however *)
(* the oracles behave, if enough of them keep their heartbeat.             *)
EveryRequestEnds == \A s \in 0..(MaxSeq - 1) : s \in Pending ~> HeadSeq > s

(* What the cranks of the head need in order not to be refused.            *)
CanSettle ==
  \E k \in 0..incoming_len(pool) :
    /\ SettleRefusals(k)
    /\ pool_len(Merged(pool, k)) > 0 /\ PickDeliverable(PickedIndex(k))
    /\ NoUnderflow(SettledBooks(k)) /\ InvariantsHold(SettledBooks(k))

CanMerge == \E k \in 1..incoming_len(pool) : MergeMoves(pool, HeadSeq, MAX_MERGE_PER_CALL, k)

CanExpire ==
  /\ ExpireRefusals(1) /\ HandInsHeld(1)
  /\ NoUnderflow(ExpiredBooks(1)) /\ InvariantsHold(ExpiredBooks(1))

CanRecommit ==
  LET req == requests[HeadSeq]
  IN  /\ MayRecommit(HeadSeq)
      /\ \E oracle \in Oracles : CanCommit(req.randomness, HeadSeq, req.oracles, oracle)

(* One more live oracle in the queue than a request has re-commits; none   *)
(* whose account is gone, because nobody can prove such a one stale.       *)
EnoughOracles ==
  /\ Cardinality({o \in Oracles : /\ oracle_state[o] = "live"
                                  /\ \E i \in 1..Len(oracle_keys) : oracle_keys[i] = o})
       > MAX_RECOMMITS
  /\ \A o \in Oracles : oracle_state[o] # "closed"

(* The FIFO has no dead end.  Its head stops everyone behind it, so one of *)
(* the permissionless cranks must go through: a settle or, with a backlog  *)
(* of returns, a merge once it is revealed; otherwise, when its time is    *)
(* up, a re-commit or an expiry, with no gap between the two.              *)
HeadNeverBlocked ==
  (HeadSeq \in Pending /\ EnoughOracles) =>
    LET req == requests[HeadSeq]
    IN  IF req.revealed
        THEN CanSettle \/ CanMerge
        ELSE slot > req.deadline_slot + EXPIRE_GRACE_SLOTS => CanRecommit \/ CanExpire

=============================================================================
