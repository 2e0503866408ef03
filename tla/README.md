# TLA+ model of the hybrid launchpad and vault

This directory models the on-chain programs of this repository in TLA+, checks
them with TLC on small instances and proves some of their properties with TLAPS
for every size. Paths below are relative to the repository (`programs/...` is
`src/programs/...` in `PROJECT.json`).

Two Solana programs make up the system. `hybrid_launch` mints a fixed supply
once, records an immutable config and registers a bonding curve. `hybrid_vault`
lets anyone swap *Ratio* tokens for a random NFT of a collection of *N* (a
capture), swap an NFT for another random one (a re-roll), and turn any NFT of
the collection back into exactly *Ratio* tokens (a release). Its randomness
comes from Switchboard, its NFTs are Metaplex Core assets, its requests wait in
a FIFO that anyone may crank.

## 1. Inventory

| component | state it keeps | operations | where |
|---|---|---|---|
| vault requests, settlement, expiry, release | `Vault` (counters, head and tail of the FIFO), `Request` per seq, `RandLock` per randomness account, vault token account, mint escrow PDA per seq | `open_vault`, `request_capture`, `request_reroll`, `settle_*`, `expire_request(s)`, `unwrap_asset`, `merge_incoming` | `hybrid_vault/src/instructions/*`, `state.rs`, `invariants.rs` |
| draw pool | slots, ring of returning assets with tags, minted bitmap | `push`, `swap_remove`, `incoming_push`, `merge`, `mark_minted` | `pool.rs` |
| randomness and oracle selection | nothing of its own; reads queue, oracle and randomness accounts | `init_randomness`, commit in a request, `reveal_randomness`, `recommit_randomness` | `randomness.rs`, `instructions/randomness_ix.rs` |
| selection | none | `uniform_below`: unbiased index from 32 bytes | `selection.rs` |
| vault initialisation | creates the above | `init_vault` | `instructions/init_vault.rs` |
| mint escrow, Core CPIs | lamports of the escrow PDA, assets | fund, pay the mint, refund; create, transfer | `asset_source.rs`, `core_cpi.rs` |
| economics readers | none; reads `LaunchConfig` | `econ`, `request_fee`, `exit_view` | `config.rs`, `stable_layout.rs` |
| Merkle traits | root in the vault | `verify` of a positional proof | `merkle.rs` |
| graduation check | none; reads launch and curve | `assert_graduated` in `open_vault` | `graduation.rs`, `dbc.rs` |
| launch and registration | `LaunchConfig`, mint, registration | `launch_hybrid`, `register_dbc` | `hybrid_launch/src` |
| shelved programs, mock, scripts | — | not deployed, or tests | `shelved/`, `tests/`, `scripts/` |

**How they interact.** Every instruction is atomic: an error undoes all of it.
Concurrency is between instructions, of any user, in any order: a request waits
several slots for its randomness, and meanwhile anybody may request, release,
merge, settle or expire, and trade NFTs in their wallets. The vault shares
state with Core (who owns an NFT), SPL token (who holds what), Switchboard (what
a randomness account says, which oracles are live, where the queue's cursor is)
and the launch program (whether its config is still supported). None of those
asks the vault before it changes.

**What is hard.** Interleavings between a commit, its reveal and its settle
(nobody may steer the draw); a FIFO in which one stuck head blocks everyone; the
races of reveal, re-commit and expire at the deadline; randomness accounts that
are used again; counters updated by hand in five handlers and asserted by
`invariants::check` at the end of each, where a wrong counter would freeze the
exits; several heads expired against one copy of the vault; ring arithmetic and
byte layouts. On the launch side: records of one program read by another after
either was upgraded, a curve whose life Meteora's program and its holders decide,
accounts that anyone may create or send lamports to before the program comes to
them, and prices that are checked at a request and paid at its settle.
`PROJECT.json` lists these hazards at their lines.

**What makes each component correct**

- vault: every index is in exactly one place and the counters count those
  places (`Custody`, `CountersAudit`); no instruction that should succeed is
  refused by its own assertions (`SettleSound`, `ExpirySound`, `RequestSound`,
  `ReleaseSound`); tokens behind one claim never pay another
  (`SurplusNeverSpent`); every request ends (`EveryRequestEnds`), because the head of the
  FIFO always has a crank that goes through (`HeadNeverBlocked`).
- draw pool: the pool can serve the requests it admitted (`DrawAvailable`); what
  a request may be given never grows after it was made (`CandidatesNeverGrow`);
  the draw is the entry that the revealed value selects in a list fixed
  beforehand (`DrawDetermined`); in the bytes of its account each index is in one
  place (`EveryIndexOnce`) and nothing legal is refused (`NeverRefused`), so that they
  implement the record (`ImplementsPool`).
- randomness: an account and its request agree (`RandomnessAgrees`); no caller
  picks the oracle (`OracleForced`); a reveal is final (`RevealedIsFinal`).
- selection: no index is likelier than another, and a draw ends (`Unbiased`,
  `FewRejected`).
- Merkle traits: what an asset becomes is decided when the root is committed
  (`OneLeafPerIndex`), and what is committed under a root that `build` made is minted
  if its URI is short enough and content-addressed, and otherwise never
  (`CommittedAccepted`).
- mint escrow: a request pays for its own mint only and gets the rest back
  (`OwnMintOnly`, `ClosedEmpty`), an asset is paid for once (`PaidOncePerAsset`), no
  lamports of a stranger stand in the way (`MintSound`).
- launch and registration, graduation: the supply is fixed (`FixedSupply`) and its
  unsold part locked (`LeftoverLocked`); only the migration of the launch's own
  curve opens a vault (`OpenMeansGraduated`), and then anyone can (`OpenSound`);
  nobody keeps a creator from the next step (`NobodyBlocks`).
- validation and economics readers: what is accepted is what is shown
  (`ValidateExact`) and nothing derived from it overflows (`DerivedAmountsFit`);
  upgrades neither close the exits (`ExitsSurviveUpgrades`) nor change a fee
  (`FeeNeverChanges`).
- the whole: it is a shop (`ImplementsLedger`), so that every NFT outside and every
  claim is backed by tokens (`Backed`) and the inventory covers the claims and the
  floor (`Reserved`).

## 2. Modules

| module | models | correspondence |
|---|---|---|
| `DrawPool` | `pool.rs` | a record `slots`, `incoming`, `minted`; one operator per function, with its name |
| `Randomness` | `randomness.rs` | the fields read from a randomness account; `SbCommit`, `SbReveal` are what a Switchboard call leaves there (external; as `tests/track-a-hybrid/mock-switchboard` does it); `IsSelected` is the walk of `select_oracle_in` |
| `HybridVault` | the program | one action per instruction, plus the world around it |
| `VaultLedger` | abstract specification | a shop with an inventory and claims in order; no tags, locks, randomness or clock |
| `VaultRefinesLedger` | refinement mapping | pool and returning FIFO are the inventory, pending requests are the claims; `Backed` and `Reserved` of the program |
| `PoolLayout` | `pool.rs`, byte by byte | the buffer `d` as a function from offsets to bytes; reads and writes little endian at the offsets of the code; `merge` as its loop of rounds |
| `PoolContract` | what the instructions ask of a pool | abstract specification on the record of `DrawPool`, which `PoolLayout` implements |
| `HybridVaultProofs` | type correctness; oracles, reveals, counters, surplus | what the operators of `DrawPool` and `Randomness` return, and which indices are where after them; the inductive invariant `IInv` and what follows from it |
| `HybridVaultCustody` | where every NFT is, why no handler refuses, why nobody steers a draw | the inductive invariants `CInv` and `QInv` |
| `Selection` | `selection.rs` | the loop over the words of a block and over blocks, one action per word |
| `TraitCommitment` | `merkle.rs`, `check_leaf` | extends `Selection`: the index it draws is the one whose leaf settlers then try to pass off, with any proof, against the limits on its URI, `leaf_hash`, `node_hash`, `depth_for`, `verify`, `build` |
| `MintEscrow` | `asset_source.rs`, the paying half of request, settle and expire | lamports of each escrow, of each asset's address and of its user; prices that move |
| `LaunchEconomics` | `validation.rs`, `needs_barton.rs` | pure operators with the functions' names; a build is a record of what an upgrade can change |
| `LaunchLifecycle` | `hybrid_launch`; `init_vault`, `open_vault`, `config.rs`, `graduation.rs` | one action per instruction, and DBC, mints, holders, forgers and upgrades around them |
| `VaultRefinesLedgerProofs` | the program implements the shop, and is backed as it is | each action of `HybridVault` as a step of `VaultLedger` or a stutter |
| `VaultLedgerProofs` | the shop is backed | the inductive invariant `LInv` |
| `PoolLayoutProofs` | the bytes implement the record, and refuse nothing legal | each operation on the bytes as one on the record; the inductive invariant `PoolInv` |
| `TraitCommitmentProofs` | the draw is uniform, the traits are fixed and can be minted | arithmetic of `zone` at any width; trees of any number of leaves |
| `MintEscrowProofs` | each request pays for itself | the inductive invariant `EInv` |
| `LaunchProofs` | the launch side | the inductive invariant `IInv` of `LaunchLifecycle` |
| `MC...` | instances for TLC | small sets, small functions for the hashes |

How they compose: `HybridVault` uses the operators of `DrawPool` and `Randomness` in its
actions. `LaunchLifecycle` ends where `HybridVault` begins: the state that its
`InitVault` and `OpenVault` leave is where `HybridVault` starts and what its one-way
`OpenVault` stands for; its `econ` is the flag `launch_supported`, its `exit_view` is
the reason why `Unwrap` does not read that flag. `Selection` justifies `Pick`,
`TraitCommitment` and `MintEscrow` detail one step of `Settle`, the first mint.
They are modules of their own because their state (lamports, prices, proofs)
meets the vault's only in the guards they share, and the product of both would be
out of TLC's reach.

### State of `HybridVault`

`vault` holds the counters of `state::Vault`; `pool` is the pool account;
`requests`, `rand_lock` and `escrow` are the accounts that exist per request;
`owner` is Core's view of each asset (`Unminted` before it exists),
`vault_tokens` and `wallet` the token accounts; `randomness` the Switchboard
accounts; `slot`, `oracle_state`, `curr_idx`, `launch_supported` the world.

### Actions

| action | instruction | notes |
|---|---|---|
| `OpenVault` | `open_vault` | one way; here it may happen at any time, when it may is the subject of `LaunchLifecycle` |
| `RequestCapture`, `RequestReroll` | `request_capture`, `request_reroll` | floor check, commit with the program's own choice of oracle, escrow, lock, counters |
| `InitRandomness` | `init_randomness` | |
| `RevealRandomness` | `reveal_randomness` | anyone; the value is the assigned oracle's |
| `RecommitRandomness` | `recommit_randomness` | past the deadline, not revealed, commits left |
| `Settle(k)` | `settle_capture`, `settle_reroll` | merges the k eligible returns, refuses a backlog, draws, mints or transfers, a re-roll's hand-in joins the pool after the draw |
| `MergeIncoming` | `merge_incoming` | |
| `ExpireHeads(n)` | `expire_request`, `expire_requests` | the batch is the n heads, expired against one copy of the vault |
| `Unwrap` | `unwrap_asset` | never gated |
| `Tick`, `TransferNft`, `Donate`, `Heartbeat`, `RotateQueue`, `UpgradeLaunch` | the world | clock, wallet trades, donations, oracles, cursor, launch upgrade |

### State and actions of the launch side

`LaunchLifecycle` keeps, per mint, the account at its address (`mint`), who holds its
tokens (`tokens`), the `LaunchConfig` (`config`), the `Vault` as far as opening needs it
(`vault`), the account at the collection's address, and the fees ever charged
(`charged`, a history variable); curve accounts by key (`account`), DBC's own and
copies of them; the deployed builds; and `payable`, whether rent and fee recipient
are such that an instruction can pay at all.

| action | code | notes |
|---|---|---|
| `Launch` | `launch` | validation, a mint at an empty or dusty address, the authority dropped |
| `RegisterDbc` | `register_dbc_launch` | the allowlist, the curve's owner, config, creator and state, the config's terms, the mint, one record per mint |
| `InitVault`, `OpenVault` | `init_vault`, `open_vault` | `econ`; the collection's address drained; `verify_dbc` against the recorded curve |
| `Request` | the launch's part of both requests | `econ`, `request_fee` |
| `CreateCurve`, `Buy`, `Complete`, `Migrate`, `WithdrawLeftover` | DBC (external) | as `register_dbc.rs`, `dbc.rs` and the design documents rely on it |
| `ForeignMint`, `Burn`, `PrefundMint`, `PrefundCollection`, `CreateBufferAta`, `Forge` | anyone (external) | mints of a creator's own, burning, dust, accounts made in advance, copies of curve accounts |
| `UpgradeLaunch`, `UpgradeVault`, `Drift` | deployment, cluster | any build at any time |

`MintEscrow` has `Request`, `Reveal`, `SettleDeliver`, `SettleMint`, `Expire` and
`Unwrap` with `HybridVault`'s conditions on who is the head and what is drawable, and
`TopUp`, `Prefund` and `PricesMove` for strangers and the cluster. `put_in`, `spent` and
`returned` are history variables: what ever came to an escrow and where it went.

### Instructions that refuse

`Write(b)` in `HybridVault` is the end of every instruction that changes the books: the checked
subtractions and `invariants::check` are guards, as in the code, where they
refuse the instruction. That alone would hide mistakes, since a refused
instruction does nothing, so the `...Sound` invariants say that no instruction is
ever refused for that reason when its own conditions allow it.

### Abstractions

- In `HybridVault` a mint escrow is funded or not, and the crank holds committed
  leaves that `check_leaf` accepts; `MintEscrow` and `TraitCommitment` are about the
  amounts and the leaves.
  Left out everywhere: `total_fee_lamports` and `opened_at_slot`, which nothing
  reads.
- In `MintEscrow` a reveal and a timeout may happen at any moment and a draw may give
  any drawable asset: more than the code allows. `Published` are the assets
  of which somebody has the leaf and whose leaf `check_leaf` accepts: which those
  are, `TraitCommitment` says.
- `TraitCommitment` takes hashes as terms: equal only when their preimages are, which
  is what the code asks of SHA-256. A payload stands for everything a leaf commits
  to; of its URI it matters only whether it is short enough (`ShortUris`) and has a
  content-addressed prefix (`AddressedUris`), which `check_leaf` asks. Settlers only try proofs made of hashes that occur in the root, the others
  cannot lead to it.
- `Selection` works on words of any width: `U64_MAX` is a constant, and the hash may
  give any words. The instance has 6 bits, the theorems every width.
- `LaunchLifecycle` scales the supply down, trades one token at a time, lets at most
  one be burnt and takes one SOL threshold or two: who may do what, in which
  order, is what its properties are about. The buffer `BUFFER` is an address for
  which no instruction signs. The bytes of the accounts it reads, `launched_at`, bumps
  and the fixed fee recipient are left out.
- `Pick` stands for the hash of value, vault and seq reduced below n, any
  function into `0..n-1`; `Spread` for the hash that spreads the oracle walk.
  In the instances they depend on each of their arguments.
- The number of commits is the length of the list of oracles used: in the code
  the two change together.
- In `PoolLayout` the callers are reduced to what they owe the pool: they give back
  only what was drawn (`held`), under a counter that only grows (`next_seq`). The
  position of a draw is arbitrary. A settle is a `Merge`, which leaves what a
  `merge_incoming` would leave too, and then a `Draw`. Discriminator and vault key,
  which `load` compares and nothing rewrites, are left out.
- `Sinks` are owners of an NFT other than users. It is empty in most runs; where
  it is not, its member is the vault authority itself, to which a holder can
  transfer by hand. A burnt NFT would behave the same.
- `Slip` operators next to a definition are plausible mistakes in it; they are
  not used by the specification. Each property is shown to fail with one.

## 3. Runs

Every run takes two minutes at most with two workers. Deadlock is not checked
where the system may rest: when every request is over and no user has tokens,
nothing need happen.

| run | instance | properties | shows |
|---|---|---|---|
| `custody` | with the refinement mapping: 2 users, 3 NFTs, 2 randomness accounts, 3 requests, merge cap 1, no re-commit | `TypeOK`, `SettleSound`, `ExpirySound`, `RequestSound`, `Custody`, `DrawAvailable`, `CountersAudit`, `Backed`, `Reserved`, `CandidatesNeverGrow`, `DrawDetermined` | custody of every NFT, tokens and stock for every claim, and no interleaving steers a draw (452 thousand states) |
| `reveals` | 1 user, 2 randomness accounts, 2 oracles, one of which goes stale or closes, 1 re-commit, 2 requests | `RandomnessAgrees`, `OracleForced`, `RevealedIsFinal` | the life of a commit (461 thousand states) |
| `exits` | 2 users, donations, hand transfers to the vault, the launch program upgraded, 2 requests; with the refinement mapping | `ReleaseSound`, `SurplusNeverSpent`, `ImplementsLedger` | holders can always leave, and every instruction is a step of the shop (74 thousand states) |
| `pool_layout` | capacity 3, tags 0 and 1, merges of one or two | `NeverRefused`, `EveryIndexOnce`, `ImplementsPool` | the bytes do what the record does (112 thousand states) |
| `progress` | fair, 3 oracles of which one is flaky, 1 re-commit, 2 requests | `HeadNeverBlocked`, `EveryRequestEnds` | every request is settled or expired, and its head is never in a dead end (56 thousand states) |
| `first_mint` | words of 6 bits, 2 blocks of 2 words, collections of 1 to 5, three payloads of which one has too long a URI, depth 3 | `Unbiased`, `FewRejected`, `OneLeafPerIndex`, `CommittedAccepted` | the rejection zone is exact; a root fixes every asset, also where the tree is not full, and whether it can be minted (17 thousand states) |
| `escrow` | 3 assets, one without a published leaf, 2 requests, two rents and two Core fees within the margin and beyond, a gift per address | `OwnMintOnly`, `PaidOncePerAsset`, `MintSound`, `ClosedEmpty` | each request pays for its own mint (178 thousand states) |
| `launches` | 1 mint, 2 creators, 5 configs of which 4 are unsound, a forged curve account, mints from outside, 3 builds | `TypeOK`, `OpenMeansGraduated`, `ValidateExact`, `DerivedAmountsFit`, `FixedSupply`, `LeftoverLocked`, `ExitsSurviveUpgrades`, `FeeNeverChanges`, `OpenSound`, `NobodyBlocks` | supply, leftover, opening, exits and fee survive every order of events and upgrade (231 thousand states) |
| `dead_oracles` | fair, 2 oracles of which one is flaky, 1 re-commit | `StuckHeadAdvances` | violated: see the findings |
| `burnt_supply` | 1 mint, 1 config | `SupplyCheckNotFooled` | violated: see the findings |
| `lower_tiers` | as `launches` | `FeeIsLeast` | violated: see the findings |
| `rent_rise` | as `escrow`, rent from 4 to 6 | `NeverUnderfunded` | violated: see the findings |

**Bounds.** `MaxSeq` limits how many requests are ever made: three is the least
number with a head, a request behind it and one behind that, which is what an
overtaking, a wrong tag or a batch of two with a rest needs. `N = 3` gives a pool
with a hole that a swap-remove fills. A merge cap of one makes a backlog possible
with two returns. `MaxDonated` limits the surplus. The clock stops mattering once
every deadline it can still meet has passed (`ClockMatters`), which bounds `slot`
without hiding a timeout. Timeouts are 0 or 1 slots: their comparisons, not their
size, are what the code depends on. `Values` has two members so that a second
reveal could differ from the first. A capacity of three lets the ring wrap, leaves
stale bytes behind `pool_len` and moves a last entry into a hole before a lazy slot
is drawn; `MaxTag = 1` has an eligible front before one that is not. The bitmap is then
one byte; that it may span several is left to the theorems.

In `first_mint` 6 bits give pool sizes that divide the number of words and sizes that do
not, and blocks of 2 let a draw go on into a second hash. Size 1 is a
tree without levels, 2 and 4 are full, 3 and 5 repeat an odd last hash at one
level and at two. One of the three payloads has too long a URI; the other condition on a
URI, its prefix, every payload of the instance meets, since a fourth would take
the run out of reach: `CommittedMints` is about both. In `escrow` 7 lamports cover rent 4 and fee 2 or 3 but not rent 6; two
requests over three assets are enough for a mint, a return and a second draw of the
same asset. In `launches` words have 5 bits and tokens 0 or 1 decimals: one parameter
asks for 40 base units of NFTs, which wrap round to 8, so that an unchecked product
would pass. Each of the four unsound configs breaks one condition of registration, and the
three builds differ in version, cap, tiers and allowlist. One mint at a time suffices
there because a curve account carries the mint it belongs to and the forged one may
name any; the theorems are about any number of mints.

**Fairness.** `FairSpec` assumes weak fairness of `Tick`, `Recommit`,
`SettleHead`, `Merge` and `ExpireRequest`: the clock runs, and each of the others is
permissionless, so that somebody sends it in the end if it would succeed.
Nothing is assumed of oracles (no reveal need ever happen), of users or of the
queue's cursor. `EveryRequestEnds` needs `1 + MAX_RECOMMITS` oracles that keep
their heartbeat; `progress` has two such oracles beside a flaky one and
`dead_oracles` has one too few.

## 4. Findings

1. **A stuck head with too few live oracles stays stuck** (`dead_oracles`).
   `expire.rs:115` requires `commits > MAX_RECOMMITS`, and each re-commit needs a
   live oracle of the pinned queue that the request has not used
   (`randomness.rs`, `NoFreshOracle`). With fewer than `1 + MAX_RECOMMITS` live oracles
   a head can be neither re-committed nor expired, and everyone behind it waits
   until an oracle comes back. `docs/THREAT_MODEL.md:149` (T-HV-15) and `:159`
   (T-HV-26) say that the head expires and the queue advances.
2. **A burn before registration ends it** (`burnt_supply`). `register_dbc.rs:129`
   wants the mint's supply to be the whole supply. The curve sells from the moment
   it exists, and every holder may burn: one token bought and burnt before
   registration refuses it for ever. `register_dbc.rs:7-8` says that "the supply
   check below isn't fooled by holders burning later". A creator avoids it by
   registering in the transaction that creates the curve; `NobodyBlocks` says that
   nothing else stops a sound registration.
3. **A rise of rent stops the queue** (`rent_rise`). The escrow is compared with the
   live price when the request is made (`request.rs:229`) and again when it pays
   (`asset_source.rs:124`). When the price rises past the margin between the two, a
   revealed head can be neither settled nor expired until somebody sends lamports to
   its escrow. `request.rs:224-226` says that "an underfunded request can't exist".
   `MintSound` says that within the margin nothing goes wrong.
4. **Comments promise a fee that the code refuses** (`lower_tiers`). `request.rs:6-7` says
   that a request pays "the flat SOL fee min(stored, current tier, MAX) (M-08; ...)", and so
   do `hybrid_vault/src/lib.rs:17-18`, `docs/lazy-mint-interface.md:108` and
   `docs/audit-fixes-round1.md:19`, which adds "never reverts on mismatch". `config.rs:36-38`
   wants the stored fee to be exactly today's tier and answers `FeeNotTier` otherwise, as
   `docs/DECISIONS.md:556` decided later. A build with lower tiers therefore stops every
   request of the vaults made before it. `FeeIsLeast` states the comments' rule;
   `FeeNeverChanges` says what the code does keep.

Three limits of the design are in the models without being findings, because the
properties say what still holds. A holder may transfer an NFT to the vault authority
with a plain Core transfer: no handler runs, the NFT stays counted outside and no
instruction brings it back; `ReleaseSound`, `SettleSound` and `ImplementsLedger` hold in
its presence, so it harms its sender only. And which leaf a first mint needs is known
only after the reveal (`settle.rs:132`), while a revealed request cannot expire
(`expire.rs:110`): a leaf that nobody has stops the queue, and the refund on expire that
`docs/graduation-design.md:207` names comes only for requests that are not revealed.
`MintSound` therefore speaks of published leaves. Likewise the length and the
prefix of a leaf's URI are looked at only when it is minted (`asset_source.rs:49-50`);
`init_vault` sees nothing but the root. A root over a leaf that breaks either is
accepted, and the first draw of its index stops the queue: `CommittedAccepted` says so
(nothing is ever accepted for it), and that no other committed leaf is refused.

## 5. Proofs

The theorems hold for every value of the constants under the named assumptions of the
modules (`SizeAssumption`, `BoundAssumption`, `OwnerAssumption`, `OracleAssumption`,
`PickAssumption`, `SpreadAssumption` of `HybridVault`; `HolderAssumption` of
`VaultRefinesLedger`; `EscrowAssumption`;
`WidthAssumption` of `Selection`; `DepthAssumption` of `TraitCommitment`; `LayoutAssumption`
of `PoolLayout`; `WidthAssumption`, `BuildAssumption`, `KeysAssumption`,
`PoolConfigAssumption` and `ParamsAssumption` of the launch side), which TLC
evaluates in the runs. Bounds such as `MaxSeq`, `MaxDonated` or `MaxGifts` are
constants like the others, so the bounds of the runs do not limit the theorems.
`DepthAssumption` says that no size needs a proof longer than `MAX_MERKLE_DEPTH`, and
`LayoutAssumption` that tags are u64 and a capacity is at most 2^31, so that head
plus length does not overflow a u32: a launch refuses collections larger than
`MAX_COLLECTION_SIZE` (`validation.rs:68`), 10,000. The theorems about the shop have
`LedgerAssumption`, what the shop asks of its constants, as a hypothesis;
`ShopConstants` shows it for the constants that the program gives it.

| theorem | module | states |
|---|---|---|
| `TypeCorrect` | `HybridVaultProofs` | `Spec => []TypeOK` |
| `Inductive` | `HybridVaultProofs` | `Spec => []IInv` |
| `OracleIsForced` | `HybridVaultProofs` | `Spec => []OracleForced` |
| `RevealIsFinal` | `HybridVaultProofs` | `Spec => RevealedIsFinal` |
| `RandomnessAlwaysAgrees` | `HybridVaultProofs` | `Spec => []RandomnessAgrees` |
| `CountersAlwaysAudit` | `HybridVaultProofs` | `Spec => []CountersAudit` |
| `SurplusIsKept` | `HybridVaultProofs` | `Spec => SurplusNeverSpent` |
| `CustodyAlways`, `DrawAlwaysAvailable` | `HybridVaultCustody` | `Custody` and `DrawAvailable` always hold |
| `RequestAlwaysSound`, `SettleAlwaysSound`, `ExpiryAlwaysSound`, `ReleaseAlwaysSound` | `HybridVaultCustody` | `RequestSound`, `SettleSound`, `ExpirySound` and `ReleaseSound` always hold |
| `HeadAlwaysMoves` | `HybridVaultCustody` | `Spec => []HeadNeverBlocked` |
| `CandidatesOnlyShrink` | `HybridVaultCustody` | `Spec => CandidatesNeverGrow` |
| `DrawIsDetermined` | `HybridVaultCustody` | `Spec => DrawDetermined` |
| `VaultImplementsLedger` | `VaultRefinesLedgerProofs` | `Spec => ImplementsLedger` |
| `VaultAlwaysBacked`, `VaultAlwaysReserved` | `VaultRefinesLedgerProofs` | `Spec => []Backed` and `Spec => []Reserved` of the program |
| `LedgerTypes`, `AlwaysBacked`, `AlwaysReserved` | `VaultLedgerProofs` | `LedgerTypeOK`, `Backed` and `Reserved` always hold in the shop |
| `BytesImplementPool` | `PoolLayoutProofs` | `Spec => ImplementsPool` at every capacity |
| `LayoutTyped`, `CallersNeverRefused`, `IndicesOnce` | `PoolLayoutProofs` | `LayoutTypeOK`, `NeverRefused` and `EveryIndexOnce` of `PoolLayout` |
| `DrawIsUniform`, `DrawEnds` | `TraitCommitmentProofs` | `Unbiased` and `FewRejected` at every width and pool size |
| `TraitsAreFixed`, `CommittedMints` | `TraitCommitmentProofs` | `OneLeafPerIndex` and `CommittedAccepted` for collections of every size |
| `EscrowTypes`, `PaysItsOwnMint` | `MintEscrowProofs` | `TypeOK` and `OwnMintOnly` of `MintEscrow` |
| `MintedOnce`, `HeadCanSettle`, `NothingLeftBehind` | `MintEscrowProofs` | `PaidOncePerAsset`, `MintSound` and `ClosedEmpty` |
| `LaunchTypes`, `SupplyIsFixed`, `OnlyGraduatedOpens`, `LeftoverIsLocked`, `ExitsSurvive`, `FeeIsForever` | `LaunchProofs` | `TypeOK`, `FixedSupply`, `OpenMeansGraduated`, `LeftoverLocked`, `ExitsSurviveUpgrades`, `FeeNeverChanges` of `LaunchLifecycle` |
| `SupplyCoversEveryNft`, `AcceptsWhatIsShown` | `LaunchProofs` | `DerivedAmountsFit` and `ValidateExact` at every width |
| `OpensWhenGraduated`, `NobodyIsBlocked` | `LaunchProofs` | `OpenSound` and `NobodyBlocks` |

**The invariant of `HybridVault`.** `TypeOK` is not inductive: a settle indexes the pool with `Pick`,
whose range is known only when the value came from an oracle and the list is no
longer than N, and a re-roll pushes the index it handed in. `IInv` adds
`DrawsFit`: pool, pending re-rolls and NFTs outside add up to N (INV-2 of
`invariants.rs`), a revealed request carries an oracle's value, a re-roll names an
index. Each action has a lemma that it keeps `IInv`; `TypeStep` combines them.
`SettledVaultType`, `ExpiredVaultType` and their like say what an instruction
does to each counter and serve all the theorems.

**The arguments about `HybridVault`.** `OracleIsForced`: a stale proof counts only for an oracle that is
stale, the oracle committed is live, so the first eligible key of the walk is the
same whatever is proven (`SelectionUnique` in `HybridVaultProofs`). `RevealIsFinal`: a
new request is appended behind the old ones, reveal and re-commit need a request that
is not revealed, closing heads leaves the others as they were, expired heads are not
revealed. `CountersAlwaysAudit` is inductive relative to `IInv`; the batch uses that
captures and re-rolls partition its heads (`ExpiredCounts`). `SurplusIsKept`: each
payment is *Ratio* times the change in the number of claims (`SurplusMoves`).
`RandomnessAlwaysAgrees` is inductive relative to `IInv`: an account is locked by one
pending request at most, so what a reveal or a re-commit writes belongs to the request
named in its lock, and closing heads removes their locks and nobody else's.

**Custody.** The counters of `IInv` do not say which NFT is where, and a swap-remove or a
batch of expiries with an index twice would leave them right. `CInv` says it: slots and
returning FIFO hold distinct indices (`Distinct`), hand-ins are distinct and in
neither (`HeldApart`), the two counters of pending requests count them
(`KindsCounted`), Core, bitmap and `minted_count` agree (`Owned`). Each handler moves
indices between these places; the first part of `HybridVaultProofs` says what a merge,
a push and a draw leave of them. NFTs outside are what is left of the collection, by cardinality.

`DrawAvailable` speaks of each pending request: with k entries of the FIFO tagged no
later than it, the list is longer than the draws before it and the floor. It is
inductive together with `TagsBounded`, that no tag is beyond `next_seq`: a merge
of m entries shifts k by m, a settle ends one draw and takes one entry
(`QueueShift`), an expiry ends draws and takes none, and what is pushed at the tail
leaves every k as it is.

**No handler refuses.** The four `...Sound` theorems put these together: a surplus that is
never negative (`Solvent`, from `SurplusIsKept`) pays what a release or an expiry
owes, `OutsideCounted` gives the counter a release decrements, distinct places leave
room in the ring, `QInv` gives the settle its entry and `RandomnessAgrees` the value it
draws with. `BooksBalance` is `invariants::check` in terms of these facts.

**The head always moves.** `EveryRequestEnds` itself is out of the prover's reach, but not
what it rests on: `HeadNeverBlocked` says of every reachable state that a crank of the
head succeeds, with all its guards and assertions, provided the queue has
`1 + MAX_RECOMMITS` live oracles and none whose account is gone (nobody can prove such
a one stale, and the walk stops at it). A revealed head with k entries it may draw
from is settled when one settle can merge k, and merged for otherwise (`HeadSettles`).
A head that may be re-committed has used fewer oracles than are live
(`OracleLeft`), and the walk goes once round the whole queue, so with every stale
oracle proven stale it meets a live one (`SelectionExists`, `HeadRecommits`). A head that
may not has used up its commits and can be expired. What the theorem leaves to TLC is
that somebody sends the crank, and that this ends.

**The draw of the head.** `CandidatesOnlyShrink` follows handler by handler: new tags are at
least `next_seq`, later than any pending request. For `DrawIsDetermined`, the list
is the pool after merging the longest prefix of the FIFO with tags up to the
head (`Reaches`; it exists because a non-empty set of numbers has a least
member, and is unique by `ReachList`). Merging in two parts is merging at once
(`MergedTwice`) and a later return is out of that prefix (`ListPushed`), so the list
stays. That the NFT drawn is not the one handed in needs `CInv` for a re-roll and, for a
capture, that it hands in nothing (`HandsNothing`, inductive).

**The shop.** `Backed` and `Reserved` are not inductive: refunding a batch of claims could
hand one NFT back twice, or one that is not held for a claim. `LInv` adds that the
NFT of a swap is handed in (`Pledged`) and that no two claims hold the same one
(`Distinct`), so that closing claims changes the inventory, the NFTs outside and the
claims by amounts that cancel.

**The refinement.** What the shop has in stock are the slots and the FIFO (`Shelf`), what it
keeps for a swap is what pending re-rolls handed in, and its claims are the pending
requests in their order. A request appends a claim (`ClaimsAppend`), closing the first
heads drops as many claims (`ClaimsServed`); merges, reveals and re-commits are
invisible (`MergeHidden`, `RandomnessHidden`). `CInv` says that what is drawn was on the
shelf and what is held for a swap was not; `CountersAudit` that the program's floor
check is the shop's reserve (`FloorReserves`); `HandsNothing` that a capture is a claim
without an NFT. A batch of expiries pays each user for the captures among his heads,
the shop for the purchases among the first claims: the two sets are as large as each
other because shifting numbers is a bijection (`ShiftCardinality`, `SamePayments`).
With the mapping, the proofs about the shop are about the program: `VaultAlwaysBacked`
and `VaultAlwaysReserved` take the steps of `LInv` from the instance `Shop` of
`VaultLedgerProofs` and follow them along the program's behaviours (`ShopRuns`).

**The draw.** `zone(n) + 1` is a multiple of n (`WholeRounds`), so the accepted words are
`Rounds(n)` whole rounds, and each index is met once per round (`OnePerRound`, from
the uniqueness of quotient and remainder).

**The committed traits.** `verify` climbs one level per hash of the proof. With hashes
that are terms a climb can be undone: two leaves that reach the same hash with the
same index and proofs of the same length are one leaf (`ClimbInjective`), and a proof
that is accepted has the length `depth_for` asks for. So nothing that came into
`accepted` differs, for roots that `build` made and for any others
(`TraitsAreFixed`; `SameLeaf` does not even ask where the proofs come from). For
`CommittedMints` the levels of a tree are as long as rounding half up makes them
(`LevelLengths`), the level of length one is the one that `depth_for` counts
(`TopIsDepth`), and the climb meets each level at the ancestor of the leaf, an odd last
hash being its own sibling (`BuiltVerifies`). What is left of
`check_leaf` are the two conditions on the URI, and `TraitsAreFixed` excludes every other
leaf. Climbs, levels and ancestors are recursive
functions; that they exist, and what they return, is proved by counting up from 0
(`CountUp`), with the least element of a set of numbers for induction.

**The bytes of the pool.** Fields, slots and entries are words of 32 bits at distinct
multiples of 4 between the header and the bitmap, so a write changes one of them and
nothing else (`WriteWord`, `RingApart`, `WordsApart`): the regions do not overlap. A
buffer is `Sound` when its fields fit the account and its entries are indices. On a
sound buffer each operation on the bytes is the one on the record: `PushedRecord`,
`SwapRemovedRecord`, `ReturnedRecord`, `PoppedRecord`, and `MarkedRecord`, for which a bit
is added to its byte without a carry (`NoCarry`). A merge is a function of its rounds;
after j rounds the record is the one in which the first j entries have moved
(`OneRound`), so the loop stops where the record's merge does (`MergedRecord`).
`PoolInv` adds that each index is in one slot, in one entry or held (`Placed`) and that
no tag is beyond the counter. Where something is held there is room for it, because
the entries are distinct indices and fewer than the capacity (`Room`): hence nothing
is refused. Each step of the callers is then a step of `PoolContract` that keeps
`PoolInv` (`PoolStep`).

**The escrow.** `OwnMintOnly` needs the types, because a mint's price is taken from an
escrow that must hold it, and `Fresh`: a request that was not made yet has spent
and received nothing, although lamports may be at its address. `PaidOncePerAsset` rests
on it: the head has spent nothing before its mint, and a price is never zero; what a
re-roll hands in was minted before (`Paid`). For `MintSound` the drawable assets are
never fewer than the requests that wait (`Promised`): a draw takes one asset and ends
one request, and a request is admitted only when one more is there.

**The launch side.** `IInv` of `LaunchProofs` has a part for each record. `MintOK`: an
address without a mint has no tokens, and all tokens held add up to the supply.
`CurvesOK`: a mint has at most one curve, DBC made both, and what is missing from
the supply was burnt by holders or at the migration. `RecordOK`: a recorded launch is
`Native`, with its supply still in its vault, or `OnCurve`, with a sound config and a
curve of its creator that still exists: registration sees it once, and what DBC
does later must keep it. `VaultOK` and `FeesOK` tie a vault to the record it was made
from. `FakesOK` says that no copy is DBC's. Six of the properties are short
consequences. `OpenSound` needs besides that a vault's collection is what `init_vault`
put there (`CollectionsOK`), `NobodyBlocks` that the address of a mint or of a collection
which nobody has made yet holds at most dust (`AddressesOK`). `ValidateExact` and
`DerivedAmountsFit` are arithmetic: a product in base units that passed a checked
multiplication is the product in whole tokens times a power of ten, and an integer
division bounds it from the right side.

**Only model-checked.** Liveness (`EveryRequestEnds`) and everything about ENABLED, which
the prover cannot handle. Every invariant, every action property and both refinements
that a passing run checks are theorems. `LayoutTypeOK`, the types
of `PoolLayout`, is proved and in no run.

## 6. Plan

In the order of importance.

1. *Done:* `DrawPool`, `Randomness`, `HybridVault`, `VaultLedger`, the refinement, type
   correctness and the first theorems about `HybridVault`; the invariants of `VaultLedger`.
2. *Done:* `PoolLayout`, refining `PoolContract`. Every property of the run is a
   theorem, which covers a bitmap of several bytes, as the run does not.
3. *Done:* `Selection` and `TraitCommitment`, with the theorems about the draw
   and about committed traits.
4. *Done:* `MintEscrow`; every property of the run is a theorem.
5. *Done:* `LaunchEconomics` and `LaunchLifecycle`; every property of the run is a
   theorem.
6. *Done:* every safety property of `HybridVault`, and that its FIFO has no dead end.
7. *Done:* the step simulation of `VaultRefinesLedger`, as `VaultImplementsLedger`. Through it `Backed` and
   `Reserved` are theorems about the program's own variables.

**Not modelled.** Byte formats of foreign accounts and of Core's instructions (parsing
is checked by unit tests against fixtures). The collection's own name and URI, whose lengths
`init_vault` checks in the call that brings them (the reason why vault
initialisation is "partly"); the bytes of names, URIs and art hashes, which are
terms in `TraitCommitment` and only the two conditions of `check_leaf` look at. `error.rs` and constants: no behaviour. The
shelved `fee_treasury` and `holder_lottery`, one `initialize` each. The Switchboard mock
and the tests. Build and deploy scripts.
