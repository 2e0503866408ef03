--------------------------- MODULE LaunchLifecycle ---------------------------
(***************************************************************************)
(* From a mint that does not exist to a vault that converts: hybrid_launch *)
(* (launch, register_dbc_launch), the two instructions of hybrid_vault that *)
(* read its records (init_vault, open_vault), and what they meet: Meteora's *)
(* bonding curve (DBC), SPL mints and holders, dust sent to addresses that *)
(* do not exist yet, copies of curve accounts under other programs, and    *)
(* upgrades of either program.  Nobody asks the launchpad before acting.   *)
(***************************************************************************)
EXTENDS LaunchEconomics, FiniteSets

CONSTANTS
  Mints,          \* addresses of mints
  Creators,       \* people who launch
  ConfigKeys,     \* DBC config accounts
  PoolConfig,     \* what DBC wrote in each of them; DBC never changes it
  FakeKeys,       \* addresses where anyone may put a copy of a curve account
  Params,         \* parameters that creators submit
  Upgrades,       \* whether the programs are ever upgraded
  Foreigners      \* whether mints are ever made without the launchpad and DBC

BUFFER == "dbc_buffer"             \* the PDA no instruction signs for

\* DBC derives the address of a curve from its config and its mint.
CurveKey(k, m) == <<k, m>>
CurveKeys == ConfigKeys \X Mints
PoolKeys == CurveKeys \cup FakeKeys

ASSUME KeysAssumption == /\ FakeKeys \cap CurveKeys = {}
                         /\ Upgrades \in BOOLEAN /\ Foreigners \in BOOLEAN

\* What DBC itself ensures of a config when it is made.
ASSUME PoolConfigAssumption ==
    \A k \in ConfigKeys :
        LET cfg == PoolConfig[k]
        IN  /\ cfg.quote_is_sol \in BOOLEAN /\ cfg.spl \in BOOLEAN
            /\ cfg.fixed_supply \in BOOLEAN /\ cfg.immutable \in BOOLEAN
            /\ cfg.decimals \in Nat /\ cfg.threshold \in Nat
            /\ cfg.pre \in Nat /\ cfg.post \in 0..cfg.pre

ASSUME ParamsAssumption ==
    /\ Params \subseteq [decimals : Nat, ratio : Nat, size : Nat, threshold : Nat]
    /\ \A p \in Params : 10 ^ p.decimals \in Nat \ {0}

VARIABLES
  mint,           \* the account at each mint's address
  tokens,         \* who holds the tokens of each mint
  account,        \* curve accounts: DBC's own and copies of them
  buffer_ata,     \* mints whose buffer token account exists
  config,         \* LaunchConfig PDA of each mint
  vault,          \* Vault of each launch
  collection,     \* the account at each vault's collection address
  charged,        \* the fees that requests of each vault were ever charged
  launch_build, vault_build,   \* deployed builds of the two programs
  payable         \* rent is within the constants and the fee recipient is
                  \* a plain system account

chain == <<mint, tokens, account, buffer_ata, collection>>
records == <<config, vault, charged>>
builds == <<launch_build, vault_build>>
vars == <<chain, records, builds, payable>>

NoPool == <<>>                     \* Pubkey::default()
MIGRATION_CREATED_POOL == 3

NoAccount == [owner |-> "system"]
NoRecord == [exists |-> FALSE]

Addresses == {"empty", "dust", "mint", "other"}
NoTokens == [launch_vault |-> 0, base_vault |-> 0, market |-> 0,
             buffer |-> 0, leaked |-> 0, burnt |-> 0]
Held(t) == t.launch_vault + t.base_vault + t.market + t.buffer + t.leaked

NoMint(state) == [state |-> state, decimals |-> 0, supply |-> 0, authority |-> FALSE,
                  made_by |-> "nobody"]

Init ==
  /\ mint = [m \in Mints |-> NoMint("empty")]
  /\ tokens = [m \in Mints |-> NoTokens]
  /\ account = [key \in PoolKeys |-> NoAccount]
  /\ buffer_ata = {}
  /\ config = [m \in Mints |-> NoRecord]
  /\ vault = [m \in Mints |-> NoRecord]
  /\ collection = [m \in Mints |-> "empty"]
  /\ charged = [m \in Mints |-> {}]
  /\ launch_build \in Builds
  /\ vault_build = launch_build
  /\ payable = TRUE

-----------------------------------------------------------------------------
(* dbc.rs: reading a curve account.                                        *)

graduated(pool) == pool.is_migrated /\ pool.progress = MIGRATION_CREATED_POOL

\* A slip: the owner is not looked at.
load_pool_AnyOwner(key) == account[key]

\* The account's content, if it is DBC's.
load_pool(key) == IF account[key].owner = "DBC" THEN account[key] ELSE NoAccount

-----------------------------------------------------------------------------
(* launch.                                                                 *)

\* create_mint_account: plain create_account at an empty address; an address
\* with lamports, no data and the System program as owner is topped up,
\* allocated and assigned; anything else is MintAccountInUse.
CreateMintAllowed(m) == mint[m].state \in {"empty", "dust"}

\* initialize_mint2, mint_to, set_authority(None).
FreshMint(p) ==
  [state |-> "mint", decimals |-> p.decimals, supply |-> total_supply_base(p),
   authority |-> FALSE, made_by |-> "launch"]

\* A slip: the curve is not recorded.
NewConfig_NoCurve(p, creator, dbc_config, dbc_pool) ==
  [exists |-> TRUE, version |-> launch_build.version, creator |-> creator,
   decimals |-> p.decimals, total_supply |-> total_supply_base(p),
   ratio |-> p.ratio, ratio_base |-> ratio_base(p), size |-> p.size,
   fee |-> tier_fee_lamports(launch_build, p.ratio),
   threshold |-> p.threshold,
   dbc_config |-> NoPool, dbc_pool |-> NoPool]

NewConfig(p, creator, dbc_config, dbc_pool) ==
  [exists |-> TRUE, version |-> launch_build.version, creator |-> creator,
   decimals |-> p.decimals, total_supply |-> total_supply_base(p),
   ratio |-> p.ratio, ratio_base |-> ratio_base(p), size |-> p.size,
   fee |-> tier_fee_lamports(launch_build, p.ratio),
   threshold |-> p.threshold,
   dbc_config |-> dbc_config, dbc_pool |-> dbc_pool]

FeeIsTier(p) ==
  is_exact_tier_fee(launch_build, tier_fee_lamports(launch_build, p.ratio), p.ratio)

Launch(m, c, p) ==
  /\ validate(launch_build, p)
  /\ payable
  /\ ~config[m].exists
  /\ CreateMintAllowed(m)
  /\ FeeIsTier(p)
  /\ mint' = [mint EXCEPT ![m] = FreshMint(p)]
  /\ tokens' = [tokens EXCEPT ![m].launch_vault = total_supply_base(p)]
  /\ config' = [config EXCEPT ![m] = NewConfig(p, c, NoPool, NoPool)]
  /\ UNCHANGED <<account, buffer_ata, collection, vault, charged, builds, payable>>

-----------------------------------------------------------------------------
(* register_dbc_launch.                                                    *)

\* The mint's decimals and the curve's threshold complete what is submitted.
DbcParams(m, k, p) ==
  [p EXCEPT !.decimals = mint[m].decimals, !.threshold = PoolConfig[k].threshold]

\* A slip: whoever registers the curve is taken for its creator.
PoolAccepted_AnyCreator(pool, m, c, k) ==
  /\ pool.owner # "system"
  /\ pool.base_mint = m /\ pool.config = k /\ pool.spl
  /\ ~pool.is_migrated /\ ~graduated(pool)

PoolAccepted(pool, m, c, k) ==
  /\ pool.owner # "system"
  /\ pool.base_mint = m
  /\ pool.config = k
  /\ pool.spl
  /\ pool.creator = c
  /\ ~pool.is_migrated /\ ~graduated(pool)

\* Slips: a conjunct is forgotten.
ConfigAccepted_AnyPost(k, p) ==
  LET cfg == PoolConfig[k]
  IN  /\ cfg.quote_is_sol /\ cfg.spl /\ cfg.decimals = p.decimals
      /\ cfg.fixed_supply /\ cfg.pre = total_supply_base(p)
      /\ cfg.immutable /\ cfg.leftover_receiver = BUFFER
ConfigAccepted_AnyReceiver(k, p) ==
  LET cfg == PoolConfig[k]
  IN  /\ cfg.quote_is_sol /\ cfg.spl /\ cfg.decimals = p.decimals
      /\ cfg.fixed_supply /\ cfg.immutable
      /\ cfg.pre = total_supply_base(p) /\ cfg.post = total_supply_base(p)

ConfigAccepted(k, p) ==
  LET cfg == PoolConfig[k]
  IN  /\ cfg.quote_is_sol
      /\ cfg.spl
      /\ cfg.decimals = p.decimals
      /\ cfg.fixed_supply
      /\ cfg.pre = total_supply_base(p)
      /\ cfg.post = total_supply_base(p)
      /\ cfg.immutable
      /\ cfg.leftover_receiver = BUFFER

MintAccepted(m, p) ==
  /\ mint[m].state = "mint"
  /\ ~mint[m].authority
  /\ mint[m].supply = total_supply_base(p)

\* The LaunchConfig PDA is `init`: one record per mint, whoever comes first.
NotRecorded(m) == ~config[m].exists

\* A slip: create, which refuses an account that exists.
BufferAtaAllowed_Create(m) == m \notin buffer_ata

\* create_idempotent of ATA(buffer, mint): anyone may have made it before.
BufferAtaAllowed(m) == TRUE

RegisterAllowed(m, c, k, key, p) ==
  /\ payable
  /\ k \in launch_build.approved
  /\ PoolAccepted(load_pool(key), m, c, k)
  /\ validate(launch_build, DbcParams(m, k, p))
  /\ ConfigAccepted(k, DbcParams(m, k, p))
  /\ MintAccepted(m, DbcParams(m, k, p))
  /\ NotRecorded(m)
  /\ BufferAtaAllowed(m)
  /\ FeeIsTier(p)

RegisterDbc(m, c, k, key, p) ==
  /\ RegisterAllowed(m, c, k, key, p)
  /\ buffer_ata' = buffer_ata \cup {m}
  /\ config' = [config EXCEPT ![m] = NewConfig(DbcParams(m, k, p), c, k, key)]
  /\ UNCHANGED <<mint, tokens, account, collection, vault, charged, builds, payable>>

-----------------------------------------------------------------------------
(* config.rs of hybrid_vault: two readers of a LaunchConfig.               *)

econ(m) ==
  /\ config[m].version = vault_build.supported
  /\ config[m].size <= vault_build.max_size
  /\ config[m].size <= U32_MAX
  /\ config[m].size > 0 /\ config[m].ratio_base > 0

\* min(stored, tier or u64::MAX, MAX_FEE), the rule that is_exact_tier_fee
\* replaced and that comments still state.
LeastFee(b, stored, ratio) ==
  LET tier == tier_fee_lamports(b, ratio)
      fees == {stored, b.max_fee} \cup (IF tier # 0 THEN {tier} ELSE {})
  IN  CHOOSE least \in fees : \A f \in fees : least <= f

\* A slip: the rule of the comments.
request_fee_Min(m) == LeastFee(vault_build, config[m].fee, config[m].ratio)

\* What a request pays; 0 when it is refused (FeeNotTier).
request_fee(m) ==
  IF is_exact_tier_fee(vault_build, config[m].fee, config[m].ratio) THEN config[m].fee ELSE 0

\* A slip: the exits read the launch through econ.
exit_view_Econ(m) == econ(m)

exit_view(m) ==
  /\ config[m].ratio_base > 0 /\ config[m].size > 0
  /\ config[m].size <= U32_MAX

-----------------------------------------------------------------------------
(* init_vault.                                                             *)

\* drain_prefunded_pda: lamports at the collection's address go to the vault
\* authority; Core then creates the collection at an empty address.
Drained(address) == IF address = "dust" THEN "empty" ELSE address

InitVaultAllowed(m) ==
  /\ config[m].exists
  /\ ~vault[m].exists
  /\ econ(m)
  /\ Drained(collection[m]) = "empty"

\* pool::init sizes the pool for the collection.
NewVault(m) == [exists |-> TRUE, open |-> FALSE, capacity |-> config[m].size]

InitVault(m, c) ==
  /\ InitVaultAllowed(m)
  /\ config[m].creator = c
  /\ vault' = [vault EXCEPT ![m] = NewVault(m)]
  /\ collection' = [collection EXCEPT ![m] = "core"]
  /\ UNCHANGED <<mint, tokens, account, buffer_ata, config, charged, builds, payable>>

-----------------------------------------------------------------------------
(* open_vault and graduation.rs.                                           *)

verify_dbc(m, key) ==
  /\ config[m].dbc_pool # NoPool
  /\ key = config[m].dbc_pool
  /\ load_pool(key).owner # "system"
  /\ load_pool(key).base_mint = m
  /\ load_pool(key).config = config[m].dbc_config
  /\ graduated(load_pool(key))

OpenAllowed(m, key) ==
  /\ vault[m].exists
  /\ ~vault[m].open
  /\ econ(m)
  /\ collection[m] = "core"
  /\ verify_dbc(m, key)
  /\ vault[m].capacity = config[m].size

OpenVault(m, key) ==
  /\ OpenAllowed(m, key)
  /\ vault' = [vault EXCEPT ![m].open = TRUE]
  /\ UNCHANGED <<chain, config, charged, builds, payable>>

\* The launch's part in request_capture and request_reroll.
Request(m) ==
  /\ vault[m].exists /\ vault[m].open
  /\ econ(m)
  /\ request_fee(m) # 0
  /\ charged' = [charged EXCEPT ![m] = @ \cup {request_fee(m)}]
  /\ UNCHANGED <<chain, config, vault, builds, payable>>

-----------------------------------------------------------------------------
(* The world.                                                              *)

\* Anyone sends lamports to an address that does not exist yet.
PrefundMint(m) ==
  /\ mint[m].state = "empty"
  /\ mint' = [mint EXCEPT ![m] = NoMint("dust")]
  /\ UNCHANGED <<tokens, account, buffer_ata, collection, records, builds, payable>>

PrefundCollection(m) ==
  /\ collection[m] = "empty"
  /\ collection' = [collection EXCEPT ![m] = "dust"]
  /\ UNCHANGED <<mint, tokens, account, buffer_ata, records, builds, payable>>

\* Anyone makes the buffer's token account before registration does.
CreateBufferAta(m) ==
  /\ mint[m].state = "mint"
  /\ buffer_ata' = buffer_ata \cup {m}
  /\ UNCHANGED <<mint, tokens, account, collection, records, builds, payable>>

\* A creator makes a mint alone, with the supply in a wallet, the authority
\* kept or not; or an account of another program.
ForeignMint(m, p, state, kept) ==
  /\ Foreigners
  /\ mint[m].state = "empty"
  /\ mint' = [mint EXCEPT ![m] =
       [state |-> state, decimals |-> p.decimals, supply |-> total_supply_base(p),
        authority |-> kept, made_by |-> "creator"]]
  /\ tokens' = [tokens EXCEPT ![m].market = total_supply_base(p)]
  /\ UNCHANGED <<account, buffer_ata, collection, records, builds, payable>>

\* DBC creates the mint, with the supply in the curve's base vault.
CreateCurve(k, m, c) ==
  LET cfg == PoolConfig[k]
  IN  /\ mint[m].state \in {"empty", "dust"}
      /\ mint' = [mint EXCEPT ![m] =
           [state |-> IF cfg.spl THEN "mint" ELSE "other", decimals |-> cfg.decimals,
            supply |-> cfg.pre, authority |-> ~cfg.immutable, made_by |-> "DBC"]]
      /\ tokens' = [tokens EXCEPT ![m].base_vault = cfg.pre]
      /\ account' = [account EXCEPT ![CurveKey(k, m)] =
           [owner |-> "DBC", config |-> k, creator |-> c, base_mint |-> m,
            spl |-> cfg.spl, is_migrated |-> FALSE, progress |-> 0]]
      /\ UNCHANGED <<buffer_ata, collection, records, builds, payable>>

Exists(k, m) == account[CurveKey(k, m)].owner # "system"

\* A buyer takes a token off the curve; bound: one is on the market at a time.
Buy(k, m) ==
  /\ Exists(k, m) /\ account[CurveKey(k, m)].progress = 0
  /\ tokens[m].market = 0 /\ tokens[m].base_vault > 0
  /\ tokens' = [tokens EXCEPT ![m].base_vault = @ - 1, ![m].market = @ + 1]
  /\ UNCHANGED <<mint, account, buffer_ata, collection, records, builds, payable>>

\* A holder burns: the SPL token program lets every holder do so.  Bound: once.
Burn(m) ==
  /\ tokens[m].market > 0
  /\ tokens[m].burnt = 0
  /\ tokens' = [tokens EXCEPT ![m].market = @ - 1, ![m].burnt = @ + 1]
  /\ mint' = [mint EXCEPT ![m].supply = @ - 1]
  /\ UNCHANGED <<account, buffer_ata, collection, records, builds, payable>>

\* The threshold is reached: trading stops, migration may begin.
Complete(k, m) ==
  /\ Exists(k, m) /\ account[CurveKey(k, m)].progress = 0
  /\ tokens[m].market + tokens[m].burnt > 0
  /\ account' = [account EXCEPT ![CurveKey(k, m)].progress = 1]
  /\ UNCHANGED <<mint, tokens, buffer_ata, collection, records, builds, payable>>

\* DBC migrates: burns what the config says is burnt, gives the AMM its part
\* and keeps the rest, the buffer, in the base vault.
Migrate(k, m) ==
  LET burn == PoolConfig[k].pre - PoolConfig[k].post
  IN  /\ Exists(k, m) /\ account[CurveKey(k, m)].progress = 1
      /\ tokens[m].base_vault >= burn
      /\ \E rest \in 0..(tokens[m].base_vault - burn) :
           tokens' = [tokens EXCEPT ![m].base_vault = rest,
                        ![m].market = @ + (tokens[m].base_vault - burn - rest)]
      /\ mint' = [mint EXCEPT ![m].supply = @ - burn]
      /\ account' = [account EXCEPT ![CurveKey(k, m)].progress = MIGRATION_CREATED_POOL,
                                    ![CurveKey(k, m)].is_migrated = TRUE]
      /\ UNCHANGED <<buffer_ata, collection, records, builds, payable>>

\* withdraw_leftover: anyone; it pays the config's receiver.
WithdrawLeftover(k, m) ==
  /\ Exists(k, m) /\ graduated(account[CurveKey(k, m)])
  /\ tokens[m].base_vault > 0
  /\ tokens' = IF PoolConfig[k].leftover_receiver = BUFFER
               THEN [tokens EXCEPT ![m].buffer = @ + tokens[m].base_vault, ![m].base_vault = 0]
               ELSE [tokens EXCEPT ![m].leaked = @ + tokens[m].base_vault, ![m].base_vault = 0]
  /\ UNCHANGED <<mint, account, buffer_ata, collection, records, builds, payable>>

\* Anyone writes bytes of their choice into an account of another program, as
\* often as they like.
Forge(f, k, m, c, done) ==
  /\ account' = [account EXCEPT ![f] =
       [owner |-> "other", config |-> k, creator |-> c, base_mint |-> m, spl |-> TRUE,
        is_migrated |-> done, progress |-> IF done THEN MIGRATION_CREATED_POOL ELSE 0]]
  /\ UNCHANGED <<mint, tokens, buffer_ata, collection, records, builds, payable>>

UpgradeLaunch(b) ==
  /\ Upgrades /\ launch_build' = b
  /\ UNCHANGED <<chain, records, vault_build, payable>>

UpgradeVault(b) ==
  /\ Upgrades /\ vault_build' = b
  /\ UNCHANGED <<chain, records, launch_build, payable>>

\* The cluster's rent or the fee recipient's account changes.
Drift == /\ payable' = ~payable
         /\ UNCHANGED <<chain, records, builds>>

-----------------------------------------------------------------------------
DbcStep(k, m) ==
  \/ \E c \in Creators : CreateCurve(k, m, c)
  \/ Buy(k, m)
  \/ Complete(k, m)
  \/ Migrate(k, m)
  \/ WithdrawLeftover(k, m)

MintStep(m) ==
  \/ PrefundMint(m)
  \/ PrefundCollection(m)
  \/ CreateBufferAta(m)
  \/ Burn(m)
  \/ \E p \in Params, state \in {"mint", "other"}, kept \in BOOLEAN :
       ForeignMint(m, p, state, kept)

LaunchpadStep(m) ==
  \/ \E c \in Creators, p \in Params : Launch(m, c, p)
  \/ \E c \in Creators, k \in ConfigKeys, key \in CurveKeys \cup FakeKeys, p \in Params :
       RegisterDbc(m, c, k, key, p)
  \/ \E c \in Creators : InitVault(m, c)
  \/ \E key \in PoolKeys : OpenVault(m, key)
  \/ Request(m)

Next ==
  \/ \E m \in Mints : LaunchpadStep(m) \/ MintStep(m)
  \/ \E k \in ConfigKeys, m \in Mints : DbcStep(k, m)
  \/ \E f \in FakeKeys, k \in ConfigKeys, m \in Mints, c \in Creators, done \in BOOLEAN :
       Forge(f, k, m, c, done)
  \/ \E b \in Builds : UpgradeLaunch(b) \/ UpgradeVault(b)
  \/ Drift

Spec == Init /\ [][Next]_vars

-----------------------------------------------------------------------------
(* Properties.                                                             *)

AmountsOf == [launch_vault : Nat, base_vault : Nat, market : Nat, buffer : Nat,
              leaked : Nat, burnt : Nat]

MintType == [state : Addresses, decimals : Nat, supply : Nat, authority : BOOLEAN,
             made_by : {"nobody", "launch", "DBC", "creator"}]

ConfigOK(c) ==
  /\ c.exists
  /\ c.version \in Nat /\ c.decimals \in Nat /\ c.threshold \in Nat
  /\ c.creator \in Creators
  /\ c.total_supply \in 1..U64_MAX /\ c.ratio_base \in 1..U64_MAX
  /\ c.size * c.ratio_base <= c.total_supply
  /\ c.ratio \in Nat /\ c.size \in 1..U32_MAX /\ c.fee \in Nat \ {0}
  /\ \/ c.dbc_pool \in CurveKeys /\ c.dbc_config \in ConfigKeys
     \/ c.dbc_pool = NoPool /\ c.dbc_config = NoPool

(* Types of the variables.  What a record may hold is part of it: amounts that fit
   the code's integers, a size and a ratio that are not zero, and as the curve
   either none or an account that DBC itself made.                         *)
TypeOK ==
  /\ mint \in [Mints -> MintType]
  /\ tokens \in [Mints -> AmountsOf]
  /\ DOMAIN account = PoolKeys
  /\ \A key \in PoolKeys : account[key].owner \in {"system", "DBC", "other"}
  /\ buffer_ata \subseteq Mints
  /\ DOMAIN config = Mints
  /\ \A m \in Mints : config[m] = NoRecord \/ ConfigOK(config[m])
  /\ vault \in [Mints -> {NoRecord} \cup
                 [exists : {TRUE}, open : BOOLEAN, capacity : 1..U32_MAX]]
  /\ collection \in [Mints -> {"empty", "dust", "core"}]
  /\ charged \in [Mints -> SUBSET (Nat \ {0})]
  /\ launch_build \in Builds /\ vault_build \in Builds
  /\ payable \in BOOLEAN

(* A recorded launch has its whole supply accounted for: nobody can mint,
   what was not burnt by its holder is held by somebody, and the supply
   of a native launch has never left its vault - whatever mint its creator
   brought and whatever DBC does at migration.                             *)
FixedSupply ==
  \A m \in Mints : config[m].exists =>
    /\ mint[m].state = "mint" /\ ~mint[m].authority
    /\ mint[m].supply = config[m].total_supply - tokens[m].burnt
    /\ Held(tokens[m]) = mint[m].supply
    /\ config[m].dbc_pool = NoPool => tokens[m].launch_vault = config[m].total_supply

(* A vault that is open belongs to a token that DBC itself created on a curve,
   for this creator, and that curve has migrated: no copy of a curve account,
   no other graduated curve and no native launch ever opens a vault.       *)
OpenMeansGraduated ==
  \A m \in Mints : vault[m].exists /\ vault[m].open =>
    LET pool == account[CurveKey(config[m].dbc_config, m)]
    IN  /\ mint[m].made_by = "DBC"
        /\ config[m].dbc_config \in ConfigKeys
        /\ pool.owner # "system" /\ graduated(pool) /\ pool.creator = config[m].creator

(* The unsold part of a registered curve is never paid to a person: it stays in
   the base vault until somebody sends it to the buffer.                   *)
LeftoverLocked ==
  \A m \in Mints : config[m].exists => tokens[m].leaked = 0

(* validate and max_collection_size are two computations of one rule, one in base
   units with checked products, one in whole tokens: whichever build is deployed,
   the parameters that a launch accepts are those that the interface shows.  *)
ValidateExact ==
  \A p \in Params : validate(launch_build, p) <=>
    /\ p.decimals <= MAX_DECIMALS
    /\ p.ratio \in DOMAIN launch_build.fee_tiers
    /\ p.size \in MIN_COLLECTION_SIZE..max_collection_size(launch_build, p.ratio)
    /\ check_graduation_threshold(launch_build, p.threshold)

(* All the NFTs of a recorded launch together never claim more than its supply, in
   exact arithmetic, so that every later product of its ratio and a number of its
   NFTs fits u64 (state.rs, 34-35): no product that wrapped when it was compared
   has been recorded.                                                       *)
DerivedAmountsFit ==
  \A m \in Mints : config[m].exists =>
    /\ config[m].size * config[m].ratio_base <= config[m].total_supply
    /\ config[m].total_supply <= U64_MAX

(* Whichever builds are deployed later, the exits of an existing vault read its
   launch without refusing and see the collection its pool was sized for.   *)
ExitsSurviveUpgrades ==
  \A m \in Mints : vault[m].exists =>
    exit_view(m) /\ vault[m].capacity = config[m].size

(* The fee of a vault's requests is one number for ever: an upgrade that moves
   the tiers can stop its requests (FeeNotTier) but not change what they cost.
   That they are stopped is not what request.rs says: see FeeIsLeast.       *)
FeeNeverChanges ==
  \A m \in Mints : Cardinality(charged[m]) <= 1

(* What request.rs:6-7, lib.rs:17-18 of hybrid_vault and audit-fixes-round1.md:19
   (M-08, "never reverts on mismatch") say: a request of an open vault whose
   launch is supported is charged min(stored, current tier, MAX).           *)
FeeIsLeast ==
  \A m \in Mints : vault[m].exists /\ vault[m].open /\ econ(m) =>
    request_fee(m) = LeastFee(vault_build, config[m].fee, config[m].ratio)

(* Once the curve of a vault's token has migrated, anyone can open the vault,
   unless the deployed vault program does not support its launch.          *)
OpenSound ==
  \A m \in Mints, k \in ConfigKeys :
    (/\ vault[m].exists /\ ~vault[m].open
     /\ econ(m)
     /\ Exists(k, m) /\ graduated(account[CurveKey(k, m)]))
    => \E key \in PoolKeys : OpenAllowed(m, key)

\* A curve that its creator may register: an approved config with the fixed
\* supply, the buffer and the decimals the launchpad asks for.
Registrable(m, k, p) ==
  LET lp == DbcParams(m, k, p)
  IN  /\ Exists(k, m) /\ ~graduated(account[CurveKey(k, m)])
      /\ ~config[m].exists
      /\ k \in launch_build.approved
      /\ validate(launch_build, lp) /\ ConfigAccepted(k, lp)

Registers(m, k, p) ==
  RegisterAllowed(m, account[CurveKey(k, m)].creator, k, CurveKey(k, m), p)

(* Nobody can keep a creator from the next step: not with lamports at the mint's
   or the collection's address, nor by making the buffer's token account first,
   nor with copies of the curve.  (A holder who burns can: see the findings.) *)
NobodyBlocks ==
  \A m \in Mints :
    /\ mint[m].made_by = "nobody" => CreateMintAllowed(m)
    /\ \A k \in ConfigKeys, p \in Params :
         Registrable(m, k, p) /\ payable /\ tokens[m].burnt = 0 => Registers(m, k, p)
    /\ config[m].exists /\ ~vault[m].exists => (econ(m) <=> InitVaultAllowed(m))

(* What register_dbc.rs:7-8 says, "registration happens before graduation, so the
   supply check below isn't fooled by holders burning later": before graduation
   no burn of a holder can make the check refuse a sound curve.            *)
SupplyCheckNotFooled ==
  \A m \in Mints, k \in ConfigKeys, p \in Params :
    Registrable(m, k, p) /\ payable => Registers(m, k, p)
==============================================================================
