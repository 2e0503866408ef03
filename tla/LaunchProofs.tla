----------------------------- MODULE LaunchProofs -----------------------------
(***************************************************************************)
(* Theorems of LaunchLifecycle for every number of mints, creators, DBC    *)
(* configs, copies of curve accounts, parameters and builds.               *)
(***************************************************************************)
EXTENDS LaunchLifecycle, FiniteSetTheorems, TLAPS

(* The inductive invariant, mint by mint.                                   *)

CurveType(k, m) ==
  [owner : {"DBC"}, config : {k}, creator : Creators, base_mint : {m},
   spl : BOOLEAN, is_migrated : BOOLEAN, progress : {0, 1, MIGRATION_CREATED_POOL}]

Curve(k, m) == account[CurveKey(k, m)]

\* All tokens of a mint are somewhere; before it exists there are none.
MintOK(m) ==
  /\ mint[m].state \in {"empty", "dust"} =>
       tokens[m] = NoTokens /\ mint[m].supply = 0
  /\ Held(tokens[m]) = mint[m].supply

\* A curve that exists is DBC's, it made the mint, and what is missing from the
\* supply was burnt by holders or at the migration.
CurveOK(k, m) ==
  /\ Curve(k, m) \in CurveType(k, m)
  /\ Curve(k, m).is_migrated <=> Curve(k, m).progress = MIGRATION_CREATED_POOL
  /\ mint[m].made_by = "DBC"
  /\ mint[m].state = IF PoolConfig[k].spl THEN "mint" ELSE "other"
  /\ Curve(k, m).spl = PoolConfig[k].spl
  /\ mint[m].authority = ~PoolConfig[k].immutable
  /\ mint[m].supply + tokens[m].burnt =
       IF graduated(Curve(k, m)) THEN PoolConfig[k].post ELSE PoolConfig[k].pre
  /\ ~graduated(Curve(k, m)) => tokens[m].leaked = 0
  /\ PoolConfig[k].leftover_receiver = BUFFER => tokens[m].leaked = 0

CurvesOK(m) ==
  /\ \A k \in ConfigKeys : Exists(k, m) => CurveOK(k, m)
  /\ \A k1, k2 \in ConfigKeys : Exists(k1, m) /\ Exists(k2, m) => k1 = k2

Native(m) ==
  /\ config[m].dbc_pool = NoPool
  /\ mint[m].made_by = "launch" /\ mint[m].state = "mint" /\ ~mint[m].authority
  /\ tokens[m].launch_vault = config[m].total_supply /\ tokens[m].burnt = 0
  /\ tokens[m].base_vault = 0 /\ tokens[m].market = 0
  /\ tokens[m].buffer = 0 /\ tokens[m].leaked = 0

OnCurve(m) ==
  LET k == config[m].dbc_config
  IN  /\ k \in ConfigKeys /\ config[m].dbc_pool = CurveKey(k, m) /\ Exists(k, m)
      /\ Curve(k, m).creator = config[m].creator
      /\ PoolConfig[k].pre = config[m].total_supply
      /\ PoolConfig[k].post = config[m].total_supply
      /\ PoolConfig[k].immutable /\ PoolConfig[k].spl
      /\ PoolConfig[k].leftover_receiver = BUFFER

RecordOK(m) == config[m].exists => Native(m) \/ OnCurve(m)

VaultOK(m) ==
  vault[m].exists =>
    /\ config[m].exists /\ vault[m].capacity = config[m].size
    /\ vault[m].open => /\ OnCurve(m)
                        /\ graduated(Curve(config[m].dbc_config, m))

FeesOK(m) == charged[m] # {} => config[m].exists /\ charged[m] = {config[m].fee}

LaunchOK(m) ==
  MintOK(m) /\ CurvesOK(m) /\ RecordOK(m) /\ VaultOK(m) /\ FeesOK(m)

FakesOK == \A f \in FakeKeys : account[f].owner # "DBC"

IInv == TypeOK /\ FakesOK /\ \A m \in Mints : LaunchOK(m)

-----------------------------------------------------------------------------
(* What the operators of LaunchEconomics and the keys promise.              *)

(* Parameters that validate accepts give amounts that fit the code's integers and
   are not zero, and a fee that is one of the build's tiers.                *)
LEMMA AcceptedAmounts ==
  ASSUME NEW b \in Builds, NEW p,
         p.decimals \in Nat, p.ratio \in Nat, p.size \in Nat, p.threshold \in Nat,
         validate(b, p)
  PROVE  /\ total_supply_base(p) \in 1..U64_MAX /\ ratio_base(p) \in 1..U64_MAX
         /\ p.size \in 1..U32_MAX
         /\ p.size * ratio_base(p) <= total_supply_base(p)
         /\ tier_fee_lamports(b, p.ratio) \in Nat \ {0}
<1>1. /\ p.decimals \in 0..MAX_DECIMALS /\ p.ratio \in DOMAIN b.fee_tiers
      /\ MIN_COLLECTION_SIZE <= p.size /\ p.size <= b.max_size
      /\ tier_fee_lamports(b, p.ratio) # 0
      /\ total_supply_base(p) <= U64_MAX /\ ratio_base(p) <= U64_MAX
  BY WidthAssumption DEF validate, Fits
<1>2. 10 ^ p.decimals \in Nat \ {0}
  BY <1>1, WidthAssumption
<1>3. p.ratio \in 1..TOTAL_SUPPLY_WHOLE_TOKENS
  BY <1>1, BuildAssumption
<1>4. total_supply_base(p) \in Nat \ {0}
  BY <1>2, WidthAssumption DEF total_supply_base
<1>5. ratio_base(p) \in Nat \ {0}
  BY <1>2, <1>3, WidthAssumption DEF ratio_base
<1>6. p.size \in 1..U32_MAX
  BY <1>1, BuildAssumption, WidthAssumption
<1>7. tier_fee_lamports(b, p.ratio) \in Nat
  BY <1>1, BuildAssumption DEF tier_fee_lamports, fee_for_ratio
<1>8. p.size * ratio_base(p) <= total_supply_base(p)
  BY DEF validate, SupplyCovers, max_tokens_in_nft_form
<1> QED BY <1>1, <1>4, <1>5, <1>6, <1>7, <1>8, WidthAssumption

(* DBC's own accounts have addresses of their own, one per config and mint. *)
LEMMA Keys ==
  /\ \A k \in ConfigKeys, m \in Mints :
       /\ CurveKey(k, m) \in PoolKeys /\ CurveKey(k, m) \in CurveKeys
       /\ CurveKey(k, m) \notin FakeKeys /\ CurveKey(k, m) # NoPool
  /\ \A key \in CurveKeys : \E k \in ConfigKeys, m \in Mints : key = CurveKey(k, m)
  /\ \A k, l \in ConfigKeys, m, n \in Mints :
       CurveKey(k, m) = CurveKey(l, n) => k = l /\ m = n
BY KeysAssumption DEF CurveKey, CurveKeys, PoolKeys, NoPool

(* What a curve's config holds.                                             *)
LEMMA ConfigFacts ==
  ASSUME NEW k \in ConfigKeys
  PROVE  /\ PoolConfig[k].spl \in BOOLEAN /\ PoolConfig[k].immutable \in BOOLEAN
         /\ PoolConfig[k].decimals \in Nat /\ PoolConfig[k].threshold \in Nat
         /\ PoolConfig[k].pre \in Nat /\ PoolConfig[k].post \in Nat
         /\ PoolConfig[k].post <= PoolConfig[k].pre
BY PoolConfigAssumption

(* A mint of which a step changes nothing keeps its invariant.              *)
LEMMA Frame ==
  ASSUME NEW m \in Mints, LaunchOK(m),
         mint'[m] = mint[m], tokens'[m] = tokens[m],
         \A k \in ConfigKeys : account'[CurveKey(k, m)] = account[CurveKey(k, m)],
         config'[m] = config[m], vault'[m] = vault[m], charged'[m] = charged[m]
  PROVE  LaunchOK(m)'
<1>1. MintOK(m)'
  BY DEF LaunchOK, MintOK
<1>2. CurvesOK(m)'
  BY DEF LaunchOK, CurvesOK, CurveOK, Curve, Exists
<1>3. ASSUME OnCurve(m)
      PROVE  OnCurve(m)'
  BY <1>3 DEF OnCurve, Curve, Exists
<1>4. RecordOK(m)'
  BY <1>3 DEF LaunchOK, RecordOK, Native
<1>5. VaultOK(m)'
  BY <1>3 DEF LaunchOK, VaultOK, OnCurve, Curve
<1>6. FeesOK(m)'
  BY DEF LaunchOK, FeesOK
<1> QED BY <1>1, <1>2, <1>4, <1>5, <1>6 DEF LaunchOK

-----------------------------------------------------------------------------
(* Steps that touch no launch.                                              *)

LEMMA BystanderKeeps ==
  ASSUME IInv,
         UNCHANGED <<mint, tokens, account, config, vault, charged>>,
         buffer_ata' \subseteq Mints,
         collection' \in [Mints -> {"empty", "dust", "core"}],
         launch_build' \in Builds, vault_build' \in Builds, payable' \in BOOLEAN
  PROVE  IInv'
<1>1. TypeOK'
  BY DEF IInv, TypeOK, MintType, AmountsOf, Addresses, ConfigOK, NoRecord, CurveKeys
<1>2. FakesOK'
  BY DEF IInv, FakesOK
<1>3. \A m \in Mints : LaunchOK(m)'
  BY Frame DEF IInv
<1> QED BY <1>1, <1>2, <1>3 DEF IInv

LEMMA WorldKeeps ==
  ASSUME IInv,
         \/ UNCHANGED vars
         \/ Drift
         \/ \E b \in Builds : UpgradeLaunch(b) \/ UpgradeVault(b)
         \/ \E m \in Mints : PrefundCollection(m) \/ CreateBufferAta(m)
  PROVE  IInv'
<1> USE DEF vars, chain, records, builds
<1>1. CASE UNCHANGED vars
  BY <1>1, BystanderKeeps DEF IInv, TypeOK
<1>2. CASE Drift
  BY <1>2, BystanderKeeps DEF IInv, TypeOK, Drift
<1>3. CASE \E b \in Builds : UpgradeLaunch(b) \/ UpgradeVault(b)
  BY <1>3, BystanderKeeps DEF IInv, TypeOK, UpgradeLaunch, UpgradeVault
<1>4. CASE \E m \in Mints : PrefundCollection(m)
  BY <1>4, BystanderKeeps DEF IInv, TypeOK, PrefundCollection
<1>5. CASE \E m \in Mints : CreateBufferAta(m)
  BY <1>5, BystanderKeeps DEF IInv, TypeOK, CreateBufferAta
<1> QED BY <1>1, <1>2, <1>3, <1>4, <1>5

(* A copy of a curve account is no curve.                                   *)
LEMMA ForgeKeeps ==
  ASSUME IInv, NEW f \in FakeKeys, NEW k \in ConfigKeys, NEW m \in Mints,
         NEW c \in Creators, NEW done \in BOOLEAN, Forge(f, k, m, c, done)
  PROVE  IInv'
<1> USE DEF Forge, records, builds
<1>1. /\ DOMAIN account' = PoolKeys /\ account'[f].owner = "other"
      /\ \A key \in PoolKeys : key # f => account'[key] = account[key]
  BY DEF IInv, TypeOK, PoolKeys
<1>2. TypeOK'
  BY <1>1 DEF IInv, TypeOK, MintType, AmountsOf, Addresses, ConfigOK, NoRecord, CurveKeys
<1>3. FakesOK'
  BY <1>1 DEF IInv, FakesOK, PoolKeys
<1>4. \A n \in Mints : LaunchOK(n)'
  BY <1>1, Frame, Keys DEF IInv
<1> QED BY <1>2, <1>3, <1>4 DEF IInv

-----------------------------------------------------------------------------
(* Types of one mint, as facts the provers can use.                         *)

LEMMA MintFacts ==
  ASSUME TypeOK, NEW m \in Mints
  PROVE  /\ mint[m].state \in Addresses /\ mint[m].decimals \in Nat
         /\ mint[m].supply \in Nat /\ mint[m].authority \in BOOLEAN
         /\ tokens[m] \in AmountsOf
         /\ tokens[m].launch_vault \in Nat /\ tokens[m].base_vault \in Nat
         /\ tokens[m].market \in Nat /\ tokens[m].buffer \in Nat
         /\ tokens[m].leaked \in Nat /\ tokens[m].burnt \in Nat
BY DEF TypeOK, MintType, AmountsOf

\* What the provers must be told of records that are changed field by field.
LEMMA TokensChange ==
  ASSUME TypeOK, NEW m \in Mints, NEW t \in AmountsOf,
         tokens' = [tokens EXCEPT ![m] = t]
  PROVE  /\ tokens' \in [Mints -> AmountsOf] /\ tokens'[m] = t
         /\ \A n \in Mints : n # m => tokens'[n] = tokens[n]
BY DEF TypeOK

-----------------------------------------------------------------------------
(* Steps around a mint.                                                     *)

LEMMA NotYet ==
  ASSUME IInv, NEW m \in Mints, mint[m].state \in {"empty", "dust"}
  PROVE  /\ \A k \in ConfigKeys : ~Exists(k, m)
         /\ ~config[m].exists /\ ~vault[m].exists /\ charged[m] = {}
         /\ tokens[m] = NoTokens
<1>1. \A k \in ConfigKeys : ~Exists(k, m)
  BY DEF IInv, LaunchOK, CurvesOK, CurveOK
<1>2. ~config[m].exists
  BY <1>1 DEF IInv, LaunchOK, RecordOK, Native, OnCurve
<1> QED BY <1>1, <1>2 DEF IInv, LaunchOK, MintOK, VaultOK, FeesOK

LEMMA PrefundMintKeeps ==
  ASSUME IInv, NEW m \in Mints, PrefundMint(m)
  PROVE  IInv'
<1> USE DEF PrefundMint, records, builds
<1>1. mint' \in [Mints -> MintType]
  BY DEF IInv, TypeOK, MintType, NoMint, Addresses
<1>2. TypeOK'
  BY <1>1 DEF IInv, TypeOK, ConfigOK
<1>3. FakesOK'
  BY DEF IInv, FakesOK
<1>4. LaunchOK(m)'
  <2>1. /\ \A k \in ConfigKeys : ~Exists(k, m)
        /\ ~config[m].exists /\ ~vault[m].exists /\ charged[m] = {}
        /\ tokens[m] = NoTokens
    BY NotYet
  <2>2. mint'[m] = NoMint("dust")
    BY DEF IInv, TypeOK
  <2>3. MintOK(m)'
    BY <2>1, <2>2 DEF MintOK, NoMint, Held, NoTokens
  <2>4. CurvesOK(m)'
    BY <2>1 DEF CurvesOK, Exists
  <2> QED BY <2>1, <2>3, <2>4 DEF LaunchOK, RecordOK, VaultOK, FeesOK
<1>5. ASSUME NEW n \in Mints, n # m
      PROVE  LaunchOK(n)'
  BY <1>5, Frame DEF IInv, TypeOK
<1> QED BY <1>2, <1>3, <1>4, <1>5 DEF IInv

LEMMA ForeignMintKeeps ==
  ASSUME IInv, NEW m \in Mints, NEW p \in Params, NEW state \in {"mint", "other"},
         NEW kept \in BOOLEAN, ForeignMint(m, p, state, kept)
  PROVE  IInv'
<1> USE DEF ForeignMint, records, builds
<1>1. total_supply_base(p) \in Nat /\ p.decimals \in Nat
  BY ParamsAssumption, WidthAssumption DEF total_supply_base
<1>2. mint' \in [Mints -> MintType]
  BY <1>1 DEF IInv, TypeOK, MintType, Addresses
<1>3. /\ \A k \in ConfigKeys : ~Exists(k, m)
      /\ ~config[m].exists /\ ~vault[m].exists /\ charged[m] = {}
      /\ tokens[m] = NoTokens
  BY NotYet
<1>4. /\ tokens' \in [Mints -> AmountsOf]
      /\ tokens'[m] = [NoTokens EXCEPT !.market = total_supply_base(p)]
      /\ \A n \in Mints : n # m => tokens'[n] = tokens[n]
  <2> DEFINE t == [NoTokens EXCEPT !.market = total_supply_base(p)]
  <2>1. t \in AmountsOf
    BY <1>1 DEF NoTokens, AmountsOf
  <2>2. tokens' = [tokens EXCEPT ![m] = t]
    BY <1>3
  <2> QED BY <2>1, <2>2, TokensChange DEF IInv
<1>5. TypeOK'
  BY <1>2, <1>4 DEF IInv, TypeOK, ConfigOK
<1>6. FakesOK'
  BY DEF IInv, FakesOK
<1>7. LaunchOK(m)'
  <2>1. mint'[m].state = state /\ mint'[m].supply = total_supply_base(p)
    BY DEF IInv, TypeOK
  <2>2. Held(tokens[m])' = total_supply_base(p)
    BY <1>1, <1>4 DEF Held, NoTokens
  <2>3. MintOK(m)'
    BY <2>1, <2>2 DEF MintOK
  <2>4. CurvesOK(m)'
    BY <1>3 DEF CurvesOK, Exists
  <2> QED BY <1>3, <2>3, <2>4 DEF LaunchOK, RecordOK, VaultOK, FeesOK
<1>8. ASSUME NEW n \in Mints, n # m
      PROVE  LaunchOK(n)'
  BY <1>4, <1>8, Frame DEF IInv, TypeOK
<1> QED BY <1>5, <1>6, <1>7, <1>8 DEF IInv

LEMMA BurntAmounts ==
  ASSUME NEW r \in AmountsOf, r.market > 0, r.burnt = 0,
         NEW t, t = [r EXCEPT !.market = @ - 1, !.burnt = @ + 1]
  PROVE  /\ t \in AmountsOf /\ t.market = r.market - 1 /\ t.burnt = 1
         /\ t.launch_vault = r.launch_vault /\ t.base_vault = r.base_vault
         /\ t.buffer = r.buffer /\ t.leaked = r.leaked
<1>1. r.market - 1 \in Nat /\ r.burnt + 1 \in Nat /\ r.burnt + 1 = 1
  BY DEF AmountsOf
<1>2. t \in AmountsOf
  BY <1>1 DEF AmountsOf
<1>3. t.market = r.market - 1
  BY DEF AmountsOf
<1>4. t.burnt = 1
  BY <1>1 DEF AmountsOf
<1>5. /\ t.launch_vault = r.launch_vault /\ t.base_vault = r.base_vault
      /\ t.buffer = r.buffer /\ t.leaked = r.leaked
  BY DEF AmountsOf
<1> QED BY <1>2, <1>3, <1>4, <1>5

LEMMA BurnKeeps ==
  ASSUME IInv, NEW m \in Mints, Burn(m)
  PROVE  IInv'
<1> USE DEF Burn, records, builds
<1> DEFINE t == [tokens[m] EXCEPT !.market = @ - 1, !.burnt = @ + 1]
<1>1. /\ tokens[m] \in AmountsOf /\ tokens[m].market > 0 /\ tokens[m].burnt = 0
      /\ mint[m].supply \in Nat
  BY MintFacts DEF IInv
<1>2. /\ t \in AmountsOf /\ t.market = tokens[m].market - 1 /\ t.burnt = 1
      /\ t.launch_vault = tokens[m].launch_vault /\ t.base_vault = tokens[m].base_vault
      /\ t.buffer = tokens[m].buffer /\ t.leaked = tokens[m].leaked
  BY <1>1, BurntAmounts
<1>3. /\ tokens' \in [Mints -> AmountsOf] /\ tokens'[m] = t
      /\ \A n \in Mints : n # m => tokens'[n] = tokens[n]
  <2>1. tokens' = [tokens EXCEPT ![m] = t]
    OBVIOUS
  <2> QED BY <2>1, <1>2, TokensChange DEF IInv
<1>4. Held(tokens[m]) = mint[m].supply /\ Held(t) = mint[m].supply - 1
  BY <1>1, <1>2 DEF IInv, LaunchOK, MintOK, Held, AmountsOf
<1>5. mint[m].supply > 0
  BY <1>1, <1>4 DEF Held, AmountsOf
<1>6. /\ mint'[m].state = mint[m].state /\ mint'[m].supply = mint[m].supply - 1
      /\ mint'[m].made_by = mint[m].made_by /\ mint'[m].authority = mint[m].authority
      /\ \A n \in Mints : n # m => mint'[n] = mint[n]
  BY DEF IInv, TypeOK, MintType
<1>7. mint' \in [Mints -> MintType]
  BY <1>1, <1>5 DEF IInv, TypeOK, MintType
<1>8. TypeOK'
  BY <1>3, <1>7 DEF IInv, TypeOK, ConfigOK
<1>9. FakesOK'
  BY DEF IInv, FakesOK
<1>10. LaunchOK(m)'
  <2>1. MintOK(m)'
    <3>1. mint[m].state \notin {"empty", "dust"}
      BY <1>1 DEF IInv, LaunchOK, MintOK, NoTokens
    <3> QED BY <3>1, <1>3, <1>4, <1>6 DEF MintOK
  <2>2. ASSUME NEW k \in ConfigKeys, Exists(k, m)
        PROVE  CurveOK(k, m)'
    <3>1. CurveOK(k, m)
      BY <2>2 DEF IInv, LaunchOK, CurvesOK
    <3>2. mint'[m].supply + tokens'[m].burnt = mint[m].supply + tokens[m].burnt
      BY <1>1, <1>2, <1>3, <1>6
    <3> QED BY <3>1, <3>2, <1>2, <1>3, <1>6 DEF CurveOK, Curve
  <2>3. CurvesOK(m)'
    BY <2>2 DEF IInv, LaunchOK, CurvesOK, Exists
  <2>4. ~Native(m)
    BY <1>1 DEF Native
  <2>5. RecordOK(m)'
    BY <2>4 DEF IInv, LaunchOK, RecordOK, OnCurve, Curve, Exists
  <2>6. VaultOK(m)'
    BY DEF IInv, LaunchOK, VaultOK, OnCurve, Curve, Exists
  <2>7. FeesOK(m)'
    BY DEF IInv, LaunchOK, FeesOK
  <2> QED BY <2>1, <2>3, <2>5, <2>6, <2>7 DEF LaunchOK
<1>11. ASSUME NEW n \in Mints, n # m
       PROVE  LaunchOK(n)'
  BY <1>3, <1>6, <1>11, Frame DEF IInv
<1> QED BY <1>8, <1>9, <1>10, <1>11 DEF IInv

-----------------------------------------------------------------------------
(* Steps of a curve.                                                        *)

\* A step of a curve that changes its account, if at all, and some amounts.
LEMMA AccountChange ==
  ASSUME TypeOK, NEW k \in ConfigKeys, NEW m \in Mints, NEW a \in CurveType(k, m),
         account' = [account EXCEPT ![CurveKey(k, m)] = a]
  PROVE  /\ DOMAIN account' = PoolKeys
         /\ \A key \in PoolKeys : account'[key].owner \in {"system", "DBC", "other"}
         /\ \A f \in FakeKeys : account'[f] = account[f]
         /\ Curve(k, m)' = a
         /\ \A l \in ConfigKeys, n \in Mints :
              l # k \/ n # m => account'[CurveKey(l, n)] = account[CurveKey(l, n)]
<1>1. CurveKey(k, m) \in PoolKeys /\ CurveKey(k, m) \in DOMAIN account
  BY Keys DEF TypeOK
<1>2. a.owner = "DBC"
  BY DEF CurveType
<1>3. DOMAIN account' = PoolKeys /\ account'[CurveKey(k, m)] = a
  BY <1>1 DEF TypeOK
<1>4. \A key \in PoolKeys : key # CurveKey(k, m) => account'[key] = account[key]
  BY DEF TypeOK
<1>5. \A key \in PoolKeys : account'[key].owner \in {"system", "DBC", "other"}
  BY <1>2, <1>3, <1>4 DEF TypeOK
<1>6. \A f \in FakeKeys : account'[f] = account[f]
  BY <1>4, Keys DEF PoolKeys
<1>7. \A l \in ConfigKeys, n \in Mints :
        l # k \/ n # m => account'[CurveKey(l, n)] = account[CurveKey(l, n)]
  BY <1>4, Keys
<1> QED BY <1>3, <1>5, <1>6, <1>7 DEF Curve

LEMMA CreateCurveKeeps ==
  ASSUME IInv, NEW k \in ConfigKeys, NEW m \in Mints, NEW c \in Creators,
         CreateCurve(k, m, c)
  PROVE  IInv'
<1> USE DEF records, builds
<1> DEFINE cfg == PoolConfig[k]
           made == [state |-> IF cfg.spl THEN "mint" ELSE "other",
                    decimals |-> cfg.decimals, supply |-> cfg.pre,
                    authority |-> ~cfg.immutable, made_by |-> "DBC"]
           a == [owner |-> "DBC", config |-> k, creator |-> c, base_mint |-> m,
                 spl |-> cfg.spl, is_migrated |-> FALSE, progress |-> 0]
           t == [NoTokens EXCEPT !.base_vault = cfg.pre]
<1>1. /\ mint[m].state \in {"empty", "dust"}
      /\ mint' = [mint EXCEPT ![m] = made]
      /\ tokens' = [tokens EXCEPT ![m].base_vault = cfg.pre]
      /\ account' = [account EXCEPT ![CurveKey(k, m)] = a]
      /\ UNCHANGED <<buffer_ata, collection, config, vault, charged,
                     launch_build, vault_build, payable>>
  BY DEF CreateCurve
<1>2. /\ \A l \in ConfigKeys : ~Exists(l, m)
      /\ ~config[m].exists /\ ~vault[m].exists /\ charged[m] = {}
      /\ tokens[m] = NoTokens
  BY <1>1, NotYet
<1>3. t \in AmountsOf /\ a \in CurveType(k, m)
  BY ConfigFacts DEF NoTokens, AmountsOf, CurveType
<1>4. /\ tokens' \in [Mints -> AmountsOf] /\ tokens'[m] = t
      /\ \A n \in Mints : n # m => tokens'[n] = tokens[n]
  <2>1. tokens' = [tokens EXCEPT ![m] = t]
    BY <1>1, <1>2
  <2> HIDE DEF t
  <2> QED BY <2>1, <1>3, TokensChange DEF IInv
<1>5. /\ mint' \in [Mints -> MintType]
      /\ mint'[m] = made /\ \A n \in Mints : n # m => mint'[n] = mint[n]
  BY <1>1, ConfigFacts DEF IInv, TypeOK, MintType, Addresses
<1>6. /\ DOMAIN account' = PoolKeys
      /\ \A key \in PoolKeys : account'[key].owner \in {"system", "DBC", "other"}
      /\ \A f \in FakeKeys : account'[f] = account[f]
      /\ Curve(k, m)' = a
      /\ \A l \in ConfigKeys, n \in Mints :
           l # k \/ n # m => account'[CurveKey(l, n)] = account[CurveKey(l, n)]
  <2> HIDE DEF a
  <2> QED BY <1>1, <1>3, AccountChange DEF IInv
<1>7. TypeOK'
  BY <1>1, <1>4, <1>5, <1>6 DEF IInv, TypeOK, ConfigOK
<1>8. FakesOK'
  BY <1>6 DEF IInv, FakesOK
<1>9. LaunchOK(m)'
  <2>1. MintOK(m)'
    BY <1>4, <1>5, ConfigFacts DEF MintOK, Held, NoTokens
  <2>2. CurveOK(k, m)'
    <3>1. ~graduated(a)
      BY DEF graduated
    <3>2. a.is_migrated <=> a.progress = MIGRATION_CREATED_POOL
      BY DEF MIGRATION_CREATED_POOL
    <3>3. made.supply + t.burnt = cfg.pre /\ t.leaked = 0
      BY ConfigFacts DEF NoTokens
    <3>4. Curve(k, m)' = a /\ tokens'[m] = t /\ mint'[m] = made
      BY <1>4, <1>5, <1>6
    <3>5. graduated(Curve(k, m))' <=> graduated(a)
      BY <3>4 DEF graduated
    <3> QED BY <1>3, <3>1, <3>2, <3>3, <3>4, <3>5 DEF CurveOK
  <2>3. \A l \in ConfigKeys : l # k => ~Exists(l, m)'
    BY <1>2, <1>6 DEF Exists
  <2>4. CurvesOK(m)'
    BY <2>2, <2>3 DEF CurvesOK
  <2> QED BY <1>1, <1>2, <2>1, <2>4 DEF LaunchOK, RecordOK, VaultOK, FeesOK
<1>10. ASSUME NEW n \in Mints, n # m
       PROVE  LaunchOK(n)'
  <2>1. /\ LaunchOK(n) /\ mint'[n] = mint[n] /\ tokens'[n] = tokens[n]
        /\ config'[n] = config[n] /\ vault'[n] = vault[n] /\ charged'[n] = charged[n]
    BY <1>1, <1>4, <1>5, <1>10 DEF IInv
  <2>2. \A l \in ConfigKeys : account'[CurveKey(l, n)] = account[CurveKey(l, n)]
    BY <1>6, <1>10
  <2> QED BY <2>1, <2>2, Frame
<1> QED BY <1>7, <1>8, <1>9, <1>10 DEF IInv

(* Every step of a curve that exists changes the curve's account, the amounts and
   the supply of its mint, and keeps what CurveOK says of them.             *)
LEMMA CurveStepKeeps ==
  ASSUME IInv, NEW k \in ConfigKeys, NEW m \in Mints, Exists(k, m),
         DOMAIN account' = PoolKeys,
         \A key \in PoolKeys : key # CurveKey(k, m) => account'[key] = account[key],
         Curve(k, m)' \in CurveType(k, m),
         Curve(k, m)'.creator = Curve(k, m).creator, Curve(k, m)'.spl = Curve(k, m).spl,
         Curve(k, m)'.is_migrated <=> Curve(k, m)'.progress = MIGRATION_CREATED_POOL,
         graduated(Curve(k, m)) => graduated(Curve(k, m))',
         tokens' \in [Mints -> AmountsOf], mint' \in [Mints -> MintType],
         \A n \in Mints : n # m => tokens'[n] = tokens[n] /\ mint'[n] = mint[n],
         mint'[m].state = mint[m].state,
         mint'[m].made_by = mint[m].made_by, mint'[m].authority = mint[m].authority,
         Held(tokens'[m]) = mint'[m].supply,
         mint'[m].supply + tokens'[m].burnt =
           IF graduated(Curve(k, m))' THEN PoolConfig[k].post ELSE PoolConfig[k].pre,
         ~graduated(Curve(k, m))' => tokens'[m].leaked = 0,
         PoolConfig[k].leftover_receiver = BUFFER => tokens'[m].leaked = 0,
         UNCHANGED <<buffer_ata, collection, config, vault, charged,
                     launch_build, vault_build, payable>>
  PROVE  IInv'
<1>2. Curve(k, m)'.owner = "DBC"
  BY DEF CurveType
<1>3. \A key \in PoolKeys : account'[key].owner \in {"system", "DBC", "other"}
  BY <1>2 DEF IInv, TypeOK, Curve
<1>4. TypeOK'
  BY <1>3 DEF IInv, TypeOK, ConfigOK
<1>5. FakesOK'
  <2>1. \A f \in FakeKeys : account'[f] = account[f]
    BY Keys DEF PoolKeys
  <2> QED BY <2>1 DEF IInv, FakesOK
<1>6. CurveOK(k, m)
  BY DEF IInv, LaunchOK, CurvesOK
<1>7. \A l \in ConfigKeys : l # k => ~Exists(l, m)
  BY DEF IInv, LaunchOK, CurvesOK
<1>8. \A l \in ConfigKeys, n \in Mints :
        l # k \/ n # m => account'[CurveKey(l, n)] = account[CurveKey(l, n)]
  BY Keys
<1>9. LaunchOK(m)'
  <2>1. MintOK(m)'
    <3>1. mint[m].state \in {"mint", "other"}
      BY <1>6 DEF CurveOK
    <3> QED BY <3>1 DEF MintOK
  <2>2. CurveOK(k, m)'
    <3>1. /\ mint'[m].made_by = "DBC"
          /\ mint'[m].state = IF PoolConfig[k].spl THEN "mint" ELSE "other"
          /\ Curve(k, m)'.spl = PoolConfig[k].spl /\ mint'[m].authority = ~PoolConfig[k].immutable
      BY <1>6 DEF CurveOK
    <3> QED BY <3>1 DEF CurveOK
  <2>3. \A l \in ConfigKeys : l # k => ~Exists(l, m)'
    BY <1>7, <1>8 DEF Exists
  <2>4. Exists(k, m)'
    BY <1>2 DEF Exists, Curve
  <2>5. CurvesOK(m)'
    BY <2>2, <2>3 DEF CurvesOK
  <2>6. ~Native(m)
    BY <1>6 DEF CurveOK, Native
  <2>7. ASSUME OnCurve(m)
        PROVE  config[m].dbc_config = k /\ OnCurve(m)'
    <3>1. config[m].dbc_config = k
      BY <1>7, <2>7 DEF OnCurve
    <3> QED BY <3>1, <2>4, <2>7 DEF OnCurve
  <2>8. RecordOK(m)'
    BY <2>6, <2>7 DEF IInv, LaunchOK, RecordOK
  <2>9. VaultOK(m)'
    <3>1. SUFFICES ASSUME vault[m].exists, vault[m].open
                   PROVE  OnCurve(m)' /\ graduated(Curve(config[m].dbc_config, m))'
      BY DEF IInv, LaunchOK, VaultOK
    <3>2. OnCurve(m) /\ graduated(Curve(config[m].dbc_config, m))
      BY <3>1 DEF IInv, LaunchOK, VaultOK
    <3>3. config[m].dbc_config = k /\ OnCurve(m)'
      BY <2>7, <3>2
    <3> QED BY <3>2, <3>3
  <2>10. FeesOK(m)'
    BY DEF IInv, LaunchOK, FeesOK
  <2> QED BY <2>1, <2>5, <2>8, <2>9, <2>10 DEF LaunchOK
<1>10. ASSUME NEW n \in Mints, n # m
       PROVE  LaunchOK(n)'
  <2>1. /\ LaunchOK(n) /\ mint'[n] = mint[n] /\ tokens'[n] = tokens[n]
        /\ config'[n] = config[n] /\ vault'[n] = vault[n] /\ charged'[n] = charged[n]
    BY <1>10 DEF IInv
  <2>2. \A l \in ConfigKeys : account'[CurveKey(l, n)] = account[CurveKey(l, n)]
    BY <1>8, <1>10
  <2> QED BY <2>1, <2>2, Frame
<1> QED BY <1>4, <1>5, <1>9, <1>10 DEF IInv

\* What each step does to the amounts.
LEMMA BoughtAmounts ==
  ASSUME NEW r \in AmountsOf, r.base_vault > 0,
         NEW t, t = [r EXCEPT !.base_vault = @ - 1, !.market = @ + 1]
  PROVE  /\ t \in AmountsOf /\ Held(t) = Held(r)
         /\ t.burnt = r.burnt /\ t.leaked = r.leaked
<1>1. r.base_vault - 1 \in Nat /\ r.market + 1 \in Nat
  BY DEF AmountsOf
<1>2. t \in AmountsOf
  BY <1>1 DEF AmountsOf
<1>3. /\ t.base_vault = r.base_vault - 1 /\ t.market = r.market + 1
      /\ t.launch_vault = r.launch_vault /\ t.buffer = r.buffer
      /\ t.burnt = r.burnt /\ t.leaked = r.leaked
  BY DEF AmountsOf
<1>4. Held(t) = Held(r)
  BY <1>3 DEF Held, AmountsOf
<1> QED BY <1>2, <1>3, <1>4

LEMMA WithdrawnAmounts ==
  ASSUME NEW r \in AmountsOf, NEW locked \in BOOLEAN,
         NEW t, t = IF locked THEN [r EXCEPT !.buffer = @ + r.base_vault, !.base_vault = 0]
                              ELSE [r EXCEPT !.leaked = @ + r.base_vault, !.base_vault = 0]
  PROVE  /\ t \in AmountsOf /\ Held(t) = Held(r)
         /\ t.burnt = r.burnt /\ locked => t.leaked = r.leaked
<1>1. CASE locked
  <2>1. r.buffer + r.base_vault \in Nat
    BY DEF AmountsOf
  <2>2. t \in AmountsOf
    BY <1>1, <2>1 DEF AmountsOf
  <2>3. /\ t.base_vault = 0 /\ t.buffer = r.buffer + r.base_vault
        /\ t.launch_vault = r.launch_vault /\ t.market = r.market
        /\ t.burnt = r.burnt /\ t.leaked = r.leaked
    BY <1>1 DEF AmountsOf
  <2>4. Held(t) = Held(r)
    BY <2>3 DEF Held, AmountsOf
  <2> QED BY <2>2, <2>3, <2>4
<1>2. CASE ~locked
  <2>1. r.leaked + r.base_vault \in Nat
    BY DEF AmountsOf
  <2>2. t \in AmountsOf
    BY <1>2, <2>1 DEF AmountsOf
  <2>3. /\ t.base_vault = 0 /\ t.leaked = r.leaked + r.base_vault
        /\ t.launch_vault = r.launch_vault /\ t.market = r.market
        /\ t.burnt = r.burnt /\ t.buffer = r.buffer
    BY <1>2 DEF AmountsOf
  <2>4. Held(t) = Held(r)
    BY <2>3 DEF Held, AmountsOf
  <2> QED BY <1>2, <2>2, <2>3, <2>4
<1> QED BY <1>1, <1>2

LEMMA CurveFacts ==
  ASSUME IInv, NEW k \in ConfigKeys, NEW m \in Mints, Exists(k, m)
  PROVE  /\ Curve(k, m) \in CurveType(k, m) /\ CurveOK(k, m)
         /\ Held(tokens[m]) = mint[m].supply
         /\ DOMAIN account = PoolKeys /\ CurveKey(k, m) \in PoolKeys
         /\ tokens[m] \in AmountsOf /\ tokens[m].burnt \in Nat
         /\ mint[m].supply \in Nat /\ mint \in [Mints -> MintType]
BY Keys, MintFacts DEF IInv, LaunchOK, CurvesOK, CurveOK, MintOK, TypeOK

LEMMA BuyKeeps ==
  ASSUME IInv, NEW k \in ConfigKeys, NEW m \in Mints, Buy(k, m)
  PROVE  IInv'
<1> USE DEF Buy, records, builds
<1> DEFINE t == [tokens[m] EXCEPT !.base_vault = @ - 1, !.market = @ + 1]
<1>1. Exists(k, m) /\ tokens[m].base_vault > 0
  OBVIOUS
<1>2. /\ Curve(k, m) \in CurveType(k, m) /\ CurveOK(k, m)
      /\ Held(tokens[m]) = mint[m].supply
      /\ DOMAIN account = PoolKeys /\ tokens[m] \in AmountsOf
      /\ mint[m].supply \in Nat /\ mint \in [Mints -> MintType]
  BY <1>1, CurveFacts
<1>3. /\ t \in AmountsOf /\ Held(t) = Held(tokens[m])
      /\ t.burnt = tokens[m].burnt /\ t.leaked = tokens[m].leaked
  BY <1>1, <1>2, BoughtAmounts
<1>4. /\ tokens' \in [Mints -> AmountsOf] /\ tokens'[m] = t
      /\ \A n \in Mints : n # m => tokens'[n] = tokens[n]
  <2>1. tokens' = [tokens EXCEPT ![m] = t]
    OBVIOUS
  <2> HIDE DEF t
  <2> QED BY <1>3, <2>1, TokensChange DEF IInv
<1>5. /\ Curve(k, m).is_migrated <=> Curve(k, m).progress = MIGRATION_CREATED_POOL
      /\ mint[m].supply + t.burnt =
           IF graduated(Curve(k, m)) THEN PoolConfig[k].post ELSE PoolConfig[k].pre
      /\ ~graduated(Curve(k, m)) => t.leaked = 0
      /\ PoolConfig[k].leftover_receiver = BUFFER => t.leaked = 0
  BY <1>2, <1>3 DEF CurveOK
<1>6. /\ mint' = mint /\ account' = account /\ Curve(k, m)' = Curve(k, m)
      /\ graduated(Curve(k, m))' <=> graduated(Curve(k, m))
      /\ UNCHANGED <<buffer_ata, collection, config, vault, charged,
                     launch_build, vault_build, payable>>
  BY DEF Curve
<1> HIDE DEF t, Buy
<1> QED BY <1>1, <1>2, <1>3, <1>4, <1>5, <1>6, CurveStepKeeps

LEMMA CompleteKeeps ==
  ASSUME IInv, NEW k \in ConfigKeys, NEW m \in Mints, Complete(k, m)
  PROVE  IInv'
<1> USE DEF Complete, records, builds
<1> DEFINE a == [Curve(k, m) EXCEPT !.progress = 1]
<1>1. Exists(k, m) /\ Curve(k, m).progress = 0
  BY DEF Curve
<1>2. /\ Curve(k, m) \in CurveType(k, m) /\ CurveOK(k, m)
      /\ Held(tokens[m]) = mint[m].supply
      /\ DOMAIN account = PoolKeys /\ CurveKey(k, m) \in PoolKeys
      /\ tokens[m] \in AmountsOf
      /\ mint[m].supply \in Nat /\ mint \in [Mints -> MintType]
  BY <1>1, CurveFacts
<1>3. /\ a \in CurveType(k, m) /\ a.creator = Curve(k, m).creator
      /\ a.spl = Curve(k, m).spl /\ a.is_migrated = Curve(k, m).is_migrated
      /\ a.progress = 1
  BY <1>2 DEF CurveType
<1>4. ~graduated(Curve(k, m)) /\ ~graduated(a) /\ ~a.is_migrated
  BY <1>1, <1>2, <1>3 DEF CurveOK, graduated, MIGRATION_CREATED_POOL
<1>5. a.is_migrated <=> a.progress = MIGRATION_CREATED_POOL
  BY <1>3, <1>4 DEF MIGRATION_CREATED_POOL
<1>6. account' = [account EXCEPT ![CurveKey(k, m)] = a]
  BY DEF Curve
<1>7. /\ DOMAIN account' = PoolKeys /\ Curve(k, m)' = a
      /\ \A key \in PoolKeys : key # CurveKey(k, m) => account'[key] = account[key]
      /\ graduated(Curve(k, m))' <=> graduated(a)
  BY <1>2, <1>6 DEF Curve, graduated
<1>8. tokens' \in [Mints -> AmountsOf] /\ tokens' = tokens
  BY DEF IInv, TypeOK
<1>9. mint[m].supply + tokens[m].burnt = PoolConfig[k].pre /\ tokens[m].leaked = 0
  BY <1>2, <1>4 DEF CurveOK
<1>10. /\ mint' = mint
       /\ UNCHANGED <<buffer_ata, collection, config, vault, charged,
                      launch_build, vault_build, payable>>
  OBVIOUS
<1> HIDE DEF a, Complete
<1> QED BY <1>1, <1>2, <1>3, <1>4, <1>5, <1>7, <1>8, <1>9, <1>10, CurveStepKeeps

LEMMA MigrateKeeps ==
  ASSUME IInv, NEW k \in ConfigKeys, NEW m \in Mints, Migrate(k, m)
  PROVE  IInv'
<1> USE DEF records, builds
<1>1. Exists(k, m) /\ Curve(k, m).progress = 1
  BY DEF Migrate, Curve
<1>2. /\ Curve(k, m) \in CurveType(k, m) /\ CurveOK(k, m)
      /\ Held(tokens[m]) = mint[m].supply
      /\ DOMAIN account = PoolKeys /\ CurveKey(k, m) \in PoolKeys
      /\ tokens[m] \in AmountsOf /\ tokens[m].burnt \in Nat
      /\ mint[m].supply \in Nat /\ mint \in [Mints -> MintType]
  BY <1>1, CurveFacts
<1>3. PICK burn \in Nat : burn = PoolConfig[k].pre - PoolConfig[k].post
  BY ConfigFacts
<1>4. PICK rest \in 0..(tokens[m].base_vault - burn) :
        tokens' = [tokens EXCEPT ![m].base_vault = rest,
                     ![m].market = @ + (tokens[m].base_vault - burn - rest)]
  BY <1>3 DEF Migrate
<1>5. PICK sold \in Nat : rest \in Nat /\ sold = tokens[m].base_vault - burn - rest
  BY <1>2, <1>3 DEF AmountsOf
<1>6. PICK t : t = [tokens[m] EXCEPT !.base_vault = rest, !.market = @ + sold]
  OBVIOUS
<1>7. /\ t \in AmountsOf /\ Held(t) = mint[m].supply - burn
      /\ t.burnt = tokens[m].burnt /\ t.leaked = tokens[m].leaked
  <2>1. tokens[m].market + sold \in Nat
    BY <1>2, <1>5 DEF AmountsOf
  <2>2. t \in AmountsOf
    BY <1>2, <1>5, <1>6, <2>1 DEF AmountsOf
  <2>3. /\ t.base_vault = rest /\ t.market = tokens[m].market + sold
        /\ t.launch_vault = tokens[m].launch_vault /\ t.buffer = tokens[m].buffer
        /\ t.burnt = tokens[m].burnt /\ t.leaked = tokens[m].leaked
    BY <1>2, <1>6 DEF AmountsOf
  <2>4. Held(t) = Held(tokens[m]) - burn
    BY <1>2, <1>3, <1>5, <2>3 DEF Held, AmountsOf
  <2> QED BY <1>2, <2>2, <2>3, <2>4
<1>8. /\ tokens' \in [Mints -> AmountsOf] /\ tokens'[m] = t
      /\ \A n \in Mints : n # m => tokens'[n] = tokens[n]
  <2>1. tokens' = [tokens EXCEPT ![m] = t]
    BY <1>4, <1>5, <1>6
  <2> QED BY <1>7, <2>1, TokensChange DEF IInv
<1>9. PICK supply \in Nat : supply = mint[m].supply - burn
  BY <1>7 DEF AmountsOf, Held
<1>10. PICK a : a = [Curve(k, m) EXCEPT !.progress = MIGRATION_CREATED_POOL,
                                        !.is_migrated = TRUE]
  OBVIOUS
<1>11. /\ a \in CurveType(k, m) /\ a.creator = Curve(k, m).creator
       /\ a.spl = Curve(k, m).spl /\ a.is_migrated = TRUE
       /\ a.progress = MIGRATION_CREATED_POOL
  BY <1>2, <1>10 DEF CurveType
<1>12. graduated(a) /\ ~graduated(Curve(k, m))
  BY <1>1, <1>11 DEF graduated, MIGRATION_CREATED_POOL
<1>13. /\ DOMAIN account' = PoolKeys /\ Curve(k, m)' = a
       /\ \A key \in PoolKeys : key # CurveKey(k, m) => account'[key] = account[key]
       /\ graduated(Curve(k, m))'
  <2>1. account' = [account EXCEPT ![CurveKey(k, m)] = a]
    BY <1>10 DEF Migrate, Curve
  <2> QED BY <1>2, <1>12, <2>1 DEF Curve, graduated
<1>14. mint' = [mint EXCEPT ![m].supply = supply]
  BY <1>3, <1>9 DEF Migrate
<1>15. /\ mint'[m].state = mint[m].state /\ mint'[m].supply = supply
       /\ mint'[m].made_by = mint[m].made_by /\ mint'[m].authority = mint[m].authority
       /\ \A n \in Mints : n # m => mint'[n] = mint[n]
       /\ mint' \in [Mints -> MintType]
  BY <1>2, <1>14 DEF MintType
<1>16. tokens[m].leaked = 0 /\ mint[m].supply + tokens[m].burnt = PoolConfig[k].pre
  BY <1>2, <1>12 DEF CurveOK
<1>17. supply + t.burnt = PoolConfig[k].post
  BY <1>2, <1>3, <1>7, <1>9, <1>16, ConfigFacts
<1>18. UNCHANGED <<buffer_ata, collection, config, vault, charged,
                   launch_build, vault_build, payable>>
  BY DEF Migrate
<1>19. t.leaked = 0 /\ Held(t) = supply
  BY <1>7, <1>9, <1>16
<1> QED BY <1>1, <1>7, <1>8, <1>9, <1>11, <1>12, <1>13, <1>15, <1>17, <1>18, <1>19,
           CurveStepKeeps

LEMMA WithdrawLeftoverKeeps ==
  ASSUME IInv, NEW k \in ConfigKeys, NEW m \in Mints, WithdrawLeftover(k, m)
  PROVE  IInv'
<1> USE DEF WithdrawLeftover, records, builds
<1> DEFINE locked == PoolConfig[k].leftover_receiver = BUFFER
           t == IF locked
                THEN [tokens[m] EXCEPT !.buffer = @ + tokens[m].base_vault, !.base_vault = 0]
                ELSE [tokens[m] EXCEPT !.leaked = @ + tokens[m].base_vault, !.base_vault = 0]
<1>1. Exists(k, m) /\ graduated(Curve(k, m))
  BY DEF Curve
<1>2. /\ Curve(k, m) \in CurveType(k, m) /\ CurveOK(k, m)
      /\ Held(tokens[m]) = mint[m].supply
      /\ DOMAIN account = PoolKeys /\ tokens[m] \in AmountsOf
      /\ mint[m].supply \in Nat /\ mint \in [Mints -> MintType]
  BY <1>1, CurveFacts
<1>3. /\ t \in AmountsOf /\ Held(t) = Held(tokens[m])
      /\ t.burnt = tokens[m].burnt /\ locked => t.leaked = tokens[m].leaked
  <2>1. locked \in BOOLEAN
    OBVIOUS
  <2> HIDE DEF locked
  <2> QED BY <1>2, <2>1, WithdrawnAmounts
<1>4. /\ tokens' \in [Mints -> AmountsOf] /\ tokens'[m] = t
      /\ \A n \in Mints : n # m => tokens'[n] = tokens[n]
  <2>1. tokens' = [tokens EXCEPT ![m] = t]
    OBVIOUS
  <2> HIDE DEF t
  <2> QED BY <1>3, <2>1, TokensChange DEF IInv
<1>5. /\ Curve(k, m).is_migrated <=> Curve(k, m).progress = MIGRATION_CREATED_POOL
      /\ mint[m].supply + t.burnt =
           IF graduated(Curve(k, m)) THEN PoolConfig[k].post ELSE PoolConfig[k].pre
      /\ PoolConfig[k].leftover_receiver = BUFFER => t.leaked = 0
  BY <1>2, <1>3 DEF CurveOK
<1>6. /\ mint' = mint /\ account' = account /\ Curve(k, m)' = Curve(k, m)
      /\ graduated(Curve(k, m))' <=> graduated(Curve(k, m))
      /\ UNCHANGED <<buffer_ata, collection, config, vault, charged,
                     launch_build, vault_build, payable>>
  BY DEF Curve
<1> HIDE DEF t, WithdrawLeftover
<1> QED BY <1>1, <1>2, <1>3, <1>4, <1>5, <1>6, CurveStepKeeps

-----------------------------------------------------------------------------
(* Steps of the launchpad and of the vault program.                         *)

(* Whatever parameters validate accepts, the record made from them is sound.  *)
LEMMA NewConfigOK ==
  ASSUME TypeOK, NEW p \in [decimals : Nat, ratio : Nat, size : Nat, threshold : Nat],
         validate(launch_build, p), NEW c \in Creators, NEW k, NEW key,
         \/ k \in ConfigKeys /\ key \in CurveKeys
         \/ k = NoPool /\ key = NoPool
  PROVE  /\ ConfigOK(NewConfig(p, c, k, key))
         /\ total_supply_base(p) \in Nat /\ total_supply_base(p) > 0
<1>1. launch_build \in Builds /\ launch_build.version \in Nat
  BY BuildAssumption DEF TypeOK
<1>2. /\ total_supply_base(p) \in 1..U64_MAX /\ ratio_base(p) \in 1..U64_MAX
      /\ p.size \in 1..U32_MAX
      /\ p.size * ratio_base(p) <= total_supply_base(p)
      /\ tier_fee_lamports(launch_build, p.ratio) \in Nat \ {0}
  BY <1>1, AcceptedAmounts
<1>3. p.decimals \in Nat /\ p.ratio \in Nat /\ p.threshold \in Nat
  OBVIOUS
<1>4. ConfigOK(NewConfig(p, c, k, key))
  BY <1>1, <1>2, <1>3 DEF ConfigOK, NewConfig
<1> QED BY <1>2, <1>4

LEMMA LaunchKeeps ==
  ASSUME IInv, NEW m \in Mints, NEW c \in Creators, NEW p \in Params, Launch(m, c, p)
  PROVE  IInv'
<1> USE DEF builds
<1> DEFINE total == total_supply_base(p)
           t == [NoTokens EXCEPT !.launch_vault = total]
           r == NewConfig(p, c, NoPool, NoPool)
<1>1. /\ validate(launch_build, p) /\ mint[m].state \in {"empty", "dust"}
      /\ p \in [decimals : Nat, ratio : Nat, size : Nat, threshold : Nat]
  BY ParamsAssumption DEF Launch, CreateMintAllowed
<1>2. /\ \A k \in ConfigKeys : ~Exists(k, m)
      /\ ~config[m].exists /\ ~vault[m].exists /\ charged[m] = {}
      /\ tokens[m] = NoTokens
  BY <1>1, NotYet
<1>3. ConfigOK(r) /\ total \in Nat /\ total > 0
  BY <1>1, NewConfigOK DEF IInv
<1>4. r.total_supply = total /\ r.dbc_pool = NoPool /\ r.exists
  BY DEF NewConfig
<1>5. /\ DOMAIN config' = Mints /\ config'[m] = r
      /\ \A n \in Mints : n # m => config'[n] = config[n]
  <2>1. config' = [config EXCEPT ![m] = r]
    BY DEF Launch
  <2> HIDE DEF r
  <2> QED BY <2>1 DEF IInv, TypeOK
<1>6. /\ tokens' \in [Mints -> AmountsOf] /\ tokens'[m] = t
      /\ \A n \in Mints : n # m => tokens'[n] = tokens[n]
  <2>1. t \in AmountsOf
    BY <1>3 DEF NoTokens, AmountsOf
  <2>2. tokens' = [tokens EXCEPT ![m] = t]
    BY <1>2 DEF Launch
  <2> HIDE DEF t
  <2> QED BY <2>1, <2>2, TokensChange DEF IInv
<1>7. /\ mint' \in [Mints -> MintType] /\ mint'[m] = FreshMint(p)
      /\ \A n \in Mints : n # m => mint'[n] = mint[n]
  <2>1. FreshMint(p) \in MintType
    BY <1>1, <1>3 DEF FreshMint, MintType, Addresses
  <2>2. mint' = [mint EXCEPT ![m] = FreshMint(p)]
    BY DEF Launch
  <2> QED BY <2>1, <2>2 DEF IInv, TypeOK
<1>8. UNCHANGED <<account, buffer_ata, collection, vault, charged,
                  launch_build, vault_build, payable>>
  BY DEF Launch
<1>9. TypeOK'
  <2> HIDE DEF r, t
  <2>1. \A n \in Mints : config'[n] = NoRecord \/ ConfigOK(config[n])'
    BY <1>3, <1>5 DEF IInv, TypeOK, ConfigOK
  <2> QED BY <1>5, <1>6, <1>7, <1>8, <2>1 DEF IInv, TypeOK
<1>10. FakesOK'
  BY <1>8 DEF IInv, FakesOK
<1>11. LaunchOK(m)'
  <2>1. /\ mint'[m].state = "mint" /\ mint'[m].supply = total
        /\ mint'[m].made_by = "launch" /\ ~mint'[m].authority
    BY <1>7 DEF FreshMint
  <2>2. /\ t.launch_vault = total /\ t.base_vault = 0 /\ t.market = 0
        /\ t.buffer = 0 /\ t.leaked = 0 /\ t.burnt = 0
    BY DEF NoTokens
  <2> HIDE DEF t, r, total
  <2>3. Held(t) = total
    BY <1>3, <2>2 DEF Held
  <2>4. MintOK(m)'
    BY <1>6, <2>1, <2>3 DEF MintOK
  <2>5. CurvesOK(m)'
    BY <1>2, <1>8 DEF CurvesOK, Exists
  <2>6. Native(m)'
    BY <1>4, <1>5, <1>6, <2>1, <2>2 DEF Native
  <2> QED BY <1>2, <1>8, <2>4, <2>5, <2>6 DEF LaunchOK, RecordOK, VaultOK, FeesOK
<1>12. ASSUME NEW n \in Mints, n # m
       PROVE  LaunchOK(n)'
  <2>1. /\ LaunchOK(n) /\ mint'[n] = mint[n] /\ tokens'[n] = tokens[n]
        /\ config'[n] = config[n] /\ vault'[n] = vault[n] /\ charged'[n] = charged[n]
    BY <1>5, <1>6, <1>7, <1>8, <1>12 DEF IInv
  <2>2. \A l \in ConfigKeys : account'[CurveKey(l, n)] = account[CurveKey(l, n)]
    BY <1>8
  <2> QED BY <2>1, <2>2, Frame
<1> QED BY <1>9, <1>10, <1>11, <1>12 DEF IInv

(* A curve account that load_pool reads is the one DBC made for this mint from this
   config: a copy has another owner, and another curve has another mint or config. *)
LEMMA AcceptedPoolIsCurve ==
  ASSUME IInv, NEW m \in Mints, NEW c, NEW k \in ConfigKeys, NEW key \in PoolKeys,
         PoolAccepted(load_pool(key), m, c, k)
  PROVE  /\ key = CurveKey(k, m) /\ Exists(k, m) /\ Curve(k, m).creator = c
         /\ ~graduated(Curve(k, m))
<1>1. account[key].owner = "DBC" /\ load_pool(key) = account[key]
  BY DEF PoolAccepted, load_pool, NoAccount
<1>2. PICK l \in ConfigKeys, n \in Mints : key = CurveKey(l, n)
  BY <1>1, Keys DEF IInv, FakesOK, PoolKeys
<1>3. Exists(l, n)
  BY <1>1, <1>2 DEF Exists
<1>4. account[key] \in CurveType(l, n)
  BY <1>2, <1>3, CurveFacts DEF Curve
<1>5. l = k /\ n = m
  BY <1>1, <1>4 DEF PoolAccepted, CurveType
<1> QED BY <1>1, <1>2, <1>3, <1>5 DEF PoolAccepted, Curve

LEMMA RegisterDbcKeeps ==
  ASSUME IInv, NEW m \in Mints, NEW c \in Creators, NEW k \in ConfigKeys,
         NEW key \in CurveKeys \cup FakeKeys, NEW p \in Params,
         RegisterDbc(m, c, k, key, p)
  PROVE  IInv'
<1> USE DEF builds
<1> DEFINE lp == DbcParams(m, k, p)
           r == NewConfig(lp, c, k, key)
<1>1. /\ PoolAccepted(load_pool(key), m, c, k) /\ validate(launch_build, lp)
      /\ ConfigAccepted(k, lp) /\ ~config[m].exists
      /\ config' = [config EXCEPT ![m] = r]
      /\ buffer_ata' = buffer_ata \cup {m}
      /\ UNCHANGED <<mint, tokens, account, collection, vault, charged,
                     launch_build, vault_build, payable>>
  BY DEF RegisterDbc, RegisterAllowed, NotRecorded
<1>2. lp \in [decimals : Nat, ratio : Nat, size : Nat, threshold : Nat]
  <2>1. mint[m].decimals \in Nat /\ PoolConfig[k].threshold \in Nat
    BY MintFacts, ConfigFacts DEF IInv
  <2>2. p \in [decimals : Nat, ratio : Nat, size : Nat, threshold : Nat]
    BY ParamsAssumption
  <2> QED BY <2>1, <2>2 DEF DbcParams
<1>3. /\ key = CurveKey(k, m) /\ Exists(k, m) /\ Curve(k, m).creator = c
  BY <1>1, AcceptedPoolIsCurve DEF PoolKeys
<1>4. /\ r.exists /\ r.total_supply = total_supply_base(lp) /\ r.creator = c
      /\ r.dbc_pool = key /\ r.dbc_config = k
  BY DEF NewConfig
<1>5. ConfigOK(r)
  <2>1. key \in CurveKeys
    BY <1>3, Keys
  <2> HIDE DEF lp
  <2> QED BY <1>1, <1>2, <2>1, NewConfigOK DEF IInv
<1>6. /\ DOMAIN config' = Mints /\ config'[m] = r
      /\ \A n \in Mints : n # m => config'[n] = config[n]
  <2> HIDE DEF r
  <2> QED BY <1>1 DEF IInv, TypeOK
<1>7. TypeOK'
  <2> HIDE DEF r, lp
  <2>1. \A n \in Mints : config'[n] = NoRecord \/ ConfigOK(config[n])'
    BY <1>5, <1>6 DEF IInv, TypeOK, ConfigOK
  <2> QED BY <1>1, <1>6, <2>1 DEF IInv, TypeOK
<1>8. FakesOK'
  BY <1>1 DEF IInv, FakesOK
<1>9. LaunchOK(m)'
  <2> HIDE DEF r, lp
  <2>1. MintOK(m)' /\ CurvesOK(m)'
    BY <1>1 DEF IInv, LaunchOK, MintOK, CurvesOK, CurveOK, Curve, Exists
  <2>2. OnCurve(m)'
    BY <1>1, <1>3, <1>4, <1>6 DEF OnCurve, ConfigAccepted, Curve, Exists
  <2>3. ~vault[m].exists /\ charged[m] = {}
    BY <1>1 DEF IInv, LaunchOK, VaultOK, FeesOK
  <2> QED BY <1>1, <2>1, <2>2, <2>3 DEF LaunchOK, RecordOK, VaultOK, FeesOK
<1>10. ASSUME NEW n \in Mints, n # m
       PROVE  LaunchOK(n)'
  <2>1. /\ LaunchOK(n) /\ mint'[n] = mint[n] /\ tokens'[n] = tokens[n]
        /\ config'[n] = config[n] /\ vault'[n] = vault[n] /\ charged'[n] = charged[n]
    BY <1>1, <1>6, <1>10 DEF IInv
  <2>2. \A l \in ConfigKeys : account'[CurveKey(l, n)] = account[CurveKey(l, n)]
    BY <1>1
  <2> QED BY <2>1, <2>2, Frame
<1> QED BY <1>7, <1>8, <1>9, <1>10 DEF IInv

LEMMA InitVaultKeeps ==
  ASSUME IInv, NEW m \in Mints, NEW c \in Creators, InitVault(m, c)
  PROVE  IInv'
<1> USE DEF builds
<1>1. /\ config[m].exists /\ ~vault[m].exists
      /\ vault' = [vault EXCEPT ![m] = NewVault(m)]
      /\ collection' = [collection EXCEPT ![m] = "core"]
      /\ UNCHANGED <<mint, tokens, account, buffer_ata, config, charged,
                     launch_build, vault_build, payable>>
  BY DEF InitVault, InitVaultAllowed
<1>2. ConfigOK(config[m])
  BY <1>1 DEF IInv, TypeOK, NoRecord
<1>3. NewVault(m) \in [exists : {TRUE}, open : BOOLEAN, capacity : 1..U32_MAX]
  BY <1>2 DEF NewVault, ConfigOK
<1>4. /\ vault'[m] = NewVault(m) /\ \A n \in Mints : n # m => vault'[n] = vault[n]
      /\ vault' \in [Mints -> {NoRecord} \cup
                      [exists : {TRUE}, open : BOOLEAN, capacity : 1..U32_MAX]]
  BY <1>1, <1>3 DEF IInv, TypeOK
<1>5. TypeOK'
  BY <1>1, <1>4 DEF IInv, TypeOK, ConfigOK
<1>6. FakesOK'
  BY <1>1 DEF IInv, FakesOK
<1>7. LaunchOK(m)'
  <2>1. MintOK(m)' /\ CurvesOK(m)' /\ RecordOK(m)' /\ FeesOK(m)'
    BY <1>1 DEF IInv, LaunchOK, MintOK, CurvesOK, CurveOK, RecordOK, Native, OnCurve,
                FeesOK, Curve, Exists
  <2>2. VaultOK(m)'
    BY <1>1, <1>4 DEF VaultOK, NewVault
  <2> QED BY <2>1, <2>2 DEF LaunchOK
<1>8. ASSUME NEW n \in Mints, n # m
      PROVE  LaunchOK(n)'
  <2>1. /\ LaunchOK(n) /\ mint'[n] = mint[n] /\ tokens'[n] = tokens[n]
        /\ config'[n] = config[n] /\ vault'[n] = vault[n] /\ charged'[n] = charged[n]
    BY <1>1, <1>4, <1>8 DEF IInv
  <2>2. \A l \in ConfigKeys : account'[CurveKey(l, n)] = account[CurveKey(l, n)]
    BY <1>1
  <2> QED BY <2>1, <2>2, Frame
<1> QED BY <1>5, <1>6, <1>7, <1>8 DEF IInv

LEMMA OpenVaultKeeps ==
  ASSUME IInv, NEW m \in Mints, NEW key \in PoolKeys, OpenVault(m, key)
  PROVE  IInv'
<1> USE DEF chain, builds
<1>1. /\ vault[m].exists /\ verify_dbc(m, key)
      /\ vault' = [vault EXCEPT ![m].open = TRUE]
      /\ UNCHANGED <<mint, tokens, account, buffer_ata, collection, config, charged,
                     launch_build, vault_build, payable>>
  BY DEF OpenVault, OpenAllowed
<1>2. config[m].exists /\ vault[m].capacity = config[m].size
  BY <1>1 DEF IInv, LaunchOK, VaultOK
<1>3. OnCurve(m)
  BY <1>1, <1>2 DEF IInv, LaunchOK, RecordOK, Native, verify_dbc
<1>4. graduated(Curve(config[m].dbc_config, m))
  BY <1>1, <1>3 DEF verify_dbc, load_pool, NoAccount, OnCurve, Curve
<1>5. /\ vault[m] \in [exists : {TRUE}, open : BOOLEAN, capacity : 1..U32_MAX]
      /\ DOMAIN vault = Mints
  <2>1. DOMAIN vault = Mints
    BY DEF IInv, TypeOK
  <2>2. vault[m] \in {NoRecord} \cup [exists : {TRUE}, open : BOOLEAN, capacity : 1..U32_MAX]
    BY DEF IInv, TypeOK
  <2>3. vault[m] # NoRecord
    BY <1>1 DEF NoRecord
  <2> QED BY <2>1, <2>2, <2>3
<1>6. /\ vault'[m].exists /\ vault'[m].capacity = vault[m].capacity
      /\ \A n \in Mints : n # m => vault'[n] = vault[n]
      /\ vault' \in [Mints -> {NoRecord} \cup
                      [exists : {TRUE}, open : BOOLEAN, capacity : 1..U32_MAX]]
  BY <1>1, <1>5 DEF IInv, TypeOK
<1>7. TypeOK'
  BY <1>1, <1>6 DEF IInv, TypeOK, ConfigOK
<1>8. FakesOK'
  BY <1>1 DEF IInv, FakesOK
<1>9. LaunchOK(m)'
  <2>1. MintOK(m)' /\ CurvesOK(m)' /\ RecordOK(m)' /\ FeesOK(m)'
    BY <1>1 DEF IInv, LaunchOK, MintOK, CurvesOK, CurveOK, RecordOK, Native, OnCurve,
                FeesOK, Curve, Exists
  <2>2. OnCurve(m)' /\ graduated(Curve(config[m].dbc_config, m))'
    BY <1>1, <1>3, <1>4 DEF OnCurve, Curve, Exists, graduated
  <2>3. VaultOK(m)'
    BY <1>1, <1>2, <1>6, <2>2 DEF VaultOK
  <2> QED BY <2>1, <2>3 DEF LaunchOK
<1>10. ASSUME NEW n \in Mints, n # m
       PROVE  LaunchOK(n)'
  <2>1. /\ LaunchOK(n) /\ mint'[n] = mint[n] /\ tokens'[n] = tokens[n]
        /\ config'[n] = config[n] /\ vault'[n] = vault[n] /\ charged'[n] = charged[n]
    BY <1>1, <1>6, <1>10 DEF IInv
  <2>2. \A l \in ConfigKeys : account'[CurveKey(l, n)] = account[CurveKey(l, n)]
    BY <1>1
  <2> QED BY <2>1, <2>2, Frame
<1> QED BY <1>7, <1>8, <1>9, <1>10 DEF IInv

(* What a request pays is the fee its launch recorded, never another tier.    *)
LEMMA FeeIsStored ==
  ASSUME NEW m \in Mints, request_fee(m) # 0
  PROVE  request_fee(m) = config[m].fee
BY DEF request_fee

LEMMA RequestKeeps ==
  ASSUME IInv, NEW m \in Mints, Request(m)
  PROVE  IInv'
<1> USE DEF chain, builds
<1>1. /\ vault[m].exists
      /\ charged' = [charged EXCEPT ![m] = charged[m] \cup {config[m].fee}]
      /\ UNCHANGED <<mint, tokens, account, buffer_ata, collection, config, vault,
                     launch_build, vault_build, payable>>
  BY FeeIsStored DEF Request
<1>2. config[m].exists
  BY <1>1 DEF IInv, LaunchOK, VaultOK
<1>3. config[m].fee \in Nat \ {0}
  BY <1>2 DEF IInv, TypeOK, NoRecord, ConfigOK
<1>4. /\ charged' \in [Mints -> SUBSET (Nat \ {0})]
      /\ charged'[m] = charged[m] \cup {config[m].fee}
      /\ \A n \in Mints : n # m => charged'[n] = charged[n]
  BY <1>1, <1>3 DEF IInv, TypeOK
<1>5. TypeOK'
  BY <1>1, <1>4 DEF IInv, TypeOK, ConfigOK
<1>6. FakesOK'
  BY <1>1 DEF IInv, FakesOK
<1>7. LaunchOK(m)'
  <2>1. MintOK(m)' /\ CurvesOK(m)' /\ RecordOK(m)' /\ VaultOK(m)'
    BY <1>1 DEF IInv, LaunchOK, MintOK, CurvesOK, CurveOK, RecordOK, Native, OnCurve,
                VaultOK, Curve, Exists, graduated
  <2>2. FeesOK(m)'
    BY <1>1, <1>2, <1>4 DEF IInv, LaunchOK, FeesOK
  <2> QED BY <2>1, <2>2 DEF LaunchOK
<1>8. ASSUME NEW n \in Mints, n # m
      PROVE  LaunchOK(n)'
  <2>1. /\ LaunchOK(n) /\ mint'[n] = mint[n] /\ tokens'[n] = tokens[n]
        /\ config'[n] = config[n] /\ vault'[n] = vault[n] /\ charged'[n] = charged[n]
    BY <1>1, <1>4, <1>8 DEF IInv
  <2>2. \A l \in ConfigKeys : account'[CurveKey(l, n)] = account[CurveKey(l, n)]
    BY <1>1
  <2> QED BY <2>1, <2>2, Frame
<1> QED BY <1>5, <1>6, <1>7, <1>8 DEF IInv

-----------------------------------------------------------------------------
(* The invariant is inductive.                                              *)

LEMMA InitGives ==
  ASSUME Init
  PROVE  IInv
<1>1. TypeOK
  <2>1. NoMint("empty") \in MintType
    BY DEF NoMint, MintType, Addresses
  <2>2. NoTokens \in AmountsOf
    BY DEF NoTokens, AmountsOf
  <2> QED BY <2>1, <2>2 DEF Init, TypeOK, NoAccount
<1>2. FakesOK
  BY DEF Init, FakesOK, NoAccount, PoolKeys
<1>3. ASSUME NEW m \in Mints
      PROVE  LaunchOK(m)
  <2>1. \A k \in ConfigKeys : ~Exists(k, m)
    BY Keys DEF Init, Exists, NoAccount
  <2>2. MintOK(m)
    BY DEF Init, MintOK, NoMint, NoTokens, Held
  <2>3. ~config[m].exists /\ ~vault[m].exists /\ charged[m] = {}
    BY DEF Init, NoRecord
  <2> QED BY <2>1, <2>2, <2>3 DEF LaunchOK, CurvesOK, RecordOK, VaultOK, FeesOK
<1> QED BY <1>1, <1>2, <1>3 DEF IInv

LEMMA StepKeeps ==
  ASSUME IInv, [Next]_vars
  PROVE  IInv'
<1>1. ASSUME NEW m \in Mints, LaunchpadStep(m)
      PROVE  IInv'
  BY <1>1, LaunchKeeps, RegisterDbcKeeps, InitVaultKeeps, OpenVaultKeeps, RequestKeeps
     DEF LaunchpadStep
<1>2. ASSUME NEW m \in Mints, MintStep(m)
      PROVE  IInv'
  BY <1>2, PrefundMintKeeps, WorldKeeps, BurnKeeps, ForeignMintKeeps DEF MintStep
<1>3. ASSUME NEW k \in ConfigKeys, NEW m \in Mints, DbcStep(k, m)
      PROVE  IInv'
  BY <1>3, CreateCurveKeeps, BuyKeeps, CompleteKeeps, MigrateKeeps, WithdrawLeftoverKeeps
     DEF DbcStep
<1>4. ASSUME NEW f \in FakeKeys, NEW k \in ConfigKeys, NEW m \in Mints,
             NEW c \in Creators, NEW done \in BOOLEAN, Forge(f, k, m, c, done)
      PROVE  IInv'
  BY <1>4, ForgeKeeps
<1>5. CASE \E b \in Builds : UpgradeLaunch(b) \/ UpgradeVault(b)
  BY <1>5, WorldKeeps
<1>6. CASE Drift \/ UNCHANGED vars
  BY <1>6, WorldKeeps
<1> QED BY <1>1, <1>2, <1>3, <1>4, <1>5, <1>6 DEF Next

LEMMA Inductive == Spec => []IInv
<1>1. Init => IInv
  BY InitGives
<1>2. IInv /\ [Next]_vars => IInv'
  BY StepKeeps
<1> QED BY <1>1, <1>2, PTL DEF Spec

-----------------------------------------------------------------------------
(* Who may come first to an address: only init_vault makes a collection, and what
   strangers leave at an address is lamports.                               *)

CollectionsOK ==
  \A m \in Mints : IF vault[m].exists THEN collection[m] = "core"
                    ELSE collection[m] \in {"empty", "dust"}

AddressesOK ==
  \A m \in Mints : mint[m].made_by = "nobody" => mint[m].state \in {"empty", "dust"}

LEMMA CollectionsKept ==
  ASSUME IInv, CollectionsOK, [Next]_vars
  PROVE  CollectionsOK'
<1> USE DEF vars, chain, records, builds
<1>1. DOMAIN vault = Mints /\ DOMAIN collection = Mints
  BY DEF IInv, TypeOK
<1>2. ASSUME UNCHANGED <<vault, collection>>
      PROVE  CollectionsOK'
  BY <1>2 DEF CollectionsOK
<1>3. ASSUME NEW m \in Mints, NEW c \in Creators, InitVault(m, c)
      PROVE  CollectionsOK'
  BY <1>1, <1>3 DEF CollectionsOK, InitVault, NewVault
<1>4. ASSUME NEW m \in Mints, NEW key \in PoolKeys, OpenVault(m, key)
      PROVE  CollectionsOK'
  BY <1>1, <1>4 DEF CollectionsOK, OpenVault, OpenAllowed
<1>5. ASSUME NEW m \in Mints, PrefundCollection(m)
      PROVE  CollectionsOK'
  BY <1>1, <1>5 DEF CollectionsOK, PrefundCollection
<1>6. ASSUME NEW m \in Mints, LaunchpadStep(m)
      PROVE  CollectionsOK'
  <2>1. CASE \E c \in Creators, p \in Params : Launch(m, c, p)
    BY <1>2, <2>1 DEF Launch
  <2>2. CASE \E c \in Creators, k \in ConfigKeys, key \in CurveKeys \cup FakeKeys, p \in Params :
               RegisterDbc(m, c, k, key, p)
    BY <1>2, <2>2 DEF RegisterDbc
  <2>3. CASE Request(m)
    BY <1>2, <2>3 DEF Request
  <2> QED BY <1>3, <1>4, <1>6, <2>1, <2>2, <2>3 DEF LaunchpadStep
<1>7. ASSUME NEW m \in Mints, MintStep(m)
      PROVE  CollectionsOK'
  <2>1. CASE PrefundMint(m) \/ CreateBufferAta(m) \/ Burn(m)
    BY <1>2, <2>1 DEF PrefundMint, CreateBufferAta, Burn
  <2>2. CASE \E p \in Params, state \in {"mint", "other"}, kept \in BOOLEAN :
               ForeignMint(m, p, state, kept)
    BY <1>2, <2>2 DEF ForeignMint
  <2> QED BY <1>5, <1>7, <2>1, <2>2 DEF MintStep
<1>8. ASSUME NEW k \in ConfigKeys, NEW m \in Mints, DbcStep(k, m)
      PROVE  CollectionsOK'
  <2>1. CASE \E c \in Creators : CreateCurve(k, m, c)
    BY <1>2, <2>1 DEF CreateCurve
  <2>2. CASE Buy(k, m) \/ Complete(k, m)
    BY <1>2, <2>2 DEF Buy, Complete
  <2>3. CASE Migrate(k, m) \/ WithdrawLeftover(k, m)
    BY <1>2, <2>3 DEF Migrate, WithdrawLeftover
  <2> QED BY <1>8, <2>1, <2>2, <2>3 DEF DbcStep
<1>9. ASSUME NEW f \in FakeKeys, NEW k \in ConfigKeys, NEW m \in Mints,
             NEW c \in Creators, NEW done \in BOOLEAN, Forge(f, k, m, c, done)
      PROVE  CollectionsOK'
  BY <1>2, <1>9 DEF Forge
<1>10. CASE \E b \in Builds : UpgradeLaunch(b) \/ UpgradeVault(b)
  BY <1>2, <1>10 DEF UpgradeLaunch, UpgradeVault
<1>11. CASE Drift \/ UNCHANGED vars
  BY <1>2, <1>11 DEF Drift
<1> QED BY <1>6, <1>7, <1>8, <1>9, <1>10, <1>11 DEF Next

LEMMA CollectionsInductive == Spec => []CollectionsOK
<1>1. Init => CollectionsOK
  BY DEF Init, NoRecord, CollectionsOK
<1>2. IInv /\ CollectionsOK /\ [Next]_vars => CollectionsOK'
  BY CollectionsKept
<1> QED BY <1>1, <1>2, Inductive, PTL DEF Spec

LEMMA AddressesKept ==
  ASSUME IInv, AddressesOK, [Next]_vars
  PROVE  AddressesOK'
<1> USE DEF vars, chain, records, builds
<1>1. mint \in [Mints -> MintType]
  BY DEF IInv, TypeOK
<1>2. ASSUME UNCHANGED mint
      PROVE  AddressesOK'
  BY <1>2 DEF AddressesOK
<1>3. ASSUME NEW m \in Mints, NEW x, mint' = [mint EXCEPT ![m] = x],
             x.made_by = "nobody" => x.state \in {"empty", "dust"}
      PROVE  AddressesOK'
  BY <1>1, <1>3 DEF AddressesOK
<1>4. ASSUME NEW m \in Mints, NEW n, mint' = [mint EXCEPT ![m].supply = @ - n]
      PROVE  AddressesOK'
  BY <1>1, <1>4 DEF AddressesOK, MintType
<1>5. ASSUME NEW m \in Mints, LaunchpadStep(m)
      PROVE  AddressesOK'
  <2>1. ASSUME NEW c \in Creators, NEW p \in Params, Launch(m, c, p)
        PROVE  AddressesOK'
    <3>1. mint' = [mint EXCEPT ![m] = FreshMint(p)] /\ FreshMint(p).made_by = "launch"
      BY <2>1 DEF Launch, FreshMint
    <3> QED BY <1>3, <3>1
  <2>2. CASE \E c \in Creators, k \in ConfigKeys, key \in CurveKeys \cup FakeKeys, p \in Params :
               RegisterDbc(m, c, k, key, p)
    BY <1>2, <2>2 DEF RegisterDbc
  <2>3. CASE Request(m) \/ \E key \in PoolKeys : OpenVault(m, key)
    BY <1>2, <2>3 DEF Request, OpenVault
  <2>4. CASE \E c \in Creators : InitVault(m, c)
    BY <1>2, <2>4 DEF InitVault
  <2> QED BY <1>5, <2>1, <2>2, <2>3, <2>4 DEF LaunchpadStep
<1>6. ASSUME NEW m \in Mints, MintStep(m)
      PROVE  AddressesOK'
  <2>1. CASE PrefundMint(m)
    <3>1. mint' = [mint EXCEPT ![m] = NoMint("dust")] /\ NoMint("dust").state = "dust"
      BY <2>1 DEF PrefundMint, NoMint
    <3> QED BY <1>3, <3>1
  <2>2. CASE PrefundCollection(m) \/ CreateBufferAta(m)
    BY <1>2, <2>2 DEF PrefundCollection, CreateBufferAta
  <2>3. CASE Burn(m)
    BY <1>4, <2>3 DEF Burn
  <2>4. ASSUME NEW p \in Params, NEW state, NEW kept \in BOOLEAN,
               ForeignMint(m, p, state, kept)
        PROVE  AddressesOK'
    <3> DEFINE x == [state |-> state, decimals |-> p.decimals,
                     supply |-> total_supply_base(p), authority |-> kept,
                     made_by |-> "creator"]
    <3>1. mint' = [mint EXCEPT ![m] = x] /\ x.made_by = "creator"
      BY <2>4 DEF ForeignMint
    <3> HIDE DEF x
    <3> QED BY <1>3, <3>1
  <2> QED BY <1>6, <2>1, <2>2, <2>3, <2>4 DEF MintStep
<1>7. ASSUME NEW k \in ConfigKeys, NEW m \in Mints, DbcStep(k, m)
      PROVE  AddressesOK'
  <2>1. ASSUME NEW c \in Creators, CreateCurve(k, m, c)
        PROVE  AddressesOK'
    <3> DEFINE x == [state |-> IF PoolConfig[k].spl THEN "mint" ELSE "other",
                     decimals |-> PoolConfig[k].decimals, supply |-> PoolConfig[k].pre,
                     authority |-> ~PoolConfig[k].immutable, made_by |-> "DBC"]
    <3>1. mint' = [mint EXCEPT ![m] = x] /\ x.made_by = "DBC"
      BY <2>1 DEF CreateCurve
    <3> HIDE DEF x
    <3> QED BY <1>3, <3>1
  <2>2. CASE Buy(k, m) \/ Complete(k, m) \/ WithdrawLeftover(k, m)
    BY <1>2, <2>2 DEF Buy, Complete, WithdrawLeftover
  <2>3. CASE Migrate(k, m)
    BY <1>4, <2>3 DEF Migrate
  <2> QED BY <1>7, <2>1, <2>2, <2>3 DEF DbcStep
<1>8. ASSUME NEW f \in FakeKeys, NEW k \in ConfigKeys, NEW m \in Mints,
             NEW c \in Creators, NEW done \in BOOLEAN, Forge(f, k, m, c, done)
      PROVE  AddressesOK'
  BY <1>2, <1>8 DEF Forge
<1>9. CASE \E b \in Builds : UpgradeLaunch(b) \/ UpgradeVault(b)
  BY <1>2, <1>9 DEF UpgradeLaunch, UpgradeVault
<1>10. CASE Drift \/ UNCHANGED vars
  BY <1>2, <1>10 DEF Drift
<1> QED BY <1>5, <1>6, <1>7, <1>8, <1>9, <1>10 DEF Next

LEMMA AddressesInductive == Spec => []AddressesOK
<1>1. Init => AddressesOK
  BY DEF Init, NoMint, AddressesOK
<1>2. IInv /\ AddressesOK /\ [Next]_vars => AddressesOK'
  BY AddressesKept
<1> QED BY <1>1, <1>2, Inductive, PTL DEF Spec

-----------------------------------------------------------------------------
(* The rule in base units and the rule in whole tokens.                     *)

LEMMA ProductsInOrder ==
  ASSUME NEW e \in Nat \ {0}, NEW i \in Nat, NEW j \in Nat
  PROVE  /\ i < j => e * i + e <= e * j
         /\ e * i <= e * j <=> i <= j
<1>1. ASSUME NEW x \in Nat, NEW y \in Nat, x < y
      PROVE  e * x + e <= e * y
  <2>1. PICK d \in Nat : y = (x + 1) + d
    <3>1. y - (x + 1) \in Nat
      BY <1>1
    <3> QED BY <3>1
  <2>2. e * y = (e * (x + 1)) + e * d
    BY <2>1
  <2>3. e * (x + 1) = e * x + e /\ e * d \in Nat /\ e * x \in Nat
    OBVIOUS
  <2> QED BY <2>2, <2>3
<1>2. e * i \in Nat /\ e * j \in Nat
  OBVIOUS
<1>3. i < j => e * i <= e * j
  BY <1>1, <1>2
<1>4. j < i => ~(e * i <= e * j)
  BY <1>1, <1>2
<1> QED BY <1>1, <1>3, <1>4

LEMMA Quotient ==
  ASSUME NEW a \in Nat, NEW m \in Nat \ {0}, a % m = 0
  PROVE  a \div m \in Nat /\ a = m * (a \div m)
OBVIOUS

LEMMA MultipleLeavesNothing ==
  ASSUME NEW b \in Nat \ {0}, NEW a \in Nat
  PROVE  (b * a) % b = 0
<1> DEFINE t == b * a
           q == t \div b
           r == t % b
<1>1. t \in Nat
  OBVIOUS
<1>2. q \in Nat /\ r \in Nat /\ r < b /\ t = b * q + r
  BY <1>1
<1>3. t = b * a
  OBVIOUS
<1> HIDE DEF t, q, r
<1>4. b * q \in Nat /\ b * a \in Nat
  BY <1>2
<1>5. ~(q < a)
  <2>1. q < a => b * q + b <= b * a
    BY <1>2, ProductsInOrder
  <2> QED BY <1>2, <1>3, <1>4, <2>1
<1>6. ~(a < q)
  <2>1. a < q => b * a + b <= b * q
    BY <1>2, ProductsInOrder
  <2> QED BY <1>2, <1>3, <1>4, <2>1
<1>7. q = a
  BY <1>2, <1>5, <1>6
<1>8. r = 0
  BY <1>2, <1>3, <1>4, <1>7
<1> QED BY <1>8 DEF r, t

(* Because every ratio of the tiers divides the supply, the products that validate
   compares are multiples of one another.                                   *)
LEMMA BaseUnits ==
  ASSUME NEW b \in Builds, NEW p,
         p.decimals \in 0..MAX_DECIMALS, p.size \in Nat, p.ratio \in DOMAIN b.fee_tiers
  PROVE  /\ total_supply_base(p) \in 0..U64_MAX /\ 10 ^ p.decimals <= U64_MAX
         /\ ratio_base(p) \in 1..U64_MAX
         /\ total_supply_base(p) % ratio_base(p) = 0
         /\ max_tokens_in_nft_form(p) \in Nat
         /\ max_tokens_in_nft_form(p) <= total_supply_base(p)
              <=> p.size <= TOTAL_SUPPLY_WHOLE_TOKENS \div p.ratio
         /\ TOTAL_SUPPLY_WHOLE_TOKENS \div p.ratio \in Nat
<1> DEFINE e == 10 ^ p.decimals
           T == TOTAL_SUPPLY_WHOLE_TOKENS
           r == p.ratio
           n == p.size
           q == T \div r
<1>1. e \in Nat \ {0} /\ T \in Nat \ {0} /\ T * e <= U64_MAX /\ U64_MAX \in Nat
  BY WidthAssumption
<1>2. r \in Nat \ {0} /\ T % r = 0 /\ n \in Nat
  BY BuildAssumption, <1>1
<1>3. q \in Nat /\ T = r * q
  BY <1>1, <1>2, Quotient
<1>4. /\ total_supply_base(p) = T * e /\ ratio_base(p) = r * e
      /\ max_tokens_in_nft_form(p) = n * (r * e)
  BY DEF total_supply_base, ratio_base, max_tokens_in_nft_form
<1> HIDE DEF e, T, r, n, q
<1>5. q \in Nat \ {0}
  BY <1>1, <1>2, <1>3
<1>6. r * e \in Nat \ {0}
  BY <1>1, <1>2
<1>7. T * e = (r * e) * q
  BY <1>1, <1>2, <1>3
<1>8. (T * e) % (r * e) = 0
  BY <1>3, <1>6, <1>7, MultipleLeavesNothing
<1>9. n * (r * e) = (r * e) * n /\ (r * e) * n \in Nat
  BY <1>2, <1>6
<1>10. (r * e) * n <= (r * e) * q <=> n <= q
  BY <1>2, <1>3, <1>6, ProductsInOrder
<1>11. (r * e) * 1 <= (r * e) * q /\ e * 1 <= e * T /\ e * T = T * e
  BY <1>1, <1>5, <1>6, ProductsInOrder
<1>12. r * e <= T * e /\ e <= T * e /\ T * e \in Nat
  BY <1>1, <1>6, <1>7, <1>11
<1>13. n * (r * e) <= T * e <=> n <= q
  BY <1>7, <1>9, <1>10
<1>14. /\ T * e \in 0..U64_MAX /\ e <= U64_MAX /\ r * e \in 1..U64_MAX
  BY <1>1, <1>6, <1>12
<1> QED BY <1>3, <1>4, <1>8, <1>9, <1>13, <1>14 DEF e, T, r, n, q

LEMMA AcceptedIsShown ==
  ASSUME NEW b \in Builds, NEW p,
         p.decimals \in Nat, p.ratio \in Nat, p.size \in Nat, p.threshold \in Nat
  PROVE  validate(b, p) <=>
           /\ p.decimals <= MAX_DECIMALS
           /\ p.ratio \in DOMAIN b.fee_tiers
           /\ p.size \in MIN_COLLECTION_SIZE..max_collection_size(b, p.ratio)
           /\ check_graduation_threshold(b, p.threshold)
<1>1. SUFFICES ASSUME p.decimals <= MAX_DECIMALS, p.ratio \in DOMAIN b.fee_tiers,
                      check_graduation_threshold(b, p.threshold)
               PROVE  validate(b, p) <=>
                        p.size \in MIN_COLLECTION_SIZE..max_collection_size(b, p.ratio)
  BY DEF validate
<1> DEFINE q == TOTAL_SUPPLY_WHOLE_TOKENS \div p.ratio
<1>2. p.decimals \in 0..MAX_DECIMALS /\ MIN_COLLECTION_SIZE \in Nat /\ U64_MAX \in Nat
  BY <1>1, WidthAssumption
<1>3. b.max_size \in Nat /\ tier_fee_lamports(b, p.ratio) # 0
  BY <1>1, BuildAssumption, WidthAssumption DEF tier_fee_lamports, fee_for_ratio
<1>4. /\ Fits(10 ^ p.decimals) /\ Fits(total_supply_base(p)) /\ Fits(ratio_base(p))
      /\ total_supply_base(p) % ratio_base(p) = 0
      /\ total_supply_base(p) \in Nat /\ total_supply_base(p) <= U64_MAX
      /\ max_tokens_in_nft_form(p) \in Nat /\ q \in Nat
      /\ max_tokens_in_nft_form(p) <= total_supply_base(p) <=> p.size <= q
  BY <1>1, <1>2, BaseUnits DEF Fits
<1>5. SupplyCovers(p) <=> p.size <= q
  BY <1>2, <1>4 DEF SupplyCovers, Fits
<1>6. p.size \in MIN_COLLECTION_SIZE..max_collection_size(b, p.ratio)
        <=> MIN_COLLECTION_SIZE <= p.size /\ p.size <= b.max_size /\ p.size <= q
  BY <1>2, <1>3, <1>4 DEF max_collection_size
<1> HIDE DEF q
<1> QED BY <1>1, <1>3, <1>4, <1>5, <1>6 DEF validate

-----------------------------------------------------------------------------
(* The theorems.                                                            *)

(* The records of the programs hold amounts that fit, non-zero sizes, ratios and
   fees, and as the curve an account of DBC, whatever order of calls made them. *)
THEOREM LaunchTypes == Spec => []TypeOK
<1>1. IInv => TypeOK
  BY DEF IInv
<1> QED BY <1>1, Inductive, PTL

(* The NFTs of a recorded launch never claim more than its supply, for any numbers
   of decimals, tiers, caps and any width of the integers.                  *)
THEOREM SupplyCoversEveryNft == Spec => []DerivedAmountsFit
<1>1. ASSUME TypeOK, NEW m \in Mints, config[m].exists
      PROVE  config[m].size * config[m].ratio_base <= config[m].total_supply
             /\ config[m].total_supply <= U64_MAX
  <2>1. ConfigOK(config[m])
    BY <1>1 DEF TypeOK, NoRecord
  <2> QED BY <2>1, WidthAssumption DEF ConfigOK
<1>2. TypeOK => DerivedAmountsFit
  BY <1>1 DEF DerivedAmountsFit
<1> QED BY <1>2, LaunchTypes, PTL

(* validate accepts what the interface shows and nothing else, for any build, decimals
   and width of the integers: no overflow and no rounding decides.          *)
THEOREM AcceptsWhatIsShown == Spec => []ValidateExact
<1>1. TypeOK => ValidateExact
  <2>1. TypeOK => launch_build \in Builds
    BY DEF TypeOK
  <2> QED BY <2>1, AcceptedIsShown, ParamsAssumption DEF ValidateExact
<1> QED BY <1>1, LaunchTypes, PTL

(* No recorded launch has tokens that its supply does not count, a mint authority,
   or, if it is native, tokens outside its vault.                           *)
THEOREM SupplyIsFixed == Spec => []FixedSupply
<1>1. ASSUME IInv, NEW m \in Mints, config[m].exists
      PROVE  /\ mint[m].state = "mint" /\ ~mint[m].authority
             /\ mint[m].supply = config[m].total_supply - tokens[m].burnt
             /\ Held(tokens[m]) = mint[m].supply
             /\ config[m].dbc_pool = NoPool =>
                  tokens[m].launch_vault = config[m].total_supply
  <2>1. /\ mint[m].supply \in Nat /\ tokens[m].burnt \in Nat
        /\ tokens[m].launch_vault \in Nat
    BY <1>1, MintFacts DEF IInv
  <2>2. Held(tokens[m]) = mint[m].supply
    BY <1>1 DEF IInv, LaunchOK, MintOK
  <2>3. ConfigOK(config[m])
    BY <1>1 DEF IInv, TypeOK, NoRecord
  <2>4. CASE Native(m)
    <3>1. mint[m].supply = config[m].total_supply - tokens[m].burnt
      BY <2>1, <2>2, <2>4 DEF Native, Held
    <3> QED BY <2>2, <2>4, <3>1 DEF Native
  <2>5. CASE OnCurve(m)
    <3> DEFINE k == config[m].dbc_config
    <3>1. k \in ConfigKeys /\ CurveOK(k, m) /\ config[m].dbc_pool # NoPool
      BY <1>1, <2>5, Keys DEF OnCurve, IInv, LaunchOK, CurvesOK
    <3>2. mint[m].state = "mint" /\ ~mint[m].authority
      BY <2>5, <3>1 DEF OnCurve, CurveOK
    <3>3. mint[m].supply + tokens[m].burnt = config[m].total_supply
      BY <2>5, <3>1 DEF OnCurve, CurveOK
    <3>4. mint[m].supply = config[m].total_supply - tokens[m].burnt
      BY <2>1, <3>3
    <3> QED BY <2>2, <3>1, <3>2, <3>4
  <2> QED BY <1>1, <2>4, <2>5 DEF IInv, LaunchOK, RecordOK
<1>2. IInv => FixedSupply
  BY <1>1 DEF FixedSupply
<1> QED BY <1>2, Inductive, PTL

(* Nothing but the migration of the creator's own DBC curve opens a vault.    *)
THEOREM OnlyGraduatedOpens == Spec => []OpenMeansGraduated
<1>1. ASSUME IInv, NEW m \in Mints, vault[m].exists, vault[m].open
      PROVE  LET pool == account[CurveKey(config[m].dbc_config, m)]
             IN  /\ mint[m].made_by = "DBC"
                 /\ config[m].dbc_config \in ConfigKeys
                 /\ pool.owner # "system" /\ graduated(pool)
                 /\ pool.creator = config[m].creator
  <2> DEFINE k == config[m].dbc_config
  <2>1. OnCurve(m) /\ graduated(Curve(k, m))
    BY <1>1 DEF IInv, LaunchOK, VaultOK
  <2>2. k \in ConfigKeys /\ Exists(k, m) /\ Curve(k, m).creator = config[m].creator
    BY <2>1 DEF OnCurve
  <2>3. mint[m].made_by = "DBC"
    BY <1>1, <2>2 DEF IInv, LaunchOK, CurvesOK, CurveOK
  <2> QED BY <2>1, <2>2, <2>3 DEF Exists, Curve
<1>2. IInv => OpenMeansGraduated
  BY <1>1 DEF OpenMeansGraduated
<1> QED BY <1>2, Inductive, PTL

(* Once the curve of a vault's token has migrated, the account that registration
   recorded opens the vault: no vault is made that can never open, and no account
   anyone adds or changes later keeps it shut.                              *)
THEOREM OpensWhenGraduated == Spec => []OpenSound
<1>1. ASSUME IInv, CollectionsOK, NEW m \in Mints, NEW k \in ConfigKeys,
             vault[m].exists, ~vault[m].open, econ(m),
             Exists(k, m), graduated(Curve(k, m))
      PROVE  OpenAllowed(m, CurveKey(k, m)) /\ CurveKey(k, m) \in PoolKeys
  <2>1. CurveOK(k, m) /\ Curve(k, m) \in CurveType(k, m)
    BY <1>1, CurveFacts
  <2>2. config[m].exists /\ vault[m].capacity = config[m].size
    BY <1>1 DEF IInv, LaunchOK, VaultOK
  <2>3. ~Native(m)
    BY <2>1 DEF CurveOK, Native
  <2>4. OnCurve(m)
    BY <1>1, <2>2, <2>3 DEF IInv, LaunchOK, RecordOK
  <2>5. config[m].dbc_config = k /\ config[m].dbc_pool = CurveKey(k, m)
    BY <1>1, <2>4 DEF IInv, LaunchOK, CurvesOK, OnCurve
  <2>6. load_pool(CurveKey(k, m)) = Curve(k, m)
    BY <2>1 DEF load_pool, Curve, CurveType
  <2>7. CurveKey(k, m) \in PoolKeys /\ CurveKey(k, m) # NoPool
    BY Keys
  <2>8. verify_dbc(m, CurveKey(k, m))
    BY <1>1, <2>1, <2>5, <2>6, <2>7 DEF verify_dbc, CurveType
  <2>9. collection[m] = "core"
    BY <1>1 DEF CollectionsOK
  <2> QED BY <1>1, <2>2, <2>7, <2>8, <2>9 DEF OpenAllowed
<1>2. IInv /\ CollectionsOK => OpenSound
  BY <1>1 DEF OpenSound, Curve
<1> QED BY <1>2, Inductive, CollectionsInductive, PTL

(* Nobody keeps a creator from launching, registering a sound curve or making the
   vault, whatever is sent to the addresses or made at them in advance.      *)
THEOREM NobodyIsBlocked == Spec => []NobodyBlocks
<1>1. ASSUME IInv, NEW m \in Mints, NEW k \in ConfigKeys, NEW p \in Params,
             Registrable(m, k, p), payable, tokens[m].burnt = 0
      PROVE  Registers(m, k, p)
  <2> DEFINE lp == DbcParams(m, k, p)
             pool == Curve(k, m)
  <2>1. /\ Exists(k, m) /\ ~graduated(pool) /\ ~config[m].exists
        /\ k \in launch_build.approved
        /\ validate(launch_build, lp) /\ ConfigAccepted(k, lp)
    BY <1>1 DEF Registrable, Curve
  <2>2. CurveOK(k, m) /\ pool \in CurveType(k, m) /\ mint[m].supply \in Nat
    BY <1>1, <2>1, CurveFacts
  <2>3. /\ PoolConfig[k].spl /\ PoolConfig[k].immutable
        /\ PoolConfig[k].pre = total_supply_base(lp)
    BY <2>1 DEF ConfigAccepted
  <2>4. load_pool(CurveKey(k, m)) = pool
    BY <2>2 DEF load_pool, Curve, CurveType
  <2>5. PoolAccepted(pool, m, pool.creator, k)
    BY <2>1, <2>2, <2>3 DEF PoolAccepted, CurveOK, CurveType, graduated
  <2>6. mint[m].supply = PoolConfig[k].pre /\ mint[m].state = "mint" /\ ~mint[m].authority
    <3>1. mint[m].state = "mint"
      BY <2>2, <2>3 DEF CurveOK
    <3>2. ~mint[m].authority
      BY <2>2, <2>3 DEF CurveOK
    <3>3. mint[m].supply + tokens[m].burnt = PoolConfig[k].pre
      BY <2>1, <2>2 DEF CurveOK
    <3>4. mint[m].supply = PoolConfig[k].pre
      BY <1>1, <2>2, <3>3
    <3> QED BY <3>1, <3>2, <3>4
  <2>7. MintAccepted(m, lp)
    BY <2>3, <2>6 DEF MintAccepted
  <2>8. FeeIsTier(p)
    <3>1. lp.ratio = p.ratio
      BY ParamsAssumption DEF DbcParams
    <3> HIDE DEF lp
    <3>2. tier_fee_lamports(launch_build, p.ratio) # 0
      BY <2>1, <3>1 DEF validate
    <3> QED BY <3>2 DEF FeeIsTier, is_exact_tier_fee
  <2>9. account[CurveKey(k, m)].creator = pool.creator
    BY DEF Curve
  <2>10. NotRecorded(m) /\ BufferAtaAllowed(m)
    BY <2>1 DEF NotRecorded, BufferAtaAllowed
  <2> HIDE DEF lp, pool
  <2>11. RegisterAllowed(m, pool.creator, k, CurveKey(k, m), p)
    BY <1>1, <2>1, <2>4, <2>5, <2>7, <2>8, <2>10 DEF RegisterAllowed, lp
  <2> QED BY <2>9, <2>11 DEF Registers
<1>2. ASSUME CollectionsOK, NEW m \in Mints, config[m].exists, ~vault[m].exists
      PROVE  econ(m) <=> InitVaultAllowed(m)
  BY <1>2 DEF CollectionsOK, InitVaultAllowed, Drained
<1>3. ASSUME AddressesOK, NEW m \in Mints, mint[m].made_by = "nobody"
      PROVE  CreateMintAllowed(m)
  BY <1>3 DEF AddressesOK, CreateMintAllowed
<1>4. IInv /\ CollectionsOK /\ AddressesOK => NobodyBlocks
  BY <1>1, <1>2, <1>3 DEF NobodyBlocks
<1> QED BY <1>4, Inductive, CollectionsInductive, AddressesInductive, PTL

(* What a registered curve does not sell is paid to nobody, ever.             *)
THEOREM LeftoverIsLocked == Spec => []LeftoverLocked
<1>1. ASSUME IInv, NEW m \in Mints, config[m].exists
      PROVE  tokens[m].leaked = 0
  <2>1. CASE Native(m)
    BY <2>1 DEF Native
  <2>2. CASE OnCurve(m)
    BY <1>1, <2>2 DEF OnCurve, IInv, LaunchOK, CurvesOK, CurveOK
  <2> QED BY <1>1, <2>1, <2>2 DEF IInv, LaunchOK, RecordOK
<1>2. IInv => LeftoverLocked
  BY <1>1 DEF LeftoverLocked
<1> QED BY <1>2, Inductive, PTL

(* No upgrade of either program can strand what an existing vault holds.      *)
THEOREM ExitsSurvive == Spec => []ExitsSurviveUpgrades
<1>1. ASSUME IInv, NEW m \in Mints, vault[m].exists
      PROVE  exit_view(m) /\ vault[m].capacity = config[m].size
  <2>1. config[m].exists /\ vault[m].capacity = config[m].size
    BY <1>1 DEF IInv, LaunchOK, VaultOK
  <2>2. ConfigOK(config[m])
    BY <1>1, <2>1 DEF IInv, TypeOK, NoRecord
  <2> QED BY <2>1, <2>2, WidthAssumption DEF exit_view, ConfigOK
<1>2. IInv => ExitsSurviveUpgrades
  BY <1>1 DEF ExitsSurviveUpgrades
<1> QED BY <1>2, Inductive, PTL

(* No upgrade of either program changes what a request of a vault costs.      *)
THEOREM FeeIsForever == Spec => []FeeNeverChanges
<1>1. ASSUME IInv, NEW m \in Mints
      PROVE  Cardinality(charged[m]) <= 1
  <2>1. CASE charged[m] = {}
    BY <2>1, FS_EmptySet
  <2>2. CASE charged[m] = {config[m].fee}
    <3>1. Cardinality({config[m].fee}) = 1
      BY FS_Singleton
    <3>2. Cardinality(charged[m]) = 1
      BY <2>2, <3>1, Zenon
    <3> QED BY <3>2
  <2> QED BY <1>1, <2>1, <2>2 DEF IInv, LaunchOK, FeesOK
<1>2. IInv => FeeNeverChanges
  BY <1>1 DEF FeeNeverChanges
<1> QED BY <1>2, Inductive, PTL
==============================================================================
