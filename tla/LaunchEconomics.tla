--------------------------- MODULE LaunchEconomics ---------------------------
(* The economics of a launch: programs/hybrid_launch/src/validation.rs and the
   fee tiers of needs_barton.rs.  Which parameters a launch accepts, what it
   derives from them and which stored fee is a valid one.

   What a program upgrade can change is a build, a record b:
     b.version, b.supported     version written by the launch program and
                                version the vault program reads
     b.fee_tiers                FEE_TIERS, a function from ratios to fees; its
                                domain is ALLOWED_RATIOS (constants.rs, 57-64)
     b.max_size                 MAX_COLLECTION_SIZE
     b.min_fee, b.max_fee       MIN_FEE_LAMPORTS, MAX_FEE_LAMPORTS
     b.min_threshold, b.max_threshold, b.approved

   U64_MAX and U32_MAX stand for 2^64 - 1 and 2^32 - 1.                     *)
EXTENDS Integers

CONSTANTS U64_MAX, U32_MAX,
          TOTAL_SUPPLY_WHOLE_TOKENS,
          MAX_DECIMALS,
          MIN_COLLECTION_SIZE,
          Builds          \* the builds that are ever deployed

\* constants.rs, 38: "1e9 * 10^9 = 1e18 < u64::MAX"; collection sizes fit u32.
ASSUME WidthAssumption ==
    /\ U64_MAX \in Nat /\ U32_MAX \in Nat /\ MAX_DECIMALS \in Nat
    /\ TOTAL_SUPPLY_WHOLE_TOKENS \in Nat \ {0}
    /\ MIN_COLLECTION_SIZE \in Nat \ {0}
    /\ \A d \in 0..MAX_DECIMALS :
           /\ 10 ^ d \in Nat \ {0}
           /\ TOTAL_SUPPLY_WHOLE_TOKENS * 10 ^ d <= U64_MAX

\* The types of the constants, and the assertions that every build compiles
\* with: tiers_within_bounds (needs_barton.rs, 60-70), every ratio divides 1B.
ASSUME BuildAssumption ==
    \A b \in Builds :
        /\ b.max_size \in 0..U32_MAX
        /\ b.version \in Nat /\ b.supported \in Nat
        /\ DOMAIN b.fee_tiers \subseteq 1..TOTAL_SUPPLY_WHOLE_TOKENS
        /\ \A r \in DOMAIN b.fee_tiers :
               /\ b.fee_tiers[r] \in b.min_fee..b.max_fee
               /\ TOTAL_SUPPLY_WHOLE_TOKENS % r = 0
        /\ b.min_fee \in Nat \ {0} /\ b.max_fee \in Nat
        /\ b.min_threshold \in Nat /\ b.max_threshold \in Nat

\* checked_mul and checked_pow: None above u64::MAX, which every caller refuses.
Fits(x) == x <= U64_MAX

\* 0 stands for None; no caller tells None from Some(0).
fee_for_ratio(b, ratio) ==
    IF ratio \in DOMAIN b.fee_tiers THEN b.fee_tiers[ratio] ELSE 0

tier_fee_lamports(b, ratio) ==
    LET f == fee_for_ratio(b, ratio)
    IN  IF f # 0 /\ f >= b.min_fee /\ f <= b.max_fee THEN f ELSE 0

is_exact_tier_fee(b, stored, ratio) ==
    stored # 0 /\ tier_fee_lamports(b, ratio) = stored

check_graduation_threshold(b, threshold) ==
    threshold \in b.min_threshold..b.max_threshold

\* A launch's parameters are p.decimals, p.ratio (whole tokens), p.size and
\* p.threshold (lamports).
total_supply_base(p) == TOTAL_SUPPLY_WHOLE_TOKENS * 10 ^ p.decimals
ratio_base(p) == p.ratio * 10 ^ p.decimals
max_tokens_in_nft_form(p) == p.size * ratio_base(p)

\* What a slip would compute: the product wraps around before it is compared.
SupplyCovers_Wraps(p) ==
    max_tokens_in_nft_form(p) % (U64_MAX + 1) <= total_supply_base(p)

\* What a slip would compute: whole tokens against base units.
SupplyCovers_Mixed(p) ==
    /\ Fits(p.size * p.ratio)
    /\ p.size * p.ratio <= total_supply_base(p)

SupplyCovers(p) ==
    /\ Fits(max_tokens_in_nft_form(p))
    /\ max_tokens_in_nft_form(p) <= total_supply_base(p)

validate(b, p) ==
    /\ p.decimals <= MAX_DECIMALS
    /\ p.ratio \in DOMAIN b.fee_tiers
    /\ p.size >= MIN_COLLECTION_SIZE
    /\ p.size <= b.max_size
    /\ tier_fee_lamports(b, p.ratio) # 0
    /\ check_graduation_threshold(b, p.threshold)
    /\ Fits(10 ^ p.decimals) /\ Fits(total_supply_base(p)) /\ Fits(ratio_base(p))
    /\ total_supply_base(p) % ratio_base(p) = 0
    /\ SupplyCovers(p)

\* The largest collection for an allowed ratio, as the interface shows it.
max_collection_size(b, ratio) ==
    LET most == TOTAL_SUPPLY_WHOLE_TOKENS \div ratio
    IN  IF most <= b.max_size THEN most ELSE b.max_size
==============================================================================
