------------------------- MODULE MCLaunchLifecycle ---------------------------
(* LaunchLifecycle on small instances: a supply of two whole tokens with no or
   one decimal, sound and unsound DBC configs that are all on the allowlist, and
   builds that move the version, the cap and the tiers.                     *)
EXTENDS LaunchLifecycle, TLC

CONSTANTS m1, c1, c2, k1, k2, k3, k4, k5, f1, Person

MCOneMint == {m1}
MCOneCreator == {c1}
MCTwoCreators == {c1, c2}
MCNoFake == {}
MCOneFake == {f1}

Sound == [quote_is_sol |-> TRUE, spl |-> TRUE, decimals |-> 0, fixed_supply |-> TRUE,
          pre |-> 2, post |-> 2, immutable |-> TRUE, leftover_receiver |-> BUFFER,
          threshold |-> 2]

MCAllConfigs == {k1, k2, k3, k4, k5}
MCOneConfig == {k1}
MCPoolConfig ==
  k1 :> Sound
  @@ k2 :> [Sound EXCEPT !.leftover_receiver = Person]
  @@ k3 :> [Sound EXCEPT !.post = 1]
  @@ k4 :> [Sound EXCEPT !.immutable = FALSE]
  @@ k5 :> [Sound EXCEPT !.spl = FALSE]

Tiers == [r \in {1, 2} |-> 2 * r]

Build(version, max, tiers, approved) ==
  [version |-> version, supported |-> version, max_size |-> max, fee_tiers |-> tiers,
   min_fee |-> 1, max_fee |-> 4, min_threshold |-> 2, max_threshold |-> 3,
   approved |-> approved]

FirstBuild == Build(4, 2, Tiers, MCAllConfigs)
MCOneBuild == {FirstBuild}
MCBuilds == {FirstBuild,
             Build(4, 1, [r \in {1, 2} |-> r], {}),
             Build(5, 2, Tiers, {k1})}

Submitted(d, r, s) == [decimals |-> d, ratio |-> r, size |-> s, threshold |-> 2]

\* The last one's NFTs would claim 40 of 20 base units, and 40 wraps to 8.
MCParams == {Submitted(0, r, s) : r \in {1, 2}, s \in {1, 2}}
            \cup {Submitted(1, 1, 2), Submitted(1, 2, 2)}
MCOneParams == {[decimals |-> 0, ratio |-> 1, size |-> 2, threshold |-> 2]}

MCSymmetry == Permutations(MCTwoCreators)
==============================================================================
