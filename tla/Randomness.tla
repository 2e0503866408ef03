----------------------------- MODULE Randomness -----------------------------
(***************************************************************************)
(* What the vault knows of Switchboard On-Demand randomness                *)
(* (hybrid_vault/src/randomness.rs): the fields of a randomness account it *)
(* reads, the commit and the reveal it requests, and the program's own     *)
(* choice of the oracle that must serve a commit.  Switchboard itself is   *)
(* outside the repository: SbCommit and SbReveal are what the calls leave  *)
(* in the account, as the mock the tests load does it.                     *)
(***************************************************************************)
EXTENDS Integers, Sequences

CONSTANTS
  NoKey,     \* the zero public key: an unused queue entry, or no oracle yet
  NoValue    \* a randomness value that was never revealed

(* A randomness account just created by init_randomness. *)
FreshAccount == [seed_slot |-> 0, reveal_slot |-> 0, oracle |-> NoKey, value |-> NoValue]

(* randomness_commit seeds from the previous slot and assigns the oracle;  *)
(* the slot and value of an earlier reveal stay in the account.            *)
SbCommit(account, oracle, slot) ==
  [account EXCEPT !.seed_slot = slot - 1, !.oracle = oracle]

SbReveal(account, value, slot) ==
  [account EXCEPT !.reveal_slot = slot, !.value = value]

is_revealed(account, expected_seed_slot) ==
  /\ account.seed_slot = expected_seed_slot
  /\ account.reveal_slot > account.seed_slot

(* Slip: an account revealed in this very slot is taken as fresh.          *)
IsFreshCommit_AnyReveal(account, slot) == account.seed_slot + 1 = slot

(* commit_for_request, after the call: this slot's commit, not revealed.   *)
IsFreshCommit(account, slot) ==
  /\ account.seed_slot + 1 = slot
  /\ account.reveal_slot <= account.seed_slot

(***************************************************************************)
(* select_oracle_in walks the queue once round from a start that depends   *)
(* on the queue's cursor, a hash of the request and the number of oracles  *)
(* the request has used, and takes the first key that is not the zero key, *)
(* not used and not proven stale.                                          *)
(***************************************************************************)
WalkStart(keys, curr_idx, spread, used) ==
  ((curr_idx % Len(keys)) + (spread % Len(keys)) + Len(used)) % Len(keys)

WalkKey(keys, start, step) == keys[((start + step) % Len(keys)) + 1]

Eligible(key, used, stale) ==
  /\ key # NoKey
  /\ \A i \in 1..Len(used) : used[i] # key
  /\ key \notin stale

(* Slip: any eligible key will do, not only the first of the walk.         *)
IsSelected_Any(keys, curr_idx, spread, used, stale, oracle) ==
  \E i \in 1..Len(keys) : oracle = keys[i] /\ Eligible(oracle, used, stale)

IsSelected(keys, curr_idx, spread, used, stale, oracle) ==
  /\ Len(keys) > 0
  /\ LET start == WalkStart(keys, curr_idx, spread, used)
     IN  \E step \in 0..(Len(keys) - 1) :
           /\ oracle = WalkKey(keys, start, step)
           /\ Eligible(oracle, used, stale)
           /\ \A earlier \in 0..(step - 1) :
                ~Eligible(WalkKey(keys, start, earlier), used, stale)

=============================================================================
