-------------------------------- MODULE Staking --------------------------------
(***************************************************************************)
(* The on-chain staking program: stakes per wallet and role, unbonding,    *)
(* slashing, rewards, the age clock, and recovery of the arbitration debt  *)
(* that the escrow program records against a merchant.                     *)
(*                                                                         *)
(* One action is one instruction; a failed constraint, `require!` or token *)
(* transfer leaves everything unchanged and is a guard.                    *)
(***************************************************************************)
EXTENDS Integers, FiniteSets, Functions

CONSTANTS
  Wallets,
  Roles,          \* roles a stake account may be opened for
  Amounts,        \* amounts a caller passes to an instruction
  Configs,        \* staking configurations an admin may store
  Periods,        \* unbonding periods the migration may be given, 0 to inherit
  Legacy,         \* stake accounts still in the layout without an age clock
  LegacyAmount,   \* what each of them holds
  Supply,         \* OPEN held by wallets at the start
  Bannable,       \* wallets a ban may be proposed for
  MaxOwed,        \* bound on the debt the escrow program records
  MaxReward,      \* bound on the rewards credited to an account and not claimed
  MaxTime,        \* bound on the clock
  LastRelease     \* bound on the release time of an unbonding cohort

BPS_DENOMINATOR == 10000
Keys == Wallets \X Roles
MerchantKey(w) == <<w, "Merchant">>

ConfigType == [layout : {"old", "new"},
               min : [Roles -> Nat], period : [Roles -> Nat \ {0}],
               slash_bps : 0..BPS_DENOMINATOR, slash_ok : BOOLEAN]

ASSUME StakingAssumption ==
  /\ IsFiniteSet(Wallets) /\ IsFiniteSet(Roles)
  /\ "Merchant" \in Roles
  /\ Amounts \subseteq Nat
  /\ Configs \subseteq ConfigType
  /\ Periods \subseteq Nat
  /\ Legacy \subseteq Keys
  /\ LegacyAmount \in Nat
  /\ Supply \in Nat
  /\ Bannable \subseteq Wallets
  /\ MaxOwed \in Nat /\ MaxReward \in Nat /\ MaxTime \in Nat \ {0} /\ LastRelease \in Nat

VARIABLES
  account,      \* StakeAccount per (wallet, role)
  stakeVault,   \* balance of the token account that holds every stake
  rewardsVault, \* balance of the rewards token account
  outside,      \* OPEN in wallets
  owed,         \* owed_total of the escrow program's StakeRecoveryClaim
  recovered,    \* StakeRecoveryReceipt.recovered_total
  config,       \* the singleton StakingConfig
  banned,       \* wallets with a BanRecord
  now,          \* unix_timestamp
  heldSince     \* history: when the position last became non-empty

stakingVars == <<account, stakeVault, rewardsVault, outside, owed, recovered,
                 config, banned, now, heldSince>>
vaultVars == <<stakeVault, rewardsVault, outside>>
debtVars == <<owed, recovered>>
adminVars == <<config, banned>>

AccountType == [layout : {"none", "old", "new"}, amount : Nat, unbonding_amount : Nat,
                unbonding_release_at : Nat, slashed_total : Nat,
                pending_rewards : Nat, first_staked_at : Nat]

NoAccount == [layout |-> "none", amount |-> 0, unbonding_amount |-> 0,
              unbonding_release_at |-> 0, slashed_total |-> 0,
              pending_rewards |-> 0, first_staked_at |-> 0]

\* The stakes there were before the age clock was introduced.
LegacyStakes == SumFunction([k \in Keys |-> IF k \in Legacy THEN LegacyAmount ELSE 0])

StakingInit ==
  /\ account = [k \in Keys |-> IF k \in Legacy
                  THEN [NoAccount EXCEPT !.layout = "old", !.amount = LegacyAmount]
                  ELSE NoAccount]
  /\ stakeVault = LegacyStakes
  /\ rewardsVault = 0
  /\ outside = Supply
  /\ owed = [w \in Wallets |-> 0]
  /\ recovered = [w \in Wallets |-> 0]
  /\ config \in Configs
  /\ banned = {}
  /\ now = 1
  /\ heldSince = [k \in Keys |-> 1]

\* An account or a config in its old layout does not deserialize.
Readable(k) == account[k].layout = "new" /\ config.layout = "new"

IsLegalBalance(role, amount) == amount = 0 \/ amount >= config.min[role]
Outstanding(w) == IF owed[w] > recovered[w] THEN owed[w] - recovered[w] ELSE 0
Lesser(x, y) == IF x <= y THEN x ELSE y

\* History: a position that was empty becomes non-empty.
MarkHeld(k, amount) ==
  heldSince' = [heldSince EXCEPT ![k] = IF account[k].amount = 0 /\ amount > 0 THEN now ELSE @]

-----------------------------------------------------------------------------
(* Stakes                                                                  *)

InitializeStakeAccount(k) ==
  /\ account[k].layout = "none"
  /\ account' = [account EXCEPT ![k] = [NoAccount EXCEPT !.layout = "new"]]
  /\ UNCHANGED <<vaultVars, debtVars, adminVars, now, heldSince>>

\* The clock of a position that already exists starts now; once per account.
MigrateStakeAccount(k) ==
  /\ account[k].layout = "old"
  /\ account' = [account EXCEPT ![k] = [@ EXCEPT !.layout = "new",
                   !.first_staked_at = IF account[k].amount > 0 THEN now ELSE 0]]
  /\ UNCHANGED <<vaultVars, debtVars, adminVars, now, heldSince>>

\* Mutant: every deposit restarts the age clock.
StakeRestartingClock(k, a) ==
  LET new == account[k].amount + a IN
  /\ Readable(k) /\ k[1] \notin banned
  /\ IsLegalBalance(k[2], new) /\ outside >= a
  /\ outside' = outside - a /\ stakeVault' = stakeVault + a
  /\ account' = [account EXCEPT ![k] = [@ EXCEPT !.amount = new, !.first_staked_at = now]]
  /\ MarkHeld(k, new)
  /\ UNCHANGED <<rewardsVault, debtVars, adminVars, now>>

Stake(k, a) ==
  LET new == account[k].amount + a IN
  /\ Readable(k)
  /\ k[1] \notin banned
  /\ IsLegalBalance(k[2], new)
  /\ outside >= a
  /\ outside' = outside - a
  /\ stakeVault' = stakeVault + a
  /\ account' = [account EXCEPT ![k] = [@ EXCEPT !.amount = new,
                   !.first_staked_at = IF account[k].amount = 0 /\ new > 0 THEN now
                                      ELSE account[k].first_staked_at]]
  /\ MarkHeld(k, new)
  /\ UNCHANGED <<rewardsVault, debtVars, adminVars, now>>

\* Mutant: a full exit keeps the age it had.
RequestUnstakeKeepingClock(k, a) ==
  LET remaining == account[k].amount - a
      release == now + config.period[k[2]] IN
  /\ Readable(k) /\ account[k].amount >= a
  /\ IsLegalBalance(k[2], remaining) /\ release <= LastRelease
  /\ account' = [account EXCEPT ![k] = [@ EXCEPT !.amount = remaining,
                   !.unbonding_amount = @ + a, !.unbonding_release_at = release]]
  /\ UNCHANGED <<vaultVars, debtVars, adminVars, now, heldSince>>

\* One cohort: the release time of the last request is that of all of them.
RequestUnstake(k, a) ==
  LET remaining == account[k].amount - a
      release == now + config.period[k[2]] IN
  /\ Readable(k)
  /\ account[k].amount >= a
  /\ IsLegalBalance(k[2], remaining)
  /\ release <= LastRelease
  /\ account' = [account EXCEPT ![k] = [@ EXCEPT !.amount = remaining,
                   !.first_staked_at = IF remaining = 0 THEN 0 ELSE account[k].first_staked_at,
                   !.unbonding_amount = account[k].unbonding_amount + a,
                   !.unbonding_release_at = release]]
  /\ UNCHANGED <<vaultVars, debtVars, adminVars, now, heldSince>>

\* A merchant's cohort stays while the wallet owes an arbitration deposit.
WithdrawUnstaked(k) ==
  LET amount == account[k].unbonding_amount IN
  /\ Readable(k)
  /\ amount > 0
  /\ now >= account[k].unbonding_release_at
  /\ k[2] = "Merchant" => Outstanding(k[1]) = 0
  /\ stakeVault >= amount
  /\ stakeVault' = stakeVault - amount
  /\ outside' = outside + amount
  /\ account' = [account EXCEPT ![k].unbonding_amount = 0]
  /\ UNCHANGED <<rewardsVault, debtVars, adminVars, now, heldSince>>

\* Mutant: the rate applies to the unbonding balance too, all taken from the active one.
SlashAmountOfBoth(k) ==
  ((account[k].amount + account[k].unbonding_amount) * config.slash_bps) \div BPS_DENOMINATOR

SlashAmount(k) == (account[k].amount * config.slash_bps) \div BPS_DENOMINATOR

\* slash_ok: the stored destination is a token account of the stake's mint. What it
\* receives is the sum of slashed_total; it does not stake.
Slash(k) ==
  LET amount == SlashAmount(k)
      left == account[k].amount - amount IN
  /\ Readable(k)
  /\ config.slash_ok
  /\ stakeVault >= amount
  /\ stakeVault' = stakeVault - amount
  /\ account' = [account EXCEPT ![k] = [@ EXCEPT !.amount = left,
                   !.slashed_total = account[k].slashed_total + amount,
                   !.first_staked_at = IF left = 0 THEN 0 ELSE account[k].first_staked_at]]
  /\ UNCHANGED <<outside, rewardsVault, debtVars, adminVars, now, heldSince>>

-----------------------------------------------------------------------------
(* The arbitration debt                                                    *)

\* escrow::open_dispute_case records what a vault could not cover.
RecordShortfall(w, a) ==
  /\ owed[w] + a <= MaxOwed
  /\ owed' = [owed EXCEPT ![w] = @ + a]
  /\ UNCHANGED <<account, vaultVars, recovered, adminVars, now, heldSince>>

\* Mutant: only the active balance is reached.
RecoverActiveOnly(w) ==
  LET k == MerchantKey(w)
      amount == Lesser(Outstanding(w), account[k].amount)
      left == account[k].amount - amount IN
  /\ Readable(k) /\ amount > 0 /\ stakeVault >= amount
  /\ stakeVault' = stakeVault - amount
  /\ recovered' = [recovered EXCEPT ![w] = @ + amount]
  /\ account' = [account EXCEPT ![k] = [@ EXCEPT !.amount = left,
                   !.first_staked_at = IF left = 0 THEN 0 ELSE @]]
  /\ UNCHANGED <<rewardsVault, outside, owed, adminVars, now, heldSince>>

\* Mutant: the active balance is taken first.
RecoverActiveFirst(w) ==
  LET k == MerchantKey(w)
      fromActive == Lesser(Outstanding(w), account[k].amount)
      fromUnbonding == Lesser(Outstanding(w) - fromActive, account[k].unbonding_amount)
      amount == fromUnbonding + fromActive
      left == account[k].amount - fromActive IN
  /\ Readable(k) /\ amount > 0 /\ stakeVault >= amount
  /\ stakeVault' = stakeVault - amount
  /\ recovered' = [recovered EXCEPT ![w] = @ + amount]
  /\ account' = [account EXCEPT ![k] = [@ EXCEPT !.amount = left,
                   !.unbonding_amount = @ - fromUnbonding,
                   !.first_staked_at = IF left = 0 THEN 0 ELSE @]]
  /\ UNCHANGED <<rewardsVault, outside, owed, adminVars, now, heldSince>>

\* Mutant: a partial recovery is recorded as a full one.
RecoverRecordingAll(w) ==
  LET k == MerchantKey(w)
      fromUnbonding == Lesser(Outstanding(w), account[k].unbonding_amount)
      fromActive == Lesser(Outstanding(w) - fromUnbonding, account[k].amount)
      amount == fromUnbonding + fromActive
      left == account[k].amount - fromActive IN
  /\ Readable(k) /\ amount > 0 /\ stakeVault >= amount
  /\ stakeVault' = stakeVault - amount
  /\ recovered' = [recovered EXCEPT ![w] = owed[w]]
  /\ account' = [account EXCEPT ![k] = [@ EXCEPT !.amount = left,
                   !.unbonding_amount = @ - fromUnbonding,
                   !.first_staked_at = IF left = 0 THEN 0 ELSE @]]
  /\ UNCHANGED <<rewardsVault, outside, owed, adminVars, now, heldSince>>

\* Unbonding tokens are taken first, and at most what is outstanding.
RecoverStakeShortfall(w) ==
  LET k == MerchantKey(w)
      fromUnbonding == Lesser(Outstanding(w), account[k].unbonding_amount)
      fromActive == Lesser(Outstanding(w) - fromUnbonding, account[k].amount)
      amount == fromUnbonding + fromActive
      left == account[k].amount - fromActive IN
  /\ Readable(k)
  /\ amount > 0
  /\ stakeVault >= amount
  /\ stakeVault' = stakeVault - amount
  /\ recovered' = [recovered EXCEPT ![w] = @ + amount]
  /\ account' = [account EXCEPT ![k] = [@ EXCEPT !.amount = left,
                   !.unbonding_amount = account[k].unbonding_amount - fromUnbonding,
                   !.first_staked_at = IF left = 0 THEN 0 ELSE account[k].first_staked_at]]
  /\ UNCHANGED <<rewardsVault, outside, owed, adminVars, now, heldSince>>

-----------------------------------------------------------------------------
(* Rewards                                                                 *)

\* Credits a claim; nothing checks that the rewards vault holds as much.
DistributeReward(k, a) ==
  /\ Readable(k)
  /\ account[k].pending_rewards + a <= MaxReward
  /\ account' = [account EXCEPT ![k].pending_rewards = @ + a]
  /\ UNCHANGED <<vaultVars, debtVars, adminVars, now, heldSince>>

FundRewardsVault(w, a) ==
  /\ config.layout = "new"
  /\ w \notin banned
  /\ a > 0
  /\ outside >= a
  /\ outside' = outside - a
  /\ rewardsVault' = rewardsVault + a
  /\ UNCHANGED <<account, stakeVault, debtVars, adminVars, now, heldSince>>

\* Mutant: rewards are paid out of the stakes.
ClaimRewardsFromStakes(k) ==
  LET amount == account[k].pending_rewards IN
  /\ Readable(k) /\ amount > 0 /\ stakeVault >= amount
  /\ stakeVault' = stakeVault - amount /\ outside' = outside + amount
  /\ account' = [account EXCEPT ![k].pending_rewards = 0]
  /\ UNCHANGED <<rewardsVault, debtVars, adminVars, now, heldSince>>

ClaimRewards(k) ==
  LET amount == account[k].pending_rewards IN
  /\ Readable(k)
  /\ amount > 0
  /\ rewardsVault >= amount
  /\ rewardsVault' = rewardsVault - amount
  /\ outside' = outside + amount
  /\ account' = [account EXCEPT ![k].pending_rewards = 0]
  /\ UNCHANGED <<stakeVault, debtVars, adminVars, now, heldSince>>

-----------------------------------------------------------------------------
(* The admin, the ban list and the clock                                   *)

\* The one period of the old layout becomes one per role; 0 inherits it.
MigrateStakingConfig(periods) ==
  /\ config.layout = "old"
  /\ config' = [config EXCEPT !.layout = "new",
                  !.period = [r \in Roles |-> IF periods[r] = 0 THEN config.period[r]
                                              ELSE periods[r]]]
  /\ UNCHANGED <<account, vaultVars, debtVars, banned, now, heldSince>>

\* Stores the slash destination as a token account of the stake's mint.
UpdateStakingConfig(c) ==
  /\ config.layout = "new" /\ c.layout = "new"
  /\ c.slash_ok
  /\ config' = c
  /\ UNCHANGED <<account, vaultVars, debtVars, banned, now, heldSince>>

\* A governance decision lists or de-lists a wallet.
BanListChanges(w) ==
  /\ banned' = IF w \in banned THEN banned \ {w} ELSE banned \cup {w}
  /\ UNCHANGED <<account, vaultVars, debtVars, config, now, heldSince>>

Tick ==
  /\ now < MaxTime
  /\ now' = now + 1
  /\ UNCHANGED <<account, vaultVars, debtVars, adminVars, heldSince>>

AccountStep(k) ==
  \/ InitializeStakeAccount(k)
  \/ MigrateStakeAccount(k)
  \/ WithdrawUnstaked(k)
  \/ Slash(k)
  \/ ClaimRewards(k)
  \/ \E a \in Amounts : \/ Stake(k, a)
                        \/ RequestUnstake(k, a)
                        \/ DistributeReward(k, a)

WalletStep(w) ==
  \/ RecoverStakeShortfall(w)
  \/ \E a \in Amounts : RecordShortfall(w, a) \/ FundRewardsVault(w, a)

StakingNext ==
  \/ \E k \in Keys : AccountStep(k)
  \/ \E w \in Wallets : WalletStep(w)
  \/ \E c \in Configs : UpdateStakingConfig(c)
  \/ \E p \in [Roles -> Periods] : MigrateStakingConfig(p)
  \/ \E w \in Bannable : BanListChanges(w)
  \/ Tick

StakingSpec == StakingInit /\ [][StakingNext]_stakingVars

-----------------------------------------------------------------------------
(* Safety                                                                  *)

\* Every account of the staking program holds a value of its type.
StakingTypeOK ==
  /\ account \in [Keys -> AccountType]
  /\ stakeVault \in Nat /\ rewardsVault \in Nat /\ outside \in Nat
  /\ owed \in [Wallets -> Nat] /\ recovered \in [Wallets -> Nat]
  /\ config \in ConfigType
  /\ banned \subseteq Wallets
  /\ now \in Nat \ {0}
  /\ heldSince \in [Keys -> Nat]

\* The one token account behind all stakes holds exactly the active and unbonding
\* balances recorded in the accounts: no withdrawal, slash or recovery of one wallet
\* is paid with another's stake.
StakeVaultBacked ==
  stakeVault = SumFunction([k \in Keys |-> account[k].amount + account[k].unbonding_amount])

\* OPEN is only moved between wallets, the two vaults, the slash destination and the
\* merchants' vaults.
OpenConserved ==
  outside + stakeVault + rewardsVault + SumFunction(recovered)
    + SumFunction([k \in Keys |-> account[k].slashed_total]) = Supply + LegacyStakes

\* Staking, unbonding, slashing, rewards and recovery move OPEN and never make or lose it,
\* and no counter goes below zero: each account's balance is in the vault behind it.
StakesAccounted == StakingTypeOK /\ StakeVaultBacked /\ OpenConserved

\* first_staked_at runs exactly while the account holds stake, and never claims an
\* age from before the position was last empty: not after a full exit, a total slash,
\* a recovery that took everything, or a migration.
AgeIsHonest ==
  \A k \in Keys :
    account[k].layout = "new" =>
      /\ account[k].amount = 0 <=> account[k].first_staked_at = 0
      /\ account[k].amount > 0 => account[k].first_staked_at >= heldSince[k]

\* Adding to a position, slashing part of it or paying a debt from it does not cost
\* its owner the age it has.
AgeSurvivesPartialChange ==
  \A k \in Keys :
    account[k].layout = "new" /\ account[k].amount > 0 /\ account'[k].amount > 0
      => account'[k].first_staked_at = account[k].first_staked_at

\* The age of a stake is the age it has: the clock never runs ahead of the position, and a
\* partial change does not reset it (stake, request_unstake, slash, recover_stake_shortfall,
\* migrate_stake_account).
AgeClockHonest == []AgeIsHonest /\ [][AgeSurvivesPartialChange]_stakingVars

(* What a node computes for whoever submits the recovery of a debt          *)
(* (openfiat-settlement, recovery.rs); an Option<_> is a set of at most one *)
(* element.                                                                *)

\* outstanding: the two counters are written by different programs, and a
\* receipt ahead of its claim reads as nothing outstanding.
RecoveryOutstanding(claim, stake) ==
    IF claim.owed_total >= stake.recovered_total
    THEN claim.owed_total - stake.recovered_total ELSE 0

\* plan: nothing when the instruction would be refused.
RecoveryPlan(claim, stake) ==
    LET least(x, y) == IF x <= y THEN x ELSE y
        due == RecoveryOutstanding(claim, stake)
        unbonding == least(due, stake.unbonding)
        active == least(due - unbonding, stake.active)
    IN  IF unbonding + active = 0 THEN {}
        ELSE {[from_unbonding |-> unbonding, from_active |-> active,
               recoverable |-> unbonding + active,
               unrecoverable |-> due - (unbonding + active)]}

\* What a step that recovers a debt takes, against the plan computed beforehand.
RecoveryFollowsPlan ==
  \A w \in Wallets :
    recovered'[w] > recovered[w] =>
      /\ recovered'[w] <= owed[w]
      /\ LET k == MerchantKey(w) IN
         /\ account'[k].amount < account[k].amount => account'[k].unbonding_amount = 0
         /\ \E p \in RecoveryPlan([owed_total |-> owed[w]],
                                [active |-> account[k].amount,
                                 unbonding |-> account[k].unbonding_amount,
                                 recovered_total |-> recovered[w]]) :
              /\ recovered'[w] = recovered[w] + p.recoverable
              /\ account'[k].amount = account[k].amount - p.from_active
              /\ account'[k].unbonding_amount = account[k].unbonding_amount - p.from_unbonding
              /\ owed[w] - recovered'[w] = p.unrecoverable

\* Staking never takes more than the escrow program says is owed, takes the
\* active balance only once nothing is unbonding, and moves exactly what the
\* plan a node computes from the public accounts announces: "the arithmetic
\* below mirrors the on-chain arithmetic exactly" (recover_stake_shortfall).
RecoveryTakesOnlyDebt == [][RecoveryFollowsPlan]_stakingVars

-----------------------------------------------------------------------------
(* What the comments of the program say of it                              *)

\* A second request moves the cohort's release later, never earlier: "the alternative
\* is releasing the older tranche early on the strength of a newer request".
ReleaseNeverEarlier ==
  [][\A k \in Keys :
       account[k].unbonding_amount > 0 /\ account'[k].unbonding_amount > account[k].unbonding_amount
         => account'[k].unbonding_release_at >= account[k].unbonding_release_at]_stakingVars

===============================================================================
