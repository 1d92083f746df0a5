----------------------------- MODULE StakeProofs -----------------------------
(***************************************************************************)
(* What rests on stake.  The staking program: its vault always holds what  *)
(* its accounts record, OPEN is conserved, the age clock is honest and a   *)
(* recovery takes what its plan announces, for every number of wallets,    *)
(* roles, amounts and configurations.  Snapshots: what a node imports comes*)
(* from a producer trusted then, for a pinned identity or for the stake    *)
(* the chain showed, and the checkpoint never moves back.                  *)
(***************************************************************************)
EXTENDS Staking, SnapshotMesh, Sums

-----------------------------------------------------------------------------
(* Staking: the sums                                                       *)

HeldBy(x) == x.amount + x.unbonding_amount
Held(acc) == SumFunction([k \in Keys |-> HeldBy(acc[k])])
Slashed(acc) == SumFunction([k \in Keys |-> acc[k].slashed_total])

\* A step writes record x to the account of k, and to no other.
Writes(k, x) == account' = [account EXCEPT ![k] = x]

\* There are finitely many stake accounts.
LEMMA KeysFinite == IsFiniteSet(Keys) /\ IsFiniteSet(Wallets)
  BY StakingAssumption, FS_Product DEF Keys

\* The fields of a stake account are natural numbers.
LEMMA AccountFields ==
  ASSUME NEW x \in AccountType
  PROVE  /\ x.amount \in Nat /\ x.unbonding_amount \in Nat /\ x.slashed_total \in Nat
         /\ x.first_staked_at \in Nat /\ x.unbonding_release_at \in Nat
         /\ x.pending_rewards \in Nat
         /\ HeldBy(x) \in Nat
  BY DEF AccountType, HeldBy

\* What is written in one account moves the two sums by the difference.
LEMMA WriteMovesSums ==
  ASSUME account \in [Keys -> AccountType], NEW k \in Keys, NEW x \in AccountType, Writes(k, x)
  PROVE  /\ account' \in [Keys -> AccountType]
         /\ account'[k] = x
         /\ \A j \in Keys : j # k => account'[j] = account[j]
         /\ Held(account') = Held(account) + (HeldBy(x) - HeldBy(account[k]))
         /\ Slashed(account') = Slashed(account) + (x.slashed_total - account[k].slashed_total)
         /\ Held(account) \in Int /\ Slashed(account) \in Int
<1>1. /\ account' \in [Keys -> AccountType] /\ account'[k] = x
      /\ \A j \in Keys : j # k => account'[j] = account[j]
  BY DEF Writes
<1> DEFINE f == [j \in Keys |-> HeldBy(account[j])]
           g == [j \in Keys |-> HeldBy(account'[j])]
           p == [j \in Keys |-> account[j].slashed_total]
           q == [j \in Keys |-> account'[j].slashed_total]
<1>2. f \in [Keys -> Int] /\ g \in [Keys -> Int] /\ p \in [Keys -> Int] /\ q \in [Keys -> Int]
  BY <1>1, AccountFields
<1>3. /\ g[k] = HeldBy(x) /\ f[k] = HeldBy(account[k])
      /\ q[k] = x.slashed_total /\ p[k] = account[k].slashed_total
      /\ \A j \in Keys : j # k => g[j] = f[j] /\ q[j] = p[j]
  BY <1>1
<1>4. /\ SumFunction(f) = Held(account) /\ SumFunction(g) = Held(account')
      /\ SumFunction(p) = Slashed(account) /\ SumFunction(q) = Slashed(account')
  BY DEF Held, Slashed
<1> HIDE DEF f, g, p, q
<1>5. SumFunction(g) = SumFunction(f) + (g[k] - f[k])
  BY <1>2, <1>3, KeysFinite, SumFunctionChange
<1>6. SumFunction(q) = SumFunction(p) + (q[k] - p[k])
  BY <1>2, <1>3, KeysFinite, SumFunctionChange
<1>7. SumFunction(f) \in Int /\ SumFunction(p) \in Int
  BY <1>2, KeysFinite, SumFunctionType
<1> QED
  BY <1>1, <1>3, <1>4, <1>5, <1>6, <1>7

\* The two invariants in terms of the sums.
LEMMA LedgerForm ==
  /\ StakeVaultBacked <=> stakeVault = Held(account)
  /\ StakeVaultBacked' <=> stakeVault' = Held(account')
  /\ OpenConserved <=> outside + stakeVault + rewardsVault + SumFunction(recovered)
                         + Slashed(account) = Supply + LegacyStakes
  /\ OpenConserved' <=> outside' + stakeVault' + rewardsVault' + SumFunction(recovered')
                          + Slashed(account') = Supply + LegacyStakes
  BY DEF StakeVaultBacked, OpenConserved, Held, Slashed, HeldBy

\* What is recovered in all is a number, and so is what there was at the start.
LEMMA RecoveredSum ==
  ASSUME recovered \in [Wallets -> Nat]
  PROVE  SumFunction(recovered) \in Nat /\ LegacyStakes \in Nat
<1> DEFINE f == recovered
           g == [k \in Keys |-> IF k \in Legacy THEN LegacyAmount ELSE 0]
<1>1. f \in [Wallets -> Nat] /\ g \in [Keys -> Nat]
  BY StakingAssumption
<1>2. LegacyStakes = SumFunction(g)
  BY DEF LegacyStakes
<1> HIDE DEF g
<1>3. SumFunction(g) \in Nat /\ SumFunction(f) \in Nat
  BY <1>1, KeysFinite, SumFunctionType
<1> QED
  BY <1>2, <1>3

Ledger == StakingTypeOK /\ StakeVaultBacked /\ OpenConserved

\* A step that writes x to one account and moves the vault with it: what leaves the vault
\* goes to wallets, is slashed or is recovered.
LEMMA WriteKeepsLedger ==
  ASSUME Ledger, NEW k \in Keys, NEW x \in AccountType, Writes(k, x),
         stakeVault' \in Nat, rewardsVault' \in Nat, outside' \in Nat,
         stakeVault' - stakeVault = HeldBy(x) - HeldBy(account[k]),
         (outside' - outside) + (stakeVault' - stakeVault) + (rewardsVault' - rewardsVault)
           + (x.slashed_total - account[k].slashed_total)
           + (SumFunction(recovered') - SumFunction(recovered)) = 0,
         recovered' \in [Wallets -> Nat], SumFunction(recovered') \in Nat,
         UNCHANGED <<owed, config, banned, now>>, heldSince' \in [Keys -> Nat]
  PROVE  Ledger'
<1>1. /\ StakingTypeOK /\ account \in [Keys -> AccountType] /\ account[k] \in AccountType
      /\ stakeVault \in Nat /\ rewardsVault \in Nat /\ outside \in Nat
      /\ recovered \in [Wallets -> Nat]
  BY DEF Ledger, StakingTypeOK
<1>2. /\ account' \in [Keys -> AccountType]
      /\ Held(account') = Held(account) + (HeldBy(x) - HeldBy(account[k]))
      /\ Slashed(account') = Slashed(account) + (x.slashed_total - account[k].slashed_total)
      /\ Held(account) \in Int /\ Slashed(account) \in Int
  BY <1>1, WriteMovesSums
<1>3. StakingTypeOK'
  BY <1>1, <1>2 DEF StakingTypeOK
<1>4. HeldBy(x) \in Int /\ HeldBy(account[k]) \in Int /\ x.slashed_total \in Int
      /\ account[k].slashed_total \in Int
  BY <1>1, AccountFields
<1>5. stakeVault' = Held(account')
  BY <1>1, <1>2, <1>4, LedgerForm DEF Ledger
<1>6. SumFunction(recovered) \in Nat /\ LegacyStakes \in Nat /\ Supply \in Nat
  BY <1>1, RecoveredSum, StakingAssumption
<1>7. outside + stakeVault + rewardsVault + SumFunction(recovered) + Slashed(account)
        = Supply + LegacyStakes
  BY LedgerForm DEF Ledger
<1>8. outside' + stakeVault' + rewardsVault' + SumFunction(recovered') + Slashed(account')
        = Supply + LegacyStakes
  BY <1>1, <1>2, <1>4, <1>6, <1>7
<1> QED
  BY <1>3, <1>5, <1>8, LedgerForm DEF Ledger

\* A payment of a from the stake vault to a wallet keeps what there is in all.
LEMMA StakePaid ==
  ASSUME outside \in Nat, stakeVault \in Nat, rewardsVault \in Nat, NEW a \in Nat,
         outside' = outside + a, stakeVault' = stakeVault - a, rewardsVault' = rewardsVault,
         NEW s \in Nat
  PROVE  (outside' - outside) + (stakeVault' - stakeVault) + (rewardsVault' - rewardsVault)
           + (s - s) = 0
  OBVIOUS

\* A step that writes no account.
LEMMA NoWriteKeepsLedger ==
  ASSUME Ledger, UNCHANGED <<account, stakeVault, recovered>>,
         rewardsVault' \in Nat, outside' \in Nat,
         outside' + stakeVault' + rewardsVault' = outside + stakeVault + rewardsVault,
         owed' \in [Wallets -> Nat], config' \in ConfigType, banned' \subseteq Wallets,
         now' \in Nat \ {0}, heldSince' \in [Keys -> Nat]
  PROVE  Ledger'
<1>1. /\ StakingTypeOK /\ account \in [Keys -> AccountType]
      /\ stakeVault \in Nat /\ rewardsVault \in Nat /\ outside \in Nat
      /\ recovered \in [Wallets -> Nat]
  BY DEF Ledger, StakingTypeOK
<1>2. StakingTypeOK'
  BY <1>1 DEF StakingTypeOK
<1>3. StakeVaultBacked'
  BY DEF Ledger, StakeVaultBacked
<1>4. SumFunction(recovered') = SumFunction(recovered) /\ Slashed(account') = Slashed(account)
  OBVIOUS
<1>5. OpenConserved'
  BY <1>4, LedgerForm DEF Ledger
<1> QED
  BY <1>2, <1>3, <1>5 DEF Ledger

-----------------------------------------------------------------------------
(* Staking: the age clock                                                  *)

\* heldSince is never in the future: what migrate_stake_account needs to start a clock now.
AgeInv == AgeIsHonest /\ \A k \in Keys : heldSince[k] <= now

\* One account, given when its position was last empty.
Honest(x, since) ==
  x.layout = "new" => /\ x.amount = 0 <=> x.first_staked_at = 0
                      /\ x.amount > 0 => x.first_staked_at >= since

\* What a write owes the age clock: it stays honest, and a partial change keeps it.
AgeKept(k, x) ==
  /\ Honest(x, heldSince'[k])
  /\ account[k].layout = "new" /\ account[k].amount > 0 /\ x.amount > 0
       => x.first_staked_at = account[k].first_staked_at

\* A write that owes the age clock nothing keeps every account's clock honest.
LEMMA WriteKeepsAge ==
  ASSUME StakingTypeOK, AgeInv, NEW k \in Keys, NEW x \in AccountType, Writes(k, x),
         AgeKept(k, x), \A j \in Keys : j # k => heldSince'[j] = heldSince[j],
         heldSince'[k] <= now, now' = now
  PROVE  AgeInv' /\ AgeSurvivesPartialChange
<1>1. /\ account'[k] = x /\ \A j \in Keys : j # k => account'[j] = account[j]
  BY WriteMovesSums DEF StakingTypeOK
<1>2. ASSUME NEW j \in Keys
      PROVE  /\ Honest(account'[j], heldSince'[j])
             /\ heldSince'[j] <= now'
             /\ account[j].layout = "new" /\ account[j].amount > 0 /\ account'[j].amount > 0
                  => account'[j].first_staked_at = account[j].first_staked_at
  <2>1. CASE j = k
    BY <1>1, <2>1 DEF AgeKept
  <2>2. CASE j # k
    <3>1. Honest(account[j], heldSince[j]) /\ heldSince[j] <= now
      BY DEF AgeInv, AgeIsHonest, Honest
    <3> QED
      BY <1>1, <2>2, <3>1
  <2> QED
    BY <2>1, <2>2
<1> QED
  BY <1>2 DEF AgeInv, AgeIsHonest, Honest, AgeSurvivesPartialChange

\* A step that writes no account keeps every clock.
LEMMA NoWriteKeepsAge ==
  ASSUME StakingTypeOK, AgeInv, UNCHANGED <<account, heldSince>>, now' \in {now, now + 1}
  PROVE  AgeInv' /\ AgeSurvivesPartialChange
<1>1. now \in Nat /\ heldSince \in [Keys -> Nat]
  BY DEF StakingTypeOK
<1>2. \A k \in Keys : heldSince[k] <= now'
  BY <1>1 DEF AgeInv
<1> QED
  BY <1>2 DEF AgeInv, AgeIsHonest, AgeSurvivesPartialChange

-----------------------------------------------------------------------------
(* Staking: one account's instructions                                     *)

\* An account that was never initialized holds nothing.
Unopened == \A k \in Keys : account[k].layout = "none" => account[k] = NoAccount

StakeInv == Ledger /\ AgeInv /\ Unopened

\* What every instruction keeps.
Kept == StakeInv' /\ AgeSurvivesPartialChange

\* The facts about an account an instruction starts from.
LEMMA AccountFacts ==
  ASSUME StakeInv, NEW k \in Keys
  PROVE  /\ account \in [Keys -> AccountType] /\ account[k] \in AccountType
         /\ account[k].amount \in Nat /\ account[k].unbonding_amount \in Nat
         /\ account[k].slashed_total \in Nat /\ account[k].first_staked_at \in Nat
         /\ account[k].pending_rewards \in Nat /\ account[k].unbonding_release_at \in Nat
         /\ account[k].layout \in {"none", "old", "new"}
         /\ stakeVault \in Nat /\ rewardsVault \in Nat /\ outside \in Nat
         /\ now \in Nat \ {0} /\ heldSince \in [Keys -> Nat]
         /\ heldSince[k] \in Nat /\ heldSince[k] <= now
         /\ Honest(account[k], heldSince[k])
<1>1. account \in [Keys -> AccountType] /\ account[k] \in AccountType
  BY DEF StakeInv, Ledger, StakingTypeOK
<1>2. /\ account[k].amount \in Nat /\ account[k].unbonding_amount \in Nat
      /\ account[k].slashed_total \in Nat /\ account[k].first_staked_at \in Nat
      /\ account[k].pending_rewards \in Nat /\ account[k].unbonding_release_at \in Nat
      /\ account[k].layout \in {"none", "old", "new"}
  BY <1>1 DEF AccountType
<1> QED
  BY <1>1, <1>2 DEF StakeInv, Ledger, StakingTypeOK, AgeInv, AgeIsHonest, Honest

\* A write that recovers nothing and marks at most its own position as held.
LEMMA WriteKept ==
  ASSUME StakeInv, NEW k \in Keys, NEW x \in AccountType, Writes(k, x),
         stakeVault' \in Nat, rewardsVault' \in Nat, outside' \in Nat,
         stakeVault' - stakeVault = HeldBy(x) - HeldBy(account[k]),
         (outside' - outside) + (stakeVault' - stakeVault) + (rewardsVault' - rewardsVault)
           + (x.slashed_total - account[k].slashed_total) = 0,
         UNCHANGED <<owed, recovered, config, banned, now>>, heldSince' \in [Keys -> Nat],
         \A j \in Keys : j # k => heldSince'[j] = heldSince[j], heldSince'[k] <= now,
         x.layout = "new", AgeKept(k, x)
  PROVE  Kept
<1>1. Ledger'
  <2>1. recovered \in [Wallets -> Nat] /\ account[k] \in AccountType
        /\ stakeVault \in Nat /\ rewardsVault \in Nat /\ outside \in Nat
    BY DEF StakeInv, Ledger, StakingTypeOK
  <2>2. SumFunction(recovered) \in Nat /\ SumFunction(recovered') = SumFunction(recovered)
    BY <2>1, RecoveredSum
  <2>3. (outside' - outside) + (stakeVault' - stakeVault) + (rewardsVault' - rewardsVault)
          + (x.slashed_total - account[k].slashed_total)
          + (SumFunction(recovered') - SumFunction(recovered)) = 0
    BY <2>1, <2>2, AccountFields
  <2> QED
    BY <2>1, <2>2, <2>3, WriteKeepsLedger DEF StakeInv
<1>2. AgeInv' /\ AgeSurvivesPartialChange
  BY WriteKeepsAge DEF StakeInv, Ledger
<1>3. Unopened'
  <2>1. account'[k] = x /\ \A j \in Keys : j # k => account'[j] = account[j]
    BY WriteMovesSums, SMTT(30) DEF StakeInv, Ledger, StakingTypeOK
  <2> QED
    BY <2>1 DEF StakeInv, Unopened
<1> QED
  BY <1>1, <1>2, <1>3 DEF Kept, StakeInv

\* A rate of at most all, rounded down, takes at most all.
LEMMA RateBounded ==
  ASSUME NEW a \in Nat, NEW b \in 0..BPS_DENOMINATOR
  PROVE  (a * b) \div BPS_DENOMINATOR \in 0..a
<1> DEFINE q == (a * b) \div 10000
<1>1. a * b \in Nat /\ a * b <= a * 10000
  BY DEF BPS_DENOMINATOR
<1> DEFINE n == a * b
<1>2. n \in Nat /\ n <= 10000 * a
  BY <1>1
<1> HIDE DEF n
<1>3. n \div 10000 \in 0..a
  BY <1>2
<1> QED
  BY <1>3, SMTT(30) DEF n, BPS_DENOMINATOR

\* A new account is empty.
LEMMA InitializeKept ==
  ASSUME StakeInv, NEW k \in Keys, InitializeStakeAccount(k)
  PROVE  Kept
<1> DEFINE x == [NoAccount EXCEPT !.layout = "new"]
<1>0. /\ account \in [Keys -> AccountType] /\ account[k] \in AccountType
      /\ account[k].amount \in Nat /\ account[k].unbonding_amount \in Nat
      /\ account[k].slashed_total \in Nat /\ account[k].first_staked_at \in Nat
      /\ account[k].pending_rewards \in Nat
      /\ stakeVault \in Nat /\ rewardsVault \in Nat /\ outside \in Nat
      /\ now \in Nat \ {0} /\ heldSince \in [Keys -> Nat] /\ heldSince[k] \in Nat
      /\ heldSince[k] <= now /\ Honest(account[k], heldSince[k])
  BY AccountFacts
<1>1. /\ Writes(k, x) /\ account[k].layout = "none"
      /\ UNCHANGED <<stakeVault, rewardsVault, outside, owed, recovered, config, banned, now,
                     heldSince>>
  BY DEF InitializeStakeAccount, Writes, vaultVars, debtVars, adminVars
<1>2. /\ x \in AccountType /\ x.amount = 0 /\ x.unbonding_amount = 0 /\ x.slashed_total = 0
      /\ x.first_staked_at = 0 /\ x.layout = "new"
  BY DEF NoAccount, AccountType
<1>3. account[k].amount = 0 /\ account[k].unbonding_amount = 0 /\ account[k].slashed_total = 0
  BY <1>1 DEF StakeInv, Unopened, NoAccount
<1> HIDE DEF x
<1>4. AgeKept(k, x)
  BY <1>2 DEF AgeKept, Honest
<1>5. HeldBy(x) = HeldBy(account[k])
  BY <1>2, <1>3 DEF HeldBy
<1> QED
  BY <1>0, <1>1, <1>2, <1>3, <1>4, <1>5, AccountFields, WriteKept

\* A migrated position starts its clock now.
LEMMA MigrateKept ==
  ASSUME StakeInv, NEW k \in Keys, MigrateStakeAccount(k)
  PROVE  Kept
<1> DEFINE at == IF account[k].amount > 0 THEN now ELSE 0
           x == [account[k] EXCEPT !.layout = "new", !.first_staked_at = at]
<1>0. /\ account \in [Keys -> AccountType] /\ account[k] \in AccountType
      /\ account[k].amount \in Nat /\ account[k].unbonding_amount \in Nat
      /\ account[k].slashed_total \in Nat /\ account[k].first_staked_at \in Nat
      /\ account[k].pending_rewards \in Nat
      /\ stakeVault \in Nat /\ rewardsVault \in Nat /\ outside \in Nat
      /\ now \in Nat \ {0} /\ heldSince \in [Keys -> Nat] /\ heldSince[k] \in Nat
      /\ heldSince[k] <= now /\ Honest(account[k], heldSince[k])
  BY AccountFacts
<1>1. /\ Writes(k, x) /\ account[k].layout = "old"
      /\ UNCHANGED <<stakeVault, rewardsVault, outside, owed, recovered, config, banned, now,
                     heldSince>>
  BY DEF MigrateStakeAccount, Writes, vaultVars, debtVars, adminVars
<1>2. at \in Nat
  BY <1>0
<1>3. x \in AccountType
  BY <1>0, <1>2, ZenonT(60) DEF AccountType
<1>4. /\ x.amount = account[k].amount /\ x.unbonding_amount = account[k].unbonding_amount
      /\ x.slashed_total = account[k].slashed_total /\ x.first_staked_at = at
      /\ x.layout = "new"
  BY <1>0 DEF AccountType
<1> HIDE DEF x
<1>5. AgeKept(k, x)
  BY <1>0, <1>1, <1>4 DEF AgeKept, Honest
<1>6. HeldBy(x) = HeldBy(account[k])
  BY <1>4 DEF HeldBy
<1> QED
  BY <1>0, <1>1, <1>3, <1>4, <1>5, <1>6, AccountFields, WriteKept

\* A deposit starts the clock of an empty position only.
LEMMA StakeKept ==
  ASSUME StakeInv, NEW k \in Keys, NEW a \in Amounts, Stake(k, a)
  PROVE  Kept
<1> DEFINE new == account[k].amount + a
           at == IF account[k].amount = 0 /\ new > 0 THEN now ELSE account[k].first_staked_at
           x == [account[k] EXCEPT !.amount = new, !.first_staked_at = at]
           since == IF account[k].amount = 0 /\ new > 0 THEN now ELSE heldSince[k]
<1>0. /\ account \in [Keys -> AccountType] /\ account[k] \in AccountType
      /\ account[k].amount \in Nat /\ account[k].unbonding_amount \in Nat
      /\ account[k].slashed_total \in Nat /\ account[k].first_staked_at \in Nat
      /\ account[k].pending_rewards \in Nat
      /\ stakeVault \in Nat /\ rewardsVault \in Nat /\ outside \in Nat
      /\ now \in Nat \ {0} /\ heldSince \in [Keys -> Nat] /\ heldSince[k] \in Nat
      /\ heldSince[k] <= now /\ Honest(account[k], heldSince[k])
  BY AccountFacts
<1>1. /\ Writes(k, x) /\ account[k].layout = "new" /\ outside >= a
      /\ outside' = outside - a /\ stakeVault' = stakeVault + a
      /\ heldSince' = [heldSince EXCEPT ![k] = since]
      /\ UNCHANGED <<rewardsVault, owed, recovered, config, banned, now>>
  <2>1. Writes(k, x)
    BY ZenonT(60) DEF Stake, Writes
  <2>2. heldSince' = [heldSince EXCEPT ![k] = since]
    BY ZenonT(60) DEF Stake, MarkHeld
  <2> QED
    BY <2>1, <2>2, ZenonT(60) DEF Stake, Readable, debtVars, adminVars
<1>2. a \in Nat /\ new \in Nat /\ at \in Nat /\ since \in Nat /\ since <= now
  BY <1>0, StakingAssumption
<1>3. x \in AccountType
  BY <1>0, <1>2, ZenonT(60) DEF AccountType
<1>4. /\ x.amount = new /\ x.unbonding_amount = account[k].unbonding_amount
      /\ x.slashed_total = account[k].slashed_total /\ x.first_staked_at = at
      /\ x.layout = "new"
  BY <1>0, <1>1 DEF AccountType
<1>5. /\ heldSince' \in [Keys -> Nat] /\ heldSince'[k] = since
      /\ \A j \in Keys : j # k => heldSince'[j] = heldSince[j]
  BY <1>0, <1>1, <1>2
<1> HIDE DEF x
<1>6. AgeKept(k, x)
  BY <1>0, <1>1, <1>2, <1>4, <1>5 DEF AgeKept, Honest
<1>7. HeldBy(x) = HeldBy(account[k]) + a /\ HeldBy(account[k]) \in Nat
  BY <1>0, <1>2, <1>4 DEF HeldBy
<1>8. stakeVault' \in Nat /\ outside' \in Nat
  BY <1>0, <1>1, <1>2
<1>9. /\ stakeVault' - stakeVault = HeldBy(x) - HeldBy(account[k])
      /\ (outside' - outside) + (stakeVault' - stakeVault) + (rewardsVault' - rewardsVault)
           + (x.slashed_total - account[k].slashed_total) = 0
  BY <1>0, <1>1, <1>2, <1>4, <1>7
<1> QED
  BY <1>0, <1>1, <1>2, <1>3, <1>4, <1>5, <1>6, <1>8, <1>9, WriteKept

\* A request moves stake to the unbonding cohort; a full exit stops the clock.
LEMMA RequestKept ==
  ASSUME StakeInv, NEW k \in Keys, NEW a \in Amounts, RequestUnstake(k, a)
  PROVE  Kept
<1> DEFINE left == account[k].amount - a
           at == IF left = 0 THEN 0 ELSE account[k].first_staked_at
           release == now + config.period[k[2]]
           cohort == account[k].unbonding_amount + a
           x == [account[k] EXCEPT !.amount = left, !.first_staked_at = at,
                                   !.unbonding_amount = cohort, !.unbonding_release_at = release]
<1>0. /\ account \in [Keys -> AccountType] /\ account[k] \in AccountType
      /\ account[k].amount \in Nat /\ account[k].unbonding_amount \in Nat
      /\ account[k].slashed_total \in Nat /\ account[k].first_staked_at \in Nat
      /\ account[k].pending_rewards \in Nat
      /\ stakeVault \in Nat /\ rewardsVault \in Nat /\ outside \in Nat
      /\ now \in Nat \ {0} /\ heldSince \in [Keys -> Nat] /\ heldSince[k] \in Nat
      /\ heldSince[k] <= now /\ Honest(account[k], heldSince[k])
  BY AccountFacts
<1>1. /\ Writes(k, x) /\ account[k].layout = "new" /\ account[k].amount >= a
      /\ UNCHANGED <<stakeVault, rewardsVault, outside, owed, recovered, config, banned, now,
                     heldSince>>
  <2>1. Writes(k, x)
    BY ZenonT(60) DEF RequestUnstake, Writes
  <2> QED
    BY <2>1, ZenonT(60) DEF RequestUnstake, Readable, vaultVars, debtVars, adminVars
<1>2. a \in Nat /\ left \in Nat /\ at \in Nat /\ cohort \in Nat
  BY <1>0, <1>1, StakingAssumption
<1>3. release \in Nat
  <2>1. config.period \in [Roles -> Nat \ {0}] /\ k[2] \in Roles
    BY DEF StakeInv, Ledger, StakingTypeOK, ConfigType, Keys
  <2> QED
    BY <1>0, <2>1
<1> HIDE DEF release
<1>4. x \in AccountType
  BY <1>0, <1>2, <1>3, ZenonT(60) DEF AccountType
<1>5. /\ x.amount = left /\ x.unbonding_amount = cohort
      /\ x.slashed_total = account[k].slashed_total /\ x.first_staked_at = at
      /\ x.layout = "new"
  BY <1>0, <1>1 DEF AccountType
<1> HIDE DEF x
<1>6. AgeKept(k, x)
  BY <1>0, <1>1, <1>2, <1>5 DEF AgeKept, Honest
<1>7. HeldBy(x) = HeldBy(account[k])
  BY <1>0, <1>2, <1>5 DEF HeldBy
<1> QED
  BY <1>0, <1>1, <1>4, <1>5, <1>6, <1>7, AccountFields, WriteKept

\* A withdrawal pays the cohort out of the vault.
LEMMA WithdrawKept ==
  ASSUME StakeInv, NEW k \in Keys, WithdrawUnstaked(k)
  PROVE  Kept
<1> DEFINE a == account[k].unbonding_amount
           x == [account[k] EXCEPT !.unbonding_amount = 0]
<1>0. /\ account \in [Keys -> AccountType] /\ account[k] \in AccountType
      /\ account[k].amount \in Nat /\ account[k].unbonding_amount \in Nat
      /\ account[k].slashed_total \in Nat /\ account[k].first_staked_at \in Nat
      /\ account[k].pending_rewards \in Nat
      /\ stakeVault \in Nat /\ rewardsVault \in Nat /\ outside \in Nat
      /\ now \in Nat \ {0} /\ heldSince \in [Keys -> Nat] /\ heldSince[k] \in Nat
      /\ heldSince[k] <= now /\ Honest(account[k], heldSince[k])
  BY AccountFacts
<1>1. /\ Writes(k, x) /\ account[k].layout = "new" /\ stakeVault >= a
      /\ stakeVault' = stakeVault - a /\ outside' = outside + a
      /\ UNCHANGED <<rewardsVault, owed, recovered, config, banned, now, heldSince>>
  BY DEF WithdrawUnstaked, Readable, Writes, debtVars, adminVars
<1>2. x \in AccountType
  BY <1>0, ZenonT(60) DEF AccountType
<1>3. /\ x.amount = account[k].amount /\ x.unbonding_amount = 0
      /\ x.slashed_total = account[k].slashed_total
      /\ x.first_staked_at = account[k].first_staked_at /\ x.layout = "new"
  BY <1>0, <1>1 DEF AccountType
<1> HIDE DEF x
<1>4. AgeKept(k, x)
  BY <1>0, <1>1, <1>3 DEF AgeKept, Honest
<1>5. /\ stakeVault' \in Nat /\ outside' \in Nat
      /\ stakeVault' - stakeVault = HeldBy(x) - HeldBy(account[k])
      /\ (outside' - outside) + (stakeVault' - stakeVault) + (rewardsVault' - rewardsVault)
           + (x.slashed_total - account[k].slashed_total) = 0
  <2>1. /\ stakeVault' = stakeVault - a /\ outside' = outside + a /\ stakeVault >= a
        /\ rewardsVault' = rewardsVault
    BY <1>1
  <2>2. HeldBy(x) = account[k].amount /\ HeldBy(account[k]) = account[k].amount + a
    BY <1>0, <1>3 DEF HeldBy
  <2>3. /\ account[k].amount \in Nat /\ account[k].unbonding_amount \in Nat
        /\ account[k].slashed_total \in Nat /\ x.slashed_total = account[k].slashed_total
        /\ stakeVault \in Nat /\ rewardsVault \in Nat /\ outside \in Nat
    BY <1>0, <1>3
  <2>4. stakeVault' \in Nat /\ outside' \in Nat
    BY <2>1, <2>3
  <2>5. stakeVault' - stakeVault = HeldBy(x) - HeldBy(account[k])
    BY <2>1, <2>2, <2>3
  <2>6. (outside' - outside) + (stakeVault' - stakeVault) + (rewardsVault' - rewardsVault)
          + (x.slashed_total - account[k].slashed_total) = 0
    <3>1. (outside' - outside) + (stakeVault' - stakeVault) + (rewardsVault' - rewardsVault)
            + (account[k].slashed_total - account[k].slashed_total) = 0
      BY <2>1, <2>3, StakePaid, ZenonT(60)
    <3> QED
      BY <2>3, <3>1, ZenonT(60)
  <2> QED
    BY <2>4, <2>5, <2>6
<1> QED
  BY <1>0, <1>1, <1>2, <1>3, <1>4, <1>5, WriteKept, ZenonT(60)

\* A slash takes its share of the active balance out of the vault.
LEMMA SlashKept ==
  ASSUME StakeInv, NEW k \in Keys, Slash(k)
  PROVE  Kept
<1> DEFINE a == SlashAmount(k)
           left == account[k].amount - a
           at == IF left = 0 THEN 0 ELSE account[k].first_staked_at
           x == [account[k] EXCEPT !.amount = left,
                                   !.slashed_total = account[k].slashed_total + a,
                                   !.first_staked_at = at]
<1>0. /\ account \in [Keys -> AccountType] /\ account[k] \in AccountType
      /\ account[k].amount \in Nat /\ account[k].unbonding_amount \in Nat
      /\ account[k].slashed_total \in Nat /\ account[k].first_staked_at \in Nat
      /\ account[k].pending_rewards \in Nat
      /\ stakeVault \in Nat /\ rewardsVault \in Nat /\ outside \in Nat
      /\ now \in Nat \ {0} /\ heldSince \in [Keys -> Nat] /\ heldSince[k] \in Nat
      /\ heldSince[k] <= now /\ Honest(account[k], heldSince[k])
  BY AccountFacts
<1>1. /\ Writes(k, x) /\ account[k].layout = "new" /\ stakeVault >= a
      /\ stakeVault' = stakeVault - a
      /\ UNCHANGED <<outside, rewardsVault, owed, recovered, config, banned, now, heldSince>>
  <2>1. Writes(k, x)
    BY ZenonT(60) DEF Slash, Writes
  <2> QED
    BY <2>1, ZenonT(60) DEF Slash, Readable, debtVars, adminVars
<1>2. a \in 0..account[k].amount
  <2>1. config.slash_bps \in 0..BPS_DENOMINATOR
    BY DEF StakeInv, Ledger, StakingTypeOK, ConfigType
  <2> QED
    BY <1>0, <2>1, RateBounded, ZenonT(60) DEF SlashAmount
<1> HIDE DEF a
<1>3. left \in Nat /\ at \in Nat /\ account[k].slashed_total + a \in Nat
  BY <1>0, <1>2
<1>4. x \in AccountType
  BY <1>0, <1>3, ZenonT(60) DEF AccountType
<1>5. /\ x.amount = left /\ x.unbonding_amount = account[k].unbonding_amount
      /\ x.slashed_total = account[k].slashed_total + a
      /\ x.first_staked_at = at /\ x.layout = "new"
  BY <1>0, <1>1 DEF AccountType
<1> HIDE DEF x
<1>6. AgeKept(k, x)
  BY <1>0, <1>1, <1>2, <1>5 DEF AgeKept, Honest
<1>7. /\ stakeVault' \in Nat
      /\ stakeVault' - stakeVault = HeldBy(x) - HeldBy(account[k])
      /\ (outside' - outside) + (stakeVault' - stakeVault) + (rewardsVault' - rewardsVault)
           + (x.slashed_total - account[k].slashed_total) = 0
  BY <1>0, <1>1, <1>2, <1>5 DEF HeldBy
<1> QED
  BY <1>0, <1>1, <1>4, <1>5, <1>6, <1>7, WriteKept

\* Crediting and paying rewards touches no stake.
LEMMA RewardKept ==
  ASSUME StakeInv, NEW k \in Keys,
         ClaimRewards(k) \/ \E a \in Amounts : DistributeReward(k, a)
  PROVE  Kept
<1>0. /\ account \in [Keys -> AccountType] /\ account[k] \in AccountType
      /\ account[k].amount \in Nat /\ account[k].unbonding_amount \in Nat
      /\ account[k].slashed_total \in Nat /\ account[k].first_staked_at \in Nat
      /\ account[k].pending_rewards \in Nat
      /\ stakeVault \in Nat /\ rewardsVault \in Nat /\ outside \in Nat
      /\ now \in Nat \ {0} /\ heldSince \in [Keys -> Nat] /\ heldSince[k] \in Nat
      /\ heldSince[k] <= now /\ Honest(account[k], heldSince[k])
  BY AccountFacts
<1>1. \E n \in Nat :
        /\ Writes(k, [account[k] EXCEPT !.pending_rewards = n])
        /\ account[k].layout = "new"
        /\ rewardsVault' \in Nat /\ outside' \in Nat
        /\ outside' + rewardsVault' = outside + rewardsVault
        /\ UNCHANGED <<stakeVault, owed, recovered, config, banned, now, heldSince>>
  <2>1. CASE ClaimRewards(k)
    <3>1. /\ Writes(k, [account[k] EXCEPT !.pending_rewards = 0])
          /\ account[k].layout = "new" /\ rewardsVault >= account[k].pending_rewards
          /\ rewardsVault' = rewardsVault - account[k].pending_rewards
          /\ outside' = outside + account[k].pending_rewards
          /\ UNCHANGED <<stakeVault, owed, recovered, config, banned, now, heldSince>>
      BY <2>1 DEF ClaimRewards, Readable, Writes, debtVars, adminVars
    <3>2. /\ rewardsVault' \in Nat /\ outside' \in Nat
          /\ outside' + rewardsVault' = outside + rewardsVault
      BY <1>0, <3>1
    <3> QED
      BY <3>1, <3>2, ZenonT(60)
  <2>2. ASSUME NEW a \in Amounts, DistributeReward(k, a)
        PROVE  \E n \in Nat :
                 /\ Writes(k, [account[k] EXCEPT !.pending_rewards = n])
                 /\ account[k].layout = "new"
                 /\ rewardsVault' \in Nat /\ outside' \in Nat
                 /\ outside' + rewardsVault' = outside + rewardsVault
                 /\ UNCHANGED <<stakeVault, owed, recovered, config, banned, now, heldSince>>
    <3> DEFINE n == account[k].pending_rewards + a
    <3>1. /\ Writes(k, [account[k] EXCEPT !.pending_rewards = n])
          /\ account[k].layout = "new"
          /\ UNCHANGED <<stakeVault, rewardsVault, outside, owed, recovered, config, banned, now,
                         heldSince>>
      BY <2>2 DEF DistributeReward, Readable, Writes, vaultVars, debtVars, adminVars
    <3>2. n \in Nat
      BY <1>0, StakingAssumption
    <3>3. rewardsVault' \in Nat /\ outside' \in Nat
          /\ outside' + rewardsVault' = outside + rewardsVault
      BY <1>0, <3>1
    <3> HIDE DEF n
    <3> QED
      BY <3>1, <3>2, <3>3, ZenonT(60)
  <2> QED
    BY <2>1, <2>2, ZenonT(60)
<1>2. PICK n \in Nat :
        /\ Writes(k, [account[k] EXCEPT !.pending_rewards = n])
        /\ account[k].layout = "new"
        /\ rewardsVault' \in Nat /\ outside' \in Nat
        /\ outside' + rewardsVault' = outside + rewardsVault
        /\ UNCHANGED <<stakeVault, owed, recovered, config, banned, now, heldSince>>
  BY <1>1
<1> DEFINE x == [account[k] EXCEPT !.pending_rewards = n]
<1>3. x \in AccountType
  BY <1>0, ZenonT(60) DEF AccountType
<1>4. /\ x.amount = account[k].amount /\ x.unbonding_amount = account[k].unbonding_amount
      /\ x.slashed_total = account[k].slashed_total
      /\ x.first_staked_at = account[k].first_staked_at /\ x.layout = "new"
  BY <1>0, <1>2 DEF AccountType
<1>5. Writes(k, x)
  BY <1>2
<1> HIDE DEF x
<1>6. AgeKept(k, x)
  BY <1>0, <1>2, <1>4 DEF AgeKept, Honest
<1>7. /\ stakeVault' \in Nat
      /\ stakeVault' - stakeVault = HeldBy(x) - HeldBy(account[k])
      /\ (outside' - outside) + (stakeVault' - stakeVault) + (rewardsVault' - rewardsVault)
           + (x.slashed_total - account[k].slashed_total) = 0
  BY <1>0, <1>2, <1>4 DEF HeldBy
<1> QED
  BY <1>0, <1>2, <1>3, <1>4, <1>5, <1>6, <1>7, WriteKept

-----------------------------------------------------------------------------
(* Staking: recovery of the arbitration debt                               *)

\* Adding to one entry adds as much to the sum.
LEMMA EntryMoves ==
  ASSUME NEW f \in [Wallets -> Nat], NEW g \in [Wallets -> Nat], NEW w \in Wallets,
         NEW a \in Nat, g[w] = f[w] + a, \A j \in Wallets : j # w => g[j] = f[j]
  PROVE  /\ SumFunction(g) = SumFunction(f) + a
         /\ SumFunction(f) \in Nat /\ SumFunction(g) \in Nat
<1>1. f \in [Wallets -> Int] /\ g \in [Wallets -> Int] /\ f[w] \in Nat
  OBVIOUS
<1>2. SumFunction(g) = SumFunction(f) + (g[w] - f[w])
  BY <1>1, KeysFinite, SumFunctionChange
<1>3. SumFunction(f) \in Nat /\ SumFunction(g) \in Nat
  BY KeysFinite, SumFunctionType
<1> QED
  BY <1>1, <1>2, <1>3

\* One wallet's counter moves the sum of what is recovered.
LEMMA RecoveredMoves ==
  ASSUME recovered \in [Wallets -> Nat], NEW w \in Wallets, NEW a \in Nat,
         recovered' = [recovered EXCEPT ![w] = recovered[w] + a]
  PROVE  /\ recovered' \in [Wallets -> Nat]
         /\ SumFunction(recovered') = SumFunction(recovered) + a
         /\ SumFunction(recovered) \in Nat /\ SumFunction(recovered') \in Nat
<1>1. /\ recovered' \in [Wallets -> Nat] /\ recovered'[w] = recovered[w] + a
      /\ \A j \in Wallets : j # w => recovered'[j] = recovered[j]
  OBVIOUS
<1> QED
  BY <1>1, EntryMoves, ZenonT(60)

\* The amounts of the recovery from w: what each balance gives.
FromUnbonding(w) == Lesser(Outstanding(w), account[MerchantKey(w)].unbonding_amount)
FromActive(w) ==
  Lesser(Outstanding(w) - FromUnbonding(w), account[MerchantKey(w)].amount)

\* They are at most what the account holds and at most the debt, and the active balance gives
\* only once nothing is unbonding.
LEMMA RecoveryAmounts ==
  ASSUME StakeInv, NEW w \in Wallets
  PROVE  LET k == MerchantKey(w) IN
         /\ k \in Keys /\ owed[w] \in Nat /\ recovered[w] \in Nat /\ Outstanding(w) \in Nat
         /\ Outstanding(w) > 0 => Outstanding(w) = owed[w] - recovered[w]
         /\ FromUnbonding(w) \in Nat /\ FromActive(w) \in Nat
         /\ FromUnbonding(w) <= account[k].unbonding_amount
         /\ FromActive(w) <= account[k].amount
         /\ FromUnbonding(w) + FromActive(w) <= Outstanding(w)
         /\ FromActive(w) > 0 => FromUnbonding(w) = account[k].unbonding_amount
<1> DEFINE k == MerchantKey(w)
<1>1. k \in Keys /\ owed[w] \in Nat /\ recovered[w] \in Nat
  BY StakingAssumption DEF StakeInv, Ledger, StakingTypeOK, Keys, MerchantKey
<1>2. /\ Outstanding(w) \in Nat
      /\ Outstanding(w) > 0 => Outstanding(w) = owed[w] - recovered[w]
  BY <1>1 DEF Outstanding
<1>3. account[k].amount \in Nat /\ account[k].unbonding_amount \in Nat
  BY <1>1, AccountFacts
<1> HIDE DEF k
<1>4. /\ FromUnbonding(w) = Lesser(Outstanding(w), account[k].unbonding_amount)
      /\ FromActive(w) = Lesser(Outstanding(w) - FromUnbonding(w), account[k].amount)
  BY DEF FromUnbonding, FromActive, k
<1>5. /\ FromUnbonding(w) \in Nat /\ FromActive(w) \in Nat
      /\ FromUnbonding(w) <= account[k].unbonding_amount
      /\ FromActive(w) <= account[k].amount
      /\ FromUnbonding(w) + FromActive(w) <= Outstanding(w)
      /\ FromActive(w) > 0 => FromUnbonding(w) = account[k].unbonding_amount
  <2> DEFINE due == Outstanding(w)
             u == FromUnbonding(w)
             v == FromActive(w)
             unbonding == account[k].unbonding_amount
             active == account[k].amount
  <2>1. /\ due \in Nat /\ unbonding \in Nat /\ active \in Nat
        /\ u = Lesser(due, unbonding) /\ v = Lesser(due - u, active)
    BY <1>2, <1>3, <1>4, ZenonT(60)
  <2> HIDE DEF due, u, v, unbonding, active
  <2>2. /\ u \in Nat /\ v \in Nat /\ u <= unbonding /\ v <= active /\ u + v <= due
        /\ v > 0 => u = unbonding
    BY <2>1 DEF Lesser
  <2> QED
    BY <2>2, ZenonT(60) DEF due, u, v, unbonding, active
<1> QED
  BY <1>1, <1>2, <1>5, ZenonT(60) DEF k

\* What recover_stake_shortfall writes.
LEMMA RecoveryWrites ==
  ASSUME StakeInv, NEW w \in Wallets, RecoverStakeShortfall(w)
  PROVE  LET k == MerchantKey(w)
             taken == FromUnbonding(w) + FromActive(w)
             left == account[k].amount - FromActive(w)
             cohort == account[k].unbonding_amount - FromUnbonding(w)
             at == IF left = 0 THEN 0 ELSE account[k].first_staked_at IN
         /\ Writes(k, [account[k] EXCEPT !.amount = left, !.unbonding_amount = cohort,
                                         !.first_staked_at = at])
         /\ account[k].layout = "new" /\ taken > 0 /\ stakeVault >= taken
         /\ stakeVault' = stakeVault - taken
         /\ recovered' = [recovered EXCEPT ![w] = recovered[w] + taken]
         /\ UNCHANGED <<rewardsVault, outside, owed, config, banned, now, heldSince>>
<1> DEFINE k == MerchantKey(w)
           left == account[k].amount - FromActive(w)
           cohort == account[k].unbonding_amount - FromUnbonding(w)
           at == IF left = 0 THEN 0 ELSE account[k].first_staked_at
           taken == FromUnbonding(w) + FromActive(w)
<1>1. Writes(k, [account[k] EXCEPT !.amount = left, !.unbonding_amount = cohort,
                                   !.first_staked_at = at])
  BY ZenonT(60) DEF RecoverStakeShortfall, Writes, FromUnbonding, FromActive
<1>2. recovered' = [recovered EXCEPT ![w] = recovered[w] + taken]
  BY ZenonT(60) DEF RecoverStakeShortfall, FromUnbonding, FromActive
<1>3. /\ account[k].layout = "new" /\ taken > 0 /\ stakeVault >= taken
      /\ stakeVault' = stakeVault - taken
      /\ UNCHANGED <<rewardsVault, outside, owed, config, banned, now, heldSince>>
  BY ZenonT(60) DEF RecoverStakeShortfall, Readable, FromUnbonding, FromActive, adminVars
<1> QED
  BY <1>1, <1>2, <1>3, ZenonT(60)

\* A recovery takes what it records out of the vault and out of one account.
LEMMA RecoveryKept ==
  ASSUME StakeInv, NEW w \in Wallets, RecoverStakeShortfall(w)
  PROVE  Kept /\ RecoveryFollowsPlan
<1> DEFINE k == MerchantKey(w)
           u == FromUnbonding(w)
           v == FromActive(w)
           left == account[k].amount - v
           cohort == account[k].unbonding_amount - u
           at == IF left = 0 THEN 0 ELSE account[k].first_staked_at
           x == [account[k] EXCEPT !.amount = left, !.unbonding_amount = cohort,
                                   !.first_staked_at = at]
<1>a. /\ k \in Keys /\ owed[w] \in Nat /\ recovered[w] \in Nat /\ Outstanding(w) \in Nat
      /\ Outstanding(w) > 0 => Outstanding(w) = owed[w] - recovered[w]
      /\ u \in Nat /\ v \in Nat /\ u <= account[k].unbonding_amount /\ v <= account[k].amount
      /\ u + v <= Outstanding(w) /\ (v > 0 => u = account[k].unbonding_amount)
  BY RecoveryAmounts
<1>1. /\ Writes(k, x) /\ account[k].layout = "new" /\ u + v > 0 /\ stakeVault >= u + v
      /\ stakeVault' = stakeVault - (u + v)
      /\ recovered' = [recovered EXCEPT ![w] = recovered[w] + (u + v)]
      /\ UNCHANGED <<rewardsVault, outside, owed, config, banned, now, heldSince>>
  BY RecoveryWrites, ZenonT(60)
<1> HIDE DEF u, v
<1>0. /\ account \in [Keys -> AccountType] /\ account[k] \in AccountType
      /\ account[k].amount \in Nat /\ account[k].unbonding_amount \in Nat
      /\ account[k].slashed_total \in Nat /\ account[k].first_staked_at \in Nat
      /\ stakeVault \in Nat /\ rewardsVault \in Nat /\ outside \in Nat
      /\ now \in Nat \ {0} /\ heldSince \in [Keys -> Nat] /\ heldSince[k] \in Nat
      /\ heldSince[k] <= now /\ Honest(account[k], heldSince[k])
  BY <1>a, AccountFacts
<1>b. recovered \in [Wallets -> Nat]
  BY DEF StakeInv, Ledger, StakingTypeOK
<1> HIDE DEF k
<1>2. left \in Nat /\ cohort \in Nat /\ at \in Nat
  BY <1>0, <1>a
<1>3. x \in AccountType
  BY <1>0, <1>2, ZenonT(60) DEF AccountType
<1>4. /\ x.amount = left /\ x.unbonding_amount = cohort
      /\ x.slashed_total = account[k].slashed_total /\ x.first_staked_at = at
      /\ x.layout = "new"
  BY <1>0, <1>1 DEF AccountType
<1>s. /\ heldSince'[k] = heldSince[k] /\ account[k].layout = "new"
      /\ stakeVault' = stakeVault - (u + v) /\ stakeVault >= u + v
      /\ rewardsVault' = rewardsVault /\ outside' = outside
  BY <1>1, ZenonT(60)
<1> HIDE DEF x
<1>5. AgeKept(k, x)
  BY <1>0, <1>2, <1>4, <1>a, <1>s DEF AgeKept, Honest
<1>6. /\ recovered' \in [Wallets -> Nat] /\ SumFunction(recovered) \in Nat
      /\ SumFunction(recovered') = SumFunction(recovered) + (u + v)
      /\ SumFunction(recovered') \in Nat
  <2>1. u + v \in Nat
    BY <1>a
  <2> QED
    BY <1>1, <1>b, <2>1, RecoveredMoves, ZenonT(60)
<1>7. /\ stakeVault' \in Nat
      /\ stakeVault' - stakeVault = HeldBy(x) - HeldBy(account[k])
      /\ (outside' - outside) + (stakeVault' - stakeVault) + (rewardsVault' - rewardsVault)
           + (x.slashed_total - account[k].slashed_total)
           + (SumFunction(recovered') - SumFunction(recovered)) = 0
  <2>1. /\ HeldBy(x) = (account[k].amount - v) + (account[k].unbonding_amount - u)
        /\ HeldBy(account[k]) = account[k].amount + account[k].unbonding_amount
    BY <1>4, ZenonT(60) DEF HeldBy
  <2>2. /\ account[k].amount \in Nat /\ account[k].unbonding_amount \in Nat
        /\ account[k].slashed_total \in Nat /\ x.slashed_total = account[k].slashed_total
        /\ stakeVault \in Nat /\ rewardsVault \in Nat /\ outside \in Nat
    BY <1>0, <1>4
  <2>3. /\ SumFunction(recovered) \in Nat
        /\ SumFunction(recovered') = SumFunction(recovered) + (u + v)
    BY <1>6
  <2>4. stakeVault' \in Nat
    BY <1>a, <1>s, <2>2
  <2>5. stakeVault' - stakeVault = HeldBy(x) - HeldBy(account[k])
    BY <1>a, <1>s, <2>1, <2>2
  <2>6. (outside' - outside) + (stakeVault' - stakeVault) + (rewardsVault' - rewardsVault)
          + (x.slashed_total - account[k].slashed_total)
          + (SumFunction(recovered') - SumFunction(recovered)) = 0
    BY <1>a, <1>s, <2>2, <2>3
  <2> QED
    BY <2>4, <2>5, <2>6
<1>8. Ledger'
  BY <1>0, <1>1, <1>3, <1>6, <1>7, <1>a, WriteKeepsLedger, ZenonT(60) DEF StakeInv
<1>9. AgeInv' /\ AgeSurvivesPartialChange
  BY <1>0, <1>1, <1>3, <1>5, <1>a, WriteKeepsAge DEF StakeInv, Ledger
<1>10. account'[k] = x /\ \A j \in Keys : j # k => account'[j] = account[j]
  BY <1>0, <1>1, <1>3, <1>a, WriteMovesSums
<1>11. Unopened'
  BY <1>4, <1>10 DEF StakeInv, Unopened
<1>12. RecoveryFollowsPlan
  <2>1. \A j \in Wallets : j # w => recovered'[j] = recovered[j]
    BY <1>1, <1>b
  <2>2. recovered'[w] = recovered[w] + (u + v)
    BY <1>1, <1>b
  <2>3. Outstanding(w) = owed[w] - recovered[w] /\ owed[w] >= recovered[w]
    BY <1>1, <1>a
  <2> DEFINE claim == [owed_total |-> owed[w]]
             st == [active |-> account[k].amount, unbonding |-> account[k].unbonding_amount,
                    recovered_total |-> recovered[w]]
             p == [from_unbonding |-> u, from_active |-> v, recoverable |-> u + v,
                   unrecoverable |-> Outstanding(w) - (u + v)]
  <2>4. RecoveryOutstanding(claim, st) = Outstanding(w)
    BY <2>3 DEF RecoveryOutstanding
  <2>5. /\ u = Lesser(Outstanding(w), st.unbonding)
        /\ v = Lesser(Outstanding(w) - u, st.active)
    BY DEF u, v, FromUnbonding, FromActive, k
  <2>6. RecoveryPlan(claim, st) = {p}
    <3>1. u + v # 0
      BY <1>1, <1>a
    <3> QED
      BY <2>4, <2>5, <3>1, ZenonT(60) DEF RecoveryPlan, Lesser
  <2>7. ASSUME NEW j \in Wallets, recovered'[j] > recovered[j]
        PROVE  j = w
    BY <1>b, <2>1, <2>7
  <2>8. recovered'[w] <= owed[w] /\ owed[w] - recovered'[w] = Outstanding(w) - (u + v)
    BY <1>a, <2>2, <2>3
  <2>9. account'[k].amount < account[k].amount => account'[k].unbonding_amount = 0
    BY <1>0, <1>4, <1>10, <1>a
  <2>10. \E q \in RecoveryPlan(claim, st) :
              /\ recovered'[w] = recovered[w] + q.recoverable
              /\ account'[k].amount = account[k].amount - q.from_active
              /\ account'[k].unbonding_amount = account[k].unbonding_amount - q.from_unbonding
              /\ owed[w] - recovered'[w] = q.unrecoverable
    <3>1. /\ p.recoverable = u + v /\ p.from_active = v /\ p.from_unbonding = u
          /\ p.unrecoverable = Outstanding(w) - (u + v)
      OBVIOUS
    <3>2. p \in RecoveryPlan(claim, st)
      BY <2>6
    <3> HIDE DEF p
    <3> QED
      BY <1>4, <1>10, <2>2, <2>8, <3>1, <3>2
  <2> QED
    BY <2>7, <2>8, <2>9, <2>10, ZenonT(60) DEF RecoveryFollowsPlan, k
<1> QED
  BY <1>8, <1>9, <1>11, <1>12 DEF Kept, StakeInv

\* A step that recovers nothing follows every plan.
LEMMA NothingRecovered ==
  ASSUME StakingTypeOK, recovered' = recovered
  PROVE  RecoveryFollowsPlan
<1>1. \A w \in Wallets : recovered[w] \in Nat
  BY DEF StakingTypeOK
<1> QED
  BY <1>1 DEF RecoveryFollowsPlan

-----------------------------------------------------------------------------
(* Staking: every step                                                     *)

\* A step that writes no account keeps the invariant.
LEMMA NoWriteKept ==
  ASSUME StakeInv, UNCHANGED <<account, stakeVault, recovered, heldSince>>,
         rewardsVault' \in Nat, outside' \in Nat,
         outside' + stakeVault' + rewardsVault' = outside + stakeVault + rewardsVault,
         owed' \in [Wallets -> Nat], config' \in ConfigType, banned' \subseteq Wallets,
         now' \in {now, now + 1}
  PROVE  Kept
<1>1. now' \in Nat \ {0} /\ heldSince' \in [Keys -> Nat]
  BY DEF StakeInv, Ledger, StakingTypeOK
<1>2. Ledger'
  BY <1>1, NoWriteKeepsLedger DEF StakeInv
<1>3. AgeInv' /\ AgeSurvivesPartialChange
  BY NoWriteKeepsAge DEF StakeInv, Ledger
<1>4. Unopened'
  BY DEF StakeInv, Unopened
<1> QED
  BY <1>2, <1>3, <1>4 DEF Kept, StakeInv

\* What the steps that write no account do.
LEMMA AsideKept ==
  ASSUME StakeInv,
         \/ \E w \in Wallets, a \in Amounts : RecordShortfall(w, a) \/ FundRewardsVault(w, a)
         \/ \E c \in Configs : UpdateStakingConfig(c)
         \/ \E p \in [Roles -> Periods] : MigrateStakingConfig(p)
         \/ \E w \in Bannable : BanListChanges(w)
         \/ Tick
         \/ UNCHANGED stakingVars
  PROVE  Kept /\ recovered' = recovered
<1>0. /\ rewardsVault \in Nat /\ outside \in Nat /\ stakeVault \in Nat
      /\ owed \in [Wallets -> Nat]
      /\ config \in ConfigType /\ banned \subseteq Wallets /\ now \in Nat
  BY DEF StakeInv, Ledger, StakingTypeOK
<1>1. ASSUME NEW w \in Wallets, NEW a \in Amounts, RecordShortfall(w, a)
      PROVE  Kept /\ recovered' = recovered
  <2>1. /\ owed' = [owed EXCEPT ![w] = owed[w] + a]
        /\ UNCHANGED <<account, stakeVault, rewardsVault, outside, recovered, config, banned, now,
                       heldSince>>
    BY <1>1 DEF RecordShortfall, vaultVars, adminVars
  <2>2. owed' \in [Wallets -> Nat]
    BY <1>0, <2>1, StakingAssumption
  <2> QED
    BY <1>0, <2>1, <2>2, NoWriteKept
<1>2. ASSUME NEW w \in Wallets, NEW a \in Amounts, FundRewardsVault(w, a)
      PROVE  Kept /\ recovered' = recovered
  <2>1. /\ outside >= a /\ outside' = outside - a /\ rewardsVault' = rewardsVault + a
        /\ UNCHANGED <<account, stakeVault, owed, recovered, config, banned, now, heldSince>>
    BY <1>2 DEF FundRewardsVault, debtVars, adminVars
  <2>2. a \in Nat /\ outside' \in Nat /\ rewardsVault' \in Nat /\ stakeVault' = stakeVault
    BY <1>0, <2>1, StakingAssumption
  <2>3. (outside - a) + stakeVault + (rewardsVault + a) = outside + stakeVault + rewardsVault
    BY <1>0, <2>2
  <2>4. outside' + stakeVault' + rewardsVault' = outside + stakeVault + rewardsVault
    BY <2>1, <2>2, <2>3, ZenonT(60)
  <2> QED
    BY <1>0, <2>1, <2>2, <2>4, NoWriteKept
<1>3. ASSUME NEW c \in Configs, UpdateStakingConfig(c)
      PROVE  Kept /\ recovered' = recovered
  <2>1. /\ config' \in ConfigType
        /\ UNCHANGED <<account, stakeVault, rewardsVault, outside, owed, recovered, banned, now,
                       heldSince>>
    BY <1>3, StakingAssumption DEF UpdateStakingConfig, vaultVars, debtVars
  <2> QED
    BY <1>0, <2>1, NoWriteKept
<1>4. ASSUME NEW p \in [Roles -> Periods], MigrateStakingConfig(p)
      PROVE  Kept /\ recovered' = recovered
  <2> DEFINE period == [r \in Roles |-> IF p[r] = 0 THEN config.period[r] ELSE p[r]]
  <2>1. /\ config' = [config EXCEPT !.layout = "new", !.period = period]
        /\ UNCHANGED <<account, stakeVault, rewardsVault, outside, owed, recovered, banned, now,
                       heldSince>>
    BY <1>4, ZenonT(60) DEF MigrateStakingConfig, vaultVars, debtVars
  <2>2. period \in [Roles -> Nat \ {0}]
    BY <1>0, StakingAssumption, ZenonT(60) DEF ConfigType
  <2> HIDE DEF period
  <2>3. config' \in ConfigType
    BY <1>0, <2>1, <2>2, ZenonT(60) DEF ConfigType
  <2> QED
    BY <1>0, <2>1, <2>3, NoWriteKept
<1>5. ASSUME NEW w \in Bannable, BanListChanges(w)
      PROVE  Kept /\ recovered' = recovered
  <2>1. /\ banned' \subseteq Wallets
        /\ UNCHANGED <<account, stakeVault, rewardsVault, outside, owed, recovered, config, now,
                       heldSince>>
    BY <1>0, <1>5, StakingAssumption DEF BanListChanges, vaultVars, debtVars
  <2> QED
    BY <1>0, <2>1, NoWriteKept
<1>6. ASSUME Tick
      PROVE  Kept /\ recovered' = recovered
  <2>1. /\ now' = now + 1
        /\ UNCHANGED <<account, stakeVault, rewardsVault, outside, owed, recovered, config, banned,
                       heldSince>>
    BY <1>6 DEF Tick, vaultVars, debtVars, adminVars
  <2> QED
    BY <1>0, <2>1, NoWriteKept
<1>7. ASSUME UNCHANGED stakingVars
      PROVE  Kept /\ recovered' = recovered
  BY <1>0, <1>7, NoWriteKept DEF stakingVars
<1> QED
  BY <1>1, <1>2, <1>3, <1>4, <1>5, <1>6, <1>7

\* Every instruction on one account keeps the invariant and recovers nothing.
LEMMA AccountStepKept ==
  ASSUME StakeInv, NEW k \in Keys, AccountStep(k)
  PROVE  Kept /\ recovered' = recovered
<1>1. Kept
  BY InitializeKept, MigrateKept, WithdrawKept, SlashKept, RewardKept, StakeKept, RequestKept
  DEF AccountStep
<1>2. recovered' = recovered
  BY ZenonT(60) DEF AccountStep, InitializeStakeAccount, MigrateStakeAccount, WithdrawUnstaked, Slash,
         ClaimRewards, Stake, RequestUnstake, DistributeReward, debtVars
<1> QED
  BY <1>1, <1>2

\* Every step keeps the invariant and the age of what it changes in part, and what it
\* recovers is what was planned.
LEMMA NextStakeInv ==
  ASSUME StakeInv, [StakingNext]_stakingVars
  PROVE  StakeInv' /\ AgeSurvivesPartialChange /\ RecoveryFollowsPlan
<1>1. Kept /\ (recovered' = recovered \/ RecoveryFollowsPlan)
  <2>1. ASSUME NEW k \in Keys, AccountStep(k)
        PROVE  Kept /\ recovered' = recovered
    BY <2>1, AccountStepKept
  <2>2. ASSUME NEW w \in Wallets, RecoverStakeShortfall(w)
        PROVE  Kept /\ RecoveryFollowsPlan
    BY <2>2, RecoveryKept
  <2> QED
    BY <2>1, <2>2, AsideKept DEF StakingNext, WalletStep
<1>2. StakingTypeOK
  BY DEF StakeInv, Ledger
<1> QED
  BY <1>1, <1>2, NothingRecovered DEF Kept

\* The initial states: legacy stakes are in the vault, nothing else is.
LEMMA InitStakeInv == StakingInit => StakeInv
<1> SUFFICES ASSUME StakingInit PROVE StakeInv
  OBVIOUS
<1> DEFINE old == [NoAccount EXCEPT !.layout = "old", !.amount = LegacyAmount]
<1>1. NoAccount \in AccountType /\ old \in AccountType
  BY StakingAssumption, ZenonT(60) DEF NoAccount, AccountType
<1>2. /\ NoAccount.amount = 0 /\ NoAccount.unbonding_amount = 0 /\ NoAccount.slashed_total = 0
      /\ NoAccount.layout = "none"
      /\ old.amount = LegacyAmount /\ old.unbonding_amount = 0 /\ old.slashed_total = 0
      /\ old.layout = "old"
  BY DEF NoAccount
<1> HIDE DEF old
<1>3. /\ account = [k \in Keys |-> IF k \in Legacy THEN old ELSE NoAccount]
      /\ stakeVault = LegacyStakes /\ rewardsVault = 0 /\ outside = Supply
      /\ owed = [w \in Wallets |-> 0] /\ recovered = [w \in Wallets |-> 0]
      /\ config \in Configs /\ banned = {} /\ now = 1 /\ heldSince = [k \in Keys |-> 1]
  BY DEF StakingInit, old
<1>4. recovered \in [Wallets -> Nat] /\ account \in [Keys -> AccountType]
  BY <1>1, <1>3
<1>5. LegacyStakes \in Nat
  BY <1>4, RecoveredSum
<1>6. StakingTypeOK
  BY <1>3, <1>4, <1>5, StakingAssumption DEF StakingTypeOK
<1> DEFINE f == [k \in Keys |-> HeldBy(account[k])]
           g == [k \in Keys |-> IF k \in Legacy THEN LegacyAmount ELSE 0]
           z == [k \in Keys |-> account[k].slashed_total]
           y == recovered
<1>7. \A k \in Keys : f[k] = g[k] /\ z[k] = 0
  BY <1>2, <1>3, StakingAssumption DEF HeldBy
<1>8. f = g
  BY <1>7
<1>9. StakeVaultBacked
  <2>1. Held(account) = LegacyStakes
    BY <1>8 DEF Held, LegacyStakes
  <2> QED
    BY <1>3, <2>1, LedgerForm
<1>10. /\ z \in [Keys -> Int] /\ \A k \in Keys : z[k] = 0
       /\ y \in [Wallets -> Int] /\ \A w \in Wallets : y[w] = 0
  BY <1>3, <1>7
<1>11. Slashed(account) = SumFunction(z)
  BY DEF Slashed
<1> HIDE DEF z, y
<1>12. SumFunction(z) = 0 /\ SumFunction(y) = 0
  BY <1>10, KeysFinite, SumFunctionZero
<1>13. OpenConserved
  <2>1. SumFunction(recovered) = 0 /\ Slashed(account) = 0
    BY <1>11, <1>12 DEF y
  <2>2. Supply + LegacyStakes + 0 + 0 + 0 = Supply + LegacyStakes
    BY <1>5, StakingAssumption
  <2> QED
    BY <1>3, <2>1, <2>2, LedgerForm
<1>14. AgeInv
  BY <1>2, <1>3 DEF AgeInv, AgeIsHonest
<1>15. Unopened
  BY <1>2, <1>3 DEF Unopened
<1> QED
  BY <1>6, <1>9, <1>13, <1>14, <1>15 DEF StakeInv, Ledger

\* The invariant holds throughout.
LEMMA AlwaysStakeInv == StakingSpec => []StakeInv
  BY InitStakeInv, NextStakeInv, PTL DEF StakingSpec

-----------------------------------------------------------------------------
(* Staking: the theorems                                                   *)

\* Whatever wallets stake, request, withdraw, are slashed, are paid and repay, in any order:
\* the one stake vault holds exactly the active and unbonding balances of all accounts, no
\* OPEN is made or lost, and no counter goes below zero.
THEOREM StakesAccountedHolds == StakingSpec => []StakesAccounted
<1>1. StakeInv => StakesAccounted
  BY DEF StakeInv, Ledger, StakesAccounted
<1> QED
  BY <1>1, AlwaysStakeInv, PTL

\* first_staked_at never claims an age the position does not have, and no partial change
\* costs it one (stake, request_unstake, slash, recover_stake_shortfall,
\* migrate_stake_account).
THEOREM AgeClockHonestHolds == StakingSpec => AgeClockHonest
<1>1. StakeInv => AgeIsHonest
  BY DEF StakeInv, AgeInv
<1>2. ASSUME StakeInv, [StakingNext]_stakingVars
      PROVE  [AgeSurvivesPartialChange]_stakingVars
  BY <1>2, NextStakeInv
<1> QED
  BY <1>1, <1>2, AlwaysStakeInv, PTL DEF StakingSpec, AgeClockHonest

\* recover_stake_shortfall takes no more than the escrow program says is owed, unbonding
\* tokens first, and exactly what the plan computed from the public accounts announces.
THEOREM RecoveryTakesOnlyDebtHolds == StakingSpec => RecoveryTakesOnlyDebt
<1>1. ASSUME StakeInv, [StakingNext]_stakingVars
      PROVE  [RecoveryFollowsPlan]_stakingVars
  BY <1>1, NextStakeInv
<1> QED
  BY <1>1, AlwaysStakeInv, PTL DEF StakingSpec, RecoveryTakesOnlyDebt

-----------------------------------------------------------------------------
(* Snapshots: the inductive invariant                                      *)

\* An announcement as gossip carries it.
Announcement(m) == m.slot \in Nat /\ m.created_at \in Nat

\* An index keeps announcements under their ids, none made later than some time.
IndexOK(x) ==
  /\ DOMAIN x = {"announced", "checkpoint"}
  /\ x.checkpoint \in Nat \cup {None}
  /\ \A id \in DOMAIN x.announced : x.announced[id].id = id /\ Announcement(x.announced[id])
  /\ \E last \in Nat : \A id \in DOMAIN x.announced : x.announced[id].created_at <= last

\* Readings are of what the chain showed (h) when they were made, at time t or before,
\* against the node's floor or the figure r of governance.
ReadingsOK(x, h, t, r) ==
  /\ DOMAIN x = {"enforced", "required", "seen"}
  /\ x.required \in {MinimumProviderStake, r}
  /\ \A p \in DOMAIN x.seen :
       /\ x.seen[p].amount \in Nat /\ x.seen[p].at \in Nat /\ x.seen[p].at <= t
       /\ x.seen[p].amount > 0 =>
            [provider |-> p, amount |-> x.seen[p].amount, at |-> x.seen[p].at] \in h

\* Content blocks under their names.
GenuineIn(x) ==
  /\ "pinned_content" \in DOMAIN x
  /\ \A cid \in DOMAIN x["pinned_content"] : x["pinned_content"][cid] = cid

\* Import i is from someone to be trusted, by the chain's history h and the figure r.
TrustedAs(i, h, r) ==
  i.from \notin Anchors =>
    /\ ~i.first
    /\ i.required \in {MinimumProviderStake, r}
    /\ \E x \in h : /\ x.provider = i.from /\ x.amount >= i.required
                    /\ x.at <= i.at /\ i.at - x.at <= ObservationTtl

\* The parts of the invariant, by what they are about.
IndexInv == DOMAIN index = Peers /\ \A n \in Peers : IndexOK(index[n])
FamiliesInv == DOMAIN families = Peers /\ \A n \in Peers : GenuineIn(families[n])
ReadingsInv ==
  DOMAIN stakes = Peers /\ \A n \in Peers : ReadingsOK(stakes[n], held, time, Required)
HistoryInv ==
  /\ setting \in Settings /\ time \in Nat
  /\ \A m \in announced : Announcement(m)
  /\ \A p \in DOMAIN bonded : bonded[p] \in Nat
  /\ Holdings(bonded, time) \subseteq held
TrustInv == \A i \in imported : TrustedAs(i, held, Required)

\* The trust that an import rests on, and what it is made of.
SnapshotInv == IndexInv /\ FamiliesInv /\ ReadingsInv /\ HistoryInv /\ TrustInv

\* What the run checks, in these terms.
LEMMA SnapshotInvSafe == SnapshotInv => ImportsTrusted /\ BlocksAreGenuine
  BY DEF SnapshotInv, TrustInv, FamiliesInv, ImportsTrusted, TrustedAs, BlocksAreGenuine, GenuineIn

-----------------------------------------------------------------------------
(* Snapshots: operators on an index, on readings and on stores             *)

\* The figure of governance is never below the floor.
LEMMA RequiredLevel ==
  ASSUME setting \in Settings
  PROVE  Required \in Nat /\ Required >= MinimumProviderStake
  BY SnapshotAssumption DEF Required, Larger

\* apply_announce keeps the index an index, and its checkpoint.
LEMMA AnnounceKeeps ==
  ASSUME NEW x, NEW s, NEW st, NEW m, NEW t, IndexOK(x), Announcement(m)
  PROVE  /\ IndexOK(Announce(x, s, st, m, t))
         /\ Announce(x, s, st, m, t).checkpoint = x.checkpoint
<1>1. CASE ~CanAnnounce(x, s, st, m, t)
  BY <1>1, SMTT(30) DEF Announce
<1>2. CASE CanAnnounce(x, s, st, m, t)
  <2> DEFINE a == Put(x.announced, m.id, m)
             y == [x EXCEPT !.announced = a]
  <2>1. Announce(x, s, st, m, t) = y
    BY <1>2 DEF Announce
  <2>2. DOMAIN y = {"announced", "checkpoint"} /\ y.announced = a /\ y.checkpoint = x.checkpoint
    BY DEF IndexOK
  <2>3. \A id \in DOMAIN a : a[id].id = id /\ Announcement(a[id])
    BY DEF IndexOK, Put
  <2>4. PICK last \in Nat : \A id \in DOMAIN x.announced : x.announced[id].created_at <= last
    BY DEF IndexOK
  <2>5. PICK later \in Nat : later >= last /\ later >= m.created_at
    <3>1. CASE last >= m.created_at  BY <3>1
    <3>2. CASE ~(last >= m.created_at)  BY <3>2 DEF Announcement
    <3> QED BY <3>1, <3>2
  <2>6. \A id \in DOMAIN a : a[id].created_at <= later
    <3> SUFFICES ASSUME NEW id \in DOMAIN a PROVE a[id].created_at <= later
      OBVIOUS
    <3>1. CASE id = m.id  BY <3>1, <2>5 DEF Put
    <3>2. CASE id # m.id
      <4>1. id \in DOMAIN x.announced /\ a[id] = x.announced[id]
        BY <3>2 DEF Put
      <4>2. x.announced[id].created_at \in Nat /\ x.announced[id].created_at <= last
        BY <4>1, <2>4 DEF IndexOK, Announcement
      <4> QED BY <4>1, <4>2, <2>5
    <3> QED BY <3>1, <3>2
  <2> HIDE DEF a, y
  <2> QED BY <2>1, <2>2, <2>3, <2>5, <2>6 DEF IndexOK
<1> QED BY <1>1, <1>2

\* prune_superseded only drops announcements.
LEMMA SweepKeeps ==
  ASSUME NEW x, IndexOK(x)
  PROVE  /\ IndexOK(PruneSuperseded(x))
         /\ PruneSuperseded(x).checkpoint = x.checkpoint
         /\ PruneSuperseded(x).announced = Without(x.announced, Superseded(x.announced))
<1> DEFINE a == Without(x.announced, Superseded(x.announced))
           y == [x EXCEPT !.announced = a]
<1>1. DOMAIN y = {"announced", "checkpoint"} /\ y.announced = a /\ y.checkpoint = x.checkpoint
  BY DEF IndexOK
<1>2. DOMAIN a \subseteq DOMAIN x.announced /\ \A id \in DOMAIN a : a[id] = x.announced[id]
  BY DEF Without
<1>3. PruneSuperseded(x) = y
  BY DEF PruneSuperseded
<1> HIDE DEF a, y
<1>4. IndexOK(y)
  BY <1>1, <1>2 DEF IndexOK
<1> QED BY <1>1, <1>3, <1>4 DEF a

\* The checkpoint moves to the slot of an announcement.
LEMMA CheckpointedKeeps ==
  ASSUME NEW x, IndexOK(x), NEW id \in DOMAIN x.announced
  PROVE  /\ IndexOK(Checkpointed(x, id))
         /\ Checkpointed(x, id).checkpoint = x.announced[id].slot
         /\ Checkpointed(x, id).announced = x.announced
<1> DEFINE y == [x EXCEPT !.checkpoint = x.announced[id].slot]
<1>1. /\ DOMAIN y = {"announced", "checkpoint"} /\ y.announced = x.announced
      /\ y.checkpoint = x.announced[id].slot
  BY DEF IndexOK
<1>2. x.announced[id].slot \in Nat
  BY DEF IndexOK, Announcement
<1>3. Checkpointed(x, id) = y
  BY DEF Checkpointed
<1> HIDE DEF y
<1>4. IndexOK(y)
  BY <1>1, <1>2 DEF IndexOK
<1> QED BY <1>1, <1>3, <1>4

\* A reading that qualifies is of a stake the chain showed recently enough.
LEMMA QualifiedIsShown ==
  ASSUME NEW x, NEW h, NEW t \in Nat, NEW r \in Nat, r >= MinimumProviderStake,
         ReadingsOK(x, h, t, r), NEW p, Standing(x, p, t) = "Qualified"
  PROVE  \E s \in h : /\ s.provider = p /\ s.amount >= x.required
                      /\ s.at <= t /\ t - s.at <= ObservationTtl
<1>1. /\ p \in DOMAIN x.seen /\ ~(SaturatingSub(t, x.seen[p].at) > ObservationTtl)
      /\ x.seen[p].amount >= x.required
  BY DEF Standing
<1>2. x.seen[p].amount \in Nat /\ x.seen[p].at \in Nat /\ x.seen[p].at <= t
  BY <1>1, ZenonT(60) DEF ReadingsOK
<1>3. x.required \in Nat /\ x.required > 0
  BY SnapshotAssumption DEF ReadingsOK
<1>4. x.seen[p].amount > 0
  BY <1>1, <1>2, <1>3
<1>5. [provider |-> p, amount |-> x.seen[p].amount, at |-> x.seen[p].at] \in h
  BY <1>1, <1>4, SMTT(30) DEF ReadingsOK
<1>6. t - x.seen[p].at <= ObservationTtl
  BY <1>1, <1>2, SnapshotAssumption DEF SaturatingSub
<1> QED BY <1>1, <1>2, <1>5, <1>6

\* Readings stay good as the clock and the history of the chain go on.
LEMMA ReadingsLast ==
  ASSUME NEW x, NEW h, NEW g, NEW t \in Nat, NEW u \in Nat, NEW r,
         ReadingsOK(x, h, t, r), h \subseteq g, t <= u
  PROVE  ReadingsOK(x, g, u, r)
  BY DEF ReadingsOK

\* So does the trust in an import.
LEMMA TrustLasts ==
  ASSUME NEW i, NEW h, NEW g, NEW r, TrustedAs(i, h, r), h \subseteq g
  PROVE  TrustedAs(i, g, r)
  BY SMTT(30) DEF TrustedAs

\* restore leaves every content block under its name.
LEMMA RestoredGenuine ==
  ASSUME NEW x, NEW m, NEW body, GenuineIn(x), BodyVerifies(m, body)
  PROVE  GenuineIn(Restored(x, body))
<1> DEFINE f == "pinned_content"
           new == IF f \in DOMAIN body THEN body[f] ELSE EmptyStore
           y == [k \in DOMAIN x[f] \cup DOMAIN new |-> IF k \in DOMAIN new THEN new[k] ELSE x[f][k]]
<1>1. f \in DOMAIN Restored(x, body) /\ Restored(x, body)[f] = y
  BY DEF Restored, GenuineIn
<1>2. \A k \in DOMAIN new : new[k] = k
  BY DEF BodyVerifies, EntryVerifies, EmptyStore
<1>3. \A k \in DOMAIN y : y[k] = k
  BY <1>2 DEF GenuineIn
<1> QED BY <1>1, <1>3 DEF GenuineIn

\* So does a restore that stops half-way.
LEMMA PartGenuine ==
  ASSUME NEW x, NEW m, NEW body, NEW put, GenuineIn(x), BodyVerifies(m, body)
  PROVE  GenuineIn(Restored(x, Part(body, put)))
<1> DEFINE f == "pinned_content"
           part == Part(body, put)
           new == IF f \in DOMAIN part THEN part[f] ELSE EmptyStore
           y == [k \in DOMAIN x[f] \cup DOMAIN new |-> IF k \in DOMAIN new THEN new[k] ELSE x[f][k]]
<1>1. f \in DOMAIN Restored(x, part) /\ Restored(x, part)[f] = y
  BY DEF Restored, GenuineIn
<1>2. \A k \in DOMAIN new : new[k] = k
  <2>1. CASE f \in DOMAIN body
    BY <2>1 DEF BodyVerifies, EntryVerifies, Part
  <2>2. CASE f \notin DOMAIN body
    BY <2>2 DEF Part, EmptyStore
  <2> QED BY <2>1, <2>2
<1>3. \A k \in DOMAIN y : y[k] = k
  BY <1>2 DEF GenuineIn
<1> QED BY <1>1, <1>3 DEF GenuineIn

\* A whole restore leaves every entry of the body in the store.
LEMMA RestoredHolds ==
  ASSUME NEW x, NEW body
  PROVE  Holds(Restored(x, body), body)
  BY DEF Restored, Holds

-----------------------------------------------------------------------------
(* Snapshots: the checkpoint and the newest one known only move forward    *)

\* What CheckpointMovesForward says of one node's index.
ForwardFrom(x, y) ==
  /\ x.checkpoint /= None => y.checkpoint /= None /\ y.checkpoint >= x.checkpoint
  /\ \A id \in Latest(x) : \E newest \in Latest(y) :
       y.announced[newest].slot >= x.announced[id].slot

\* Standing still is moving forward.
LEMMA ForwardSame == ASSUME NEW x, IndexOK(x) PROVE ForwardFrom(x, x)
<1>1. x.checkpoint # None => x.checkpoint \in Nat
  BY DEF IndexOK
<1>2. \A id \in Latest(x) : x.announced[id].slot \in Nat
  BY DEF Latest, IndexOK, Announcement
<1> QED BY <1>1, <1>2 DEF ForwardFrom

\* An announcement taken is the newest, or leaves the newest what it was.
LEMMA ForwardAnnounce ==
  ASSUME NEW x, NEW s, NEW st, NEW m, NEW t, IndexOK(x), Announcement(m)
  PROVE  ForwardFrom(x, Announce(x, s, st, m, t))
<1>1. CASE ~CanAnnounce(x, s, st, m, t)
  BY <1>1, ForwardSame, SMTT(30) DEF Announce
<1>2. CASE CanAnnounce(x, s, st, m, t)
  <2> DEFINE a == Put(x.announced, m.id, m)
             y == [x EXCEPT !.announced = a]
  <2>1. y.announced = a /\ y.checkpoint = x.checkpoint
    BY SMTT(30) DEF IndexOK
  <2>2. Announce(x, s, st, m, t) = y
    BY <1>2 DEF Announce
  <2>3. /\ DOMAIN a = DOMAIN x.announced \cup {m.id} /\ m.id \notin DOMAIN x.announced
        /\ a[m.id] = m /\ \A id \in DOMAIN x.announced : a[id] = x.announced[id]
    BY <1>2 DEF Put, CanAnnounce
  <2>4. m.slot \in Nat /\ \A id \in DOMAIN x.announced : x.announced[id].slot \in Nat
    BY DEF IndexOK, Announcement
  <2> HIDE DEF a, y
  <2>5. ASSUME NEW id \in Latest(x)
        PROVE  \E newest \in Latest(y) : y.announced[newest].slot >= x.announced[id].slot
    <3>1. /\ id \in DOMAIN x.announced
          /\ \A o \in DOMAIN x.announced : x.announced[id].slot >= x.announced[o].slot
      BY DEF Latest
    <3>2. CASE m.slot > x.announced[id].slot
      <4>1. \A o \in DOMAIN a : m.slot >= a[o].slot
        BY <2>3, <2>4, <3>1, <3>2
      <4>2. m.id \in Latest(y)
        BY <4>1, <2>1, <2>3 DEF Latest
      <4> QED BY <4>2, <2>1, <2>3, <2>4, <3>1, <3>2
    <3>3. CASE ~(m.slot > x.announced[id].slot)
      <4>1. \A o \in DOMAIN a : a[id].slot >= a[o].slot
        BY <2>3, <2>4, <3>1, <3>3
      <4>2. id \in Latest(y)
        BY <4>1, <2>1, <2>3, <3>1 DEF Latest
      <4> QED BY <4>2, <2>1, <2>3, <2>4, <3>1
    <3> QED BY <3>2, <3>3
  <2>6. x.checkpoint # None => x.checkpoint \in Nat
    BY DEF IndexOK
  <2> QED BY <2>1, <2>2, <2>5, <2>6 DEF ForwardFrom
<1> QED BY <1>1, <1>2

\* An import moves the checkpoint to a later slot.
LEMMA ForwardCheckpoint ==
  ASSUME NEW x, IndexOK(x), NEW id \in DOMAIN x.announced,
         x.checkpoint /= None => x.announced[id].slot > x.checkpoint
  PROVE  ForwardFrom(x, Checkpointed(x, id))
<1> DEFINE y == Checkpointed(x, id)
<1>1. y.announced = x.announced /\ y.checkpoint = x.announced[id].slot
  BY CheckpointedKeeps
<1>2. Latest(y) = Latest(x)
  BY <1>1 DEF Latest
<1>3. x.announced[id].slot \in Nat /\ (x.checkpoint # None => x.checkpoint \in Nat)
  BY DEF IndexOK, Announcement
<1>4. \A k \in Latest(x) : x.announced[k].slot \in Nat
  BY DEF Latest, IndexOK, Announcement
<1>5. x.announced[id].slot # None
  BY <1>3, SnapshotAssumption
<1> HIDE DEF y
<1>6. x.checkpoint /= None => y.checkpoint /= None /\ y.checkpoint >= x.checkpoint
  BY <1>1, <1>3, <1>5
<1>7. \A k \in Latest(x) : \E newest \in Latest(y) :
        y.announced[newest].slot >= x.announced[k].slot
  BY <1>1, <1>2, <1>4
<1> QED BY <1>6, <1>7 DEF ForwardFrom, y

\* A bounded set of naturals that is not empty has a greatest element.
LEMMA GreatestExists ==
  ASSUME NEW S, S \subseteq Nat, S # {}, NEW b \in Nat, \A x \in S : x <= b
  PROVE  \E g \in S : \A x \in S : x <= g
<1> DEFINE G == {k \in Nat : (\A x \in S : x <= k) => \E g \in S : \A x \in S : x <= g}
<1>1. 0 \in G
  <2>1. ASSUME \A x \in S : x <= 0 PROVE \E g \in S : \A x \in S : x <= g
    <3>1. PICK g \in S : TRUE
      BY ZenonT(60)
    <3>2. \A x \in S : x = 0
      BY <2>1
    <3> QED BY <3>1, <3>2
  <2> QED BY <2>1
<1>2. ASSUME NEW k \in Nat, k \in G PROVE k + 1 \in G
  <2>1. ASSUME \A x \in S : x <= k + 1 PROVE \E g \in S : \A x \in S : x <= g
    <3>1. CASE k + 1 \in S  BY <3>1, <2>1
    <3>2. CASE k + 1 \notin S
      <4>1. \A x \in S : x <= k
        BY <3>2, <2>1
      <4> QED BY <4>1, <1>2
    <3> QED BY <3>1, <3>2
  <2> QED BY <2>1, <1>2
<1> HIDE DEF G
<1>3. b \in G
  BY <1>1, <1>2, NatSetInduction
<1> QED BY <1>3 DEF G

\* No sweep of the index forgets the newest snapshot.
LEMMA ForwardPrune ==
  ASSUME NEW x, IndexOK(x)
  PROVE  ForwardFrom(x, PruneSuperseded(x))
<1> DEFINE a == x.announced
           y == PruneSuperseded(x)
<1>1. y.checkpoint = x.checkpoint /\ y.announced = Without(a, Superseded(a))
  BY SweepKeeps
<1>2. \A id \in DOMAIN a : a[id].slot \in Nat /\ a[id].created_at \in Nat
  BY DEF IndexOK, Announcement
<1>3. PICK last \in Nat : \A id \in DOMAIN a : a[id].created_at <= last
  BY DEF IndexOK
<1>4. x.checkpoint # None => x.checkpoint \in Nat
  BY DEF IndexOK
<1>5. ASSUME NEW id \in Latest(x)
      PROVE  \E newest \in Latest(y) : y.announced[newest].slot >= a[id].slot
  <2>1. id \in DOMAIN a /\ \A o \in DOMAIN a : a[id].slot >= a[o].slot
    BY DEF Latest
  <2> DEFINE T == {o \in DOMAIN a : a[o].wallet = a[id].wallet /\ a[o].slot = a[id].slot}
             C == {a[o].created_at : o \in T}
  <2>2. C \subseteq Nat /\ C # {} /\ \A c \in C : c <= last
    BY <2>1, <1>2, <1>3, SMTT(30)
  <2>3. PICK g \in C : \A c \in C : c <= g
    <3> HIDE DEF C
    <3> QED BY <2>2, GreatestExists, ZenonT(60)
  <2>4. PICK o \in T : a[o].created_at = g
    BY <2>3
  <2> DEFINE N == NewestOf(a, a[id].wallet)
             s == CHOOSE k \in N : TRUE
  <2>5. o \in N
    <3>1. SUFFICES ASSUME NEW k \in DOMAIN a, a[k].wallet = a[o].wallet, NewerThan(a[k], a[o])
                   PROVE  FALSE
      BY <2>4 DEF NewestOf
    <3>2. ~(a[k].slot > a[o].slot)
      BY <2>1, <2>4, <1>2
    <3>3. a[k].slot = a[o].slot /\ a[k].created_at > a[o].created_at
      BY <3>1, <3>2, SMTT(30) DEF NewerThan
    <3>4. a[k].created_at \in C
      BY <3>1, <3>3, <2>4, SMTT(30)
    <3>5. a[k].created_at \in Nat /\ a[o].created_at \in Nat
      BY <3>1, <2>4, <1>2, SMTT(30)
    <3>6. a[k].created_at <= a[o].created_at
      BY <3>4, <2>3, <2>4
    <3> QED BY <3>3, <3>5, <3>6, SMTT(30)
  <2>6. s \in N
    <3> HIDE DEF N
    <3> QED BY <2>5, ZenonT(60)
  <2>7. /\ s \in DOMAIN a /\ a[s].wallet = a[id].wallet /\ s \notin Superseded(a)
        /\ ~NewerThan(a[o], a[s])
    <3>1. s \in DOMAIN a /\ a[s].wallet = a[id].wallet /\ ~NewerThan(a[o], a[s])
      <4> HIDE DEF s
      <4> QED BY <2>4, <2>6 DEF NewestOf
    <3>2. s = CHOOSE k \in NewestOf(a, a[s].wallet) : TRUE
      BY <3>1, ZenonT(60)
    <3> HIDE DEF s, N
    <3> QED BY <3>1, <3>2, SMTT(30) DEF Superseded
  <2> HIDE DEF s, N
  <2>8. a[s].slot = a[id].slot
    <3>1. o \in DOMAIN a /\ a[o].slot = a[id].slot
      BY <2>4
    <3>2. ~(a[o].slot > a[s].slot) /\ a[id].slot >= a[s].slot
      BY <2>1, <2>7, SMTT(30) DEF NewerThan
    <3> QED BY <2>1, <2>7, <3>1, <3>2, <1>2
  <2> DEFINE w == Without(a, Superseded(a))
  <2>9. s \in DOMAIN w /\ DOMAIN w \subseteq DOMAIN a /\ \A k \in DOMAIN w : w[k] = a[k]
    BY <2>7, SMTT(30) DEF Without
  <2>10. y.announced = w
    BY <1>1
  <2> HIDE DEF w, y, a
  <2>11. \A k \in DOMAIN w : w[s].slot >= w[k].slot
    BY <2>1, <2>8, <2>9, SMTT(30)
  <2>12. s \in Latest(y)
    BY <2>9, <2>10, <2>11 DEF Latest
  <2> QED BY <2>12, <2>8, <2>9, <2>10, <2>1, <1>2
<1> HIDE DEF y
<1>6. x.checkpoint /= None => y.checkpoint /= None /\ y.checkpoint >= x.checkpoint
  BY <1>1, <1>4
<1> QED BY <1>5, <1>6 DEF ForwardFrom, y

-----------------------------------------------------------------------------
(* Snapshots: steps                                                        *)

\* A step that moves one index forward.
LEMMA OneIndex ==
  ASSUME IndexInv, NEW n \in Peers, NEW y, IndexOK(y), ForwardFrom(index[n], y),
         index' = [index EXCEPT ![n] = y]
  PROVE  IndexInv' /\ CheckpointMovesForward
<1>1. DOMAIN index' = Peers /\ index'[n] = y /\ \A k \in Peers : k # n => index'[k] = index[k]
  BY DEF IndexInv
<1>2. \A k \in Peers : IndexOK(index'[k])
  BY <1>1 DEF IndexInv
<1>3. \A k \in Peers : ForwardFrom(index[k], index'[k])
  BY <1>1, ForwardSame DEF IndexInv
<1> QED BY <1>1, <1>2, <1>3 DEF IndexInv, CheckpointMovesForward, ForwardFrom

\* A step that leaves every index alone.
LEMMA SameIndex ==
  ASSUME IndexInv, index' = index
  PROVE  IndexInv' /\ CheckpointMovesForward
<1>1. \A k \in Peers : ForwardFrom(index[k], index'[k])
  BY ForwardSame DEF IndexInv
<1> QED BY <1>1 DEF IndexInv, CheckpointMovesForward, ForwardFrom

\* Steps that leave the chain and the announcements alone.
LEMMA SameHistory ==
  ASSUME HistoryInv, UNCHANGED <<setting, announced, bonded, held, time>>
  PROVE  HistoryInv'
  BY DEF HistoryInv

\* Steps that leave the readings and the chain alone.
LEMMA SameReadings ==
  ASSUME ReadingsInv, UNCHANGED <<setting, stakes, held, time>>
  PROVE  ReadingsInv'
  BY DEF ReadingsInv, Required

\* Steps that import nothing.
LEMMA SameTrust ==
  ASSUME TrustInv, UNCHANGED <<setting, imported, held>>
  PROVE  TrustInv'
  BY DEF TrustInv, Required

\* Steps that leave every store alone.
LEMMA SameFamilies == ASSUME FamiliesInv, families' = families PROVE FamiliesInv'
  BY DEF FamiliesInv

\* A step of the chain or the clock: its history grows.
LEMMA LaterHistory ==
  ASSUME ReadingsInv, TrustInv, time \in Nat, time' \in Nat, time <= time', held \subseteq held',
         UNCHANGED <<setting, stakes, imported>>
  PROVE  ReadingsInv' /\ TrustInv'
<1>1. Required' = Required
  BY DEF Required
<1>2. \A n \in Peers : ReadingsOK(stakes[n], held', time', Required)
  BY ReadingsLast DEF ReadingsInv
<1>3. \A i \in imported : TrustedAs(i, held', Required)
  BY TrustLasts DEF TrustInv
<1> QED BY <1>1, <1>2, <1>3 DEF ReadingsInv, TrustInv

\* What the import pipeline takes from an announcement the node holds is from someone to
\* be trusted, and moves the checkpoint forward.
LEMMA ImportIsTrusted ==
  ASSUME SnapshotInv, NEW n \in Peers, NEW m \in Records(index[n].announced), NEW body,
         Imports(n, m, body)
  PROVE  /\ m.id \in DOMAIN index[n].announced /\ index[n].announced[m.id] = m
         /\ index[n].checkpoint /= None => m.slot > index[n].checkpoint
         /\ GenuineIn(Restored(families[n], body))
         /\ TrustedAs([node |-> n, from |-> m.wallet, at |-> time,
                       first |-> index[n].checkpoint = None,
                       required |-> stakes[n].required], held, Required)
<1> DEFINE x == index[n]
<1>1. m.id \in DOMAIN x.announced /\ x.announced[m.id] = m
  BY SMTT(30) DEF SnapshotInv, IndexInv, IndexOK, Records
<1>2. /\ TrustedForImport(x, stakes[n], m.wallet, time)
      /\ x.checkpoint /= None => m.slot > x.checkpoint
      /\ BodyVerifies(m, body)
  BY <1>1, SMTT(30) DEF Imports, MayImport
<1>3. GenuineIn(Restored(families[n], body))
  BY <1>2, RestoredGenuine DEF SnapshotInv, FamiliesInv
<1>4. Required \in Nat /\ Required >= MinimumProviderStake /\ time \in Nat
  BY RequiredLevel DEF SnapshotInv, HistoryInv
<1>5. ReadingsOK(stakes[n], held, time, Required)
  BY DEF SnapshotInv, ReadingsInv
<1>6. ASSUME m.wallet \notin Anchors
      PROVE  /\ ~(x.checkpoint = None)
             /\ stakes[n].required \in {MinimumProviderStake, Required}
             /\ \E h \in held : /\ h.provider = m.wallet /\ h.amount >= stakes[n].required
                                /\ h.at <= time /\ time - h.at <= ObservationTtl
  <2>1. x.checkpoint /= None /\ Standing(stakes[n], m.wallet, time) = "Qualified"
    BY <1>2, <1>6, SMTT(30) DEF TrustedForImport
  <2>2. stakes[n].required \in {MinimumProviderStake, Required}
    BY <1>5, SMTT(30) DEF ReadingsOK
  <2>3. \E h \in held : /\ h.provider = m.wallet /\ h.amount >= stakes[n].required
                        /\ h.at <= time /\ time - h.at <= ObservationTtl
    BY <1>4, <1>5, <2>1, QualifiedIsShown
  <2> QED BY <2>1, <2>2, <2>3, SMTT(30)
<1> QED BY <1>1, <1>2, <1>3, <1>6, ZenonT(60) DEF TrustedAs

\* Import keeps the invariant.
LEMMA ImportStep ==
  ASSUME SnapshotInv, NEW n \in Peers, NEW m \in Records(index[n].announced), NEW body,
         Imports(n, m, body), Import(n, m, body),
         UNCHANGED <<setting, stakes, announced, bonded, held, time>>
  PROVE  SnapshotInv' /\ CheckpointMovesForward
<1> DEFINE i == [node |-> n, from |-> m.wallet, at |-> time,
                 first |-> index[n].checkpoint = None, required |-> stakes[n].required]
           x == index[n]
<1>1. /\ m.id \in DOMAIN x.announced /\ x.announced[m.id] = m
      /\ x.checkpoint /= None => m.slot > x.checkpoint
      /\ GenuineIn(Restored(families[n], body))
      /\ TrustedAs(i, held, Required)
  BY ImportIsTrusted, ZenonT(60)
<1>2. IndexOK(x)
  BY DEF SnapshotInv, IndexInv
<1>3. IndexOK(Checkpointed(x, m.id)) /\ ForwardFrom(x, Checkpointed(x, m.id))
  BY <1>1, <1>2, CheckpointedKeeps, ForwardCheckpoint, ZenonT(60)
<1>4. IndexInv' /\ CheckpointMovesForward
  BY <1>3, OneIndex, ZenonT(60) DEF SnapshotInv, Import
<1>5. FamiliesInv'
  BY <1>1, ZenonT(60) DEF SnapshotInv, FamiliesInv, Import
<1>6. TrustInv'
  <2>1. imported' = imported \cup {i} /\ held' = held /\ Required' = Required
    BY ZenonT(60) DEF Import, Required
  <2> HIDE DEF i
  <2> QED BY <1>1, <2>1, ZenonT(60) DEF SnapshotInv, TrustInv
<1>7. ReadingsInv' /\ HistoryInv'
  BY SameReadings, SameHistory DEF SnapshotInv
<1> QED BY <1>4, <1>5, <1>6, <1>7 DEF SnapshotInv

\* The importable candidates are announcements the node holds, and importable.
LEMMA ImportableHeld ==
  ASSUME NEW n, NEW bad, NEW m \in Importable(n, bad)
  PROVE  m \in Records(index[n].announced) /\ Imports(n, m, Served(m, bad))
  BY SMTT(30) DEF Importable, Candidates, ByOthers

\* A node that starts again has no readings.
LEMMA NoReadings ==
  ASSUME NEW enforced, NEW h, NEW t, NEW r
  PROVE  ReadingsOK(NoStakes(enforced), h, t, r)
  BY DEF ReadingsOK, NoStakes, EmptyStore

\* A poll reads what the chain shows now.
LEMMA PollKeeps ==
  ASSUME SnapshotInv, NEW n \in Peers, NEW governed, NEW answered
  PROVE  ReadingsOK(PolledStakes(IF governed THEN ObserveRequirement(stakes[n], setting.requirement)
                                           ELSE stakes[n],
                                 [p \in answered |-> Account(p)], time),
                    held, time, Required)
<1> DEFINE x == IF governed THEN ObserveRequirement(stakes[n], setting.requirement) ELSE stakes[n]
           accounts == [p \in answered |-> Account(p)]
           read == {p \in DOMAIN accounts : accounts[p] = None \/ accounts[p].decodes}
           readings == [p \in read |->
                          [amount |-> IF accounts[p] = None THEN 0 ELSE accounts[p].amount,
                           at |-> time]]
           kept == Without(x.seen, DOMAIN accounts \ read)
           y == Forget(x, DOMAIN accounts \ read)
           z == Observe(y, readings)
<1>1. ReadingsOK(stakes[n], held, time, Required) /\ time \in Nat
  BY DEF SnapshotInv, ReadingsInv, HistoryInv
<1>2. ReadingsOK(x, held, time, Required)
  <2>1. CASE governed
    <3>1. x = [stakes[n] EXCEPT !.required = Required]
      BY <2>1 DEF ObserveRequirement, Required
    <3>2. /\ DOMAIN x = {"enforced", "required", "seen"}
          /\ x.required = Required /\ x.seen = stakes[n].seen
      BY <1>1, <3>1 DEF ReadingsOK
    <3> HIDE DEF x
    <3> QED BY <1>1, <3>2 DEF ReadingsOK
  <2>2. CASE ~governed
    BY <1>1, <2>2
  <2> QED BY <2>1, <2>2, SMTT(30)
<1> HIDE DEF x
<1>3. /\ DOMAIN y = {"enforced", "required", "seen"}
      /\ y.required = x.required /\ y.seen = kept
  BY <1>2 DEF Forget, ReadingsOK
<1>4. ASSUME NEW p \in read
      PROVE  /\ readings[p].amount \in Nat /\ readings[p].at = time
             /\ readings[p].amount > 0 =>
                  [provider |-> p, amount |-> readings[p].amount, at |-> time] \in held
  <2>1. accounts[p] = Account(p) /\ readings[p].at = time
        /\ readings[p].amount = IF accounts[p] = None THEN 0 ELSE accounts[p].amount
    BY <1>4, SMTT(30)
  <2>2. CASE accounts[p] = None
    BY <2>1, <2>2
  <2>3. CASE accounts[p] # None
    <3>1. p \in DOMAIN bonded /\ readings[p].amount = bonded[p]
      BY <2>1, <2>3 DEF Account
    <3>2. bonded[p] \in Nat
      BY <3>1, SMTT(30) DEF SnapshotInv, HistoryInv
    <3>3. [provider |-> p, amount |-> bonded[p], at |-> time] \in held
      BY <3>1 DEF SnapshotInv, HistoryInv, Holdings
    <3> QED BY <2>1, <3>1, <3>2, <3>3, ZenonT(60)
  <2> QED BY <2>2, <2>3, ZenonT(60)
<1> DEFINE seen == [p \in DOMAIN readings \cup DOMAIN kept |->
                      IF p \in DOMAIN readings THEN readings[p] ELSE kept[p]]
<1>5. DOMAIN kept \subseteq DOMAIN x.seen /\ \A p \in DOMAIN kept : kept[p] = x.seen[p]
  BY DEF Without
<1>6. /\ DOMAIN readings = read
      /\ DOMAIN seen = read \cup DOMAIN kept
      /\ \A p \in DOMAIN seen : seen[p] = IF p \in read THEN readings[p] ELSE kept[p]
  <2>1. DOMAIN readings = read
    OBVIOUS
  <2> HIDE DEF readings, kept, read
  <2> QED BY <2>1
<1>7. /\ DOMAIN z = {"enforced", "required", "seen"}
      /\ z.required = x.required /\ z.seen = seen
  <2> HIDE DEF y, readings, kept
  <2> QED BY <1>3 DEF Observe
<1>8. z = PolledStakes(x, accounts, time)
  BY DEF PolledStakes
<1> HIDE DEF z, y, seen, readings, read, kept, accounts
<1>9. ASSUME NEW p \in DOMAIN seen
      PROVE  /\ seen[p].amount \in Nat /\ seen[p].at \in Nat /\ seen[p].at <= time
             /\ seen[p].amount > 0 =>
                  [provider |-> p, amount |-> seen[p].amount, at |-> seen[p].at] \in held
  <2>1. CASE p \in read
    <3>1. seen[p] = readings[p]
      BY <2>1, <1>6, SMTT(30)
    <3>2. /\ readings[p].amount \in Nat /\ readings[p].at = time
          /\ readings[p].amount > 0 =>
               [provider |-> p, amount |-> readings[p].amount, at |-> time] \in held
      BY <2>1, <1>4
    <3> QED BY <3>1, <3>2, <1>1
  <2>2. CASE p \notin read
    <3>1. p \in DOMAIN x.seen /\ seen[p] = x.seen[p]
      BY <2>2, <1>5, <1>6, SMTT(30)
    <3> QED BY <3>1, <1>2 DEF ReadingsOK
  <2> QED BY <2>1, <2>2, SMTT(30)
<1>10. ReadingsOK(z, held, time, Required)
  BY <1>2, <1>7, <1>9 DEF ReadingsOK
<1> QED BY <1>8, <1>10 DEF x, accounts

\* The invariant holds to begin with.
LEMMA SnapshotInvInit == SnapshotInit => SnapshotInv
<1> SUFFICES ASSUME SnapshotInit PROVE SnapshotInv
  OBVIOUS
<1>1. IndexOK(NoIndex)
  <2>1. /\ DOMAIN NoIndex = {"announced", "checkpoint"} /\ NoIndex.checkpoint = None
        /\ DOMAIN NoIndex.announced = {}
    BY DEF NoIndex, EmptyStore
  <2> QED BY <2>1, SMTT(30) DEF IndexOK
<1>2. GenuineIn(Worldview(0, EmptyStore))
  BY SMTT(30) DEF GenuineIn, Worldview, EmptyStore
<1>3. IndexInv
  BY <1>1, SMTT(30) DEF SnapshotInit, IndexInv
<1>4. FamiliesInv
  BY <1>2, SMTT(30) DEF SnapshotInit, FamiliesInv
<1>5. ReadingsInv
  BY NoReadings DEF SnapshotInit, ReadingsInv
<1>6. HistoryInv
  BY SnapshotAssumption, SMTT(30) DEF SnapshotInit, HistoryInv, Announcement
<1>7. TrustInv
  BY DEF SnapshotInit, TrustInv
<1> QED BY <1>3, <1>4, <1>5, <1>6, <1>7 DEF SnapshotInv

\* Every step keeps the invariant and moves every node's checkpoint and newest snapshot
\* forward.
LEMMA SnapshotStep ==
  ASSUME SnapshotInv, [SnapshotNext]_meshVars
  PROVE  SnapshotInv' /\ CheckpointMovesForward
<1> USE DEF SnapshotInv
<1>1. setting.joiners \subseteq Peers /\ setting.producers \subseteq Peers
  BY SnapshotAssumption DEF HistoryInv
<1>2. CASE PublishRecord
  BY <1>2, SameIndex, SameHistory, SameReadings, SameTrust, SameFamilies DEF PublishRecord
<1>3. ASSUME NEW n \in setting.joiners \cup setting.producers, HearRecord(n)
      PROVE  SnapshotInv' /\ CheckpointMovesForward
  <2>1. IndexInv' /\ CheckpointMovesForward /\ HistoryInv' /\ ReadingsInv' /\ TrustInv'
    BY <1>3, SameIndex, SameHistory, SameReadings, SameTrust DEF HearRecord
  <2>2. families' = [families EXCEPT ![n]["records"]["r"] = version]
    BY <1>3 DEF HearRecord
  <2>3. FamiliesInv'
    BY <2>2 DEF FamiliesInv, GenuineIn
  <2> QED BY <2>1, <2>3
<1>4. ASSUME NEW n \in setting.joiners \cup setting.producers, PruneIndex(n)
      PROVE  SnapshotInv' /\ CheckpointMovesForward
  <2>1. HistoryInv' /\ ReadingsInv' /\ TrustInv' /\ FamiliesInv'
    BY <1>4, SameHistory, SameReadings, SameTrust, SameFamilies DEF PruneIndex
  <2>2. n \in Peers /\ IndexOK(index[n])
    BY <1>1, SMTT(30) DEF IndexInv
  <2>3. IndexOK(PruneSuperseded(index[n])) /\ ForwardFrom(index[n], PruneSuperseded(index[n]))
    BY <2>2, SweepKeeps, ForwardPrune
  <2>4. IndexInv' /\ CheckpointMovesForward
    BY <1>4, <2>2, <2>3, OneIndex, ZenonT(60) DEF PruneIndex
  <2> QED BY <2>1, <2>4
<1>5. ASSUME NEW n \in setting.joiners, NEW p, HearService(n, p)
      PROVE  SnapshotInv' /\ CheckpointMovesForward
  BY <1>5, SameIndex, SameHistory, SameReadings, SameTrust, SameFamilies, ZenonT(60) DEF HearService
<1>6. ASSUME NEW n \in setting.joiners, NEW m \in announced, HearAnnounce(n, m)
      PROVE  SnapshotInv' /\ CheckpointMovesForward
  <2>1. HistoryInv' /\ ReadingsInv' /\ TrustInv' /\ FamiliesInv'
    BY <1>6, SameHistory, SameReadings, SameTrust, SameFamilies DEF HearAnnounce
  <2>2. n \in Peers /\ IndexOK(index[n]) /\ Announcement(m)
    BY <1>1, SMTT(30) DEF IndexInv, HistoryInv
  <2> DEFINE y == Announce(index[n], services[n], stakes[n], m, time)
  <2>3. IndexOK(y) /\ ForwardFrom(index[n], y)
    BY <2>2, AnnounceKeeps, ForwardAnnounce
  <2>4. index' = [index EXCEPT ![n] = y]
    BY <1>6, ZenonT(60) DEF HearAnnounce
  <2> HIDE DEF y
  <2>5. IndexInv' /\ CheckpointMovesForward
    BY <2>2, <2>3, <2>4, OneIndex, ZenonT(60)
  <2> QED BY <2>1, <2>5, SMTT(30)
<1>7. ASSUME NEW n \in setting.joiners, NEW m \in Records(index[n].announced), ImportKnown(n, m)
      PROVE  SnapshotInv' /\ CheckpointMovesForward
  BY <1>1, <1>7, ImportStep, ZenonT(60) DEF ImportKnown
<1>8. ASSUME NEW n \in setting.joiners, NEW governed, NEW answered,
             PollProviderStake(n, governed, answered)
      PROVE  SnapshotInv' /\ CheckpointMovesForward
  <2>1. IndexInv' /\ CheckpointMovesForward /\ HistoryInv' /\ TrustInv' /\ FamiliesInv'
    BY <1>8, SameIndex, SameHistory, SameTrust, SameFamilies, ZenonT(60) DEF PollProviderStake
  <2> DEFINE y == PolledStakes(IF governed THEN ObserveRequirement(stakes[n], setting.requirement)
                                         ELSE stakes[n],
                               [p \in answered |-> Account(p)], time)
  <2>2. ReadingsOK(y, held, time, Required)
    BY <1>1, PollKeeps, ZenonT(60)
  <2>3. /\ stakes' = [stakes EXCEPT ![n] = y]
        /\ held' = held /\ time' = time /\ setting' = setting
    BY <1>8, ZenonT(60) DEF PollProviderStake
  <2> HIDE DEF y
  <2>4. Required' = Required
    BY <2>3 DEF Required
  <2>5. ReadingsInv'
    BY <2>2, <2>3, <2>4, SMTT(30) DEF ReadingsInv
  <2> QED BY <2>1, <2>5, SMTT(30)
<1>9. ASSUME NEW n \in setting.joiners, NEW bad, Bootstrap(n, bad)
      PROVE  SnapshotInv' /\ CheckpointMovesForward
  <2>1. PICK m \in Importable(n, bad) : Import(n, m, Served(m, bad))
    BY <1>9, ZenonT(60) DEF Bootstrap
  <2>2. m \in Records(index[n].announced) /\ Imports(n, m, Served(m, bad))
    BY ImportableHeld
  <2>3. UNCHANGED <<setting, stakes, announced, bonded, held, time>>
    BY <1>9 DEF Bootstrap
  <2> QED BY <1>1, <2>1, <2>2, <2>3, ImportStep
<1>10. ASSUME NEW n \in setting.joiners, BootstrapCrash(n)
       PROVE  SnapshotInv' /\ CheckpointMovesForward
  <2>1. IndexInv' /\ CheckpointMovesForward /\ HistoryInv' /\ TrustInv'
    BY <1>10, SameIndex, SameHistory, SameTrust, SMTT(30) DEF BootstrapCrash
  <2>2. PICK m \in Importable(n, {}) : \E put \in SUBSET Entries(Served(m, {})) :
          families' = [families EXCEPT ![n] = Restored(families[n], Part(Served(m, {}), put))]
    BY <1>10, ZenonT(60) DEF BootstrapCrash
  <2>3. PICK put : families' = [families EXCEPT ![n] = Restored(families[n], Part(Served(m, {}), put))]
    BY <2>2, ZenonT(60)
  <2>3a. n \in Peers /\ BodyVerifies(m, Served(m, {}))
    BY <1>1, ImportableHeld, ZenonT(60) DEF Imports
  <2>3b. GenuineIn(Restored(families[n], Part(Served(m, {}), put)))
    BY <2>3a, PartGenuine, ZenonT(60) DEF FamiliesInv
  <2>4. FamiliesInv'
    BY <2>3, <2>3a, <2>3b, SMTT(30) DEF FamiliesInv
  <2>5. /\ stakes' = [stakes EXCEPT ![n] = NoStakes(stakes[n].enforced)]
        /\ held' = held /\ time' = time /\ Required' = Required
    BY <1>10 DEF BootstrapCrash, Required
  <2>6. ReadingsOK(NoStakes(stakes[n].enforced), held, time, Required)
    BY NoReadings, SMTT(30)
  <2>7. ReadingsInv'
    BY <2>5, <2>6, SMTT(30) DEF ReadingsInv
  <2> QED BY <2>1, <2>4, <2>7, SMTT(30)
<1>11. ASSUME NEW n \in setting.producers, Produce(n)
       PROVE  SnapshotInv' /\ CheckpointMovesForward
  <2> DEFINE m == Produced(n)
             known == Put(services[n], n, Service(n))
             y == Announce(index[n], known, stakes[n], m, time)
  <2>1. ReadingsInv' /\ TrustInv' /\ FamiliesInv'
    BY <1>11, SameReadings, SameTrust, SameFamilies, SMTT(30) DEF Produce
  <2>2. n \in Peers /\ IndexOK(index[n]) /\ Announcement(m)
    BY <1>1 DEF IndexInv, HistoryInv, Announcement, Produced
  <2>3. IndexOK(y) /\ ForwardFrom(index[n], y)
    BY <2>2, AnnounceKeeps, ForwardAnnounce, ZenonT(60)
  <2>4. index' = [index EXCEPT ![n] = y] /\ announced' \subseteq announced \cup {m}
    BY <1>11, ZenonT(60) DEF Produce, AnnounceProduced
  <2>5. UNCHANGED <<setting, bonded, held, time>>
    BY <1>11, ZenonT(60) DEF Produce
  <2> HIDE DEF y, known, m
  <2>6. IndexInv' /\ CheckpointMovesForward
    BY <2>2, <2>3, <2>4, OneIndex, ZenonT(60)
  <2>7. HistoryInv'
    BY <2>2, <2>4, <2>5 DEF HistoryInv
  <2> QED BY <2>1, <2>6, <2>7, SMTT(30)
<1>12. ASSUME NEW p \in DOMAIN bonded, Unstake(p)
       PROVE  SnapshotInv' /\ CheckpointMovesForward
  <2>1. IndexInv' /\ CheckpointMovesForward /\ FamiliesInv'
    BY <1>12, SameIndex, SameFamilies DEF Unstake
  <2>2. /\ bonded' = [bonded EXCEPT ![p] = 0] /\ held' = held \cup Holdings(bonded', time)
        /\ UNCHANGED <<setting, stakes, announced, imported, time>>
    BY <1>12 DEF Unstake
  <2>3. \A q \in DOMAIN bonded' : bonded'[q] \in Nat
    BY <2>2 DEF HistoryInv
  <2>4. HistoryInv'
    BY <2>2, <2>3 DEF HistoryInv
  <2>5. ReadingsInv' /\ TrustInv'
    BY <2>2, LaterHistory DEF HistoryInv
  <2> QED BY <2>1, <2>4, <2>5
<1>13. CASE TimePasses
  <2>1. IndexInv' /\ CheckpointMovesForward /\ FamiliesInv'
    BY <1>13, SameIndex, SameFamilies DEF TimePasses
  <2>2. /\ time' = time + 1 /\ held' = held \cup Holdings(bonded, time + 1)
        /\ UNCHANGED <<setting, stakes, announced, bonded, imported>>
    BY <1>13 DEF TimePasses
  <2>3. time \in Nat /\ time' \in Nat /\ time <= time'
    BY <2>2 DEF HistoryInv
  <2>4. HistoryInv'
    BY <2>2, <2>3 DEF HistoryInv
  <2>5. ReadingsInv' /\ TrustInv'
    BY <2>2, <2>3, LaterHistory
  <2> QED BY <2>1, <2>4, <2>5
<1>14. CASE UNCHANGED meshVars
  BY <1>14, SameIndex, SameHistory, SameReadings, SameTrust, SameFamilies DEF meshVars
<1> HIDE DEF SnapshotInv
<1> QED
  BY <1>2, <1>3, <1>4, <1>5, <1>6, <1>7, <1>8, <1>9, <1>10, <1>11, <1>12, <1>13, <1>14, ZenonT(60)
  DEF SnapshotNext, BootstrapClean, BootstrapDamaged

\* An import moves the checkpoint over the state it has just written.
LEMMA ImportCovers ==
  ASSUME SnapshotInv, NEW n \in Peers, NEW m \in Records(index[n].announced), NEW body,
         Imports(n, m, body), Import(n, m, body)
  PROVE  CheckpointFollowsState
<1>1. /\ index[n].announced[m.id] = m /\ body = m.state_root
      /\ DOMAIN index = Peers /\ DOMAIN families = Peers /\ DOMAIN index[n] = {"announced", "checkpoint"}
  BY ImportIsTrusted, ZenonT(60) DEF Imports, BodyVerifies, SnapshotInv, IndexInv, FamiliesInv, IndexOK
<1>2. /\ index' = [index EXCEPT ![n] = Checkpointed(index[n], m.id)]
      /\ families' = [families EXCEPT ![n] = Restored(families[n], body)]
  BY ZenonT(60) DEF Import
<1>3. Checkpointed(index[n], m.id).checkpoint = m.slot
  BY <1>1, SMTT(30) DEF Checkpointed
<1>4. \A p \in Peers \ {n} : index'[p] = index[p]
  BY <1>1, <1>2, SMTT(30)
<1>5. index'[n].checkpoint = m.slot /\ families'[n] = Restored(families[n], body)
  BY <1>1, <1>2, <1>3, SMTT(30)
<1>6. Holds(families'[n], m.state_root)
  BY <1>1, <1>5, RestoredHolds, ZenonT(60)
<1> QED BY <1>4, <1>5, <1>6, ZenonT(60) DEF CheckpointFollowsState

\* Wherever a step leaves the checkpoints alone there is nothing to show.
LEMMA CheckpointsStay ==
  ASSUME \A n \in Peers : index'[n].checkpoint = index[n].checkpoint
  PROVE  CheckpointFollowsState
  BY DEF CheckpointFollowsState

\* A step that replaces one index by one with the same checkpoint.
LEMMA OneCheckpointStays ==
  ASSUME SnapshotInv, NEW n \in Peers, NEW y, index' = [index EXCEPT ![n] = y],
         y.checkpoint = index[n].checkpoint
  PROVE  CheckpointFollowsState
<1>1. \A p \in Peers : index'[p].checkpoint = index[p].checkpoint
  BY SMTT(30) DEF SnapshotInv, IndexInv
<1> QED BY <1>1, CheckpointsStay

\* Every step of the mesh moves a checkpoint over the whole state or not at all.
LEMMA CheckpointStep ==
  ASSUME SnapshotInv, [SnapshotNext]_meshVars
  PROVE  CheckpointFollowsState
<1>1. setting.joiners \cup setting.producers \subseteq Peers
  BY SnapshotAssumption DEF SnapshotInv, HistoryInv
<1>2. CASE UNCHANGED index
  BY <1>2, CheckpointsStay
<1>3. \A n \in Peers : IndexOK(index[n])
  BY DEF SnapshotInv, IndexInv
<1>4. ASSUME NEW n \in Peers, PruneIndex(n)
      PROVE  CheckpointFollowsState
  <2>1. PruneSuperseded(index[n]).checkpoint = index[n].checkpoint
    BY <1>3, SMTT(30) DEF IndexOK, PruneSuperseded
  <2> QED BY <1>4, <2>1, OneCheckpointStays, ZenonT(60) DEF PruneIndex
<1>5. ASSUME NEW n \in Peers, NEW m, HearAnnounce(n, m)
      PROVE  CheckpointFollowsState
  <2> DEFINE y == Announce(index[n], services[n], stakes[n], m, time)
  <2>1. index' = [index EXCEPT ![n] = y]
    BY <1>5, ZenonT(60) DEF HearAnnounce
  <2>2. y.checkpoint = index[n].checkpoint
    BY <1>3, SMTT(30) DEF IndexOK, Announce
  <2> HIDE DEF y
  <2> QED BY <2>1, <2>2, OneCheckpointStays, ZenonT(60)
<1>6. ASSUME NEW n \in Peers, Produce(n)
      PROVE  CheckpointFollowsState
  <2> DEFINE known == Put(services[n], n, Service(n))
             y == Announce(index[n], known, stakes[n], Produced(n), time)
  <2>1. index' = [index EXCEPT ![n] = y]
    BY <1>6, ZenonT(60) DEF Produce, AnnounceProduced
  <2> HIDE DEF known
  <2>2. y.checkpoint = index[n].checkpoint
    BY <1>3, SMTT(30) DEF IndexOK, Announce
  <2> HIDE DEF y
  <2> QED BY <2>1, <2>2, OneCheckpointStays, ZenonT(60)
<1>7. ASSUME NEW n \in Peers, NEW m \in Records(index[n].announced), ImportKnown(n, m)
      PROVE  CheckpointFollowsState
  BY <1>7, ImportCovers, ZenonT(60) DEF ImportKnown
<1>8. ASSUME NEW n \in Peers, NEW bad, Bootstrap(n, bad)
      PROVE  CheckpointFollowsState
  <2>1. PICK m \in Importable(n, bad) : Import(n, m, Served(m, bad))
    BY <1>8, ZenonT(60) DEF Bootstrap
  <2> QED BY <2>1, ImportableHeld, ImportCovers, ZenonT(60)
<1>9. ASSUME \/ PublishRecord \/ TimePasses
             \/ \E n : HearRecord(n) \/ BootstrapCrash(n)
             \/ \E n, p : HearService(n, p)
             \/ \E n, g, w : PollProviderStake(n, g, w)
             \/ \E p : Unstake(p)
             \/ UNCHANGED meshVars
      PROVE  UNCHANGED index
  BY <1>9, ZenonT(60) DEF PublishRecord, TimePasses, HearRecord, BootstrapCrash, HearService,
     PollProviderStake, Unstake, meshVars
<1> QED
  BY <1>1, <1>2, <1>4, <1>5, <1>6, <1>7, <1>8, <1>9, ZenonT(60)
  DEF SnapshotNext, BootstrapClean, BootstrapDamaged

\* On every node, for every set of anchors, floor, life of a reading and behavior of the
\* network, the mirrors and the chain: imports are from whom the node may trust, content
\* blocks keep their names, the checkpoint and the newest snapshot known only move forward,
\* and the checkpoint only over a state that is all written.
THEOREM ImportsAlwaysTrusted == SnapshotSpec => ImportsAreTrusted
<1>1. SnapshotInv /\ [SnapshotNext]_meshVars => SnapshotInv'
  BY SnapshotStep
<1>2. SnapshotInv /\ [SnapshotNext]_meshVars
        => [CheckpointMovesForward /\ CheckpointFollowsState]_meshVars
  BY SnapshotStep, CheckpointStep
<1> QED
  BY SnapshotInvInit, SnapshotInvSafe, <1>1, <1>2, PTL DEF SnapshotSpec, ImportsAreTrusted
=============================================================================
