----------------------------- MODULE EscrowCustody -----------------------------
(***************************************************************************)
(* Custody of tokens by the on-chain escrow program: merchants' liquidity  *)
(* vaults, the escrow account of each trade, the arbitration deposits held *)
(* in the pool, and the stake-recovery debt of merchants whose vault could *)
(* not cover a deposit.                                                    *)
(*                                                                         *)
(* One action is one instruction.  A Solana instruction is atomic: when a  *)
(* constraint, a `require!`, a checked operation or a token transfer fails *)
(* nothing changes, so every failure is a guard.  Interleaving of signers  *)
(* is the interleaving of actions.  How arbitrators reach a verdict is the *)
(* business of DisputeCase; here a verdict is any of the possible ones.    *)
(***************************************************************************)
EXTENDS Integers, FiniteSets, Functions

CONSTANTS
  Merchants,      \* wallets that sign as merchant
  Buyers,         \* wallets named as the buyer of a trade
  Mints,          \* token mints
  OPEN,           \* the mint of the arbitration pool and of stakes
  Reservations,   \* reservation ids, each usable for one escrow
  Amounts,        \* amounts a caller passes to an instruction
  Timeouts,       \* timeout_secs a merchant passes to create_trade_escrow
  FeeConfigs,     \* fee configurations an admin may store
  Supply,         \* tokens of a mint that start outside the program
  InitialStake,   \* OPEN a merchant has locked in the staking program
  Bannable,       \* wallets a ban may be proposed for
  MaxTime,        \* bound on the clock
  LastTimeout,    \* bound on the timeout_at of a created escrow
  NoMint,         \* treasuries stored as plain wallets, not token accounts
  NoWallet        \* the seller and buyer of a reservation not yet created

-----------------------------------------------------------------------------
(* Fees: the settlement fee taken from a released escrow and its division  *)
(* between the four treasuries.  Amounts are u64 and are multiplied in     *)
(* u128 by a u16, so no product here can overflow.                         *)

BPS_DENOMINATOR == 10000

\* The four treasuries, in the order of the code's arrays.
TreasuryIndex == 1..4

\* ECOSYSTEM_TREASURY_SHARE: the treasury that takes the rounding remainder.
EcosystemTreasuryShare == 2

BpsSplit == {b \in [TreasuryIndex -> 0..BPS_DENOMINATOR] :
               b[1] + b[2] + b[3] + b[4] = BPS_DENOMINATOR}

NoShares == [i \in TreasuryIndex |-> 0]

SumShares(s) == s[1] + s[2] + s[3] + s[4]

SettlementFee(bps, amount) == (amount * bps) \div BPS_DENOMINATOR

\* Mutant: the truncation remainder is never handed out.
SplitFeeFourWaysDroppingDust(splits, fee) ==
  [i \in TreasuryIndex |-> (fee * splits[i]) \div BPS_DENOMINATOR]

SplitFeeFourWays(splits, fee) ==
  LET floor == [i \in TreasuryIndex |-> (fee * splits[i]) \div BPS_DENOMINATOR]
  IN  [floor EXCEPT ![EcosystemTreasuryShare] = @ + (fee - SumShares(floor))]

-----------------------------------------------------------------------------

Wallets == Merchants \cup Buyers
Vaults == Merchants \X Mints
OpenVault(m) == <<m, OPEN>>

Verdicts == {"BuyerWins", "MerchantWins", "MutualSettlement", "InvalidDispute",
             "TerminalSplit"}

EscrowStates == {"None", "Reserved", "AwaitingFiatSettlement", "Frozen",
                 "Released", "Cancelled"}

FeeConfigType ==
  [ad_listing_fee : Nat, dispute_filing_fee : Nat,
   settlement_fee_bps : 0..BPS_DENOMINATOR, splits : BpsSplit,
   settlement_mints : SUBSET Mints \ {{}}, treasury_mint : Mints \cup {NoMint}]

ASSUME CustodyAssumption ==
  /\ IsFiniteSet(Merchants)
  /\ IsFiniteSet(Reservations)
  /\ OPEN \in Mints
  /\ NoMint \notin Mints
  /\ NoWallet \notin Wallets
  /\ Amounts \subseteq Nat
  /\ Timeouts \subseteq Nat \ {0}
  /\ FeeConfigs \subseteq FeeConfigType
  /\ Supply \in [Mints -> Nat]
  /\ InitialStake \in [Merchants -> Nat]
  /\ Bannable \subseteq Wallets
  /\ MaxTime \in Nat
  /\ LastTimeout \in Nat

VARIABLES
  vault,         \* LiquidityVault counters per (merchant, mint)
  vaultTokens,   \* balance of the vault's token account
  escrow,        \* TradeEscrowVault per reservation
  escrowTokens,  \* balance of the escrow's token account
  payout,        \* history: what left the escrow's token account, to whom
  dispute,       \* money fields of the DisputeCase per reservation
  pool,          \* the arbitration pool: [open, tokens]
  claim,         \* StakeRecoveryClaim per merchant
  recovered,     \* staking's StakeRecoveryReceipt.recovered_total
  stake,         \* OPEN a recovery can still take from the merchant's stake
  outside,       \* tokens of a mint held by anyone else, treasuries included
  feeConfig,     \* the singleton FeeConfig
  banned,        \* wallets with a BanRecord
  now            \* unix_timestamp

custodyVars == <<vault, vaultTokens, escrow, escrowTokens, payout, dispute, pool,
                 claim, recovered, stake, outside, feeConfig, banned, now>>

VaultType == [exists : BOOLEAN, total : Nat, available : Nat, reserved : Nat,
              pending_settlement : Nat, settled : Nat]

EscrowType == [state : EscrowStates, seller : Merchants \cup {NoWallet},
               buyer : Buyers \cup {NoWallet}, mint : Mints, amount : Nat,
               approved : BOOLEAN, timeout_at : Nat]

PayoutType == [buyer : Nat, shares : [TreasuryIndex -> Nat], seller : Nat]

DisputeType == [status : {"none", "open", "resolved"}, deposit : Nat,
                shortfall : Nat, deposit_settled : BOOLEAN,
                outcome : Verdicts \cup {"none"}, reward_remaining : Nat]

NoVault == [exists |-> FALSE, total |-> 0, available |-> 0, reserved |-> 0,
            pending_settlement |-> 0, settled |-> 0]

NoEscrow == [state |-> "None", seller |-> NoWallet, buyer |-> NoWallet,
             mint |-> OPEN, amount |-> 0, approved |-> FALSE, timeout_at |-> 0]

NoPayout == [buyer |-> 0, shares |-> NoShares, seller |-> 0]

NoDispute == [status |-> "none", deposit |-> 0, shortfall |-> 0,
              deposit_settled |-> FALSE, outcome |-> "none",
              reward_remaining |-> 0]

CustodyInit ==
  /\ vault = [v \in Vaults |-> NoVault]
  /\ vaultTokens = [v \in Vaults |-> 0]
  /\ escrow = [r \in Reservations |-> NoEscrow]
  /\ escrowTokens = [r \in Reservations |-> 0]
  /\ payout = [r \in Reservations |-> NoPayout]
  /\ dispute = [r \in Reservations |-> NoDispute]
  /\ pool = [open |-> FALSE, tokens |-> 0]
  /\ claim = [m \in Merchants |-> [owed_total |-> 0, credited_total |-> 0]]
  /\ recovered = [m \in Merchants |-> 0]
  /\ stake = InitialStake
  /\ outside = Supply
  /\ feeConfig \in FeeConfigs
  /\ banned = {}
  /\ now = 0

EscrowVault(r) == <<escrow[r].seller, escrow[r].mint>>
SellerOpenVault(r) == OpenVault(escrow[r].seller)
Parties(r) == {escrow[r].seller, escrow[r].buyer}

tradeVars == <<escrow, escrowTokens, payout>>
recoveryVars == <<claim, recovered, stake>>
adminVars == <<feeConfig, banned>>

\* FeeConfig::allows_settlement_mint
AllowsSettlementMint(t) == t \in feeConfig.settlement_mints

\* The moves between the counters of one vault record x.

\* Tokens enter the vault and become available.
Credited(x, a) == [x EXCEPT !.total = @ + a, !.available = @ + a]

\* Mutant: `total` keeps counting tokens that have left.
DebitedKeepingTotal(x, a) == [x EXCEPT !.available = @ - a]

\* Available tokens leave the vault for good.
Debited(x, a) == [x EXCEPT !.total = @ - a, !.available = @ - a]

Reserve(x, a) == [x EXCEPT !.available = @ - a, !.reserved = @ + a]
Unreserve(x, a) == [x EXCEPT !.reserved = @ - a, !.available = @ + a]
Fund(x, a) == [x EXCEPT !.reserved = @ - a, !.pending_settlement = @ + a]

\* A funded amount stops being pending: back is available again, the rest settled.
LeavePending(x, a, back) ==
  [x EXCEPT !.pending_settlement = @ - a, !.available = @ + back,
            !.settled = @ + (a - back)]

Add(f, x, a) == [f EXCEPT ![x] = @ + a]
Sub(f, x, a) == [f EXCEPT ![x] = @ - a]

-----------------------------------------------------------------------------
(* Liquidity vaults                                                        *)

CreateLiquidityVault(m, t) ==
  /\ ~vault[<<m, t>>].exists
  /\ AllowsSettlementMint(t) \/ (pool.open /\ t = OPEN)
  /\ vault' = [vault EXCEPT ![<<m, t>>].exists = TRUE]
  /\ UNCHANGED <<vaultTokens, tradeVars, dispute, pool, recoveryVars, outside,
                 adminVars, now>>

DepositLiquidity(m, t, a) ==
  /\ m \notin banned
  /\ vault[<<m, t>>].exists
  /\ outside[t] >= a
  /\ outside' = Sub(outside, t, a)
  /\ vaultTokens' = Add(vaultTokens, <<m, t>>, a)
  /\ vault' = [vault EXCEPT ![<<m, t>>] = Credited(@, a)]
  /\ UNCHANGED <<tradeVars, dispute, pool, recoveryVars, adminVars, now>>

\* Mutant: the check against `available` is missing.
ReserveLiquidityUnchecked(m, t, a) ==
  LET v == <<m, t>> IN
  /\ m \notin banned /\ vault[v].exists /\ AllowsSettlementMint(t)
  /\ vault' = [vault EXCEPT ![v] = Reserve(@, a)]
  /\ UNCHANGED <<vaultTokens, tradeVars, dispute, pool, recoveryVars, outside,
                 adminVars, now>>

ReserveLiquidity(m, t, a) ==
  LET v == <<m, t>> IN
  /\ m \notin banned
  /\ vault[v].exists
  /\ AllowsSettlementMint(t)
  /\ vault[v].available >= a
  /\ vault' = [vault EXCEPT ![v] = Reserve(@, a)]
  /\ UNCHANGED <<vaultTokens, tradeVars, dispute, pool, recoveryVars, outside,
                 adminVars, now>>

WithdrawLiquidity(m, t, a) ==
  /\ vault[<<m, t>>].exists
  /\ vault[<<m, t>>].available >= a
  /\ vaultTokens[<<m, t>>] >= a
  /\ vaultTokens' = Sub(vaultTokens, <<m, t>>, a)
  /\ outside' = Add(outside, t, a)
  /\ vault' = [vault EXCEPT ![<<m, t>>] = Debited(@, a)]
  /\ UNCHANGED <<tradeVars, dispute, pool, recoveryVars, adminVars, now>>

\* The four shares go to treasuries that must hold the fee's own mint.
ChargeAdListingFee(m, t) ==
  LET fee == feeConfig.ad_listing_fee
      shares == SplitFeeFourWays(feeConfig.splits, fee) IN
  /\ vault[<<m, t>>].exists
  /\ feeConfig.treasury_mint = t
  /\ fee > 0
  /\ vault[<<m, t>>].available >= fee
  /\ vaultTokens[<<m, t>>] >= SumShares(shares)
  /\ vaultTokens' = Sub(vaultTokens, <<m, t>>, SumShares(shares))
  /\ outside' = Add(outside, t, SumShares(shares))
  /\ vault' = [vault EXCEPT ![<<m, t>>] = Debited(@, fee)]
  /\ UNCHANGED <<tradeVars, dispute, pool, recoveryVars, adminVars, now>>

-----------------------------------------------------------------------------
(* Trade escrows                                                           *)

\* `reserved` is compared with the amount and not decremented.
CreateTradeEscrow(r, m, b, t, a, secs) ==
  /\ escrow[r].state = "None"
  /\ m \notin banned
  /\ vault[<<m, t>>].exists
  /\ AllowsSettlementMint(t)
  /\ vault[<<m, t>>].reserved >= a
  /\ now + secs <= LastTimeout
  /\ escrow' = [escrow EXCEPT ![r] =
       [state |-> "Reserved", seller |-> m, buyer |-> b, mint |-> t, amount |-> a,
        approved |-> FALSE, timeout_at |-> now + secs]]
  /\ UNCHANGED <<vault, vaultTokens, escrowTokens, payout, dispute, pool,
                 recoveryVars, outside, adminVars, now>>

FundTradeEscrow(r) ==
  LET v == EscrowVault(r)
      a == escrow[r].amount IN
  /\ escrow[r].state = "Reserved"
  /\ vault[v].reserved >= a
  /\ vaultTokens[v] >= a
  /\ vaultTokens' = Sub(vaultTokens, v, a)
  /\ escrowTokens' = Add(escrowTokens, r, a)
  /\ vault' = [vault EXCEPT ![v] = Fund(@, a)]
  /\ escrow' = [escrow EXCEPT ![r].state = "AwaitingFiatSettlement"]
  /\ UNCHANGED <<payout, dispute, pool, recoveryVars, outside, adminVars, now>>

ApproveSettlement(r) ==
  /\ escrow[r].state = "AwaitingFiatSettlement"
  /\ escrow' = [escrow EXCEPT ![r].approved = TRUE]
  /\ UNCHANGED <<vault, vaultTokens, escrowTokens, payout, dispute, pool,
                 recoveryVars, outside, adminVars, now>>

\* Close a funded escrow: toBuyer and shares leave the program, back returns to
\* the seller's vault.
CloseFunded(r, vlt, tok, toBuyer, shares, back, state) ==
  LET v == EscrowVault(r)
      a == escrow[r].amount
      out == toBuyer + SumShares(shares) IN
  /\ vlt[v].pending_settlement >= a
  /\ escrowTokens[r] >= out + back
  /\ vault' = [vlt EXCEPT ![v] = LeavePending(@, a, back)]
  /\ vaultTokens' = Add(tok, v, back)
  /\ escrowTokens' = Sub(escrowTokens, r, out + back)
  /\ outside' = Add(outside, escrow[r].mint, out)
  /\ payout' = [payout EXCEPT ![r] =
                  [buyer |-> toBuyer, shares |-> shares, seller |-> back]]
  /\ escrow' = [escrow EXCEPT ![r].state = state]

\* A non-zero share can only be transferred to a treasury of the escrow's mint.
ReleaseTradeEscrowFunds(r, vlt, tok) ==
  LET a == escrow[r].amount
      fee == SettlementFee(feeConfig.settlement_fee_bps, a)
      shares == SplitFeeFourWays(feeConfig.splits, fee) IN
  /\ fee > 0 => feeConfig.treasury_mint = escrow[r].mint
  /\ CloseFunded(r, vlt, tok, a - fee, shares, 0, "Released")

UnwindFundedTradeEscrow(r, vlt, tok) ==
  CloseFunded(r, vlt, tok, 0, NoShares, escrow[r].amount, "Cancelled")

SplitTradeEscrowEvenly(r, vlt, tok) ==
  LET half == escrow[r].amount \div 2 IN
  CloseFunded(r, vlt, tok, half, NoShares, escrow[r].amount - half, "Released")

\* Mutant: a release is refused once the payment window is over.
ReleaseEscrowBeforeTimeout(r) ==
  /\ escrow[r].state = "AwaitingFiatSettlement" /\ escrow[r].approved
  /\ now <= escrow[r].timeout_at
  /\ feeConfig.treasury_mint # NoMint
  /\ ReleaseTradeEscrowFunds(r, vault, vaultTokens)
  /\ UNCHANGED <<dispute, pool, recoveryVars, adminVars, now>>

\* The treasuries must deserialize as token accounts whatever the fee.
ReleaseEscrow(r) ==
  /\ escrow[r].state = "AwaitingFiatSettlement"
  /\ escrow[r].approved
  /\ feeConfig.treasury_mint # NoMint
  /\ ReleaseTradeEscrowFunds(r, vault, vaultTokens)
  /\ UNCHANGED <<dispute, pool, recoveryVars, adminVars, now>>

ReleaseReservationMarking(r) ==
  LET v == EscrowVault(r)
      a == escrow[r].amount IN
  /\ vault[v].reserved >= a
  /\ vault' = [vault EXCEPT ![v] = Unreserve(@, a)]
  /\ escrow' = [escrow EXCEPT ![r].state = "Cancelled"]
  /\ UNCHANGED <<vaultTokens, escrowTokens, outside, payout>>

\* Mutant: any escrow that is not funded is treated as merely reserved.
CloseUnapprovedAnyState(r) ==
  /\ ~escrow[r].approved /\ escrow[r].state # "None"
  /\ \/ /\ escrow[r].state = "AwaitingFiatSettlement"
        /\ UnwindFundedTradeEscrow(r, vault, vaultTokens)
     \/ /\ escrow[r].state # "AwaitingFiatSettlement"
        /\ ReleaseReservationMarking(r)
  /\ UNCHANGED <<dispute, pool, recoveryVars, adminVars, now>>

\* Mutant: the merchant's approval does not end the right to cancel.
CloseEvenApproved(r) ==
  /\ \/ /\ escrow[r].state = "AwaitingFiatSettlement"
        /\ UnwindFundedTradeEscrow(r, vault, vaultTokens)
     \/ /\ escrow[r].state = "Reserved"
        /\ ReleaseReservationMarking(r)
  /\ UNCHANGED <<dispute, pool, recoveryVars, adminVars, now>>

\* The common body of cancel_reservation and expire_reservation.
CloseUnapproved(r) ==
  /\ ~escrow[r].approved
  /\ \/ /\ escrow[r].state = "AwaitingFiatSettlement"
        /\ UnwindFundedTradeEscrow(r, vault, vaultTokens)
     \/ /\ escrow[r].state = "Reserved"
        /\ ReleaseReservationMarking(r)
  /\ UNCHANGED <<dispute, pool, recoveryVars, adminVars, now>>

\* Signed by the buyer or the seller.
CancelReservation(r) == CloseUnapproved(r)

\* Anyone may expire a trade whose timeout has passed.
ExpireReservation(r) ==
  /\ now > escrow[r].timeout_at
  /\ CloseUnapproved(r)

-----------------------------------------------------------------------------
(* Disputes: the money                                                     *)

Least(x, y) == IF x <= y THEN x ELSE y

InitializeArbitrationPool ==
  /\ ~pool.open
  /\ pool' = [pool EXCEPT !.open = TRUE]
  /\ UNCHANGED <<vault, vaultTokens, tradeVars, dispute, recoveryVars, outside,
                 adminVars, now>>

\* Mutant: the tokens are paid but never reach the pool.
TakeDepositElsewhere(v, a) ==
  /\ vaultTokens[v] >= a
  /\ vaultTokens' = Sub(vaultTokens, v, a)
  /\ vault' = [vault EXCEPT ![v] = Debited(@, a)]
  /\ UNCHANGED pool

\* Move a deposit (or part of one) from the seller's OPEN vault to the pool.
TakeDeposit(v, a) ==
  /\ vaultTokens[v] >= a
  /\ vaultTokens' = Sub(vaultTokens, v, a)
  /\ vault' = [vault EXCEPT ![v] = Debited(@, a)]
  /\ pool' = [pool EXCEPT !.tokens = @ + a]

\* The vault covers what it can; the rest is a debt on the merchant's claim.
OpenDisputeCase(r, signer) ==
  LET v == SellerOpenVault(r)
      deposit == Least(feeConfig.dispute_filing_fee, vault[v].available)
      shortfall == feeConfig.dispute_filing_fee - deposit IN
  /\ escrow[r].state = "AwaitingFiatSettlement"
  /\ dispute[r].status = "none"
  /\ signer \in Parties(r) \ banned
  /\ pool.open
  /\ vault[v].exists
  /\ TakeDeposit(v, deposit)
  /\ claim' = [claim EXCEPT ![escrow[r].seller].owed_total = @ + shortfall]
  /\ dispute' = [dispute EXCEPT ![r] = [NoDispute EXCEPT
                   !.status = "open", !.deposit = deposit, !.shortfall = shortfall]]
  /\ escrow' = [escrow EXCEPT ![r].state = "Frozen"]
  /\ UNCHANGED <<escrowTokens, payout, recovered, stake, outside, adminVars, now>>

\* Mutant: what is still short is measured against the fee in force now.
TopUpAgainstCurrentFee(r) ==
  LET v == SellerOpenVault(r)
      amount == Least(dispute[r].shortfall, vault[v].available) IN
  /\ dispute[r].status = "open" /\ escrow[r].state = "Frozen" /\ amount > 0
  /\ TakeDeposit(v, amount)
  /\ dispute' = [dispute EXCEPT ![r].deposit = @ + amount, ![r].shortfall =
                    Least(@, feeConfig.dispute_filing_fee - dispute[r].deposit)]
  /\ UNCHANGED <<tradeVars, recoveryVars, outside, adminVars, now>>

\* A case record x whose deposit has been topped up by a.
ToppedUp(x, a) == [x EXCEPT !.deposit = @ + a, !.shortfall = @ - a]

TopUpArbitrationDeposit(r) ==
  LET v == SellerOpenVault(r)
      amount == Least(dispute[r].shortfall, vault[v].available) IN
  /\ dispute[r].status = "open"
  /\ escrow[r].state = "Frozen"
  /\ amount > 0
  /\ TakeDeposit(v, amount)
  /\ dispute' = [dispute EXCEPT ![r] = ToppedUp(@, amount)]
  /\ UNCHANGED <<tradeVars, recoveryVars, outside, adminVars, now>>

\* Mutant: a deposit is forfeited on every verdict but also sent back.
RefundEvenWhenForfeited(r, verdict) == dispute[r].deposit

\* What settle_deposit returns to the seller: all of it unless the buyer won.
DepositRefund(r, verdict) ==
  IF verdict = "BuyerWins" THEN 0 ELSE dispute[r].deposit

\* Mutant: every deposit that is not refunded in full is owed to arbitrators.
ForfeitedUnlessDismissed(r, verdict) ==
  IF verdict \in {"BuyerWins", "TerminalSplit"} THEN dispute[r].deposit ELSE 0

Forfeited(r, verdict) ==
  IF verdict = "BuyerWins" THEN dispute[r].deposit ELSE 0

\* A decided round, or the terminal split of an exhausted one.
ExecuteDisputeOutcome(r, verdict) ==
  LET v == SellerOpenVault(r)
      refund == DepositRefund(r, verdict)
      forfeited == Forfeited(r, verdict)
      vlt == [vault EXCEPT ![v] = Credited(@, refund)]
      tok == Add(vaultTokens, v, refund) IN
  /\ dispute[r].status = "open"
  /\ escrow[r].state = "Frozen"
  /\ feeConfig.treasury_mint # NoMint
  /\ v # EscrowVault(r)
  /\ pool.tokens >= refund
  /\ pool' = [pool EXCEPT !.tokens = @ - refund]
  /\ \/ /\ verdict = "BuyerWins"
        /\ ReleaseTradeEscrowFunds(r, vlt, tok)
     \/ /\ verdict \in {"MerchantWins", "InvalidDispute"}
        /\ UnwindFundedTradeEscrow(r, vlt, tok)
     \/ /\ verdict \in {"MutualSettlement", "TerminalSplit"}
        /\ SplitTradeEscrowEvenly(r, vlt, tok)
  /\ dispute' = [dispute EXCEPT ![r] = [@ EXCEPT
                   !.status = "resolved", !.outcome = verdict,
                   !.deposit_settled = dispute[r].deposit > 0,
                   !.reward_remaining = forfeited]]
  /\ UNCHANGED <<recoveryVars, adminVars, now>>

\* One winning arbitrator's share; DisputeCase computes it from the weights.
ClaimArbitrationReward(r, a) ==
  /\ dispute[r].status = "resolved"
  /\ dispute[r].reward_remaining > 0
  /\ a <= dispute[r].reward_remaining
  /\ pool.tokens >= a
  /\ pool' = [pool EXCEPT !.tokens = @ - a]
  /\ outside' = Add(outside, OPEN, a)
  /\ dispute' = [dispute EXCEPT ![r].reward_remaining = @ - a]
  /\ UNCHANGED <<vault, vaultTokens, tradeVars, recoveryVars, adminVars, now>>

-----------------------------------------------------------------------------
(* Stake recovery: two programs, two monotone counters, no call between    *)

\* Mutant: the debt is read without what was recovered before.
RecoverWholeDebt(m) ==
  LET amount == Least(claim[m].owed_total, stake[m]) IN
  /\ amount > 0
  /\ stake' = Sub(stake, m, amount)
  /\ vaultTokens' = Add(vaultTokens, OpenVault(m), amount)
  /\ recovered' = Add(recovered, m, amount)
  /\ UNCHANGED <<vault, tradeVars, dispute, pool, claim, outside, adminVars, now>>

\* staking::recover_stake_shortfall: stake moves into the OPEN vault's token
\* account; the vault's own counters do not know yet.
RecoverStakeShortfall(m) ==
  LET amount == Least(claim[m].owed_total - recovered[m], stake[m]) IN
  /\ claim[m].owed_total > recovered[m]
  /\ amount > 0
  /\ stake' = Sub(stake, m, amount)
  /\ vaultTokens' = Add(vaultTokens, OpenVault(m), amount)
  /\ recovered' = Add(recovered, m, amount)
  /\ UNCHANGED <<vault, tradeVars, dispute, pool, claim, outside, adminVars, now>>

\* Mutant: the credited counter is never moved, so the next call credits again.
AbsorbWithoutMarking(m) ==
  LET v == OpenVault(m)
      amount == recovered[m] - claim[m].credited_total IN
  /\ amount > 0
  /\ vaultTokens[v] >= vault[v].total + amount
  /\ vault' = [vault EXCEPT ![v] = Credited(@, amount)]
  /\ UNCHANGED <<vaultTokens, tradeVars, dispute, pool, recoveryVars, outside,
                 adminVars, now>>

AbsorbStakeRecovery(m) ==
  LET v == OpenVault(m)
      amount == recovered[m] - claim[m].credited_total IN
  /\ amount > 0
  /\ vaultTokens[v] >= vault[v].total + amount
  /\ vault' = [vault EXCEPT ![v] = Credited(@, amount)]
  /\ claim' = [claim EXCEPT ![m].credited_total = @ + amount]
  /\ UNCHANGED <<vaultTokens, tradeVars, dispute, pool, recovered, stake, outside,
                 adminVars, now>>

-----------------------------------------------------------------------------
(* The admin, the governance ban list and the clock                        *)

\* Stores treasuries as token accounts of one mint.
UpdateFeeConfig(c) ==
  /\ c.treasury_mint # NoMint
  /\ feeConfig' = c
  /\ UNCHANGED <<vault, vaultTokens, tradeVars, dispute, pool, recoveryVars,
                 outside, banned, now>>

ListWallet(w) ==
  /\ w \notin banned
  /\ banned' = banned \cup {w}
  /\ UNCHANGED <<vault, vaultTokens, tradeVars, dispute, pool, recoveryVars,
                 outside, feeConfig, now>>

DelistWallet(w) ==
  /\ w \in banned
  /\ banned' = banned \ {w}
  /\ UNCHANGED <<vault, vaultTokens, tradeVars, dispute, pool, recoveryVars,
                 outside, feeConfig, now>>

Tick ==
  /\ now < MaxTime
  /\ now' = now + 1
  /\ UNCHANGED <<vault, vaultTokens, tradeVars, dispute, pool, recoveryVars,
                 outside, adminVars>>

VaultStep(m, t) ==
  \/ CreateLiquidityVault(m, t)
  \/ ChargeAdListingFee(m, t)
  \/ \E a \in Amounts : \/ DepositLiquidity(m, t, a)
                        \/ ReserveLiquidity(m, t, a)
                        \/ WithdrawLiquidity(m, t, a)

TradeStep(r) ==
  \/ \E m \in Merchants, b \in Buyers, t \in Mints, a \in Amounts, s \in Timeouts :
       CreateTradeEscrow(r, m, b, t, a, s)
  \/ FundTradeEscrow(r)
  \/ ApproveSettlement(r)
  \/ ReleaseEscrow(r)
  \/ CancelReservation(r)
  \/ ExpireReservation(r)

DisputeStep(r) ==
  \/ \E w \in Wallets : OpenDisputeCase(r, w)
  \/ TopUpArbitrationDeposit(r)
  \/ \E verdict \in Verdicts : ExecuteDisputeOutcome(r, verdict)
  \/ \E a \in 0..dispute[r].reward_remaining : ClaimArbitrationReward(r, a)

RecoveryStep(m) == RecoverStakeShortfall(m) \/ AbsorbStakeRecovery(m)

AdminStep ==
  \/ InitializeArbitrationPool
  \/ \E c \in FeeConfigs : UpdateFeeConfig(c)
  \/ \E w \in Bannable : ListWallet(w) \/ DelistWallet(w)

CustodyNext ==
  \/ \E m \in Merchants, t \in Mints : VaultStep(m, t)
  \/ \E r \in Reservations : TradeStep(r)
  \/ \E r \in Reservations : DisputeStep(r)
  \/ \E m \in Merchants : RecoveryStep(m)
  \/ AdminStep
  \/ Tick

CustodySpec == CustodyInit /\ [][CustodyNext]_custodyVars

-----------------------------------------------------------------------------
(* Safety                                                                  *)

\* Every account of the escrow program holds a value of its type.
CustodyTypeOK ==
  /\ vault \in [Vaults -> VaultType]
  /\ vaultTokens \in [Vaults -> Nat]
  /\ escrow \in [Reservations -> EscrowType]
  /\ escrowTokens \in [Reservations -> Nat]
  /\ payout \in [Reservations -> PayoutType]
  /\ dispute \in [Reservations -> DisputeType]
  /\ pool \in [open : BOOLEAN, tokens : Nat]
  /\ claim \in [Merchants -> [owed_total : Nat, credited_total : Nat]]
  /\ recovered \in [Merchants -> Nat]
  /\ stake \in [Merchants -> Nat]
  /\ outside \in [Mints -> Nat]
  /\ feeConfig \in FeeConfigs
  /\ banned \subseteq Wallets
  /\ now \in Nat

Funded == {"AwaitingFiatSettlement", "Frozen"}

\* Stake moved into a vault's token account and not yet credited to its counters.
Unabsorbed(v) == IF v[2] = OPEN THEN recovered[v[1]] - claim[v[1]].credited_total ELSE 0

\* The four counters of a LiquidityVault partition its `total`, whatever mix of
\* reservations, trades, disputes, fees and recoveries the vault went through.
VaultAccounting ==
  \A v \in Vaults :
    vault[v].total = vault[v].available + vault[v].reserved
                       + vault[v].pending_settlement + vault[v].settled

\* What an escrow holds for its trade, and all escrows for trades of vault v.
InTrade(r) == IF escrow[r].state \in Funded THEN escrow[r].amount ELSE 0
InTrades(v) ==
  SumFunction([r \in Reservations |-> IF EscrowVault(r) = v THEN InTrade(r) ELSE 0])

\* A vault's token account holds exactly what its counters say can still be paid
\* from it, plus recovered stake no absorb_stake_recovery has credited yet, and its
\* pending_settlement is the sum of its funded escrows: no transfer can fail for want
\* of tokens, and the unchecked `pending_settlement -= amount` never aborts.
VaultBacked ==
  \A v \in Vaults :
    /\ vaultTokens[v] = vault[v].available + vault[v].reserved + Unabsorbed(v)
    /\ vault[v].pending_settlement = InTrades(v)

PaidOut(r) == payout[r].buyer + SumShares(payout[r].shares) + payout[r].seller

\* An escrow's token account holds its whole amount from funding until it is
\* closed, and every unit of it has then been paid to exactly one destination:
\* nothing is left behind, and nothing is paid twice.
EscrowPaidOnce ==
  \A r \in Reservations :
    /\ escrowTokens[r] = InTrade(r)
    /\ escrow[r].state \in {"None", "Reserved"} \cup Funded => PaidOut(r) = 0
    /\ escrow[r].state = "Released" => PaidOut(r) = escrow[r].amount
    /\ escrow[r].state = "Cancelled" => PaidOut(r) \in {0, escrow[r].amount}

\* What the pool owes for a case: its deposit, then the reward the verdict left.
PoolOwes(d) == IF d.status = "open" THEN d.deposit ELSE d.reward_remaining

\* The single pool shared by all cases holds what it owes and no more: deposits of
\* open cases and the unclaimed rewards of decided ones, so no claim or refund of
\* one case is paid with another's deposit.
PoolSolvent ==
  pool.tokens = SumFunction([r \in Reservations |-> PoolOwes(dispute[r])])

\* Every token of a mint there is, wherever it is.
InVaults(t) == SumFunction([m \in Merchants |-> vaultTokens[<<m, t>>]])
InEscrows(t) ==
  SumFunction([r \in Reservations |-> IF escrow[r].mint = t THEN escrowTokens[r] ELSE 0])
AllTokens(t) ==
  outside[t] + InVaults(t) + InEscrows(t)
    + (IF t = OPEN THEN pool.tokens + SumFunction(stake) ELSE 0)

\* Tokens are only moved: the balances of a mint always add up to what there was.
SupplyConserved ==
  \A t \in Mints :
    AllTokens(t) = Supply[t] + (IF t = OPEN THEN SumFunction(InitialStake) ELSE 0)

\* A trade is frozen exactly while its case is open: no resolved case leaves its
\* escrow locked and no open case lets it be released, cancelled or expired.
FrozenIffCaseOpen ==
  \A r \in Reservations : (escrow[r].state = "Frozen") <=> (dispute[r].status = "open")

\* The two programs' counters never cross: staking never takes more than the
\* escrow program says is owed, the escrow never credits more than was taken.
RecoveryBounded ==
  \A m \in Merchants : /\ claim[m].credited_total <= recovered[m]
                       /\ recovered[m] <= claim[m].owed_total

\* Once the merchant has approved, only a verdict can send tokens back to them:
\* neither a cancellation nor an expiry racing the release can.
ApprovedReturnsOnlyByVerdict ==
  \A r \in Reservations :
    escrow[r].approved /\ payout'[r].seller > payout[r].seller
      => dispute'[r].status = "resolved"

\* The escrow of a trade is paid out whole and once (EscrowPaidOnce), and to the right
\* party: release_escrow, cancel_reservation, expire_reservation and verdicts may race,
\* but an approved trade goes back to its seller only by a verdict.
EscrowConserved == []EscrowPaidOnce /\ [][ApprovedReturnsOnlyByVerdict]_custodyVars

\* Until the case is decided, deposit and shortfall add up to the fee in force when
\* it was opened, whatever the admin stores and however often it is topped up.
DepositPlusShortfallKept ==
  \A r \in Reservations :
    dispute[r].status = "open"
      => dispute'[r].deposit + dispute'[r].shortfall
           = dispute[r].deposit + dispute[r].shortfall

Arb(r) == INSTANCE Arbitration WITH
  phase <- dispute[r].status,
  verdict <- dispute[r].outcome,
  owed <- dispute[r].reward_remaining

\* Whatever trades, deposits and recoveries interleave, each case lives by the abstract
\* arbitration service: opened once, decided once, and a reward owed to arbitrators
\* only after a verdict against the merchant.
CasesStepAsArbitration == \A r \in Reservations : Arb(r)!ArbitrationStep

\* No transfer of the escrow program can fail for want of tokens, none is paid from what
\* belongs to another vault, trade or case, and a trade is frozen exactly while its case is
\* open: deposits, top-ups, stake recovery, absorption, verdicts and reward claims of two
\* disputes interleave, and the counters of two programs never cross.
CustodySolvent ==
  /\ CustodyTypeOK /\ VaultAccounting
  /\ VaultBacked /\ PoolSolvent /\ SupplyConserved
  /\ RecoveryBounded /\ FrozenIffCaseOpen

\* Whatever trades, deposits and recoveries interleave, each case lives by the abstract
\* arbitration service: opened once, decided once, and a reward owed to arbitrators only
\* after a verdict against the merchant.  Until then deposit and shortfall add up to the
\* fee in force when the case was opened, whatever the admin stores and however often it
\* is topped up (open_dispute_case, top_up_arbitration_deposit, execute_dispute_outcome,
\* claim_arbitration_reward).
CasesFollowArbitration ==
  [][CasesStepAsArbitration /\ DepositPlusShortfallKept]_custodyVars

-----------------------------------------------------------------------------
(* Liveness                                                                *)

\* Release, expiry and execution are permissionless: once one of them stays
\* possible somebody (the waiting party, or a node cranking for it) submits it.
CustodyFairness ==
  /\ WF_custodyVars(Tick)
  /\ \A r \in Reservations :
       /\ WF_custodyVars(ReleaseEscrow(r))
       /\ WF_custodyVars(ExpireReservation(r))
       /\ WF_custodyVars(\E verdict \in Verdicts : ExecuteDisputeOutcome(r, verdict))

CustodyFairSpec == CustodySpec /\ CustodyFairness

\* The treasuries are token accounts, of the trade's mint unless there is no fee.
FeePayable(r) ==
  /\ feeConfig.treasury_mint # NoMint
  /\ SettlementFee(feeConfig.settlement_fee_bps, escrow[r].amount) > 0
       => feeConfig.treasury_mint = escrow[r].mint

\* The trades some instruction can still close.  An approved one and a disputed one need
\* a fee that can be paid; a disputed one in OPEN can never be executed, as its vault and
\* the vault of the deposit are one account.
Closable(r) ==
  /\ escrow[r].approved \/ escrow[r].state = "Frozen" => FeePayable(r)
  /\ escrow[r].state = "Frozen" => escrow[r].mint # OPEN

\* No funded trade that stays closable holds the tokens forever: it is released, expires,
\* or is disputed and then decided, even when the merchant and the buyer do nothing more.
\* The others (Closable) wait for update_fee_config, or for good when disputed in OPEN.
FundedTradeCloses ==
  \A r \in Reservations : []<>(escrow[r].state \in Funded => ~Closable(r))

-----------------------------------------------------------------------------
(* What the comments of the program say of it                              *)

\* "De-listing strands nothing": reserved liquidity of a mint that is no longer
\* listed can still come back, through an escrow that holds the reservation.
DelistingStrandsNothing ==
  \A v \in Vaults :
    ~AllowsSettlementMint(v[2]) =>
      vault[v].reserved <=
        SumFunction([r \in Reservations |->
          IF escrow[r].state = "Reserved" /\ EscrowVault(r) = v THEN escrow[r].amount ELSE 0])

===============================================================================
