-------------------------- MODULE EscrowCustodyProofs --------------------------
(***************************************************************************)
(* Proofs, for every value of the constants, of the safety properties and  *)
(* the refinement of EscrowCustody: typing, the partition of the counters, *)
(* payment of each escrow once, and the life of a case.                    *)
(***************************************************************************)
EXTENDS EscrowCustody, TLAPS

-----------------------------------------------------------------------------
(* Fees, for every amount and every split                                  *)

\* A share in basis points of a natural number is a natural number.
LEMMA ScaledNat == ASSUME NEW fee \in Nat, NEW b \in Nat PROVE fee * b \in Nat
  OBVIOUS

\* A product of naturals divided by the denominator is a natural, and rounds down.
LEMMA FloorBounds ==
  ASSUME NEW p \in Nat
  PROVE  /\ p \div BPS_DENOMINATOR \in Nat
         /\ BPS_DENOMINATOR * (p \div BPS_DENOMINATOR) <= p
  BY DEF BPS_DENOMINATOR

\* compute_fee_split never takes more than the amount: `amount - fee` cannot fail.
THEOREM SettlementFeeBounded ==
  ASSUME NEW bps \in 0..BPS_DENOMINATOR, NEW amount \in Nat
  PROVE  SettlementFee(bps, amount) \in 0..amount
<1>1. amount * bps \in Nat
  BY ScaledNat DEF BPS_DENOMINATOR
<1>2. amount * bps <= amount * BPS_DENOMINATOR
  BY SMT DEF BPS_DENOMINATOR
<1> DEFINE f == (amount * bps) \div BPS_DENOMINATOR
<1>3. f \in Nat /\ BPS_DENOMINATOR * f <= amount * bps
  BY <1>1, FloorBounds
<1>4. f = SettlementFee(bps, amount)
  BY DEF SettlementFee
<1> HIDE DEF f
<1>5. BPS_DENOMINATOR * f <= amount * BPS_DENOMINATOR
  <2>1. \A x, y, z \in Int : x <= y /\ y <= z => x <= z
    OBVIOUS
  <2>2. BPS_DENOMINATOR * f \in Int /\ amount * BPS_DENOMINATOR \in Int
    BY <1>3 DEF BPS_DENOMINATOR
  <2>3. amount * bps \in Int
    BY <1>1
  <2> QED
    BY <1>2, <1>3, <2>1, <2>2, <2>3, ZenonT(60)
<1>6. f <= amount
  BY <1>3, <1>5 DEF BPS_DENOMINATOR
<1> QED
  BY <1>3, <1>4, <1>6

\* split_fee_four_ways hands out the whole fee, no more and no less, and no share
\* is negative: the truncation remainder always fits in the ecosystem share.
THEOREM SplitExact ==
  ASSUME NEW splits \in BpsSplit, NEW fee \in Nat
  PROVE  /\ SplitFeeFourWays(splits, fee) \in [TreasuryIndex -> Nat]
         /\ SumShares(SplitFeeFourWays(splits, fee)) = fee
<1> DEFINE p(i) == fee * splits[i]
           q(i) == p(i) \div BPS_DENOMINATOR
           floor == [i \in TreasuryIndex |-> (fee * splits[i]) \div BPS_DENOMINATOR]
<1>1. \A i \in TreasuryIndex : splits[i] \in Nat
  <2>1. splits \in [TreasuryIndex -> 0..BPS_DENOMINATOR]
    BY DEF BpsSplit
  <2>2. \A i \in TreasuryIndex : splits[i] \in 0..BPS_DENOMINATOR
    BY <2>1
  <2>3. 0..BPS_DENOMINATOR \subseteq Nat
    BY DEF BPS_DENOMINATOR
  <2> QED
    BY <2>2, <2>3
<1>2. \A i \in TreasuryIndex : p(i) \in Nat
  BY <1>1, ScaledNat
<1>3. p(1) + p(2) + p(3) + p(4) = fee * BPS_DENOMINATOR
  <2>1. splits[1] + splits[2] + splits[3] + splits[4] = BPS_DENOMINATOR
    BY DEF BpsSplit
  <2>2. ASSUME NEW a \in Nat, NEW b \in Nat, NEW c \in Nat, NEW d \in Nat
        PROVE  fee * a + fee * b + fee * c + fee * d = fee * (a + b + c + d)
    BY SMT
  <2> QED
    BY <1>1, <2>1, <2>2 DEF TreasuryIndex
<1>4. \A i \in TreasuryIndex : q(i) \in Nat /\ BPS_DENOMINATOR * q(i) <= p(i)
  BY <1>2, FloorBounds
<1> HIDE DEF p, q
<1>5. q(1) + q(2) + q(3) + q(4) <= fee
  BY <1>2, <1>3, <1>4 DEF TreasuryIndex, BPS_DENOMINATOR
<1>6. \A i \in TreasuryIndex : floor[i] = q(i)
  BY DEF p, q
<1>7. SumShares(floor) = q(1) + q(2) + q(3) + q(4)
  BY <1>6 DEF SumShares, TreasuryIndex
<1>8. floor \in [TreasuryIndex -> Nat] /\ fee - SumShares(floor) \in Nat
  BY <1>4, <1>5, <1>6, <1>7 DEF TreasuryIndex
<1> HIDE DEF floor
<1>9. SplitFeeFourWays(splits, fee)
        = [floor EXCEPT ![2] = floor[2] + (fee - SumShares(floor))]
  BY DEF SplitFeeFourWays, floor, EcosystemTreasuryShare, TreasuryIndex
<1> QED
  BY <1>8, <1>9 DEF SumShares, TreasuryIndex

-----------------------------------------------------------------------------

\* One vault's counters partition its total.
Balanced(x) == x.total = x.available + x.reserved + x.pending_settlement + x.settled

\* The counters are typed and partition the total: neither half is inductive alone,
\* for `total - a` is a natural only because `available` is a part of `total`.
VaultsOK(vlt) == vlt \in [Vaults -> VaultType] /\ \A v \in Vaults : Balanced(vlt[v])

\* An escrow that was created names a real seller and a real buyer.
EscrowHasParties ==
  \A r \in Reservations :
    escrow[r].state # "None" => escrow[r].seller \in Merchants /\ escrow[r].buyer \in Buyers

\* The inductive invariant behind CustodyTypeOK and VaultAccounting.
TypeInv == CustodyTypeOK /\ EscrowHasParties /\ VaultsOK(vault)

-----------------------------------------------------------------------------
(* Moves between the counters of one vault                                 *)

\* The counters of a vault are natural numbers.
LEMMA VaultFields ==
  ASSUME NEW x \in VaultType
  PROVE  /\ x.total \in Nat /\ x.available \in Nat /\ x.reserved \in Nat
         /\ x.pending_settlement \in Nat /\ x.settled \in Nat
  BY DEF VaultType

\* A credit keeps the counters a partition of the total.
LEMMA CreditedOK ==
  ASSUME NEW x \in VaultType, Balanced(x), NEW a \in Nat
  PROVE  Credited(x, a) \in VaultType /\ Balanced(Credited(x, a))
<1>1. x.total + a \in Nat /\ x.available + a \in Nat
  BY VaultFields
<1>2. Credited(x, a) \in VaultType
  BY <1>1, ZenonT(60) DEF Credited, VaultType
<1>3. Balanced(Credited(x, a))
  BY DEF Credited, VaultType, Balanced
<1> QED
  BY <1>2, <1>3

\* A debit of what is available keeps the partition.
LEMMA DebitedOK ==
  ASSUME NEW x \in VaultType, Balanced(x), NEW a \in Nat, x.available >= a
  PROVE  Debited(x, a) \in VaultType /\ Balanced(Debited(x, a))
<1>1. x.total - a \in Nat /\ x.available - a \in Nat
  BY VaultFields DEF Balanced
<1>2. Debited(x, a) \in VaultType
  BY <1>1, ZenonT(60) DEF Debited, VaultType
<1>3. Balanced(Debited(x, a))
  BY DEF Debited, VaultType, Balanced
<1> QED
  BY <1>2, <1>3

\* Reserving what is available keeps the partition.
LEMMA ReserveOK ==
  ASSUME NEW x \in VaultType, Balanced(x), NEW a \in Nat, x.available >= a
  PROVE  Reserve(x, a) \in VaultType /\ Balanced(Reserve(x, a))
<1>1. x.available - a \in Nat /\ x.reserved + a \in Nat
  BY VaultFields
<1>2. Reserve(x, a) \in VaultType
  BY <1>1, ZenonT(60) DEF Reserve, VaultType
<1>3. Balanced(Reserve(x, a))
  BY DEF Reserve, VaultType, Balanced
<1> QED
  BY <1>2, <1>3

\* Un-reserving what is reserved keeps the partition.
LEMMA UnreserveOK ==
  ASSUME NEW x \in VaultType, Balanced(x), NEW a \in Nat, x.reserved >= a
  PROVE  Unreserve(x, a) \in VaultType /\ Balanced(Unreserve(x, a))
<1>1. x.reserved - a \in Nat /\ x.available + a \in Nat
  BY VaultFields
<1>2. Unreserve(x, a) \in VaultType
  BY <1>1, ZenonT(60) DEF Unreserve, VaultType
<1>3. Balanced(Unreserve(x, a))
  BY DEF Unreserve, VaultType, Balanced
<1> QED
  BY <1>2, <1>3

\* Funding an escrow from a reservation keeps the partition.
LEMMA FundOK ==
  ASSUME NEW x \in VaultType, Balanced(x), NEW a \in Nat, x.reserved >= a
  PROVE  Fund(x, a) \in VaultType /\ Balanced(Fund(x, a))
<1>1. x.reserved - a \in Nat /\ x.pending_settlement + a \in Nat
  BY VaultFields
<1>2. Fund(x, a) \in VaultType
  BY <1>1, ZenonT(60) DEF Fund, VaultType
<1>3. Balanced(Fund(x, a))
  BY DEF Fund, VaultType, Balanced
<1> QED
  BY <1>2, <1>3

\* Leaving pending settlement, to the buyer or back to the seller, keeps the partition.
LEMMA LeavePendingOK ==
  ASSUME NEW x \in VaultType, Balanced(x), NEW a \in Nat, NEW back \in 0..a,
         x.pending_settlement >= a
  PROVE  LeavePending(x, a, back) \in VaultType /\ Balanced(LeavePending(x, a, back))
<1>1. x.pending_settlement - a \in Nat /\ x.available + back \in Nat
        /\ x.settled + (a - back) \in Nat
  BY VaultFields
<1>2. LeavePending(x, a, back) \in VaultType
  BY <1>1, ZenonT(60) DEF LeavePending, VaultType
<1>3. Balanced(LeavePending(x, a, back))
  BY DEF LeavePending, VaultType, Balanced
<1> QED
  BY <1>2, <1>3

\* Writing one well-formed vault keeps all of them well-formed.
LEMMA VaultPut ==
  ASSUME NEW vlt, VaultsOK(vlt), NEW v \in Vaults, NEW x \in VaultType, Balanced(x)
  PROVE  VaultsOK([vlt EXCEPT ![v] = x])
  BY DEF VaultsOK

\* A vault of the table is balanced.
LEMMA VaultAt ==
  ASSUME NEW vlt, VaultsOK(vlt), NEW v \in Vaults
  PROVE  vlt[v] \in VaultType /\ Balanced(vlt[v])
  BY DEF VaultsOK

\* The update of one balance by an addition keeps the table typed.
LEMMA AddOK ==
  ASSUME NEW S, NEW f \in [S -> Nat], NEW x \in S, NEW a \in Nat
  PROVE  Add(f, x, a) \in [S -> Nat]
  BY DEF Add

\* The update of one balance by a covered subtraction keeps the table typed.
LEMMA SubOK ==
  ASSUME NEW S, NEW f \in [S -> Nat], NEW x \in S, NEW a \in Nat, f[x] >= a
  PROVE  Sub(f, x, a) \in [S -> Nat]
  BY DEF Sub

\* The lesser of two natural numbers is one and exceeds neither.
LEMMA LeastOK ==
  ASSUME NEW x \in Nat, NEW y \in Nat
  PROVE  Least(x, y) \in Nat /\ Least(x, y) <= x /\ Least(x, y) <= y
  BY DEF Least

\* A merchant and a mint name a vault.
LEMMA PairInVaults ==
  ASSUME NEW mm \in Merchants, NEW t \in Mints PROVE <<mm, t>> \in Vaults
  BY DEF Vaults

\* The amounts of a fee configuration are natural numbers.
LEMMA ConfigFields ==
  ASSUME TypeInv
  PROVE  /\ feeConfig.ad_listing_fee \in Nat /\ feeConfig.dispute_filing_fee \in Nat
         /\ feeConfig.settlement_fee_bps \in 0..BPS_DENOMINATOR
         /\ feeConfig.splits \in BpsSplit
<1>1. feeConfig \in FeeConfigType
  BY CustodyAssumption DEF TypeInv, CustodyTypeOK
<1> QED
  BY <1>1 DEF FeeConfigType

\* The accounts an escrow names exist.
LEMMA EscrowVaultType ==
  ASSUME TypeInv, NEW r \in Reservations, escrow[r].state # "None"
  PROVE  /\ EscrowVault(r) \in Vaults /\ SellerOpenVault(r) \in Vaults
         /\ escrow[r].seller \in Merchants
         /\ escrow[r].amount \in Nat /\ escrow[r].mint \in Mints
<1>1. escrow[r] \in EscrowType /\ escrow[r].seller \in Merchants
  BY DEF TypeInv, CustodyTypeOK, EscrowHasParties
<1>2. escrow[r].amount \in Nat /\ escrow[r].mint \in Mints
  BY <1>1 DEF EscrowType
<1> QED
  BY <1>1, <1>2, CustodyAssumption DEF EscrowVault, SellerOpenVault, OpenVault, Vaults

-----------------------------------------------------------------------------
(* Typing and the partition of the counters                                *)

\* The initial states are typed.
LEMMA InitTypeInv == CustodyInit => TypeInv
<1> SUFFICES ASSUME CustodyInit PROVE TypeInv
  OBVIOUS
<1> USE CustodyAssumption DEF CustodyInit
<1>1. CustodyTypeOK
  BY DEF CustodyTypeOK, NoVault, VaultType, NoEscrow, EscrowType, EscrowStates, NoPayout, PayoutType,
         NoDispute, DisputeType, NoShares, TreasuryIndex, Verdicts
<1>2. EscrowHasParties
  BY DEF EscrowHasParties, NoEscrow
<1>3. VaultsOK(vault)
  BY <1>1 DEF VaultsOK, Balanced, NoVault, CustodyTypeOK
<1> QED
  BY <1>1, <1>2, <1>3 DEF TypeInv

\* Vault instructions keep TypeInv.
LEMMA VaultStepTypeInv ==
  ASSUME TypeInv, NEW mm \in Merchants, NEW t \in Mints, VaultStep(mm, t)
  PROVE  TypeInv'
<1> DEFINE v == <<mm, t>>
<1>v. v \in Vaults
  BY PairInVaults
<1>x. vault[v] \in VaultType /\ Balanced(vault[v])
  BY <1>v, VaultAt DEF TypeInv
<1>o. outside \in [Mints -> Nat] /\ vaultTokens \in [Vaults -> Nat]
  BY DEF TypeInv, CustodyTypeOK
<1>n. Amounts \subseteq Nat
  BY CustodyAssumption
<1> HIDE DEF v
<1>1. CASE CreateLiquidityVault(mm, t)
  <2>1. [vault[v] EXCEPT !.exists = TRUE] \in VaultType
    BY <1>x, ZenonT(60) DEF VaultType
  <2>2. Balanced([vault[v] EXCEPT !.exists = TRUE])
    BY <1>x DEF VaultType, Balanced
  <2>3. vault' = [vault EXCEPT ![v] = [vault[v] EXCEPT !.exists = TRUE]]
    BY <1>1 DEF CreateLiquidityVault, v
  <2>4. VaultsOK(vault')
    BY <2>1, <2>2, <2>3, <1>v, VaultPut, ZenonT(60) DEF TypeInv
  <2> QED
    BY <1>1, <2>4, ZenonT(60)
    DEF CreateLiquidityVault, TypeInv, CustodyTypeOK, EscrowHasParties, VaultsOK,
        tradeVars, recoveryVars, adminVars
<1>2. ASSUME NEW a \in Amounts, DepositLiquidity(mm, t, a) PROVE TypeInv'
  <2>1. VaultsOK(vault')
    BY <1>2, <1>n, <1>v, <1>x, CreditedOK, VaultPut, ZenonT(60) DEF DepositLiquidity, TypeInv, v
  <2>2. outside' \in [Mints -> Nat] /\ vaultTokens' \in [Vaults -> Nat]
    BY <1>2, <1>n, <1>v, <1>o, AddOK, SubOK, ZenonT(60) DEF DepositLiquidity, v
  <2> QED
    BY <1>2, <2>1, <2>2, ZenonT(60)
    DEF DepositLiquidity, TypeInv, CustodyTypeOK, EscrowHasParties, VaultsOK,
        tradeVars, recoveryVars, adminVars
<1>3. ASSUME NEW a \in Amounts, ReserveLiquidity(mm, t, a) PROVE TypeInv'
  <2>1. VaultsOK(vault')
    BY <1>3, <1>n, <1>v, <1>x, ReserveOK, VaultPut, ZenonT(60) DEF ReserveLiquidity, TypeInv, v
  <2> QED
    BY <1>3, <2>1, ZenonT(60)
    DEF ReserveLiquidity, TypeInv, CustodyTypeOK, EscrowHasParties, VaultsOK,
        tradeVars, recoveryVars, adminVars
<1>4. ASSUME NEW a \in Amounts, WithdrawLiquidity(mm, t, a) PROVE TypeInv'
  <2>1. VaultsOK(vault')
    BY <1>4, <1>n, <1>v, <1>x, DebitedOK, VaultPut, ZenonT(60) DEF WithdrawLiquidity, TypeInv, v
  <2>2. outside' \in [Mints -> Nat] /\ vaultTokens' \in [Vaults -> Nat]
    BY <1>4, <1>n, <1>v, <1>o, AddOK, SubOK, ZenonT(60) DEF WithdrawLiquidity, v
  <2> QED
    BY <1>4, <2>1, <2>2
    DEF WithdrawLiquidity, TypeInv, CustodyTypeOK, EscrowHasParties, VaultsOK,
        tradeVars, recoveryVars, adminVars
<1>5. CASE ChargeAdListingFee(mm, t)
  <2> DEFINE fee == feeConfig.ad_listing_fee
             sum == SumShares(SplitFeeFourWays(feeConfig.splits, fee))
  <2>1. fee \in Nat /\ sum = fee
    BY ConfigFields, SplitExact
  <2>2. VaultsOK(vault')
    BY <1>5, <2>1, <1>v, <1>x, DebitedOK, VaultPut, ZenonT(60) DEF ChargeAdListingFee, TypeInv, v
  <2>3. outside' \in [Mints -> Nat] /\ vaultTokens' \in [Vaults -> Nat]
    <3>1. /\ vaultTokens[v] >= sum
          /\ outside' = Add(outside, t, sum) /\ vaultTokens' = Sub(vaultTokens, v, sum)
      BY <1>5 DEF ChargeAdListingFee, v
    <3> HIDE DEF fee, sum
    <3> QED
      BY <2>1, <3>1, <1>v, <1>o, AddOK, SubOK
  <2> QED
    BY <1>5, <2>2, <2>3, ZenonT(60)
    DEF ChargeAdListingFee, TypeInv, CustodyTypeOK, EscrowHasParties, VaultsOK,
        tradeVars, recoveryVars, adminVars
<1> QED
  BY <1>1, <1>2, <1>3, <1>4, <1>5 DEF VaultStep

\* Closing a funded trade keeps its accounts typed, whatever it pays.
LEMMA CloseFundedTypeInv ==
  ASSUME TypeInv, NEW r \in Reservations, escrow[r].state # "None",
         NEW vlt, VaultsOK(vlt), NEW tok \in [Vaults -> Nat],
         NEW toBuyer \in Nat, NEW shares \in [TreasuryIndex -> Nat],
         NEW back \in 0..escrow[r].amount, NEW state \in EscrowStates \ {"None"},
         CloseFunded(r, vlt, tok, toBuyer, shares, back, state)
  PROVE  /\ VaultsOK(vault')
         /\ vaultTokens' \in [Vaults -> Nat] /\ escrowTokens' \in [Reservations -> Nat]
         /\ outside' \in [Mints -> Nat] /\ payout' \in [Reservations -> PayoutType]
         /\ escrow' \in [Reservations -> EscrowType]
         /\ EscrowHasParties'
<1> DEFINE v == EscrowVault(r)
           a == escrow[r].amount
           out == toBuyer + SumShares(shares)
<1>1. v \in Vaults /\ a \in Nat /\ escrow[r].mint \in Mints
  BY EscrowVaultType
<1>2. SumShares(shares) \in Nat
  BY DEF SumShares, TreasuryIndex
<1>3. out \in Nat /\ out + back \in Nat /\ back \in Nat
  BY <1>1, <1>2
<1>4. vlt[v] \in VaultType /\ Balanced(vlt[v])
  BY <1>1, VaultAt
<1>5. /\ vlt[v].pending_settlement >= a /\ escrowTokens[r] >= out + back
      /\ vault' = [vlt EXCEPT ![v] = LeavePending(vlt[v], a, back)]
      /\ vaultTokens' = Add(tok, v, back)
      /\ escrowTokens' = Sub(escrowTokens, r, out + back)
      /\ outside' = Add(outside, escrow[r].mint, out)
      /\ payout' = [payout EXCEPT ![r] =
                      [buyer |-> toBuyer, shares |-> shares, seller |-> back]]
      /\ escrow' = [escrow EXCEPT ![r].state = state]
  BY DEF CloseFunded
<1>6. /\ escrowTokens \in [Reservations -> Nat] /\ outside \in [Mints -> Nat]
      /\ payout \in [Reservations -> PayoutType] /\ escrow \in [Reservations -> EscrowType]
  BY DEF TypeInv, CustodyTypeOK
<1> HIDE DEF v, a, out
<1>7. VaultsOK(vault')
  BY <1>1, <1>3, <1>4, <1>5, LeavePendingOK, VaultPut, ZenonT(60) DEF a
<1>8. vaultTokens' \in [Vaults -> Nat] /\ escrowTokens' \in [Reservations -> Nat]
        /\ outside' \in [Mints -> Nat]
  BY <1>1, <1>3, <1>5, <1>6, AddOK, SubOK, ZenonT(60)
<1>9. payout' \in [Reservations -> PayoutType]
  BY <1>3, <1>5, <1>6 DEF PayoutType
<1>10. escrow' \in [Reservations -> EscrowType]
  BY <1>5, <1>6 DEF EscrowType
<1>11. EscrowHasParties'
  BY <1>5, <1>6 DEF EscrowHasParties, EscrowType, TypeInv
<1> QED
  BY <1>7, <1>8, <1>9, <1>10, <1>11

Closes(r, vlt, tok) ==
  \/ ReleaseTradeEscrowFunds(r, vlt, tok)
  \/ UnwindFundedTradeEscrow(r, vlt, tok)
  \/ SplitTradeEscrowEvenly(r, vlt, tok)

\* However a funded escrow is closed, what is paid out adds up to its amount.
LEMMA ClosesExactly ==
  ASSUME TypeInv, NEW r \in Reservations, escrow[r].state # "None", NEW vlt, NEW tok,
         Closes(r, vlt, tok)
  PROVE  \E toBuyer \in Nat, shares \in [TreasuryIndex -> Nat],
            back \in 0..escrow[r].amount, state \in {"Released", "Cancelled"} :
              /\ toBuyer + SumShares(shares) + back = escrow[r].amount
              /\ CloseFunded(r, vlt, tok, toBuyer, shares, back, state)
<1> DEFINE a == escrow[r].amount
<1>1. a \in Nat
  BY EscrowVaultType
<1>2. NoShares \in [TreasuryIndex -> Nat] /\ SumShares(NoShares) = 0
  BY DEF NoShares, SumShares, TreasuryIndex
<1>3. CASE ReleaseTradeEscrowFunds(r, vlt, tok)
  <2> DEFINE fee == SettlementFee(feeConfig.settlement_fee_bps, a)
             shares == SplitFeeFourWays(feeConfig.splits, fee)
  <2>1. fee \in 0..a
    BY <1>1, ConfigFields, SettlementFeeBounded
  <2>2. fee \in Nat /\ a - fee \in Nat /\ 0 \in 0..a
    BY <1>1, <2>1
  <2>3. shares \in [TreasuryIndex -> Nat] /\ SumShares(shares) = fee
    BY <2>2, ConfigFields, SplitExact
  <2>4. CloseFunded(r, vlt, tok, a - fee, shares, 0, "Released")
    BY <1>3 DEF ReleaseTradeEscrowFunds
  <2> HIDE DEF fee, shares
  <2>5. (a - fee) + SumShares(shares) + 0 = a
    BY <1>1, <2>2, <2>3
  <2> QED
    BY <2>2, <2>3, <2>4, <2>5
<1>4. CASE UnwindFundedTradeEscrow(r, vlt, tok)
  <2>1. CloseFunded(r, vlt, tok, 0, NoShares, a, "Cancelled")
    BY <1>4 DEF UnwindFundedTradeEscrow
  <2>2. a \in 0..a /\ 0 + SumShares(NoShares) + a = a
    BY <1>1, <1>2
  <2> QED
    BY <1>2, <2>1, <2>2
<1>5. CASE SplitTradeEscrowEvenly(r, vlt, tok)
  <2> DEFINE half == a \div 2
  <2>1. CloseFunded(r, vlt, tok, half, NoShares, a - half, "Released")
    BY <1>5 DEF SplitTradeEscrowEvenly
  <2>2. half \in Nat /\ a - half \in 0..a
    BY <1>1
  <2> HIDE DEF half
  <2>3. half + SumShares(NoShares) + (a - half) = a
    BY <1>1, <1>2, <2>2
  <2> QED
    BY <1>2, <2>1, <2>2, <2>3
<1> QED
  BY <1>3, <1>4, <1>5 DEF Closes

\* Paying buyer and treasuries, or refunding the seller, keeps the accounts typed.
LEMMA ClosesTypeInv ==
  ASSUME TypeInv, NEW r \in Reservations, escrow[r].state # "None",
         NEW vlt, VaultsOK(vlt), NEW tok \in [Vaults -> Nat], Closes(r, vlt, tok)
  PROVE  /\ VaultsOK(vault')
         /\ vaultTokens' \in [Vaults -> Nat] /\ escrowTokens' \in [Reservations -> Nat]
         /\ outside' \in [Mints -> Nat] /\ payout' \in [Reservations -> PayoutType]
         /\ escrow' \in [Reservations -> EscrowType]
         /\ EscrowHasParties'
<1>1. PICK toBuyer \in Nat, shares \in [TreasuryIndex -> Nat],
           back \in 0..escrow[r].amount, state \in {"Released", "Cancelled"} :
             CloseFunded(r, vlt, tok, toBuyer, shares, back, state)
  BY ClosesExactly
<1>2. state \in EscrowStates \ {"None"}
  BY DEF EscrowStates
<1> QED
  BY <1>1, <1>2, CloseFundedTypeInv

\* Closing a trade nobody approved keeps TypeInv.
LEMMA CloseUnapprovedTypeInv ==
  ASSUME TypeInv, NEW r \in Reservations, CloseUnapproved(r)
  PROVE  TypeInv'
<1>0. VaultsOK(vault) /\ vaultTokens \in [Vaults -> Nat]
  BY DEF TypeInv, CustodyTypeOK
<1>1. CASE escrow[r].state = "AwaitingFiatSettlement"
  <2>1. Closes(r, vault, vaultTokens)
    BY <1>1 DEF CloseUnapproved, Closes
  <2>2. UNCHANGED <<dispute, pool, recoveryVars, adminVars, now>>
    BY DEF CloseUnapproved
  <2> QED
    BY <1>0, <1>1, <2>1, <2>2, ClosesTypeInv
    DEF TypeInv, CustodyTypeOK, VaultsOK, recoveryVars, adminVars
<1>2. CASE escrow[r].state = "Reserved" /\ ReleaseReservationMarking(r)
  <2>1. EscrowVault(r) \in Vaults /\ escrow[r].amount \in Nat
    BY <1>2, EscrowVaultType
  <2>2. vault[EscrowVault(r)] \in VaultType /\ Balanced(vault[EscrowVault(r)])
    BY <1>0, <2>1, VaultAt
  <2>3. VaultsOK(vault')
    BY <1>0, <1>2, <2>1, <2>2, UnreserveOK, VaultPut, ZenonT(60) DEF ReleaseReservationMarking
  <2>4. escrow' \in [Reservations -> EscrowType] /\ EscrowHasParties'
    BY <1>2, ZenonT(60) DEF ReleaseReservationMarking, TypeInv, CustodyTypeOK, EscrowHasParties,
                EscrowType, EscrowStates
  <2>5. UNCHANGED <<vaultTokens, escrowTokens, outside, payout, dispute, pool,
                    recoveryVars, adminVars, now>>
    BY <1>2 DEF CloseUnapproved, ReleaseReservationMarking
  <2> QED
    BY <2>3, <2>4, <2>5 DEF TypeInv, CustodyTypeOK, VaultsOK, recoveryVars, adminVars
<1> QED
  BY <1>1, <1>2 DEF CloseUnapproved

\* Trade instructions keep TypeInv.
LEMMA TradeStepTypeInv ==
  ASSUME TypeInv, NEW r \in Reservations, TradeStep(r)
  PROVE  TypeInv'
<1>0. VaultsOK(vault) /\ vaultTokens \in [Vaults -> Nat]
      /\ escrowTokens \in [Reservations -> Nat] /\ escrow \in [Reservations -> EscrowType]
  BY DEF TypeInv, CustodyTypeOK
<1>1. ASSUME NEW mm \in Merchants, NEW b \in Buyers, NEW t \in Mints, NEW a \in Amounts,
             NEW s \in Timeouts, CreateTradeEscrow(r, mm, b, t, a, s)
      PROVE  TypeInv'
  <2> DEFINE e == [state |-> "Reserved", seller |-> mm, buyer |-> b, mint |-> t,
                   amount |-> a, approved |-> FALSE, timeout_at |-> now + s]
  <2>1. a \in Nat /\ now + s \in Nat
    BY CustodyAssumption DEF TypeInv, CustodyTypeOK
  <2>2. e \in EscrowType
    BY <2>1 DEF EscrowType, EscrowStates
  <2>3. escrow' = [escrow EXCEPT ![r] = e]
    BY <1>1 DEF CreateTradeEscrow
  <2>4. escrow' \in [Reservations -> EscrowType] /\ EscrowHasParties'
    BY <1>0, <2>2, <2>3 DEF TypeInv, EscrowHasParties
  <2> QED
    BY <1>1, <2>4 DEF CreateTradeEscrow, TypeInv, CustodyTypeOK, VaultsOK, recoveryVars, adminVars
<1>2. CASE FundTradeEscrow(r)
  <2> DEFINE v == EscrowVault(r)
             a == escrow[r].amount
  <2>0. escrow[r].state = "Reserved"
    BY <1>2 DEF FundTradeEscrow
  <2>1. v \in Vaults /\ a \in Nat
    BY <2>0, EscrowVaultType
  <2>2. vault[v] \in VaultType /\ Balanced(vault[v])
    BY <1>0, <2>1, VaultAt
  <2>3. /\ vault[v].reserved >= a /\ vaultTokens[v] >= a
        /\ vaultTokens' = Sub(vaultTokens, v, a) /\ escrowTokens' = Add(escrowTokens, r, a)
        /\ vault' = [vault EXCEPT ![v] = Fund(vault[v], a)]
        /\ escrow' = [escrow EXCEPT ![r].state = "AwaitingFiatSettlement"]
    BY <1>2 DEF FundTradeEscrow
  <2>4. escrow' \in [Reservations -> EscrowType] /\ EscrowHasParties'
    BY <1>0, <2>0, <2>3 DEF TypeInv, EscrowHasParties, EscrowType, EscrowStates
  <2> HIDE DEF v, a
  <2>5. VaultsOK(vault') /\ vaultTokens' \in [Vaults -> Nat]
          /\ escrowTokens' \in [Reservations -> Nat]
    BY <1>0, <2>1, <2>2, <2>3, FundOK, VaultPut, AddOK, SubOK, ZenonT(60)
  <2> QED
    BY <1>2, <2>4, <2>5
    DEF FundTradeEscrow, TypeInv, CustodyTypeOK, VaultsOK, recoveryVars, adminVars
<1>3. CASE ApproveSettlement(r)
  <2>1. escrow' \in [Reservations -> EscrowType] /\ EscrowHasParties'
    BY <1>0, <1>3, ZenonT(60) DEF ApproveSettlement, TypeInv, EscrowHasParties, EscrowType
  <2> QED
    BY <1>3, <2>1
    DEF ApproveSettlement, TypeInv, CustodyTypeOK, VaultsOK, recoveryVars, adminVars
<1>4. CASE ReleaseEscrow(r)
  <2>1. Closes(r, vault, vaultTokens) /\ escrow[r].state # "None"
        /\ UNCHANGED <<dispute, pool, recoveryVars, adminVars, now>>
    BY <1>4 DEF ReleaseEscrow, Closes
  <2> QED
    BY <1>0, <2>1, ClosesTypeInv
    DEF TypeInv, CustodyTypeOK, VaultsOK, recoveryVars, adminVars
<1>5. CASE CancelReservation(r) \/ ExpireReservation(r)
  BY <1>5, CloseUnapprovedTypeInv DEF CancelReservation, ExpireReservation
<1> QED
  BY <1>1, <1>2, <1>3, <1>4, <1>5 DEF TradeStep

\* Taking a deposit the vault has available keeps vaults, their tokens and the pool typed.
LEMMA TakeDepositOK ==
  ASSUME TypeInv, NEW v \in Vaults, NEW a \in Nat, a <= vault[v].available,
         TakeDeposit(v, a)
  PROVE  /\ VaultsOK(vault') /\ vaultTokens' \in [Vaults -> Nat]
         /\ pool' \in [open : BOOLEAN, tokens : Nat]
<1>1. vault[v] \in VaultType /\ Balanced(vault[v]) /\ vault[v].available \in Nat
  BY VaultAt, VaultFields DEF TypeInv
<1>2. VaultsOK(vault')
  BY <1>1, DebitedOK, VaultPut, ZenonT(60) DEF TakeDeposit, TypeInv
<1>3. vaultTokens' \in [Vaults -> Nat]
  BY SubOK DEF TakeDeposit, TypeInv, CustodyTypeOK
<1>4. pool' \in [open : BOOLEAN, tokens : Nat]
  BY DEF TakeDeposit, TypeInv, CustodyTypeOK
<1> QED
  BY <1>2, <1>3, <1>4

\* The amounts of a case are natural numbers.
LEMMA DisputeFields ==
  ASSUME TypeInv, NEW r \in Reservations
  PROVE  /\ dispute[r] \in DisputeType
         /\ dispute[r].deposit \in Nat /\ dispute[r].shortfall \in Nat
         /\ dispute[r].reward_remaining \in Nat
  BY DEF TypeInv, CustodyTypeOK, DisputeType

\* open_dispute_case keeps TypeInv.
LEMMA OpenDisputeTypeInv ==
  ASSUME TypeInv, NEW r \in Reservations, NEW w, OpenDisputeCase(r, w)
  PROVE  TypeInv'
<1> DEFINE v == SellerOpenVault(r)
           fee == feeConfig.dispute_filing_fee
           deposit == Least(fee, vault[v].available)
           short == fee - deposit
<1>1. escrow[r].state = "AwaitingFiatSettlement"
  BY DEF OpenDisputeCase
<1>2. v \in Vaults /\ escrow[r].seller \in Merchants
  BY <1>1, EscrowVaultType
<1>3. fee \in Nat /\ vault[v].available \in Nat
  BY <1>2, ConfigFields, VaultAt, VaultFields DEF TypeInv
<1>4. deposit \in Nat /\ deposit <= vault[v].available /\ deposit <= fee
  BY <1>3, LeastOK, ZenonT(60)
<1>5. short \in Nat
  BY <1>3, <1>4
<1>6. /\ TakeDeposit(v, deposit)
      /\ claim' = [claim EXCEPT ![escrow[r].seller].owed_total = @ + short]
      /\ dispute' = [dispute EXCEPT ![r] = [NoDispute EXCEPT
                       !.status = "open", !.deposit = deposit, !.shortfall = short]]
      /\ escrow' = [escrow EXCEPT ![r].state = "Frozen"]
      /\ UNCHANGED <<escrowTokens, payout, recovered, stake, outside, adminVars, now>>
  BY DEF OpenDisputeCase
<1> HIDE DEF v, fee, deposit, short
<1>7. /\ VaultsOK(vault') /\ vaultTokens' \in [Vaults -> Nat]
      /\ pool' \in [open : BOOLEAN, tokens : Nat]
  BY <1>2, <1>4, <1>6, TakeDepositOK
<1>8. dispute' \in [Reservations -> DisputeType]
  BY <1>4, <1>5, <1>6, ZenonT(60) DEF TypeInv, CustodyTypeOK, NoDispute, DisputeType
<1>9. escrow' \in [Reservations -> EscrowType] /\ EscrowHasParties'
  <2>1. escrow \in [Reservations -> EscrowType] /\ EscrowHasParties
    BY DEF TypeInv, CustodyTypeOK
  <2>2. escrow' = [escrow EXCEPT ![r].state = "Frozen"]
    BY <1>6
  <2> QED
    BY <1>1, <2>1, <2>2 DEF EscrowHasParties, EscrowType, EscrowStates
<1>10. claim' \in [Merchants -> [owed_total : Nat, credited_total : Nat]]
  BY <1>2, <1>5, <1>6 DEF TypeInv, CustodyTypeOK
<1> QED
  BY <1>6, <1>7, <1>8, <1>9, <1>10 DEF TypeInv, CustodyTypeOK, VaultsOK, adminVars

\* top_up_dispute_deposit keeps TypeInv.
LEMMA TopUpTypeInv ==
  ASSUME TypeInv, NEW r \in Reservations, TopUpArbitrationDeposit(r)
  PROVE  TypeInv'
<1> DEFINE v == SellerOpenVault(r)
           amount == Least(dispute[r].shortfall, vault[v].available)
<1>1. escrow[r].state = "Frozen"
  BY DEF TopUpArbitrationDeposit
<1>2. v \in Vaults
  BY <1>1, EscrowVaultType
<1>3. vault[v].available \in Nat
  BY <1>2, VaultAt, VaultFields DEF TypeInv
<1>4. amount \in Nat /\ amount <= vault[v].available /\ amount <= dispute[r].shortfall
  BY <1>3, LeastOK, DisputeFields, ZenonT(60)
<1>6. /\ TakeDeposit(v, amount)
      /\ dispute' = [dispute EXCEPT ![r] = ToppedUp(dispute[r], amount)]
      /\ UNCHANGED <<tradeVars, recoveryVars, outside, adminVars, now>>
  BY DEF TopUpArbitrationDeposit
<1> HIDE DEF v, amount
<1>7. /\ VaultsOK(vault') /\ vaultTokens' \in [Vaults -> Nat]
      /\ pool' \in [open : BOOLEAN, tokens : Nat]
  BY <1>2, <1>4, <1>6, TakeDepositOK
<1>8. dispute[r].deposit + amount \in Nat /\ dispute[r].shortfall - amount \in Nat
  BY <1>4, DisputeFields
<1>9. ToppedUp(dispute[r], amount) \in DisputeType
  BY <1>8, DisputeFields, ZenonT(60) DEF DisputeType, ToppedUp
<1>10. dispute' \in [Reservations -> DisputeType]
  BY <1>6, <1>9 DEF TypeInv, CustodyTypeOK
<1> QED
  BY <1>6, <1>7, <1>10 
  DEF TypeInv, CustodyTypeOK, VaultsOK, EscrowHasParties, tradeVars, recoveryVars, adminVars

\* Executing a verdict keeps TypeInv.
LEMMA ExecuteTypeInv ==
  ASSUME TypeInv, NEW r \in Reservations, NEW verdict \in Verdicts,
         ExecuteDisputeOutcome(r, verdict)
  PROVE  TypeInv'
<1> DEFINE v == SellerOpenVault(r)
           refund == DepositRefund(r, verdict)
           forfeited == Forfeited(r, verdict)
           vlt == [vault EXCEPT ![v] = Credited(vault[v], refund)]
           tok == Add(vaultTokens, v, refund)
           settled == dispute[r].deposit > 0
<1>1. escrow[r].state = "Frozen"
  BY DEF ExecuteDisputeOutcome
<1>2. v \in Vaults
  BY <1>1, EscrowVaultType
<1>3. refund \in Nat /\ forfeited \in Nat
  BY DisputeFields DEF DepositRefund, Forfeited
<1>4. /\ Closes(r, vlt, tok)
      /\ pool.tokens >= refund
      /\ pool' = [pool EXCEPT !.tokens = @ - refund]
      /\ dispute' = [dispute EXCEPT ![r] = [dispute[r] EXCEPT
                       !.status = "resolved", !.outcome = verdict,
                       !.deposit_settled = settled, !.reward_remaining = forfeited]]
      /\ UNCHANGED <<recoveryVars, adminVars, now>>
  BY DEF ExecuteDisputeOutcome, Closes
<1>5. settled \in BOOLEAN
  BY DisputeFields
<1> HIDE DEF v, refund, forfeited, settled
<1>6. vault[v] \in VaultType /\ Balanced(vault[v])
  BY <1>2, VaultAt DEF TypeInv
<1>7. VaultsOK(vlt) /\ tok \in [Vaults -> Nat]
  BY <1>2, <1>3, <1>6, CreditedOK, VaultPut, AddOK, ZenonT(60) DEF TypeInv, CustodyTypeOK
<1>8. /\ VaultsOK(vault')
      /\ vaultTokens' \in [Vaults -> Nat] /\ escrowTokens' \in [Reservations -> Nat]
      /\ outside' \in [Mints -> Nat] /\ payout' \in [Reservations -> PayoutType]
      /\ escrow' \in [Reservations -> EscrowType]
      /\ EscrowHasParties'
  <2> HIDE DEF vlt, tok
  <2> QED
    BY <1>1, <1>4, <1>7, ClosesTypeInv
<1>9. [dispute[r] EXCEPT !.status = "resolved", !.outcome = verdict,
         !.deposit_settled = settled, !.reward_remaining = forfeited] \in DisputeType
  BY <1>3, <1>5, DisputeFields, ZenonT(60) DEF DisputeType
<1>10. dispute' \in [Reservations -> DisputeType]
  BY <1>4, <1>9 DEF TypeInv, CustodyTypeOK
<1>11. pool' \in [open : BOOLEAN, tokens : Nat]
  BY <1>3, <1>4 DEF TypeInv, CustodyTypeOK
<1> QED
  BY <1>4, <1>8, <1>10, <1>11 DEF TypeInv, CustodyTypeOK, VaultsOK, recoveryVars, adminVars

\* Case instructions keep TypeInv.
LEMMA DisputeStepTypeInv ==
  ASSUME TypeInv, NEW r \in Reservations, DisputeStep(r)
  PROVE  TypeInv'
<1>1. ASSUME NEW a \in 0..dispute[r].reward_remaining, ClaimArbitrationReward(r, a)
      PROVE  TypeInv'
  <2>1. a \in Nat /\ dispute[r].reward_remaining - a \in Nat
    BY DisputeFields
  <2>2. dispute' \in [Reservations -> DisputeType]
    BY <1>1, <2>1, DisputeFields, ZenonT(60) DEF ClaimArbitrationReward, TypeInv, CustodyTypeOK, DisputeType
  <2>3. outside' \in [Mints -> Nat]
    BY <1>1, <2>1, AddOK, CustodyAssumption DEF ClaimArbitrationReward, TypeInv, CustodyTypeOK
  <2>4. pool' \in [open : BOOLEAN, tokens : Nat]
    BY <1>1, <2>1 DEF ClaimArbitrationReward, TypeInv, CustodyTypeOK
  <2> QED
    BY <1>1, <2>2, <2>3, <2>4
    DEF ClaimArbitrationReward, TypeInv, CustodyTypeOK, VaultsOK, EscrowHasParties,
        tradeVars, recoveryVars, adminVars
<1> QED
  BY <1>1, OpenDisputeTypeInv, TopUpTypeInv, ExecuteTypeInv DEF DisputeStep

\* Stake recovery and its absorption keep TypeInv.
LEMMA RecoveryStepTypeInv ==
  ASSUME TypeInv, NEW mm \in Merchants, RecoveryStep(mm)
  PROVE  TypeInv'
<1>0. /\ OpenVault(mm) \in Vaults /\ recovered[mm] \in Nat /\ stake[mm] \in Nat
      /\ claim[mm].owed_total \in Nat /\ claim[mm].credited_total \in Nat
  BY CustodyAssumption DEF OpenVault, Vaults, TypeInv, CustodyTypeOK
<1>1. CASE RecoverStakeShortfall(mm)
  <2> DEFINE amount == Least(claim[mm].owed_total - recovered[mm], stake[mm])
  <2>1. claim[mm].owed_total - recovered[mm] \in Nat
    BY <1>0, <1>1 DEF RecoverStakeShortfall
  <2>2. amount \in Nat /\ amount <= stake[mm]
    BY <1>0, <2>1, LeastOK, ZenonT(60)
  <2>3. /\ stake' = Sub(stake, mm, amount)
        /\ vaultTokens' = Add(vaultTokens, OpenVault(mm), amount)
        /\ recovered' = Add(recovered, mm, amount)
    BY <1>1 DEF RecoverStakeShortfall
  <2> HIDE DEF amount
  <2>4. stake' \in [Merchants -> Nat] /\ vaultTokens' \in [Vaults -> Nat]
          /\ recovered' \in [Merchants -> Nat]
    BY <1>0, <2>2, <2>3, AddOK, SubOK, ZenonT(60) DEF TypeInv, CustodyTypeOK
  <2> QED
    BY <1>1, <2>4
    DEF RecoverStakeShortfall, TypeInv, CustodyTypeOK, VaultsOK, EscrowHasParties,
        tradeVars, adminVars
<1>2. CASE AbsorbStakeRecovery(mm)
  <2> DEFINE amount == recovered[mm] - claim[mm].credited_total
             v == OpenVault(mm)
  <2>1. amount \in Nat
    BY <1>0, <1>2 DEF AbsorbStakeRecovery
  <2>2. /\ vault' = [vault EXCEPT ![v] = Credited(vault[v], amount)]
        /\ claim' = [claim EXCEPT ![mm].credited_total = @ + amount]
    BY <1>2 DEF AbsorbStakeRecovery
  <2>3. vault[v] \in VaultType /\ Balanced(vault[v])
    BY <1>0, VaultAt DEF TypeInv
  <2> HIDE DEF amount, v
  <2>4. VaultsOK(vault')
    BY <1>0, <2>1, <2>2, <2>3, CreditedOK, VaultPut, ZenonT(60) DEF TypeInv, v
  <2>5. claim' \in [Merchants -> [owed_total : Nat, credited_total : Nat]]
    BY <2>1, <2>2 DEF TypeInv, CustodyTypeOK
  <2> QED
    BY <1>2, <2>4, <2>5
    DEF AbsorbStakeRecovery, TypeInv, CustodyTypeOK, VaultsOK, EscrowHasParties,
        tradeVars, adminVars
<1> QED
  BY <1>1, <1>2 DEF RecoveryStep

\* Administration and the clock keep TypeInv.
LEMMA OtherStepTypeInv ==
  ASSUME TypeInv, AdminStep \/ Tick \/ UNCHANGED custodyVars
  PROVE  TypeInv'
<1> USE DEF TypeInv, CustodyTypeOK, VaultsOK, EscrowHasParties, tradeVars, recoveryVars, adminVars
<1>1. CASE InitializeArbitrationPool
  BY <1>1, ZenonT(60) DEF InitializeArbitrationPool
<1>2. CASE \E c \in FeeConfigs : UpdateFeeConfig(c)
  BY <1>2 DEF UpdateFeeConfig
<1>3. CASE \E w \in Bannable : ListWallet(w) \/ DelistWallet(w)
  BY <1>3, CustodyAssumption DEF ListWallet, DelistWallet
<1>4. CASE Tick
  BY <1>4 DEF Tick
<1>5. CASE UNCHANGED custodyVars
  BY <1>5 DEF custodyVars
<1> QED
  BY <1>1, <1>2, <1>3, <1>4, <1>5 DEF AdminStep

\* Every step keeps TypeInv.
LEMMA NextTypeInv == TypeInv /\ [CustodyNext]_custodyVars => TypeInv'
  BY VaultStepTypeInv, TradeStepTypeInv, DisputeStepTypeInv, RecoveryStepTypeInv,
     OtherStepTypeInv
  DEF CustodyNext

\* TypeInv is an invariant.
LEMMA AlwaysTypeInv == CustodySpec => []TypeInv
  BY InitTypeInv, NextTypeInv, PTL DEF CustodySpec

\* Every account keeps its type: no counter of a vault, a case, a claim or a token
\* account ever goes below zero, so no checked subtraction of the program aborts
\* after its guard has passed.
THEOREM CustodyTypeCorrect == CustodySpec => []CustodyTypeOK
<1>1. TypeInv => CustodyTypeOK
  BY DEF TypeInv
<1> QED
  BY <1>1, AlwaysTypeInv, PTL

\* The counters of every LiquidityVault partition its total in every reachable state.
THEOREM VaultAccountingHolds == CustodySpec => []VaultAccounting
<1>1. TypeInv => VaultAccounting
  BY DEF TypeInv, VaultsOK, Balanced, VaultAccounting
<1> QED
  BY <1>1, AlwaysTypeInv, PTL

-----------------------------------------------------------------------------
(* Every escrow is paid out whole, once and to the right party             *)

\* What EscrowPaidOnce says of one trade, with escrow record e, tok tokens and payout p.
PaidOnce(e, tok, p) ==
  LET paid == p.buyer + SumShares(p.shares) + p.seller IN
  /\ tok = IF e.state \in Funded THEN e.amount ELSE 0
  /\ e.state \in {"None", "Reserved"} \cup Funded => paid = 0
  /\ e.state = "Released" => paid = e.amount
  /\ e.state = "Cancelled" => paid \in {0, e.amount}

\* EscrowPaidOnce one trade at a time.
LEMMA PaidOnceEach ==
  EscrowPaidOnce <=> \A r \in Reservations : PaidOnce(escrow[r], escrowTokens[r], payout[r])
  BY DEF EscrowPaidOnce, PaidOnce, PaidOut, InTrade

\* An instruction touches the books of at most one trade.
LEMMA PaidOnceFrame ==
  ASSUME EscrowPaidOnce, NEW r \in Reservations,
         \A q \in Reservations \ {r} : /\ escrow'[q] = escrow[q]
                                       /\ escrowTokens'[q] = escrowTokens[q]
                                       /\ payout'[q] = payout[q],
         PaidOnce(escrow'[r], escrowTokens'[r], payout'[r])
  PROVE  EscrowPaidOnce'
  BY DEF EscrowPaidOnce, PaidOnce, PaidOut, InTrade

\* A step that leaves escrows and payouts alone keeps EscrowPaidOnce.
LEMMA PaidOnceUntouched ==
  ASSUME EscrowPaidOnce, UNCHANGED tradeVars
  PROVE  EscrowPaidOnce'
  BY DEF EscrowPaidOnce, PaidOut, InTrade, tradeVars

\* The amounts of an escrow are natural numbers.
LEMMA TradeFields ==
  ASSUME TypeInv, NEW r \in Reservations
  PROVE  /\ escrow[r] \in EscrowType /\ escrow[r].amount \in Nat
         /\ escrowTokens[r] \in Nat /\ payout[r] \in PayoutType
         /\ payout[r].seller \in Nat
  BY DEF TypeInv, CustodyTypeOK, EscrowType, PayoutType

\* Closing pays the whole amount, once.
LEMMA ClosesPaidOnce ==
  ASSUME TypeInv, EscrowPaidOnce, NEW r \in Reservations, escrow[r].state \in Funded,
         NEW vlt, NEW tok, Closes(r, vlt, tok)
  PROVE  EscrowPaidOnce'
<1> DEFINE a == escrow[r].amount
<1>1. PICK toBuyer \in Nat, shares \in [TreasuryIndex -> Nat], back \in 0..a,
           state \in {"Released", "Cancelled"} :
             /\ toBuyer + SumShares(shares) + back = a
             /\ CloseFunded(r, vlt, tok, toBuyer, shares, back, state)
  <2>1. escrow[r].state # "None"
    BY DEF Funded
  <2> QED
    BY <2>1, ClosesExactly
<1>2. /\ escrowTokens' = [escrowTokens EXCEPT ![r] = @ - ((toBuyer + SumShares(shares)) + back)]
      /\ payout' = [payout EXCEPT ![r] = [buyer |-> toBuyer, shares |-> shares, seller |-> back]]
      /\ escrow' = [escrow EXCEPT ![r].state = state]
  BY <1>1 DEF CloseFunded, Sub
<1>3. /\ escrow \in [Reservations -> EscrowType] /\ escrowTokens \in [Reservations -> Nat]
      /\ payout \in [Reservations -> PayoutType]
  BY DEF TypeInv, CustodyTypeOK
<1>4. escrowTokens[r] = a /\ a \in Nat
  BY TradeFields DEF EscrowPaidOnce, InTrade
<1>5. escrow'[r].state = state /\ escrow'[r].amount = a
  BY <1>2, <1>3 DEF EscrowType
<1>6. escrowTokens'[r] = 0
  BY <1>1, <1>2, <1>3, <1>4
<1>7. payout'[r] = [buyer |-> toBuyer, shares |-> shares, seller |-> back]
  BY <1>2, <1>3
<1>8. PaidOnce(escrow'[r], escrowTokens'[r], payout'[r])
  BY <1>1, <1>5, <1>6, <1>7 DEF PaidOnce, Funded
<1>9. \A q \in Reservations \ {r} : /\ escrow'[q] = escrow[q]
                                    /\ escrowTokens'[q] = escrowTokens[q]
                                    /\ payout'[q] = payout[q]
  BY <1>2, <1>3
<1> QED
  BY <1>8, <1>9, PaidOnceFrame

\* Trade instructions keep EscrowPaidOnce.
LEMMA TradeStepPaidOnce ==
  ASSUME TypeInv, EscrowPaidOnce, NEW r \in Reservations, TradeStep(r)
  PROVE  EscrowPaidOnce'
<1>0. /\ escrow \in [Reservations -> EscrowType] /\ escrowTokens \in [Reservations -> Nat]
      /\ PaidOnce(escrow[r], escrowTokens[r], payout[r])
  BY PaidOnceEach DEF TypeInv, CustodyTypeOK
<1>1. ASSUME NEW mm \in Merchants, NEW b \in Buyers, NEW t \in Mints, NEW a \in Amounts,
             NEW s \in Timeouts, CreateTradeEscrow(r, mm, b, t, a, s)
      PROVE  EscrowPaidOnce'
  <2>1. /\ escrow[r].state = "None" /\ UNCHANGED <<escrowTokens, payout>>
        /\ escrow'[r].state = "Reserved"
        /\ \A q \in Reservations \ {r} : escrow'[q] = escrow[q]
    BY <1>0, <1>1 DEF CreateTradeEscrow
  <2>2. PaidOnce(escrow'[r], escrowTokens'[r], payout'[r])
    BY <1>0, <2>1 DEF PaidOnce, Funded
  <2> QED
    BY <2>1, <2>2, PaidOnceFrame
<1>2. CASE FundTradeEscrow(r)
  <2>1. /\ escrow[r].state = "Reserved" /\ UNCHANGED payout
        /\ escrow'[r].state = "AwaitingFiatSettlement" /\ escrow'[r].amount = escrow[r].amount
        /\ escrowTokens'[r] = escrowTokens[r] + escrow[r].amount
        /\ \A q \in Reservations \ {r} : escrow'[q] = escrow[q]
                                         /\ escrowTokens'[q] = escrowTokens[q]
    BY <1>0, <1>2 DEF FundTradeEscrow, Add, EscrowType
  <2>2. PaidOnce(escrow'[r], escrowTokens'[r], payout'[r])
    BY <1>0, <2>1, TradeFields DEF PaidOnce, Funded
  <2> QED
    BY <2>1, <2>2, PaidOnceFrame
<1>3. CASE ApproveSettlement(r)
  <2>1. /\ UNCHANGED <<escrowTokens, payout>>
        /\ escrow'[r].state = escrow[r].state /\ escrow'[r].amount = escrow[r].amount
        /\ \A q \in Reservations \ {r} : escrow'[q] = escrow[q]
    BY <1>0, <1>3 DEF ApproveSettlement, EscrowType
  <2>2. PaidOnce(escrow'[r], escrowTokens'[r], payout'[r])
    BY <1>0, <2>1 DEF PaidOnce
  <2> QED
    BY <2>1, <2>2, PaidOnceFrame
<1>4. CASE ReleaseEscrow(r)
  <2>1. Closes(r, vault, vaultTokens) /\ escrow[r].state \in Funded
    BY <1>4 DEF ReleaseEscrow, Closes, Funded
  <2> QED
    BY <2>1, ClosesPaidOnce
<1>5. CASE CloseUnapproved(r)
  <2>1. CASE escrow[r].state = "AwaitingFiatSettlement"
    <3>1. Closes(r, vault, vaultTokens) /\ escrow[r].state \in Funded
      BY <1>5, <2>1 DEF CloseUnapproved, Closes, Funded
    <3> QED
      BY <3>1, ClosesPaidOnce
  <2>2. CASE escrow[r].state = "Reserved" /\ ReleaseReservationMarking(r)
    <3>1. /\ UNCHANGED <<escrowTokens, payout>>
          /\ escrow'[r].state = "Cancelled" /\ escrow'[r].amount = escrow[r].amount
          /\ \A q \in Reservations \ {r} : escrow'[q] = escrow[q]
      BY <1>0, <2>2 DEF ReleaseReservationMarking, EscrowType
    <3>2. PaidOnce(escrow'[r], escrowTokens'[r], payout'[r])
      BY <1>0, <2>2, <3>1 DEF PaidOnce, Funded
    <3> QED
      BY <3>1, <3>2, PaidOnceFrame
  <2> QED
    BY <1>5, <2>1, <2>2 DEF CloseUnapproved
<1> QED
  BY <1>1, <1>2, <1>3, <1>4, <1>5 DEF TradeStep, CancelReservation, ExpireReservation

\* Case instructions keep EscrowPaidOnce.
LEMMA DisputeStepPaidOnce ==
  ASSUME TypeInv, EscrowPaidOnce, NEW r \in Reservations, DisputeStep(r)
  PROVE  EscrowPaidOnce'
<1>0. /\ escrow \in [Reservations -> EscrowType]
      /\ PaidOnce(escrow[r], escrowTokens[r], payout[r])
  BY PaidOnceEach DEF TypeInv, CustodyTypeOK
<1>1. ASSUME NEW w \in Wallets, OpenDisputeCase(r, w)
      PROVE  EscrowPaidOnce'
  <2>1. /\ UNCHANGED <<escrowTokens, payout>> /\ escrow[r].state = "AwaitingFiatSettlement"
        /\ escrow'[r].state = "Frozen" /\ escrow'[r].amount = escrow[r].amount
        /\ \A q \in Reservations \ {r} : escrow'[q] = escrow[q]
    BY <1>0, <1>1 DEF OpenDisputeCase, EscrowType
  <2>2. PaidOnce(escrow'[r], escrowTokens'[r], payout'[r])
    BY <1>0, <2>1 DEF PaidOnce, Funded
  <2> QED
    BY <2>1, <2>2, PaidOnceFrame
<1>2. CASE TopUpArbitrationDeposit(r)
  BY <1>2, PaidOnceUntouched DEF TopUpArbitrationDeposit
<1>3. ASSUME NEW verdict \in Verdicts, ExecuteDisputeOutcome(r, verdict)
      PROVE  EscrowPaidOnce'
  <2>1. /\ escrow[r].state \in Funded
        /\ \E vlt, tok : Closes(r, vlt, tok)
    BY <1>3 DEF ExecuteDisputeOutcome, Closes, Funded
  <2> QED
    BY <2>1, ClosesPaidOnce
<1>4. ASSUME NEW a \in 0..dispute[r].reward_remaining, ClaimArbitrationReward(r, a)
      PROVE  EscrowPaidOnce'
  BY <1>4, PaidOnceUntouched DEF ClaimArbitrationReward
<1> QED
  BY <1>1, <1>2, <1>3, <1>4 DEF DisputeStep

\* The other steps leave escrows and payouts alone.
LEMMA OtherStepUntouched ==
  ASSUME \/ \E mm \in Merchants, t \in Mints : VaultStep(mm, t)
         \/ \E mm \in Merchants : RecoveryStep(mm)
         \/ AdminStep \/ Tick \/ UNCHANGED custodyVars
  PROVE  UNCHANGED <<tradeVars, dispute>>
<1> USE DEF tradeVars
<1>1. ASSUME NEW mm \in Merchants, NEW t \in Mints, VaultStep(mm, t)
      PROVE  UNCHANGED <<tradeVars, dispute>>
  BY <1>1 DEF VaultStep, CreateLiquidityVault, ChargeAdListingFee, DepositLiquidity,
              ReserveLiquidity, WithdrawLiquidity
<1>2. ASSUME NEW mm \in Merchants, RecoveryStep(mm)
      PROVE  UNCHANGED <<tradeVars, dispute>>
  BY <1>2 DEF RecoveryStep, RecoverStakeShortfall, AbsorbStakeRecovery
<1>3. CASE AdminStep
  BY <1>3 DEF AdminStep, InitializeArbitrationPool, UpdateFeeConfig, ListWallet, DelistWallet
<1>4. CASE Tick \/ UNCHANGED custodyVars
  BY <1>4 DEF Tick, custodyVars
<1> QED
  BY <1>1, <1>2, <1>3, <1>4

\* Every step keeps EscrowPaidOnce.
LEMMA NextPaidOnce ==
  TypeInv /\ EscrowPaidOnce /\ [CustodyNext]_custodyVars => EscrowPaidOnce'
  BY TradeStepPaidOnce, DisputeStepPaidOnce, OtherStepUntouched, PaidOnceUntouched
  DEF CustodyNext

\* A step pays the seller of an approved trade only with a verdict.
LEMMA NextReturnsByVerdict ==
  TypeInv /\ [CustodyNext]_custodyVars => ApprovedReturnsOnlyByVerdict
<1> SUFFICES ASSUME TypeInv, [CustodyNext]_custodyVars, NEW q \in Reservations,
                    escrow[q].approved, payout'[q].seller > payout[q].seller
             PROVE  dispute'[q].status = "resolved"
  BY DEF ApprovedReturnsOnlyByVerdict
<1>0. /\ payout \in [Reservations -> PayoutType] /\ dispute \in [Reservations -> DisputeType]
      /\ payout[q].seller \in Nat
  BY TradeFields DEF TypeInv, CustodyTypeOK
<1>1. payout'[q] # payout[q]
  BY <1>0
<1>2. ASSUME NEW r \in Reservations, TradeStep(r)
      PROVE  FALSE
  <2>1. CASE ReleaseEscrow(r)
    <3>1. payout' = [payout EXCEPT ![r] =
             [buyer |-> payout'[r].buyer, shares |-> payout'[r].shares, seller |-> 0]]
      BY <1>0, <2>1 DEF ReleaseEscrow, ReleaseTradeEscrowFunds, CloseFunded
    <3> QED
      BY <1>0, <1>1, <3>1
  <2>2. CASE CloseUnapproved(r)
    <3>1. r # q
      BY <2>2 DEF CloseUnapproved
    <3> QED
      BY <1>0, <1>1, <2>2, <3>1
      DEF CloseUnapproved, UnwindFundedTradeEscrow, CloseFunded, ReleaseReservationMarking
  <2>3. ASSUME NEW mm \in Merchants, NEW b \in Buyers, NEW t \in Mints, NEW a \in Amounts,
               NEW s \in Timeouts, CreateTradeEscrow(r, mm, b, t, a, s)
        PROVE  FALSE
    BY <1>1, <2>3 DEF CreateTradeEscrow
  <2>4. CASE FundTradeEscrow(r) \/ ApproveSettlement(r)
    BY <1>1, <2>4 DEF FundTradeEscrow, ApproveSettlement
  <2> QED
    BY <1>2, <2>1, <2>2, <2>3, <2>4 DEF TradeStep, CancelReservation, ExpireReservation
<1>3. ASSUME NEW r \in Reservations, DisputeStep(r)
      PROVE  dispute'[q].status = "resolved"
  <2>1. ASSUME NEW verdict \in Verdicts, ExecuteDisputeOutcome(r, verdict)
        PROVE  dispute'[q].status = "resolved"
    <3>1. dispute'[r].status = "resolved"
      BY <1>0, <2>1 DEF ExecuteDisputeOutcome, DisputeType
    <3>2. r = q
      BY <1>0, <1>1, <2>1
      DEF ExecuteDisputeOutcome, ReleaseTradeEscrowFunds, UnwindFundedTradeEscrow,
          SplitTradeEscrowEvenly, CloseFunded
    <3> QED
      BY <3>1, <3>2
  <2>2. CASE UNCHANGED payout
    BY <1>1, <2>2
  <2> QED
    BY <1>3, <2>1, <2>2
    DEF DisputeStep, OpenDisputeCase, TopUpArbitrationDeposit, ClaimArbitrationReward, tradeVars
<1>4. CASE UNCHANGED tradeVars
  BY <1>1, <1>4 DEF tradeVars
<1> QED
  BY <1>2, <1>3, <1>4, OtherStepUntouched DEF CustodyNext

\* Whatever release_escrow, cancel_reservation, expire_reservation and the verdicts race,
\* for any number of trades, mints and fee configurations: the escrow of a trade holds its
\* whole amount until it closes, then has paid all of it once, and an approved trade
\* returns to its seller only by a verdict.
THEOREM EscrowConservedHolds == CustodySpec => EscrowConserved
<1>1. CustodyInit => EscrowPaidOnce
  BY DEF CustodyInit, EscrowPaidOnce, PaidOut, InTrade, NoEscrow, NoPayout, NoShares,
         SumShares, TreasuryIndex, Funded
<1>2. CustodySpec => []EscrowPaidOnce
  BY <1>1, NextPaidOnce, AlwaysTypeInv, PTL DEF CustodySpec
<1>3. CustodySpec => [][ApprovedReturnsOnlyByVerdict]_custodyVars
  BY NextReturnsByVerdict, AlwaysTypeInv, PTL DEF CustodySpec
<1> QED
  BY <1>2, <1>3, PTL DEF EscrowConserved

-----------------------------------------------------------------------------
(* Cases: frozen while open, decided once, and the debt they leave         *)

\* What a case record x has before and after its verdict.
CaseOK(x) ==
  /\ x.status # "resolved" => x.outcome = "none" /\ x.reward_remaining = 0
  /\ x.reward_remaining > 0 => x.outcome = "BuyerWins"

\* The inductive invariant behind FrozenIffCaseOpen and the arbitration steps.
CaseInv ==
  \A r \in Reservations : /\ (escrow[r].state = "Frozen") <=> (dispute[r].status = "open")
                          /\ CaseOK(dispute[r])

\* How one case record may change in one step.
CaseMoves(x, y) ==
  \/ y = x
  \/ /\ x.status = "none" /\ y.status = "open"
     /\ y.outcome = "none" /\ y.reward_remaining = 0
  \/ /\ x.status = "open" /\ y.status = "open"
     /\ y.outcome = x.outcome /\ y.reward_remaining = x.reward_remaining
     /\ y.deposit + y.shortfall = x.deposit + x.shortfall
  \/ /\ x.status = "open" /\ y.status = "resolved"
     /\ y.outcome \in Verdicts
     /\ y.outcome # "BuyerWins" => y.reward_remaining = 0
     /\ y.deposit = x.deposit /\ y.shortfall = x.shortfall
  \/ /\ x.status = "resolved" /\ y.status = "resolved" /\ x.reward_remaining > 0
     /\ y.outcome = x.outcome
     /\ y.reward_remaining \in 0..x.reward_remaining

\* A step moves the case of one trade; its escrow is frozen, or let go, with it.
CaseStep(r) ==
  /\ \A q \in Reservations \ {r} : dispute'[q] = dispute[q]
                                   /\ escrow'[q].state = escrow[q].state
  /\ CaseMoves(dispute[r], dispute'[r])
  /\ \/ escrow'[r].state = escrow[r].state /\ dispute'[r].status = dispute[r].status
     \/ escrow'[r].state = "Frozen" /\ dispute'[r].status = "open"
     \/ /\ escrow[r].state # "Frozen" /\ escrow'[r].state # "Frozen"
        /\ dispute'[r].status = dispute[r].status
     \/ escrow'[r].state # "Frozen" /\ dispute'[r].status = "resolved"

\* What a trade instruction does is a step of at most that trade's case.
LEMMA TradeCaseStep ==
  ASSUME TypeInv, NEW r \in Reservations, TradeStep(r)
  PROVE  CaseStep(r)
<1>0. escrow \in [Reservations -> EscrowType]
  BY DEF TypeInv, CustodyTypeOK
<1>1. ASSUME NEW mm \in Merchants, NEW b \in Buyers, NEW t \in Mints, NEW a \in Amounts,
             NEW s \in Timeouts, CreateTradeEscrow(r, mm, b, t, a, s)
      PROVE  CaseStep(r)
  <2>1. /\ \A q \in Reservations \ {r} : escrow'[q].state = escrow[q].state
        /\ UNCHANGED dispute /\ escrow[r].state # "Frozen" /\ escrow'[r].state # "Frozen"
    BY <1>0, <1>1, ZenonT(60) DEF CreateTradeEscrow
  <2> QED
    BY <2>1 DEF CaseStep, CaseMoves
<1>2. CASE FundTradeEscrow(r) \/ ApproveSettlement(r)
  <2>1. /\ \A q \in Reservations \ {r} : escrow'[q].state = escrow[q].state
        /\ UNCHANGED dispute /\ escrow[r].state # "Frozen" /\ escrow'[r].state # "Frozen"
    BY <1>0, <1>2 DEF FundTradeEscrow, ApproveSettlement, EscrowType
  <2> QED
    BY <2>1 DEF CaseStep, CaseMoves
<1>3. CASE ReleaseEscrow(r) \/ CloseUnapproved(r)
  <2>1. UNCHANGED dispute /\ escrow[r].state # "Frozen"
    BY <1>3 DEF ReleaseEscrow, CloseUnapproved
  <2>2. \E state \in {"Released", "Cancelled"} : escrow' = [escrow EXCEPT ![r].state = state]
    BY <1>3 DEF ReleaseEscrow, CloseUnapproved, ReleaseTradeEscrowFunds,
                UnwindFundedTradeEscrow, ReleaseReservationMarking, CloseFunded
  <2>3. /\ \A q \in Reservations \ {r} : escrow'[q].state = escrow[q].state
        /\ escrow'[r].state # "Frozen"
    BY <1>0, <2>2 DEF EscrowType
  <2> QED
    BY <2>1, <2>3 DEF CaseStep, CaseMoves
<1> QED
  BY <1>1, <1>2, <1>3 DEF TradeStep, CancelReservation, ExpireReservation

\* What a case instruction does is a step of that case.
LEMMA DisputeCaseStep ==
  ASSUME TypeInv, CaseInv, NEW r \in Reservations, DisputeStep(r)
  PROVE  CaseStep(r)
<1>0. /\ escrow \in [Reservations -> EscrowType] /\ dispute \in [Reservations -> DisputeType]
      /\ dispute[r].deposit \in Nat /\ dispute[r].shortfall \in Nat
      /\ dispute[r].reward_remaining \in Nat /\ CaseOK(dispute[r])
  BY DisputeFields DEF TypeInv, CustodyTypeOK, CaseInv
<1>1. ASSUME NEW w \in Wallets, OpenDisputeCase(r, w)
      PROVE  CaseStep(r)
  <2>1. /\ dispute[r].status = "none" /\ dispute'[r].status = "open"
        /\ dispute'[r].outcome = "none" /\ dispute'[r].reward_remaining = 0
        /\ \A q \in Reservations \ {r} : dispute'[q] = dispute[q]
    BY <1>0, <1>1 DEF OpenDisputeCase, NoDispute
  <2>2. /\ escrow'[r].state = "Frozen"
        /\ \A q \in Reservations \ {r} : escrow'[q].state = escrow[q].state
    BY <1>0, <1>1 DEF OpenDisputeCase, EscrowType
  <2> QED
    BY <2>1, <2>2 DEF CaseStep, CaseMoves
<1>2. CASE TopUpArbitrationDeposit(r)
  <2> DEFINE amount == Least(dispute[r].shortfall, vault[SellerOpenVault(r)].available)
  <2>1. /\ dispute[r].status = "open" /\ UNCHANGED escrow
        /\ dispute' = [dispute EXCEPT ![r] = ToppedUp(dispute[r], amount)]
    BY <1>2 DEF TopUpArbitrationDeposit, tradeVars
  <2>2. amount \in Nat
    <3>1. SellerOpenVault(r) \in Vaults
      BY <1>2, CustodyAssumption
      DEF TopUpArbitrationDeposit, SellerOpenVault, OpenVault, Vaults, TypeInv, EscrowHasParties
    <3>2. vault[SellerOpenVault(r)].available \in Nat
      BY <3>1, VaultFields DEF TypeInv, CustodyTypeOK
    <3> QED
      BY <1>0, <3>2 DEF Least
  <2> HIDE DEF amount
  <2>3. /\ dispute'[r] = ToppedUp(dispute[r], amount)
        /\ \A q \in Reservations \ {r} : dispute'[q] = dispute[q]
    BY <1>0, <2>1
  <2>4. /\ dispute'[r].status = "open" /\ dispute'[r].outcome = dispute[r].outcome
        /\ dispute'[r].reward_remaining = dispute[r].reward_remaining
        /\ dispute'[r].deposit = dispute[r].deposit + amount
        /\ dispute'[r].shortfall = dispute[r].shortfall - amount
    BY <1>0, <2>1, <2>3 DEF ToppedUp, DisputeType
  <2>5. dispute'[r].deposit + dispute'[r].shortfall = dispute[r].deposit + dispute[r].shortfall
    BY <1>0, <2>2, <2>4
  <2> QED
    BY <2>1, <2>3, <2>4, <2>5 DEF CaseStep, CaseMoves
<1>3. ASSUME NEW verdict \in Verdicts, ExecuteDisputeOutcome(r, verdict)
      PROVE  CaseStep(r)
  <2>1. /\ dispute[r].status = "open" /\ dispute'[r].status = "resolved"
        /\ dispute'[r].outcome = verdict /\ dispute'[r].reward_remaining = Forfeited(r, verdict)
        /\ dispute'[r].deposit = dispute[r].deposit
        /\ dispute'[r].shortfall = dispute[r].shortfall
        /\ \A q \in Reservations \ {r} : dispute'[q] = dispute[q]
    BY <1>0, <1>3 DEF ExecuteDisputeOutcome, DisputeType
  <2>2. \E state \in {"Released", "Cancelled"} : escrow' = [escrow EXCEPT ![r].state = state]
    BY <1>3 DEF ExecuteDisputeOutcome, ReleaseTradeEscrowFunds, UnwindFundedTradeEscrow,
                SplitTradeEscrowEvenly, CloseFunded
  <2>3. /\ escrow'[r].state # "Frozen"
        /\ \A q \in Reservations \ {r} : escrow'[q].state = escrow[q].state
    BY <1>0, <2>2 DEF EscrowType
  <2> QED
    BY <2>1, <2>3 DEF CaseStep, CaseMoves, Forfeited
<1>4. ASSUME NEW a \in 0..dispute[r].reward_remaining, ClaimArbitrationReward(r, a)
      PROVE  CaseStep(r)
  <2>1. /\ UNCHANGED escrow /\ dispute[r].status = "resolved" /\ dispute'[r].status = "resolved"
        /\ dispute[r].reward_remaining > 0
        /\ dispute'[r].outcome = dispute[r].outcome
        /\ dispute'[r].reward_remaining = dispute[r].reward_remaining - a
        /\ \A q \in Reservations \ {r} : dispute'[q] = dispute[q]
    BY <1>0, <1>4 DEF ClaimArbitrationReward, DisputeType, tradeVars
  <2>2. dispute'[r].reward_remaining \in 0..dispute[r].reward_remaining
    BY <1>0, <2>1
  <2> QED
    BY <2>1, <2>2 DEF CaseStep, CaseMoves
<1> QED
  BY <1>1, <1>2, <1>3, <1>4 DEF DisputeStep

\* Every step is a move of one case, or of none.
LEMMA NextCaseStep ==
  ASSUME TypeInv, CaseInv, [CustodyNext]_custodyVars
  PROVE  UNCHANGED <<escrow, dispute>> \/ \E r \in Reservations : CaseStep(r)
  BY TradeCaseStep, DisputeCaseStep, OtherStepUntouched DEF CustodyNext, tradeVars

\* Every step keeps CaseInv.
LEMMA NextCaseInv ==
  TypeInv /\ CaseInv /\ [CustodyNext]_custodyVars => CaseInv'
<1> SUFFICES ASSUME TypeInv, CaseInv, [CustodyNext]_custodyVars
             PROVE  CaseInv'
  OBVIOUS
<1>1. CASE UNCHANGED <<escrow, dispute>>
  BY <1>1 DEF CaseInv, CaseOK
<1>2. ASSUME NEW r \in Reservations, CaseStep(r)
      PROVE  CaseInv'
  <2>1. CaseOK(dispute'[r])
    BY <1>2, DisputeFields DEF CaseStep, CaseMoves, CaseInv, CaseOK
  <2>2. (escrow'[r].state = "Frozen") <=> (dispute'[r].status = "open")
    BY <1>2 DEF CaseStep, CaseInv
  <2> QED
    BY <1>2, <2>1, <2>2 DEF CaseStep, CaseInv, CaseOK
<1> QED
  BY <1>1, <1>2, NextCaseStep

\* CaseInv is an invariant.
LEMMA AlwaysCaseInv == CustodySpec => []CaseInv
<1>1. CustodyInit => CaseInv
  BY DEF CustodyInit, CaseInv, CaseOK, NoEscrow, NoDispute
<1> QED
  BY <1>1, NextCaseInv, AlwaysTypeInv, PTL DEF CustodySpec

\* Every step keeps the counters of one debt in order.
LEMMA NextRecoveryBounded ==
  TypeInv /\ RecoveryBounded /\ [CustodyNext]_custodyVars => RecoveryBounded'
<1> SUFFICES ASSUME TypeInv, RecoveryBounded, [CustodyNext]_custodyVars
             PROVE  RecoveryBounded'
  OBVIOUS
<1>0. /\ claim \in [Merchants -> [owed_total : Nat, credited_total : Nat]]
      /\ recovered \in [Merchants -> Nat] /\ stake \in [Merchants -> Nat]
  BY DEF TypeInv, CustodyTypeOK
<1>1. CASE UNCHANGED <<claim, recovered>>
  BY <1>1 DEF RecoveryBounded
<1>2. ASSUME NEW r \in Reservations, NEW w \in Wallets, OpenDisputeCase(r, w)
      PROVE  RecoveryBounded'
  <2> DEFINE fee == feeConfig.dispute_filing_fee
             shortfall == fee - Least(fee, vault[SellerOpenVault(r)].available)
  <2>1. /\ claim' = [claim EXCEPT ![escrow[r].seller].owed_total = @ + shortfall]
        /\ UNCHANGED recovered
    BY <1>2 DEF OpenDisputeCase
  <2>2. SellerOpenVault(r) \in Vaults
    BY <1>2, EscrowVaultType, CustodyAssumption
    DEF OpenDisputeCase, SellerOpenVault, OpenVault, Vaults, TypeInv, EscrowHasParties
  <2>3. shortfall \in Nat
    BY <2>2, ConfigFields, VaultFields DEF Least, TypeInv, CustodyTypeOK
  <2> HIDE DEF shortfall
  <2> QED
    BY <1>0, <2>1, <2>3 DEF RecoveryBounded
<1>3. ASSUME NEW mm \in Merchants, RecoverStakeShortfall(mm)
      PROVE  RecoveryBounded'
  <2> DEFINE amount == Least(claim[mm].owed_total - recovered[mm], stake[mm])
  <2>1. recovered' = [recovered EXCEPT ![mm] = @ + amount] /\ UNCHANGED claim
    BY <1>3 DEF RecoverStakeShortfall, Add
  <2>2. amount \in Nat /\ recovered[mm] + amount <= claim[mm].owed_total
    BY <1>0, <1>3 DEF RecoverStakeShortfall, Least
  <2> HIDE DEF amount
  <2> QED
    BY <1>0, <2>1, <2>2 DEF RecoveryBounded
<1>4. ASSUME NEW mm \in Merchants, AbsorbStakeRecovery(mm)
      PROVE  RecoveryBounded'
  <2>1. /\ claim' = [claim EXCEPT ![mm].credited_total = @ + (recovered[mm] - @)]
        /\ UNCHANGED recovered
    BY <1>4 DEF AbsorbStakeRecovery
  <2> QED
    BY <1>0, <2>1 DEF RecoveryBounded
<1>5. ASSUME NEW r \in Reservations, TradeStep(r)
      PROVE  UNCHANGED <<claim, recovered>>
  <2> USE DEF recoveryVars
  <2>1. CASE ReleaseEscrow(r) \/ CloseUnapproved(r)
    BY <2>1, ZenonT(60) DEF ReleaseEscrow, CloseUnapproved
  <2>2. CASE FundTradeEscrow(r) \/ ApproveSettlement(r)
    BY <2>2 DEF FundTradeEscrow, ApproveSettlement
  <2>3. ASSUME NEW mm \in Merchants, NEW b \in Buyers, NEW t \in Mints, NEW a \in Amounts,
               NEW s \in Timeouts, CreateTradeEscrow(r, mm, b, t, a, s)
        PROVE  UNCHANGED <<claim, recovered>>
    BY <2>3 DEF CreateTradeEscrow
  <2> QED
    BY <1>5, <2>1, <2>2, <2>3, ZenonT(60) DEF TradeStep, CancelReservation, ExpireReservation
<1>6. ASSUME NEW r \in Reservations,
             \/ TopUpArbitrationDeposit(r)
             \/ \E verdict \in Verdicts : ExecuteDisputeOutcome(r, verdict)
             \/ \E a \in 0..dispute[r].reward_remaining : ClaimArbitrationReward(r, a)
      PROVE  UNCHANGED <<claim, recovered>>
  <2> USE DEF recoveryVars
  <2>1. CASE TopUpArbitrationDeposit(r)
    BY <2>1 DEF TopUpArbitrationDeposit
  <2>2. ASSUME NEW verdict \in Verdicts, ExecuteDisputeOutcome(r, verdict)
        PROVE  UNCHANGED <<claim, recovered>>
    BY <2>2 DEF ExecuteDisputeOutcome
  <2>3. ASSUME NEW a \in 0..dispute[r].reward_remaining, ClaimArbitrationReward(r, a)
        PROVE  UNCHANGED <<claim, recovered>>
    BY <2>3 DEF ClaimArbitrationReward
  <2> QED
    BY <1>6, <2>1, <2>2, <2>3
<1>7. ASSUME NEW mm \in Merchants, NEW t \in Mints, VaultStep(mm, t)
      PROVE  UNCHANGED <<claim, recovered>>
  BY <1>7 DEF VaultStep, CreateLiquidityVault, ChargeAdListingFee, DepositLiquidity,
              ReserveLiquidity, WithdrawLiquidity, recoveryVars
<1>8. ASSUME AdminStep \/ Tick \/ UNCHANGED custodyVars
      PROVE  UNCHANGED <<claim, recovered>>
  BY <1>8 DEF AdminStep, InitializeArbitrationPool, UpdateFeeConfig, ListWallet, DelistWallet,
              Tick, custodyVars, recoveryVars
<1> QED
  BY <1>1, <1>2, <1>3, <1>4, <1>5, <1>6, <1>7, <1>8 DEF CustodyNext, DisputeStep, RecoveryStep

\* An escrow is frozen exactly while its case is open, and the counters the two programs
\* keep of one debt never cross: recover_stake_shortfall takes at most what
\* open_dispute_case recorded, absorb_stake_recovery credits at most what was taken.
THEOREM CasesAndDebtsConsistent == CustodySpec => [](FrozenIffCaseOpen /\ RecoveryBounded)
<1>1. CustodyInit => RecoveryBounded
  BY DEF CustodyInit, RecoveryBounded
<1>2. CustodySpec => []RecoveryBounded
  BY <1>1, NextRecoveryBounded, AlwaysTypeInv, PTL DEF CustodySpec
<1>3. CaseInv => FrozenIffCaseOpen
  BY DEF CaseInv, FrozenIffCaseOpen
<1> QED
  BY <1>2, <1>3, AlwaysCaseInv, PTL

\* Every step is, case by case, a step of Arbitration or a stutter.
LEMMA NextAsArbitration ==
  ASSUME TypeInv, CaseInv, [CustodyNext]_custodyVars
  PROVE  CasesStepAsArbitration /\ DepositPlusShortfallKept
<1> SUFFICES ASSUME NEW q \in Reservations
             PROVE  /\ Arb(q)!ArbitrationStep
                    /\ dispute[q].status = "open"
                         => dispute'[q].deposit + dispute'[q].shortfall
                              = dispute[q].deposit + dispute[q].shortfall
  BY DEF CasesStepAsArbitration, DepositPlusShortfallKept
<1>1. CaseMoves(dispute[q], dispute'[q])
  BY NextCaseStep DEF CaseStep, CaseMoves
<1>2. TypeInv'
  BY NextTypeInv
<1>3. /\ dispute[q].reward_remaining \in Nat /\ dispute'[q].reward_remaining \in Nat
      /\ CaseOK(dispute[q])
  BY <1>2, DisputeFields DEF CaseInv, TypeInv, CustodyTypeOK, DisputeType
<1>4. Arb(q)!ArbitrationStep
  BY <1>1, <1>3
  DEF CaseMoves, CaseOK, Verdicts, Arb!ArbitrationStep, Arb!ArbitrationNext, Arb!OpenCase,
      Arb!Resolve, Arb!PayArbitrator, Arb!PossibleVerdicts, Arb!arbitrationVars
<1>5. dispute[q].status = "open" => dispute'[q].deposit + dispute'[q].shortfall
                                      = dispute[q].deposit + dispute[q].shortfall
  BY <1>1 DEF CaseMoves
<1> QED
  BY <1>4, <1>5

\* Custody implements the abstract arbitration service case by case: every initial state
\* maps to one of Arbitration and every step to one of its steps or a stutter, and an open
\* case keeps deposit and shortfall adding up to the fee it was opened under.
THEOREM CasesImplementArbitration ==
  /\ CustodyInit => \A r \in Reservations : Arb(r)!ArbitrationInit
  /\ CustodySpec => CasesFollowArbitration
<1>1. CustodyInit => \A r \in Reservations : Arb(r)!ArbitrationInit
  BY DEF CustodyInit, NoDispute, Arb!ArbitrationInit
<1>2. CustodySpec => [][CasesStepAsArbitration /\ DepositPlusShortfallKept]_custodyVars
  BY NextAsArbitration, AlwaysTypeInv, AlwaysCaseInv, PTL DEF CustodySpec
<1> QED
  BY <1>1, <1>2 DEF CasesFollowArbitration

\* The case of any one trade, whatever the others do, implements the abstract arbitration
\* service (open_dispute_case, execute_dispute_outcome, claim_arbitration_reward).
THEOREM EachCaseImplementsArbitration ==
  ASSUME NEW r \in Reservations
  PROVE  CustodySpec => Arb(r)!ArbitrationSpec
<1>1. CustodyInit => Arb(r)!ArbitrationInit
  BY CasesImplementArbitration
<1>2. ASSUME [CasesStepAsArbitration /\ DepositPlusShortfallKept]_custodyVars
      PROVE  [Arb(r)!ArbitrationNext]_(Arb(r)!arbitrationVars)
  BY <1>2 DEF CasesStepAsArbitration, Arb!ArbitrationStep, Arb!arbitrationVars, custodyVars
<1>3. CustodySpec => [][CasesStepAsArbitration /\ DepositPlusShortfallKept]_custodyVars
  BY CasesImplementArbitration DEF CasesFollowArbitration
<1> QED
  BY <1>1, <1>2, <1>3, PTL DEF CustodySpec, Arb!ArbitrationSpec
===============================================================================
