--------------------------- MODULE CustodySolvency ---------------------------
(*****************************************************************************)
(* Proof that custody is solvent, for every value of the constants: every    *)
(* vault's token account holds what its counters promise, no token is made   *)
(* or lost, and the pool holds what it owes to cases.  The sums over trades  *)
(* and vaults move by one summand per instruction (Sums), so the proof       *)
(* follows what an instruction adds on each side.                            *)
(*****************************************************************************)
EXTENDS EscrowCustodyProofs, Sums

-----------------------------------------------------------------------------
(* Every vault holds what its counters promise                             *)

\* What vault v has in the trade of escrow record x, and in all trades of e.
PendingOf(x, v) == IF <<x.seller, x.mint>> = v /\ x.state \in Funded THEN x.amount ELSE 0
PendingSum(e, v) == SumFunction([r \in Reservations |-> PendingOf(e[r], v)])

\* A vault record x with k tokens, n of them recovered stake not yet credited.
HeldIn(x, k, n) == k = x.available + x.reserved + n

\* VaultBacked with vlt for the vaults and tok for their tokens.
BackedBy(vlt, tok) ==
  \A v \in Vaults : /\ HeldIn(vlt[v], tok[v], Unabsorbed(v))
                    /\ vlt[v].pending_settlement = PendingSum(escrow, v)

\* VaultBacked in the terms the steps change: vaults, their tokens and one sum.
LEMMA BackedAlike ==
  /\ VaultBacked <=> BackedBy(vault, vaultTokens)
  /\ VaultBacked' <=> \A v \in Vaults :
                        /\ HeldIn(vault'[v], vaultTokens'[v], Unabsorbed(v)')
                        /\ vault'[v].pending_settlement = PendingSum(escrow', v)
<1>1. ASSUME NEW v \in Vaults
      PROVE  InTrades(v) = PendingSum(escrow, v)
  <2>1. \A r \in Reservations :
          (IF EscrowVault(r) = v THEN InTrade(r) ELSE 0) = PendingOf(escrow[r], v)
    BY DEF PendingOf, EscrowVault, InTrade
  <2> QED BY <2>1 DEF PendingSum, InTrades
<1>2. ASSUME NEW v \in Vaults
      PROVE  InTrades(v)' = PendingSum(escrow', v)
  <2>1. \A r \in Reservations :
          (IF EscrowVault(r)' = v THEN InTrade(r)' ELSE 0) = PendingOf(escrow'[r], v)
    BY DEF PendingOf, EscrowVault, InTrade
  <2> QED BY <2>1 DEF PendingSum, InTrades
<1>3. VaultBacked <=> BackedBy(vault, vaultTokens)
  BY <1>1 DEF VaultBacked, BackedBy, HeldIn
<1>4. VaultBacked' <=> \A v \in Vaults :
                        /\ HeldIn(vault'[v], vaultTokens'[v], Unabsorbed(v)')
                        /\ vault'[v].pending_settlement = PendingSum(escrow', v)
  BY <1>2 DEF VaultBacked, HeldIn
<1> QED BY <1>3, <1>4

\* The moves between counters keep a vault backed, with the tokens they move.
LEMMA HeldMoves ==
  ASSUME NEW x \in VaultType, NEW k \in Nat, NEW n \in Int, HeldIn(x, k, n), NEW a \in Nat
  PROVE  /\ HeldIn(Credited(x, a), k + a, n) /\ HeldIn(Debited(x, a), k - a, n)
         /\ HeldIn(Reserve(x, a), k, n) /\ HeldIn(Unreserve(x, a), k, n)
         /\ HeldIn(Fund(x, a), k - a, n)
         /\ HeldIn(Credited(x, a), k, n - a)
         /\ HeldIn(x, k + a, n + a)
         /\ Credited(x, a).pending_settlement = x.pending_settlement
         /\ Debited(x, a).pending_settlement = x.pending_settlement
         /\ Reserve(x, a).pending_settlement = x.pending_settlement
         /\ Unreserve(x, a).pending_settlement = x.pending_settlement
         /\ Fund(x, a).pending_settlement = x.pending_settlement + a
<1>1. /\ HeldIn(Credited(x, a), k + a, n) /\ HeldIn(Credited(x, a), k, n - a)
      /\ Credited(x, a).pending_settlement = x.pending_settlement
  BY DEF HeldIn, VaultType, Credited
<1>2. /\ HeldIn(Debited(x, a), k - a, n)
      /\ Debited(x, a).pending_settlement = x.pending_settlement
  BY DEF HeldIn, VaultType, Debited
<1>3. /\ HeldIn(Reserve(x, a), k, n)
      /\ Reserve(x, a).pending_settlement = x.pending_settlement
  BY DEF HeldIn, VaultType, Reserve
<1>4. /\ HeldIn(Unreserve(x, a), k, n)
      /\ Unreserve(x, a).pending_settlement = x.pending_settlement
  BY DEF HeldIn, VaultType, Unreserve
<1>5. /\ HeldIn(Fund(x, a), k - a, n)
      /\ Fund(x, a).pending_settlement = x.pending_settlement + a
  BY DEF HeldIn, VaultType, Fund
<1>6. HeldIn(x, k + a, n + a)
  BY DEF HeldIn, VaultType
<1> QED BY <1>1, <1>2, <1>3, <1>4, <1>5, <1>6

\* Leaving pending settlement makes available exactly what is refunded.
LEMMA LeavePendingHeld ==
  ASSUME NEW x \in VaultType, NEW k \in Nat, NEW n \in Int, HeldIn(x, k, n), NEW a \in Nat,
         NEW back \in 0..a
  PROVE  /\ HeldIn(LeavePending(x, a, back), k + back, n)
         /\ LeavePending(x, a, back).pending_settlement = x.pending_settlement - a
  BY DEF HeldIn, VaultType, LeavePending

\* A step on one trade moves the pending sums by the change of that trade.
LEMMA PendingChange ==
  ASSUME TypeInv, TypeInv', NEW r \in Reservations, NEW v \in Vaults,
         \A q \in Reservations : q # r => escrow'[q] = escrow[q]
  PROVE  /\ PendingSum(escrow, v) \in Int
         /\ PendingOf(escrow[r], v) \in Int /\ PendingOf(escrow'[r], v) \in Int
         /\ PendingSum(escrow', v) = PendingSum(escrow, v)
              + (PendingOf(escrow'[r], v) - PendingOf(escrow[r], v))
<1> DEFINE F == [q \in Reservations |-> PendingOf(escrow[q], v)]
           G == [q \in Reservations |-> PendingOf(escrow'[q], v)]
<1>1. IsFiniteSet(Reservations)
  BY CustodyAssumption
<1>2. F \in [Reservations -> Int] /\ G \in [Reservations -> Int]
  BY DEF PendingOf, TypeInv, CustodyTypeOK, EscrowType
<1>3. \A q \in Reservations : q # r => G[q] = F[q]
  OBVIOUS
<1>4. G[r] = PendingOf(escrow'[r], v) /\ F[r] = PendingOf(escrow[r], v)
  OBVIOUS
<1>5. /\ SumFunction(F) \in Int
      /\ SumFunction(G) = SumFunction(F) + (G[r] - F[r])
  <2> HIDE DEF F, G
  <2> QED BY <1>1, <1>2, <1>3, SumFunctionType, SumFunctionChange
<1> QED BY <1>2, <1>4, <1>5 DEF PendingSum

\* What is recovered and not yet credited is an integer.
LEMMA UnabsorbedInt ==
  ASSUME TypeInv, NEW v \in Vaults
  PROVE  /\ Unabsorbed(v) \in Int
         /\ vault[v] \in VaultType /\ vaultTokens[v] \in Nat
         /\ vault[v].pending_settlement \in Nat
  BY DEF Unabsorbed, TypeInv, CustodyTypeOK, Vaults, VaultType

\* A step that moves one vault v, with no trade and no recovery, keeps every vault backed.
LEMMA VaultMove ==
  ASSUME VaultBacked, NEW v \in Vaults,
         \A u \in Vaults : u # v => vault'[u] = vault[u] /\ vaultTokens'[u] = vaultTokens[u],
         HeldIn(vault'[v], vaultTokens'[v], Unabsorbed(v)),
         vault'[v].pending_settlement = vault[v].pending_settlement,
         \A mm \in Merchants : /\ recovered'[mm] = recovered[mm]
                               /\ claim'[mm].credited_total = claim[mm].credited_total,
         \A u \in Vaults : PendingSum(escrow', u) = PendingSum(escrow, u)
  PROVE  VaultBacked'
<1>2. \A u \in Vaults : Unabsorbed(u)' = Unabsorbed(u)
  BY DEF Unabsorbed, Vaults
<1> SUFFICES ASSUME NEW u \in Vaults
             PROVE  /\ HeldIn(vault'[u], vaultTokens'[u], Unabsorbed(u)')
                    /\ vault'[u].pending_settlement = PendingSum(escrow', u)
  BY BackedAlike
<1>3. HeldIn(vault[u], vaultTokens[u], Unabsorbed(u))
      /\ vault[u].pending_settlement = PendingSum(escrow, u)
  BY BackedAlike DEF BackedBy
<1>4. CASE u = v
  BY <1>2, <1>3, <1>4
<1>5. CASE u # v
  BY <1>2, <1>3, <1>5
<1> QED BY <1>4, <1>5

\* Vault instructions keep VaultBacked.
LEMMA VaultStepBacked ==
  ASSUME TypeInv, VaultBacked, NEW mm \in Merchants, NEW t \in Mints, VaultStep(mm, t)
  PROVE  VaultBacked'
<1> DEFINE v == <<mm, t>>
           x == vault[v]
           k == vaultTokens[v]
<1>0. v \in Vaults
  BY PairInVaults
<1>1. x \in VaultType /\ k \in Nat /\ Unabsorbed(v) \in Int /\ HeldIn(x, k, Unabsorbed(v))
  BY <1>0, UnabsorbedInt, BackedAlike DEF BackedBy
<1>t. vault \in [Vaults -> VaultType] /\ vaultTokens \in [Vaults -> Nat]
  BY DEF TypeInv, CustodyTypeOK
<1>2. ASSUME UNCHANGED <<escrow, recovered, claim>>,
             \A u \in Vaults : u # v => vault'[u] = vault[u] /\ vaultTokens'[u] = vaultTokens[u],
             HeldIn(vault'[v], vaultTokens'[v], Unabsorbed(v)),
             vault'[v].pending_settlement = x.pending_settlement
      PROVE  VaultBacked'
  <2>1. /\ \A u \in Vaults : PendingSum(escrow', u) = PendingSum(escrow, u)
        /\ \A w \in Merchants : /\ recovered'[w] = recovered[w]
                                /\ claim'[w].credited_total = claim[w].credited_total
    BY <1>2
  <2> HIDE DEF v
  <2> QED BY <1>0, <1>2, <2>1, VaultMove, ZenonT(60)
<1>n. Amounts \subseteq Nat
  BY CustodyAssumption
<1> USE DEF tradeVars, recoveryVars, adminVars
<1>3. CASE CreateLiquidityVault(mm, t)
  <2>1. /\ vault'[v] = [x EXCEPT !.exists = TRUE] /\ vaultTokens'[v] = k
        /\ \A u \in Vaults : u # v => vault'[u] = vault[u] /\ vaultTokens'[u] = vaultTokens[u]
        /\ UNCHANGED <<escrow, recovered, claim>>
    BY <1>3, <1>t, <1>0 DEF CreateLiquidityVault
  <2>2. /\ HeldIn([x EXCEPT !.exists = TRUE], k, Unabsorbed(v))
        /\ [x EXCEPT !.exists = TRUE].pending_settlement = x.pending_settlement
    BY <1>1 DEF HeldIn, VaultType
  <2> HIDE DEF v, x, k
  <2> QED BY <1>2, <2>1, <2>2, ZenonT(60)
<1>4. ASSUME NEW a \in Amounts, DepositLiquidity(mm, t, a)
      PROVE  VaultBacked'
  <2>1. /\ vault'[v] = Credited(x, a) /\ vaultTokens'[v] = k + a
        /\ \A u \in Vaults : u # v => vault'[u] = vault[u] /\ vaultTokens'[u] = vaultTokens[u]
        /\ UNCHANGED <<escrow, recovered, claim>>
    BY <1>4, <1>t, <1>0 DEF DepositLiquidity, Add
  <2>2. a \in Nat
    BY <1>n
  <2> HIDE DEF v, x, k
  <2>3. HeldIn(Credited(x, a), k + a, Unabsorbed(v))
        /\ Credited(x, a).pending_settlement = x.pending_settlement
    BY <1>1, <2>2, HeldMoves
  <2> QED BY <1>2, <2>1, <2>3, ZenonT(60)
<1>5. ASSUME NEW a \in Amounts, ReserveLiquidity(mm, t, a)
      PROVE  VaultBacked'
  <2>1. /\ vault'[v] = Reserve(x, a) /\ vaultTokens'[v] = k
        /\ \A u \in Vaults : u # v => vault'[u] = vault[u] /\ vaultTokens'[u] = vaultTokens[u]
        /\ UNCHANGED <<escrow, recovered, claim>>
    BY <1>5, <1>t, <1>0 DEF ReserveLiquidity
  <2>2. a \in Nat
    BY <1>n
  <2> HIDE DEF v, x, k
  <2>3. HeldIn(Reserve(x, a), k, Unabsorbed(v))
        /\ Reserve(x, a).pending_settlement = x.pending_settlement
    BY <1>1, <2>2, HeldMoves
  <2> QED BY <1>2, <2>1, <2>3, ZenonT(60)
<1>6. ASSUME NEW a \in Nat, vault'[v] = Debited(x, a), vaultTokens'[v] = k - a,
             \A u \in Vaults : u # v => vault'[u] = vault[u] /\ vaultTokens'[u] = vaultTokens[u],
             UNCHANGED <<escrow, recovered, claim>>
      PROVE  VaultBacked'
  <2> HIDE DEF v, x, k
  <2>3. HeldIn(Debited(x, a), k - a, Unabsorbed(v))
        /\ Debited(x, a).pending_settlement = x.pending_settlement
    BY <1>1, HeldMoves
  <2> QED BY <1>2, <1>6, <2>3, ZenonT(60)
<1>7. ASSUME NEW a \in Amounts, WithdrawLiquidity(mm, t, a)
      PROVE  VaultBacked'
  <2>1. /\ vault'[v] = Debited(x, a) /\ vaultTokens'[v] = k - a
        /\ \A u \in Vaults : u # v => vault'[u] = vault[u] /\ vaultTokens'[u] = vaultTokens[u]
        /\ UNCHANGED <<escrow, recovered, claim>>
    BY <1>7, <1>t, <1>0 DEF WithdrawLiquidity, Sub
  <2>2. a \in Nat
    BY <1>n
  <2> HIDE DEF v, x, k
  <2> QED BY <1>6, <2>1, <2>2, ZenonT(60)
<1>8. CASE ChargeAdListingFee(mm, t)
  <2> DEFINE a == feeConfig.ad_listing_fee
             b == SumShares(SplitFeeFourWays(feeConfig.splits, feeConfig.ad_listing_fee))
  <2>1. a \in Nat /\ b = a
    BY ConfigFields, SplitExact
  <2>2. /\ vault'[v] = Debited(x, a) /\ vaultTokens'[v] = k - b
        /\ \A u \in Vaults : u # v => vault'[u] = vault[u] /\ vaultTokens'[u] = vaultTokens[u]
        /\ UNCHANGED <<escrow, recovered, claim>>
    BY <1>8, <1>t, <1>0 DEF ChargeAdListingFee, Sub
  <2> HIDE DEF v, x, k, a, b
  <2>3. vaultTokens'[v] = k - a
    BY <2>1, <2>2
  <2> QED BY <1>6, <2>1, <2>2, <2>3, ZenonT(60)
<1> QED BY <1>3, <1>4, <1>5, <1>7, <1>8 DEF VaultStep

\* Closing a funded escrow takes its amount off the pending counter of its vault.
LEMMA ClosesBacked ==
  ASSUME TypeInv, TypeInv', NEW r \in Reservations, escrow[r].state \in Funded,
         NEW vlt, VaultsOK(vlt), NEW tok \in [Vaults -> Nat], BackedBy(vlt, tok),
         Closes(r, vlt, tok), UNCHANGED <<claim, recovered>>
  PROVE  VaultBacked'
<1> DEFINE a == escrow[r].amount
           v == EscrowVault(r)
<1>0. escrow[r].state # "None"
  BY DEF Funded
<1>1. PICK toBuyer \in Nat, shares \in [TreasuryIndex -> Nat], back \in 0..a,
           state \in {"Released", "Cancelled"} :
             CloseFunded(r, vlt, tok, toBuyer, shares, back, state)
  BY <1>0, ClosesExactly
<1>2. a \in Nat /\ v \in Vaults
  BY <1>0, EscrowVaultType
<1>3. /\ vault' = [vlt EXCEPT ![v] = LeavePending(vlt[v], a, back)]
      /\ vaultTokens' = [tok EXCEPT ![v] = tok[v] + back]
      /\ escrow' = [escrow EXCEPT ![r].state = state]
  BY <1>1 DEF CloseFunded, Add
<1>t. vlt \in [Vaults -> VaultType] /\ tok \in [Vaults -> Nat]
      /\ escrow \in [Reservations -> EscrowType]
  BY DEF VaultsOK, TypeInv, CustodyTypeOK
<1> SUFFICES ASSUME NEW u \in Vaults
             PROVE  /\ HeldIn(vault'[u], vaultTokens'[u], Unabsorbed(u)')
                    /\ vault'[u].pending_settlement = PendingSum(escrow', u)
  BY BackedAlike
<1>4. Unabsorbed(u)' = Unabsorbed(u)
  BY DEF Unabsorbed
<1>5. /\ HeldIn(vlt[u], tok[u], Unabsorbed(u))
      /\ vlt[u].pending_settlement = PendingSum(escrow, u)
      /\ Unabsorbed(u) \in Int
  BY UnabsorbedInt DEF BackedBy
<1>6. /\ PendingSum(escrow, u) \in Int
      /\ PendingOf(escrow[r], u) \in Int /\ PendingOf(escrow'[r], u) \in Int
      /\ PendingSum(escrow', u) = PendingSum(escrow, u)
           + (PendingOf(escrow'[r], u) - PendingOf(escrow[r], u))
  <2>1. \A q \in Reservations : q # r => escrow'[q] = escrow[q]
    BY <1>3, <1>t
  <2> QED BY <2>1, PendingChange
<1>7. PendingOf(escrow'[r], u) = 0 /\ PendingOf(escrow[r], u) = IF u = v THEN a ELSE 0
  BY <1>3, <1>t DEF PendingOf, EscrowVault, Funded, EscrowType
<1> HIDE DEF v, a
<1>8. CASE u = v
  <2>1. vault'[u] = LeavePending(vlt[u], a, back) /\ vaultTokens'[u] = tok[u] + back
    BY <1>2, <1>3, <1>8, <1>t
  <2>2. vlt[u] \in VaultType /\ tok[u] \in Nat
    BY <1>t
  <2>3. /\ HeldIn(LeavePending(vlt[u], a, back), tok[u] + back, Unabsorbed(u))
        /\ LeavePending(vlt[u], a, back).pending_settlement = vlt[u].pending_settlement - a
    BY <1>1, <1>2, <1>5, <2>2, LeavePendingHeld
  <2>4. PendingSum(escrow', u) = vlt[u].pending_settlement - a
    BY <1>2, <1>5, <1>6, <1>7, <1>8
  <2> QED BY <1>4, <2>1, <2>3, <2>4, ZenonT(60)
<1>9. CASE u # v
  <2>1. vault'[u] = vlt[u] /\ vaultTokens'[u] = tok[u]
    BY <1>2, <1>3, <1>9, <1>t
  <2>2. PendingSum(escrow', u) = PendingSum(escrow, u)
    BY <1>6, <1>7, <1>9
  <2> QED BY <1>4, <1>5, <2>1, <2>2, ZenonT(60)
<1> QED BY <1>8, <1>9

\* A step on trade r and vault v: what leaves or enters the trade is marked in v's counters.
LEMMA TradeMove ==
  ASSUME TypeInv, TypeInv', VaultBacked, NEW r \in Reservations, NEW v \in Vaults,
         \A q \in Reservations : q # r => escrow'[q] = escrow[q],
         \A u \in Vaults : u # v => /\ vault'[u] = vault[u] /\ vaultTokens'[u] = vaultTokens[u]
                                    /\ PendingOf(escrow'[r], u) = PendingOf(escrow[r], u),
         HeldIn(vault'[v], vaultTokens'[v], Unabsorbed(v)),
         vault'[v].pending_settlement = vault[v].pending_settlement
           + (PendingOf(escrow'[r], v) - PendingOf(escrow[r], v)),
         \A mm \in Merchants : /\ recovered'[mm] = recovered[mm]
                               /\ claim'[mm].credited_total = claim[mm].credited_total
  PROVE  VaultBacked'
<1>1. \A u \in Vaults : Unabsorbed(u)' = Unabsorbed(u)
  BY DEF Unabsorbed, Vaults
<1> SUFFICES ASSUME NEW u \in Vaults
             PROVE  /\ HeldIn(vault'[u], vaultTokens'[u], Unabsorbed(u)')
                    /\ vault'[u].pending_settlement = PendingSum(escrow', u)
  BY BackedAlike
<1>2. /\ HeldIn(vault[u], vaultTokens[u], Unabsorbed(u))
      /\ vault[u].pending_settlement = PendingSum(escrow, u)
  BY BackedAlike DEF BackedBy
<1>3. /\ PendingSum(escrow, u) \in Int
      /\ PendingOf(escrow[r], u) \in Int /\ PendingOf(escrow'[r], u) \in Int
      /\ PendingSum(escrow', u) = PendingSum(escrow, u)
           + (PendingOf(escrow'[r], u) - PendingOf(escrow[r], u))
  BY PendingChange
<1>4. CASE u = v
  BY <1>1, <1>2, <1>3, <1>4
<1>5. CASE u # v
  <2>1. PendingSum(escrow', u) = PendingSum(escrow, u)
    BY <1>3, <1>5
  <2> QED BY <1>1, <1>2, <1>5, <2>1
<1> QED BY <1>4, <1>5

\* Trade instructions keep VaultBacked.
LEMMA TradeStepBacked ==
  ASSUME TypeInv, TypeInv', VaultBacked, NEW r \in Reservations, TradeStep(r)
  PROVE  VaultBacked'
<1> DEFINE v == EscrowVault(r)
           a == escrow[r].amount
<1>t. /\ vault \in [Vaults -> VaultType] /\ vaultTokens \in [Vaults -> Nat]
      /\ escrow \in [Reservations -> EscrowType] /\ escrow[r] \in EscrowType
  BY DEF TypeInv, CustodyTypeOK
<1>v. ASSUME NEW u \in Vaults
      PROVE  /\ vault[u] \in VaultType /\ vaultTokens[u] \in Nat /\ Unabsorbed(u) \in Int
             /\ HeldIn(vault[u], vaultTokens[u], Unabsorbed(u))
             /\ vault[u].pending_settlement \in Int
  BY UnabsorbedInt, BackedAlike DEF BackedBy
<1>e. ASSUME escrow[r].state # "None"
      PROVE  v \in Vaults /\ a \in Nat
  BY <1>e, EscrowVaultType
<1> USE DEF recoveryVars
<1>1. ASSUME NEW mm \in Merchants, NEW b \in Buyers, NEW s \in Mints, NEW c \in Amounts,
             NEW secs \in Timeouts, CreateTradeEscrow(r, mm, b, s, c, secs)
      PROVE  VaultBacked'
  <2> DEFINE w == <<mm, s>>
  <2>1. w \in Vaults
    BY PairInVaults
  <2>2. /\ UNCHANGED <<vault, vaultTokens, recovered, claim>>
        /\ escrow[r].state = "None" /\ escrow'[r].state = "Reserved"
        /\ \A q \in Reservations : q # r => escrow'[q] = escrow[q]
    BY <1>1, <1>t DEF CreateTradeEscrow
  <2>3. \A u \in Vaults : PendingOf(escrow'[r], u) = 0 /\ PendingOf(escrow[r], u) = 0
    BY <2>2 DEF PendingOf, Funded
  <2> HIDE DEF w
  <2>4. HeldIn(vault'[w], vaultTokens'[w], Unabsorbed(w))
    BY <1>v, <2>1, <2>2
  <2>5. vault'[w].pending_settlement = vault[w].pending_settlement
           + (PendingOf(escrow'[r], w) - PendingOf(escrow[r], w))
    BY <1>v, <2>1, <2>2, <2>3
  <2>7. /\ \A u \in Vaults : u # w => /\ vault'[u] = vault[u] /\ vaultTokens'[u] = vaultTokens[u]
                                       /\ PendingOf(escrow'[r], u) = PendingOf(escrow[r], u)
        /\ \A n \in Merchants : /\ recovered'[n] = recovered[n]
                                /\ claim'[n].credited_total = claim[n].credited_total
    BY <2>2, <2>3
  <2> QED BY <2>1, <2>2, <2>4, <2>5, <2>7, TradeMove, ZenonT(60)
<1>2. CASE FundTradeEscrow(r)
  <2>1. v \in Vaults /\ a \in Nat
    BY <1>2, <1>e DEF FundTradeEscrow
  <2>2. /\ vault'[v] = Fund(vault[v], a) /\ vaultTokens'[v] = vaultTokens[v] - a
        /\ \A u \in Vaults : u # v => vault'[u] = vault[u] /\ vaultTokens'[u] = vaultTokens[u]
        /\ \A q \in Reservations : q # r => escrow'[q] = escrow[q]
        /\ UNCHANGED <<recovered, claim>>
    BY <1>2, <1>t, <2>1 DEF FundTradeEscrow, Sub
  <2>3. \A u \in Vaults : /\ PendingOf(escrow'[r], u) = IF u = v THEN a ELSE 0
                          /\ PendingOf(escrow[r], u) = 0
    BY <1>2, <1>t DEF FundTradeEscrow, PendingOf, Funded, EscrowVault, EscrowType
  <2> HIDE DEF v, a
  <2>4. /\ HeldIn(Fund(vault[v], a), vaultTokens[v] - a, Unabsorbed(v))
        /\ Fund(vault[v], a).pending_settlement = vault[v].pending_settlement + a
    BY <1>v, <2>1, HeldMoves
  <2>5. vault'[v].pending_settlement = vault[v].pending_settlement
           + (PendingOf(escrow'[r], v) - PendingOf(escrow[r], v))
    BY <1>v, <2>1, <2>2, <2>3, <2>4
  <2>6. HeldIn(vault'[v], vaultTokens'[v], Unabsorbed(v))
    BY <2>2, <2>4
  <2> QED BY <2>1, <2>2, <2>3, <2>5, <2>6, TradeMove
<1>3. CASE ApproveSettlement(r)
  <2>1. v \in Vaults /\ a \in Nat
    BY <1>3, <1>e DEF ApproveSettlement
  <2>2. /\ UNCHANGED <<vault, vaultTokens, recovered, claim>>
        /\ \A q \in Reservations : q # r => escrow'[q] = escrow[q]
    BY <1>3, <1>t DEF ApproveSettlement
  <2>3. \A u \in Vaults : PendingOf(escrow'[r], u) = PendingOf(escrow[r], u)
    BY <1>3, <1>t DEF ApproveSettlement, PendingOf, EscrowType
  <2>6. PendingOf(escrow[r], v) \in Int
    BY <1>t DEF PendingOf, EscrowType
  <2> HIDE DEF v, a
  <2>4. HeldIn(vault'[v], vaultTokens'[v], Unabsorbed(v))
    BY <1>v, <2>1, <2>2
  <2>5. vault'[v].pending_settlement = vault[v].pending_settlement
           + (PendingOf(escrow'[r], v) - PendingOf(escrow[r], v))
    BY <1>v, <2>1, <2>2, <2>3, <2>6
  <2>7. /\ \A u \in Vaults : u # v => /\ vault'[u] = vault[u] /\ vaultTokens'[u] = vaultTokens[u]
                                       /\ PendingOf(escrow'[r], u) = PendingOf(escrow[r], u)
        /\ \A n \in Merchants : /\ recovered'[n] = recovered[n]
                                /\ claim'[n].credited_total = claim[n].credited_total
    BY <2>2, <2>3
  <2> QED BY <2>1, <2>2, <2>4, <2>5, <2>7, TradeMove, ZenonT(60)
<1>4. ASSUME Closes(r, vault, vaultTokens), escrow[r].state \in Funded,
             UNCHANGED <<claim, recovered>>
      PROVE  VaultBacked'
  <2>1. VaultsOK(vault) /\ BackedBy(vault, vaultTokens)
    BY BackedAlike DEF TypeInv
  <2> QED BY <1>4, <1>t, <2>1, ClosesBacked
<1>5. CASE ReleaseEscrow(r)
  BY <1>4, <1>5 DEF ReleaseEscrow, Closes, Funded
<1>6. CASE CloseUnapproved(r)
  <2>1. CASE escrow[r].state = "AwaitingFiatSettlement"
    BY <1>4, <1>6, <2>1 DEF CloseUnapproved, Closes, Funded
  <2>2. CASE escrow[r].state = "Reserved" /\ ReleaseReservationMarking(r)
    <3>1. v \in Vaults /\ a \in Nat
      BY <2>2, <1>e
    <3>2. /\ vault'[v] = Unreserve(vault[v], a) /\ vaultTokens'[v] = vaultTokens[v]
          /\ \A u \in Vaults : u # v => vault'[u] = vault[u] /\ vaultTokens'[u] = vaultTokens[u]
          /\ \A q \in Reservations : q # r => escrow'[q] = escrow[q]
          /\ UNCHANGED <<recovered, claim>>
      BY <1>6, <2>2, <1>t, <3>1 DEF CloseUnapproved, ReleaseReservationMarking
    <3>3. \A u \in Vaults : PendingOf(escrow'[r], u) = 0 /\ PendingOf(escrow[r], u) = 0
      BY <2>2, <1>t DEF ReleaseReservationMarking, PendingOf, Funded, EscrowType
    <3> HIDE DEF v, a
    <3>4. /\ HeldIn(Unreserve(vault[v], a), vaultTokens[v], Unabsorbed(v))
          /\ Unreserve(vault[v], a).pending_settlement = vault[v].pending_settlement
      BY <1>v, <3>1, HeldMoves
    <3>5. vault'[v].pending_settlement = vault[v].pending_settlement
             + (PendingOf(escrow'[r], v) - PendingOf(escrow[r], v))
      <4>1. vault[v].pending_settlement \in Int
        BY <1>v, <3>1, ZenonT(60)
      <4>2. vault'[v].pending_settlement = vault[v].pending_settlement
        BY <3>2, <3>4, ZenonT(60)
      <4>3. PendingOf(escrow'[r], v) = 0 /\ PendingOf(escrow[r], v) = 0
        BY <3>1, <3>3, ZenonT(60)
      <4> QED BY <4>1, <4>2, <4>3
    <3>6. HeldIn(vault'[v], vaultTokens'[v], Unabsorbed(v))
      BY <3>2, <3>4
    <3> QED BY <3>1, <3>2, <3>3, <3>5, <3>6, TradeMove
  <2> QED BY <1>6, <2>1, <2>2 DEF CloseUnapproved
<1> QED
  BY <1>1, <1>2, <1>3, <1>5, <1>6 DEF TradeStep, CancelReservation, ExpireReservation

\* Case instructions keep VaultBacked.
LEMMA DisputeStepBacked ==
  ASSUME TypeInv, TypeInv', VaultBacked, NEW r \in Reservations, DisputeStep(r)
  PROVE  VaultBacked'
<1> DEFINE v == SellerOpenVault(r)
<1>t. /\ vault \in [Vaults -> VaultType] /\ vaultTokens \in [Vaults -> Nat]
      /\ escrow \in [Reservations -> EscrowType] /\ escrow[r] \in EscrowType
      /\ claim \in [Merchants -> [owed_total : Nat, credited_total : Nat]]
  BY DEF TypeInv, CustodyTypeOK
<1>v. ASSUME NEW u \in Vaults
      PROVE  /\ vault[u] \in VaultType /\ vaultTokens[u] \in Nat /\ Unabsorbed(u) \in Int
             /\ HeldIn(vault[u], vaultTokens[u], Unabsorbed(u))
             /\ vault[u].pending_settlement \in Int
  BY UnabsorbedInt, BackedAlike DEF BackedBy
<1>e. ASSUME escrow[r].state # "None"
      PROVE  v \in Vaults /\ vault[v].available \in Nat
  BY <1>e, EscrowVaultType, VaultAt, VaultFields DEF TypeInv
<1>d. ASSUME v \in Vaults, NEW a \in Nat, TakeDeposit(v, a),
             \A q \in Reservations : q # r => escrow'[q] = escrow[q],
             \A u \in Vaults : PendingOf(escrow'[r], u) = PendingOf(escrow[r], u),
             \A n \in Merchants : /\ recovered'[n] = recovered[n]
                                  /\ claim'[n].credited_total = claim[n].credited_total
      PROVE  VaultBacked'
  <2>1. /\ vault'[v] = Debited(vault[v], a) /\ vaultTokens'[v] = vaultTokens[v] - a
        /\ \A u \in Vaults : u # v => /\ vault'[u] = vault[u] /\ vaultTokens'[u] = vaultTokens[u]
                                      /\ PendingOf(escrow'[r], u) = PendingOf(escrow[r], u)
    BY <1>d, <1>t DEF TakeDeposit, Sub
  <2>2. PendingOf(escrow[r], v) \in Int /\ PendingOf(escrow'[r], v) = PendingOf(escrow[r], v)
    BY <1>d, <1>t DEF PendingOf, EscrowType
  <2> HIDE DEF v
  <2>3. /\ HeldIn(Debited(vault[v], a), vaultTokens[v] - a, Unabsorbed(v))
        /\ Debited(vault[v], a).pending_settlement = vault[v].pending_settlement
    <3>1. /\ vault[v] \in VaultType /\ vaultTokens[v] \in Nat /\ Unabsorbed(v) \in Int
          /\ HeldIn(vault[v], vaultTokens[v], Unabsorbed(v))
      BY <1>d, <1>v, ZenonT(60)
    <3> QED BY <1>d, <3>1, HeldMoves, ZenonT(60)
  <2>4. vault'[v].pending_settlement = vault[v].pending_settlement
           + (PendingOf(escrow'[r], v) - PendingOf(escrow[r], v))
    BY <1>d, <1>v, <2>1, <2>2, <2>3
  <2>5. HeldIn(vault'[v], vaultTokens'[v], Unabsorbed(v))
    BY <2>1, <2>3
  <2> QED BY <1>d, <2>1, <2>4, <2>5, TradeMove, ZenonT(60)
<1>1. ASSUME NEW w \in Wallets, OpenDisputeCase(r, w)
      PROVE  VaultBacked'
  <2> DEFINE a == Least(feeConfig.dispute_filing_fee, vault[v].available)
  <2>1. v \in Vaults /\ vault[v].available \in Nat
    BY <1>1, <1>e DEF OpenDisputeCase
  <2>2. a \in Nat
    BY <2>1, ConfigFields DEF Least
  <2>3. TakeDeposit(v, a) /\ \A q \in Reservations : q # r => escrow'[q] = escrow[q]
    BY <1>1, <1>t DEF OpenDisputeCase
  <2>4. \A u \in Vaults : PendingOf(escrow'[r], u) = PendingOf(escrow[r], u)
    BY <1>1, <1>t DEF OpenDisputeCase, PendingOf, Funded, EscrowType
  <2>5. \A n \in Merchants : /\ recovered'[n] = recovered[n]
                             /\ claim'[n].credited_total = claim[n].credited_total
    BY <1>1, <1>t DEF OpenDisputeCase
  <2> HIDE DEF v, a
  <2> QED BY <1>d, <2>1, <2>2, <2>3, <2>4, <2>5, ZenonT(60)
<1>2. CASE TopUpArbitrationDeposit(r)
  <2> DEFINE a == Least(dispute[r].shortfall, vault[v].available)
  <2>1. v \in Vaults /\ vault[v].available \in Nat
    BY <1>2, <1>e DEF TopUpArbitrationDeposit
  <2>2. a \in Nat
    BY <2>1, DisputeFields DEF Least
  <2>3. TakeDeposit(v, a) /\ UNCHANGED <<escrow, claim, recovered>>
    BY <1>2 DEF TopUpArbitrationDeposit, tradeVars, recoveryVars
  <2>4. /\ \A q \in Reservations : q # r => escrow'[q] = escrow[q]
        /\ \A u \in Vaults : PendingOf(escrow'[r], u) = PendingOf(escrow[r], u)
        /\ \A n \in Merchants : /\ recovered'[n] = recovered[n]
                                /\ claim'[n].credited_total = claim[n].credited_total
    BY <2>3
  <2> HIDE DEF v, a
  <2> QED BY <1>d, <2>1, <2>2, <2>3, <2>4, ZenonT(60)
<1>3. ASSUME NEW verdict \in Verdicts, ExecuteDisputeOutcome(r, verdict)
      PROVE  VaultBacked'
  <2> DEFINE refund == DepositRefund(r, verdict)
             vlt == [vault EXCEPT ![v] = Credited(vault[v], refund)]
             tok == Add(vaultTokens, v, refund)
  <2>1. v \in Vaults
    BY <1>3, <1>e DEF ExecuteDisputeOutcome
  <2>2. refund \in Nat
    BY DisputeFields DEF DepositRefund
  <2>3. /\ Closes(r, vlt, tok) /\ escrow[r].state \in Funded /\ UNCHANGED <<claim, recovered>>
    BY <1>3 DEF ExecuteDisputeOutcome, Closes, recoveryVars, Funded
  <2> HIDE DEF v, refund
  <2>4. VaultsOK(vlt) /\ tok \in [Vaults -> Nat]
    <3>1. vault[v] \in VaultType /\ Balanced(vault[v])
      BY <2>1, VaultAt DEF TypeInv
    <3>2. Credited(vault[v], refund) \in VaultType /\ Balanced(Credited(vault[v], refund))
      BY <2>2, <3>1, CreditedOK
    <3>3. VaultsOK(vlt)
      BY <2>1, <3>2, VaultPut DEF TypeInv
    <3>4. tok \in [Vaults -> Nat]
      BY <1>t, <2>1, <2>2 DEF Add
    <3> QED BY <3>3, <3>4
  <2>5. BackedBy(vlt, tok)
    <3> SUFFICES ASSUME NEW u \in Vaults
                 PROVE  /\ HeldIn(vlt[u], tok[u], Unabsorbed(u))
                        /\ vlt[u].pending_settlement = PendingSum(escrow, u)
      BY DEF BackedBy
    <3>1. /\ HeldIn(vault[u], vaultTokens[u], Unabsorbed(u))
          /\ vault[u].pending_settlement = PendingSum(escrow, u)
      BY BackedAlike DEF BackedBy
    <3>2. CASE u = v
      <4>1. vlt[u] = Credited(vault[u], refund) /\ tok[u] = vaultTokens[u] + refund
        BY <1>t, <2>1, <3>2 DEF Add
      <4>2. /\ HeldIn(Credited(vault[u], refund), vaultTokens[u] + refund, Unabsorbed(u))
            /\ Credited(vault[u], refund).pending_settlement = vault[u].pending_settlement
        BY <1>v, <2>2, HeldMoves
      <4> QED BY <3>1, <4>1, <4>2
    <3>3. CASE u # v
      <4>1. vlt[u] = vault[u] /\ tok[u] = vaultTokens[u]
        BY <1>t, <2>1, <3>3 DEF Add
      <4> QED BY <3>1, <4>1
    <3> QED BY <3>2, <3>3
  <2> HIDE DEF vlt, tok
  <2> QED BY <2>3, <2>4, <2>5, ClosesBacked
<1>4. ASSUME NEW a \in 0..dispute[r].reward_remaining, ClaimArbitrationReward(r, a)
      PROVE  VaultBacked'
  BY <1>4 DEF ClaimArbitrationReward, tradeVars, recoveryVars, VaultBacked, InTrades, InTrade,
              EscrowVault, Unabsorbed
<1> QED BY <1>1, <1>2, <1>3, <1>4 DEF DisputeStep

\* Stake recovery and its absorption keep VaultBacked.
LEMMA RecoveryStepBacked ==
  ASSUME TypeInv, VaultBacked, NEW mm \in Merchants, RecoveryStep(mm)
  PROVE  VaultBacked'
<1> DEFINE v == OpenVault(mm)
<1>t. /\ vault \in [Vaults -> VaultType] /\ vaultTokens \in [Vaults -> Nat]
      /\ claim \in [Merchants -> [owed_total : Nat, credited_total : Nat]]
      /\ recovered \in [Merchants -> Nat] /\ stake \in [Merchants -> Nat]
  BY DEF TypeInv, CustodyTypeOK
<1>0. v \in Vaults /\ v[1] = mm /\ v[2] = OPEN
  BY CustodyAssumption DEF OpenVault, Vaults
<1>1. /\ vault[v] \in VaultType /\ vaultTokens[v] \in Nat /\ Unabsorbed(v) \in Int
      /\ HeldIn(vault[v], vaultTokens[v], Unabsorbed(v))
  BY <1>0, UnabsorbedInt, BackedAlike DEF BackedBy
<1>2. ASSUME UNCHANGED escrow,
             \A u \in Vaults : u # v => /\ vault'[u] = vault[u] /\ vaultTokens'[u] = vaultTokens[u]
                                        /\ Unabsorbed(u)' = Unabsorbed(u),
             HeldIn(vault'[v], vaultTokens'[v], Unabsorbed(v)'),
             vault'[v].pending_settlement = vault[v].pending_settlement
      PROVE  VaultBacked'
  <2> SUFFICES ASSUME NEW u \in Vaults
               PROVE  /\ HeldIn(vault'[u], vaultTokens'[u], Unabsorbed(u)')
                      /\ vault'[u].pending_settlement = PendingSum(escrow', u)
    BY BackedAlike
  <2>1. /\ HeldIn(vault[u], vaultTokens[u], Unabsorbed(u))
        /\ vault[u].pending_settlement = PendingSum(escrow, u)
    BY BackedAlike DEF BackedBy
  <2>2. PendingSum(escrow', u) = PendingSum(escrow, u)
    BY <1>2
  <2> HIDE DEF v
  <2>3. CASE u = v
    BY <1>2, <2>1, <2>2, <2>3, ZenonT(60)
  <2>4. CASE u # v
    BY <1>2, <2>1, <2>2, <2>4, ZenonT(60)
  <2> QED BY <2>3, <2>4
<1>3. CASE RecoverStakeShortfall(mm)
  <2> DEFINE a == Least(claim[mm].owed_total - recovered[mm], stake[mm])
  <2>1. a \in Nat
    BY <1>3, <1>t DEF Least, RecoverStakeShortfall
  <2>2. /\ vault' = vault /\ UNCHANGED <<escrow, claim>>
        /\ vaultTokens'[v] = vaultTokens[v] + a
        /\ \A u \in Vaults : u # v => vaultTokens'[u] = vaultTokens[u]
        /\ recovered'[mm] = recovered[mm] + a
        /\ \A n \in Merchants : n # mm => recovered'[n] = recovered[n]
    BY <1>3, <1>t, <1>0 DEF RecoverStakeShortfall, Add, tradeVars
  <2>3. \A u \in Vaults : u # v => Unabsorbed(u)' = Unabsorbed(u)
    BY <1>0, <2>2 DEF Unabsorbed, Vaults, OpenVault
  <2> HIDE DEF a
  <2>4. Unabsorbed(v)' = Unabsorbed(v) + a
    BY <1>0, <1>t, <2>1, <2>2 DEF Unabsorbed
  <2> HIDE DEF v
  <2>5. HeldIn(vault[v], vaultTokens[v] + a, Unabsorbed(v) + a)
    BY <1>1, <2>1, HeldMoves
  <2>6. /\ HeldIn(vault'[v], vaultTokens'[v], Unabsorbed(v)')
        /\ vault'[v].pending_settlement = vault[v].pending_settlement
        /\ \A u \in Vaults : vault'[u] = vault[u]
    BY <2>2, <2>4, <2>5
  <2> QED BY <1>2, <2>2, <2>3, <2>6, ZenonT(60)
<1>4. CASE AbsorbStakeRecovery(mm)
  <2> DEFINE a == recovered[mm] - claim[mm].credited_total
  <2>1. a \in Nat
    BY <1>4, <1>t DEF AbsorbStakeRecovery
  <2>2. /\ UNCHANGED <<escrow, vaultTokens, recovered>>
        /\ vault'[v] = Credited(vault[v], a)
        /\ \A u \in Vaults : u # v => vault'[u] = vault[u]
        /\ claim'[mm].credited_total = claim[mm].credited_total + a
        /\ \A n \in Merchants : n # mm => claim'[n] = claim[n]
    BY <1>4, <1>t, <1>0 DEF AbsorbStakeRecovery, tradeVars
  <2>3. \A u \in Vaults : u # v => Unabsorbed(u)' = Unabsorbed(u)
    BY <1>0, <2>2 DEF Unabsorbed, Vaults, OpenVault
  <2> HIDE DEF a
  <2>4. Unabsorbed(v)' = Unabsorbed(v) - a
    BY <1>0, <1>t, <2>1, <2>2 DEF Unabsorbed
  <2> HIDE DEF v
  <2>5. /\ HeldIn(Credited(vault[v], a), vaultTokens[v], Unabsorbed(v) - a)
        /\ Credited(vault[v], a).pending_settlement = vault[v].pending_settlement
    BY <1>1, <2>1, HeldMoves
  <2>6. /\ HeldIn(vault'[v], vaultTokens'[v], Unabsorbed(v)')
        /\ vault'[v].pending_settlement = vault[v].pending_settlement
        /\ \A u \in Vaults : vaultTokens'[u] = vaultTokens[u]
    BY <2>2, <2>4, <2>5
  <2> QED BY <1>2, <2>2, <2>3, <2>6, ZenonT(60)
<1> QED BY <1>3, <1>4 DEF RecoveryStep

\* Every step keeps VaultBacked.
LEMMA NextBacked ==
  ASSUME TypeInv, TypeInv', VaultBacked, [CustodyNext]_custodyVars
  PROVE  VaultBacked'
<1>1. ASSUME AdminStep \/ Tick \/ UNCHANGED custodyVars
      PROVE  VaultBacked'
  <2>1. UNCHANGED <<vault, vaultTokens, escrow, recovered, claim>>
    BY <1>1 DEF AdminStep, InitializeArbitrationPool, UpdateFeeConfig, ListWallet, DelistWallet,
                Tick, custodyVars, tradeVars, recoveryVars
  <2> QED BY <2>1 DEF VaultBacked, InTrades, InTrade, EscrowVault, Unabsorbed
<1> QED BY <1>1, VaultStepBacked, TradeStepBacked, DisputeStepBacked, RecoveryStepBacked
        DEF CustodyNext

-----------------------------------------------------------------------------
(* Tokens are moved, never made or lost                                    *)

\* The tokens of a mint in vaults holding f, and in escrows e holding k.
VaultSum(f, t) == SumFunction([m \in Merchants |-> f[<<m, t>>]])
EscrowSum(e, k, t) == SumFunction([r \in Reservations |-> IF e[r].mint = t THEN k[r] ELSE 0])

\* A transfer to or from one vault moves the sum of its mint alone.
LEMMA VaultSumChange ==
  ASSUME NEW f \in [Vaults -> Nat], NEW g \in [Vaults -> Nat], NEW v \in Vaults,
         \A w \in Vaults : w # v => g[w] = f[w], NEW t \in Mints
  PROVE  /\ VaultSum(f, t) \in Int /\ VaultSum(g, t) \in Int
         /\ VaultSum(g, t) = VaultSum(f, t) + (IF v[2] = t THEN g[v] - f[v] ELSE 0)
<1> DEFINE F == [m \in Merchants |-> f[<<m, t>>]]
           G == [m \in Merchants |-> g[<<m, t>>]]
<1>1. IsFiniteSet(Merchants)
  BY CustodyAssumption
<1>2. \A m \in Merchants : <<m, t>> \in Vaults
  BY DEF Vaults
<1>3. F \in [Merchants -> Int] /\ G \in [Merchants -> Int]
  BY <1>2
<1>4. SumFunction(F) \in Int /\ SumFunction(G) \in Int
  <2> HIDE DEF F, G
  <2> QED BY <1>1, <1>3, SumFunctionType
<1>5. v[1] \in Merchants /\ v[2] \in Mints /\ v = <<v[1], v[2]>>
  BY DEF Vaults
<1>6. CASE v[2] = t
  <2>1. \A m \in Merchants : m # v[1] => G[m] = F[m]
    BY <1>2, <1>5, <1>6
  <2>2. G[v[1]] = g[v] /\ F[v[1]] = f[v]
    BY <1>5, <1>6
  <2>3. SumFunction(G) = SumFunction(F) + (G[v[1]] - F[v[1]])
    <3> HIDE DEF F, G
    <3> QED BY <1>1, <1>3, <1>5, <2>1, SumFunctionChange
  <2>4. SumFunction(G) = SumFunction(F) + (g[v] - f[v])
    <3> HIDE DEF F, G
    <3> QED BY <2>2, <2>3
  <2> QED BY <1>4, <1>6, <2>4 DEF VaultSum
<1>7. CASE v[2] # t
  <2>1. \A m \in Merchants : F[m] = G[m]
    BY <1>2, <1>5, <1>7
  <2>2. F = G
    BY <2>1
  <2>3. VaultSum(f, t) = SumFunction(F) /\ VaultSum(g, t) = SumFunction(G)
    BY DEF VaultSum
  <2> HIDE DEF F, G
  <2> QED BY <1>4, <1>7, <2>2, <2>3
<1> QED BY <1>6, <1>7

\* Likewise for the escrow of one trade, whose mint is set when it is created.
LEMMA EscrowSumChange ==
  ASSUME NEW e, NEW k \in [Reservations -> Nat], NEW d, NEW l \in [Reservations -> Nat],
         NEW r \in Reservations, NEW t \in Mints,
         \A q \in Reservations : q # r => d[q].mint = e[q].mint /\ l[q] = k[q]
  PROVE  /\ EscrowSum(e, k, t) \in Int /\ EscrowSum(d, l, t) \in Int
         /\ EscrowSum(d, l, t) = EscrowSum(e, k, t)
              + ((IF d[r].mint = t THEN l[r] ELSE 0) - (IF e[r].mint = t THEN k[r] ELSE 0))
<1> DEFINE F == [q \in Reservations |-> IF e[q].mint = t THEN k[q] ELSE 0]
           G == [q \in Reservations |-> IF d[q].mint = t THEN l[q] ELSE 0]
<1>1. IsFiniteSet(Reservations)
  BY CustodyAssumption
<1>2. F \in [Reservations -> Int] /\ G \in [Reservations -> Int]
  OBVIOUS
<1>3. \A q \in Reservations : q # r => G[q] = F[q]
  OBVIOUS
<1>4. G[r] = (IF d[r].mint = t THEN l[r] ELSE 0) /\ F[r] = (IF e[r].mint = t THEN k[r] ELSE 0)
  OBVIOUS
<1>5. /\ SumFunction(F) \in Int /\ SumFunction(G) \in Int
      /\ SumFunction(G) = SumFunction(F) + (G[r] - F[r])
  <2> HIDE DEF F, G
  <2> QED BY <1>1, <1>2, <1>3, SumFunctionType, SumFunctionChange
<1> QED BY <1>4, <1>5 DEF EscrowSum

\* Every token balance is a natural number.
LEMMA TokenTypes ==
  ASSUME TypeInv
  PROVE  /\ outside \in [Mints -> Nat] /\ vaultTokens \in [Vaults -> Nat]
         /\ escrowTokens \in [Reservations -> Nat] /\ escrow \in [Reservations -> EscrowType]
         /\ pool.tokens \in Nat /\ stake \in [Merchants -> Nat]
         /\ SumFunction(stake) \in Int
<1>1. /\ outside \in [Mints -> Nat] /\ vaultTokens \in [Vaults -> Nat]
      /\ escrowTokens \in [Reservations -> Nat] /\ escrow \in [Reservations -> EscrowType]
      /\ pool.tokens \in Nat /\ stake \in [Merchants -> Nat]
  BY DEF TypeInv, CustodyTypeOK
<1> QED BY <1>1, CustodyAssumption, SumFunctionType

\* The sums SupplyConserved adds are integers.
LEMMA SumsAreInt ==
  ASSUME TypeInv, NEW t \in Mints
  PROVE  VaultSum(vaultTokens, t) \in Int /\ EscrowSum(escrow, escrowTokens, t) \in Int
<1>1. VaultSum(vaultTokens, t) \in Int
  <2> DEFINE F == [m \in Merchants |-> vaultTokens[<<m, t>>]]
  <2>1. F \in [Merchants -> Int]
    BY TokenTypes DEF Vaults
  <2> HIDE DEF F
  <2>2. SumFunction(F) \in Int
    BY <2>1, CustodyAssumption, SumFunctionType
  <2> QED BY <2>2 DEF VaultSum, F
<1>2. EscrowSum(escrow, escrowTokens, t) \in Int
  <2> DEFINE F == [q \in Reservations |-> IF escrow[q].mint = t THEN escrowTokens[q] ELSE 0]
  <2>1. F \in [Reservations -> Int]
    BY TokenTypes
  <2> HIDE DEF F
  <2>2. SumFunction(F) \in Int
    BY <2>1, CustodyAssumption, SumFunctionType
  <2> QED BY <2>2 DEF EscrowSum, F
<1> QED BY <1>1, <1>2

\* What vaults, escrows, the outside, the pool and the stakes gain of a mint cancels out.
LEMMA Balance ==
  ASSUME TypeInv, NEW t \in Mints, NEW x \in Int, NEW y \in Int, NEW z \in Int, NEW w \in Int,
         VaultSum(vaultTokens', t) = VaultSum(vaultTokens, t) + x,
         EscrowSum(escrow', escrowTokens', t) = EscrowSum(escrow, escrowTokens, t) + y,
         outside'[t] = outside[t] + z,
         t = OPEN => pool'.tokens + SumFunction(stake') = pool.tokens + SumFunction(stake) + w,
         t # OPEN => w = 0,
         x + y + z + w = 0
  PROVE  AllTokens(t)' = AllTokens(t)
<1>1. /\ VaultSum(vaultTokens, t) \in Int /\ EscrowSum(escrow, escrowTokens, t) \in Int
      /\ outside[t] \in Int /\ pool.tokens \in Int /\ SumFunction(stake) \in Int
  BY SumsAreInt, TokenTypes
<1>2. AllTokens(t) = outside[t] + VaultSum(vaultTokens, t) + EscrowSum(escrow, escrowTokens, t)
               + (IF t = OPEN THEN pool.tokens + SumFunction(stake) ELSE 0)
  BY DEF AllTokens, InVaults, InEscrows, VaultSum, EscrowSum
<1>3. AllTokens(t)' = outside'[t] + VaultSum(vaultTokens', t) + EscrowSum(escrow', escrowTokens', t)
               + (IF t = OPEN THEN pool'.tokens + SumFunction(stake') ELSE 0)
  BY DEF AllTokens, InVaults, InEscrows, VaultSum, EscrowSum
<1> QED BY <1>1, <1>2, <1>3

\* A transfer between one vault and the outside, or one vault and the pool.
LEMMA VaultTransfer ==
  ASSUME TypeInv, TypeInv', NEW v \in Vaults, NEW a \in Int, NEW b \in Int, NEW c \in Int,
         NEW t \in Mints,
         v[2] # OPEN => c = 0,
         a + b + c = 0,
         vaultTokens'[v] = vaultTokens[v] + a,
         \A w \in Vaults : w # v => vaultTokens'[w] = vaultTokens[w],
         outside'[t] = outside[t] + (IF v[2] = t THEN b ELSE 0),
         pool'.tokens = pool.tokens + c,
         \A q \in Reservations : escrow'[q].mint = escrow[q].mint,
         UNCHANGED <<escrowTokens, stake>>
  PROVE  AllTokens(t)' = AllTokens(t)
<1>1. VaultSum(vaultTokens', t) = VaultSum(vaultTokens, t)
           + (IF v[2] = t THEN vaultTokens'[v] - vaultTokens[v] ELSE 0)
  <2>1. vaultTokens' \in [Vaults -> Nat] /\ vaultTokens \in [Vaults -> Nat]
    BY DEF TypeInv, CustodyTypeOK
  <2> QED BY <2>1, VaultSumChange
<1>2. vaultTokens'[v] - vaultTokens[v] = a
  BY TokenTypes
<1> DEFINE x == IF v[2] = t THEN a ELSE 0
           z == IF v[2] = t THEN b ELSE 0
           w == IF v[2] = t THEN c ELSE 0
<1>3. EscrowSum(escrow', escrowTokens', t) = EscrowSum(escrow, escrowTokens, t) + 0
  <2>1. EscrowSum(escrow', escrowTokens', t) = EscrowSum(escrow, escrowTokens, t)
    BY DEF EscrowSum
  <2> QED BY <2>1, SumsAreInt
<1>4. t = OPEN => pool'.tokens + SumFunction(stake') = pool.tokens + SumFunction(stake) + w
  BY TokenTypes
<1>5. /\ x \in Int /\ z \in Int /\ w \in Int /\ x + 0 + z + w = 0 /\ (t # OPEN => w = 0)
      /\ VaultSum(vaultTokens', t) = VaultSum(vaultTokens, t) + x
      /\ outside'[t] = outside[t] + z
  BY <1>1, <1>2
<1> HIDE DEF x, z, w
<1>6. 0 \in Int
  OBVIOUS
<1> QED BY <1>3, <1>4, <1>5, <1>6, Balance, ZenonT(60)

\* Deposits, withdrawals, reservations and their cancellation move tokens, never make them.
LEMMA VaultStepConserves ==
  ASSUME TypeInv, TypeInv', NEW mm \in Merchants, NEW s \in Mints, VaultStep(mm, s),
         NEW t \in Mints
  PROVE  AllTokens(t)' = AllTokens(t)
<1> DEFINE v == <<mm, s>>
<1>0. v \in Vaults /\ v[2] = s
  BY PairInVaults
<1>o. outside \in [Mints -> Nat] /\ vaultTokens \in [Vaults -> Nat] /\ pool.tokens \in Nat
  BY TokenTypes
<1>n. Amounts \subseteq Nat
  BY CustodyAssumption
<1> USE DEF tradeVars, recoveryVars, adminVars
<1>1. CASE CreateLiquidityVault(mm, s)
  BY <1>1 DEF CreateLiquidityVault, AllTokens, InVaults, InEscrows
<1>2. ASSUME NEW a \in Amounts, DepositLiquidity(mm, s, a)
      PROVE  AllTokens(t)' = AllTokens(t)
  <2>1. /\ vaultTokens' = [vaultTokens EXCEPT ![v] = @ + a]
        /\ outside' = [outside EXCEPT ![s] = @ - a]
        /\ UNCHANGED <<escrow, escrowTokens, stake, pool>>
    BY <1>2 DEF DepositLiquidity, Add, Sub
  <2>2. vaultTokens'[v] = vaultTokens[v] + a
    BY <1>0, <1>o, <2>1
  <2>3. \A w \in Vaults : w # v => vaultTokens'[w] = vaultTokens[w]
    BY <1>0, <1>o, <2>1
  <2>4. outside'[t] = outside[t] + (IF v[2] = t THEN -a ELSE 0)
    BY <1>0, <1>n, <1>o, <2>1
  <2>5. pool'.tokens = pool.tokens + 0 /\ a + (-a) + 0 = 0 /\ a \in Int /\ -a \in Int
    BY <1>o, <1>n, <2>1
  <2>6. /\ \A q \in Reservations : escrow'[q].mint = escrow[q].mint
        /\ UNCHANGED <<escrowTokens, stake>> /\ 0 \in Int /\ (v[2] # OPEN => 0 = 0)
    BY <2>1
  <2> HIDE DEF v
  <2> QED BY <1>0, <2>2, <2>3, <2>4, <2>5, <2>6, VaultTransfer, ZenonT(60)
<1>3. ASSUME NEW a \in Amounts, ReserveLiquidity(mm, s, a)
      PROVE  AllTokens(t)' = AllTokens(t)
  BY <1>3 DEF ReserveLiquidity, AllTokens, InVaults, InEscrows
<1>4. ASSUME NEW a \in Nat, UNCHANGED <<escrow, escrowTokens, stake, pool>>,
             vaultTokens' = [vaultTokens EXCEPT ![v] = @ - a],
             outside' = [outside EXCEPT ![s] = @ + a]
      PROVE  AllTokens(t)' = AllTokens(t)
  <2>2. vaultTokens'[v] = vaultTokens[v] + (-a)
    BY <1>0, <1>o, <1>4
  <2>3. \A w \in Vaults : w # v => vaultTokens'[w] = vaultTokens[w]
    BY <1>0, <1>o, <1>4
  <2>4. outside'[t] = outside[t] + (IF v[2] = t THEN a ELSE 0)
    BY <1>0, <1>o, <1>4
  <2>5. pool'.tokens = pool.tokens + 0 /\ (-a) + a + 0 = 0 /\ a \in Int /\ -a \in Int
    BY <1>o, <1>4
  <2> HIDE DEF v
  <2> QED BY <1>0, <1>4, <2>2, <2>3, <2>4, <2>5, VaultTransfer
<1>5. ASSUME NEW a \in Amounts, WithdrawLiquidity(mm, s, a)
      PROVE  AllTokens(t)' = AllTokens(t)
  <2>1. /\ vaultTokens' = [vaultTokens EXCEPT ![v] = @ - a]
        /\ outside' = [outside EXCEPT ![s] = @ + a]
        /\ UNCHANGED <<escrow, escrowTokens, stake, pool>>
    BY <1>5 DEF WithdrawLiquidity, Add, Sub
  <2> HIDE DEF v
  <2> QED BY <1>n, <1>4, <2>1, ZenonT(60)
<1>6. CASE ChargeAdListingFee(mm, s)
  <2> DEFINE a == SumShares(SplitFeeFourWays(feeConfig.splits, feeConfig.ad_listing_fee))
  <2>1. a \in Nat
    BY ConfigFields, SplitExact
  <2>2. /\ vaultTokens' = [vaultTokens EXCEPT ![v] = @ - a]
        /\ outside' = [outside EXCEPT ![s] = @ + a]
        /\ UNCHANGED <<escrow, escrowTokens, stake, pool>>
    BY <1>6 DEF ChargeAdListingFee, Add, Sub
  <2> HIDE DEF a, v
  <2> QED BY <1>4, <2>1, <2>2, ZenonT(60)
<1> QED BY <1>1, <1>2, <1>3, <1>5, <1>6 DEF VaultStep

\* A step that touches the escrow of one trade moves the sum by the change of that one.
LEMMA EscrowMove ==
  ASSUME TypeInv, TypeInv', NEW r \in Reservations, NEW t \in Mints,
         \A q \in Reservations : q # r => escrow'[q].mint = escrow[q].mint
                                          /\ escrowTokens'[q] = escrowTokens[q]
  PROVE  EscrowSum(escrow', escrowTokens', t) = EscrowSum(escrow, escrowTokens, t)
          + ((IF escrow'[r].mint = t THEN escrowTokens'[r] ELSE 0)
              - (IF escrow[r].mint = t THEN escrowTokens[r] ELSE 0))
<1>1. escrowTokens \in [Reservations -> Nat] /\ escrowTokens' \in [Reservations -> Nat]
  BY DEF TypeInv, CustodyTypeOK
<1> QED BY <1>1, EscrowSumChange

\* Closing a funded escrow pays out what it held: to the outside, or back to its vault.
LEMMA ClosesConserve ==
  ASSUME TypeInv, TypeInv', EscrowPaidOnce, NEW r \in Reservations, escrow[r].state \in Funded,
         NEW vlt, NEW tok \in [Vaults -> Nat], Closes(r, vlt, tok), NEW t \in Mints
  PROVE  \E x, y, z \in Int :
            /\ VaultSum(vaultTokens', t) = VaultSum(tok, t) + x
            /\ EscrowSum(escrow', escrowTokens', t) = EscrowSum(escrow, escrowTokens, t) + y
            /\ outside'[t] = outside[t] + z
            /\ x + y + z = 0
<1> DEFINE a == escrow[r].amount
           v == EscrowVault(r)
<1>0. escrow[r].state # "None"
  BY DEF Funded
<1>1. PICK toBuyer \in Nat, shares \in [TreasuryIndex -> Nat], back \in 0..a,
           state \in {"Released", "Cancelled"} :
             /\ toBuyer + SumShares(shares) + back = a
             /\ CloseFunded(r, vlt, tok, toBuyer, shares, back, state)
  BY <1>0, ClosesExactly
<1>2. a \in Nat /\ v \in Vaults /\ v[2] = escrow[r].mint /\ escrow[r].mint \in Mints
  BY <1>0, EscrowVaultType DEF EscrowVault
<1> DEFINE out == toBuyer + SumShares(shares)
<1>3. /\ vaultTokens' = [tok EXCEPT ![v] = @ + back]
      /\ escrowTokens' = [escrowTokens EXCEPT ![r] = @ - (out + back)]
      /\ outside' = [outside EXCEPT ![escrow[r].mint] = @ + out]
      /\ escrow' = [escrow EXCEPT ![r].state = state]
  BY <1>1 DEF CloseFunded, Add, Sub
<1>4. SumShares(shares) \in Nat
  BY DEF SumShares, TreasuryIndex
<1>5. out \in Nat /\ out + back = a /\ back \in Nat
  BY <1>1, <1>2, <1>4
<1>6. escrowTokens[r] = a
  BY DEF EscrowPaidOnce, InTrade
<1> HIDE DEF out, v, a
<1>t. /\ escrowTokens \in [Reservations -> Nat] /\ escrow \in [Reservations -> EscrowType]
      /\ outside \in [Mints -> Nat]
      /\ escrowTokens' \in [Reservations -> Nat] /\ vaultTokens' \in [Vaults -> Nat]
  BY DEF TypeInv, CustodyTypeOK
<1>7. VaultSum(vaultTokens', t) = VaultSum(tok, t) + (IF v[2] = t THEN back ELSE 0)
  <2>1. vaultTokens'[v] - tok[v] = back
    BY <1>2, <1>3, <1>5
  <2>2. \A w \in Vaults : w # v => vaultTokens'[w] = tok[w]
    BY <1>3
  <2>3. vaultTokens' \in [Vaults -> Nat]
    BY <1>t
  <2> QED BY <1>2, <2>1, <2>2, <2>3, VaultSumChange
<1>8. EscrowSum(escrow', escrowTokens', t)
        = EscrowSum(escrow, escrowTokens, t) + (IF v[2] = t THEN -a ELSE 0)
  <2>1. /\ escrow'[r].mint = escrow[r].mint /\ escrowTokens'[r] = 0
    BY <1>2, <1>3, <1>5, <1>6, <1>t DEF EscrowType
  <2>2. \A q \in Reservations : q # r => escrow'[q].mint = escrow[q].mint
                                         /\ escrowTokens'[q] = escrowTokens[q]
    BY <1>3, <1>t
  <2>3. EscrowSum(escrow', escrowTokens', t) = EscrowSum(escrow, escrowTokens, t)
          + ((IF escrow'[r].mint = t THEN escrowTokens'[r] ELSE 0)
              - (IF escrow[r].mint = t THEN escrowTokens[r] ELSE 0))
    BY <2>2, EscrowMove
  <2>4. EscrowSum(escrow, escrowTokens, t) \in Int
    BY SumsAreInt
  <2> QED BY <1>2, <1>6, <2>1, <2>3, <2>4
<1>9. outside'[t] = outside[t] + (IF v[2] = t THEN out ELSE 0)
  BY <1>2, <1>3, <1>5, <1>t
<1>10. CASE v[2] = t
  <2>1. back \in Int /\ -a \in Int /\ out \in Int /\ back + (-a) + out = 0
    BY <1>2, <1>5
  <2>2. /\ VaultSum(vaultTokens', t) = VaultSum(tok, t) + back
        /\ EscrowSum(escrow', escrowTokens', t) = EscrowSum(escrow, escrowTokens, t) + (-a)
        /\ outside'[t] = outside[t] + out
    BY <1>7, <1>8, <1>9, <1>10
  <2> QED BY <2>1, <2>2, ZenonT(60)
<1>11. CASE v[2] # t
  <2>1. 0 \in Int /\ 0 + 0 + 0 = 0
    OBVIOUS
  <2> QED BY <1>7, <1>8, <1>9, <1>11, <2>1
<1> QED BY <1>10, <1>11

\* Approving, releasing, cancelling and expiring a trade conserve every mint.
LEMMA TradeStepConserves ==
  ASSUME TypeInv, TypeInv', EscrowPaidOnce, NEW r \in Reservations, TradeStep(r), NEW t \in Mints
  PROVE  AllTokens(t)' = AllTokens(t)
<1>t. /\ escrowTokens \in [Reservations -> Nat] /\ escrow \in [Reservations -> EscrowType]
      /\ outside \in [Mints -> Nat] /\ vaultTokens \in [Vaults -> Nat]
      /\ escrowTokens' \in [Reservations -> Nat] /\ vaultTokens' \in [Vaults -> Nat]
  BY DEF TypeInv, CustodyTypeOK
<1>s. /\ VaultSum(vaultTokens, t) \in Int /\ EscrowSum(escrow, escrowTokens, t) \in Int
      /\ outside[t] \in Int /\ pool.tokens \in Int /\ SumFunction(stake) \in Int
  BY SumsAreInt, TokenTypes
<1> USE DEF recoveryVars
<1>1. ASSUME NEW mm \in Merchants, NEW b \in Buyers, NEW s \in Mints, NEW a \in Amounts,
             NEW secs \in Timeouts, CreateTradeEscrow(r, mm, b, s, a, secs)
      PROVE  AllTokens(t)' = AllTokens(t)
  <2>1. /\ escrowTokens[r] = 0
        /\ UNCHANGED <<vaultTokens, escrowTokens, outside, pool, stake>>
        /\ \A q \in Reservations : q # r => escrow'[q].mint = escrow[q].mint
    BY <1>1, <1>t DEF CreateTradeEscrow, EscrowPaidOnce, InTrade, Funded
  <2>2. EscrowSum(escrow', escrowTokens', t) = EscrowSum(escrow, escrowTokens, t)
          + ((IF escrow'[r].mint = t THEN escrowTokens'[r] ELSE 0)
              - (IF escrow[r].mint = t THEN escrowTokens[r] ELSE 0))
    <3>1. \A q \in Reservations : q # r => escrow'[q].mint = escrow[q].mint
                                           /\ escrowTokens'[q] = escrowTokens[q]
      BY <2>1
    <3> QED BY <3>1, EscrowMove
  <2>3. escrowTokens'[r] = 0
    BY <2>1
  <2>4. /\ EscrowSum(escrow', escrowTokens', t) = EscrowSum(escrow, escrowTokens, t) + 0
        /\ VaultSum(vaultTokens', t) = VaultSum(vaultTokens, t) + 0
        /\ outside'[t] = outside[t] + 0
        /\ pool'.tokens + SumFunction(stake') = pool.tokens + SumFunction(stake) + 0
        /\ 0 \in Int /\ 0 + 0 + 0 + 0 = 0
    BY <1>s, <2>1, <2>2, <2>3
  <2> QED BY <2>4, Balance, ZenonT(60)
<1>2. CASE FundTradeEscrow(r)
  <2> DEFINE v == EscrowVault(r)
             a == escrow[r].amount
  <2>1. /\ vaultTokens' = [vaultTokens EXCEPT ![v] = @ - a]
        /\ escrowTokens' = [escrowTokens EXCEPT ![r] = @ + a]
        /\ escrow' = [escrow EXCEPT ![r].state = "AwaitingFiatSettlement"]
        /\ UNCHANGED <<outside, pool, stake>>
        /\ escrow[r].state # "None"
    BY <1>2 DEF FundTradeEscrow, Add, Sub
  <2>2. a \in Nat /\ v \in Vaults /\ v[2] = escrow[r].mint
    BY <2>1, EscrowVaultType DEF EscrowVault
  <2> HIDE DEF v, a
  <2>3. /\ \A w \in Vaults : w # v => vaultTokens'[w] = vaultTokens[w]
        /\ vaultTokens'[v] - vaultTokens[v] = -a
    BY <1>t, <2>1, <2>2
  <2>4. VaultSum(vaultTokens', t) = VaultSum(vaultTokens, t) + (IF v[2] = t THEN -a ELSE 0)
    BY <1>t, <2>2, <2>3, VaultSumChange
  <2>5. /\ \A q \in Reservations : q # r => escrow'[q].mint = escrow[q].mint
                                            /\ escrowTokens'[q] = escrowTokens[q]
        /\ escrow'[r].mint = escrow[r].mint
        /\ escrowTokens'[r] - escrowTokens[r] = a
    BY <1>t, <2>1, <2>2 DEF EscrowType
  <2>6. EscrowSum(escrow', escrowTokens', t) = EscrowSum(escrow, escrowTokens, t)
          + ((IF escrow'[r].mint = t THEN escrowTokens'[r] ELSE 0)
              - (IF escrow[r].mint = t THEN escrowTokens[r] ELSE 0))
    BY <2>5, EscrowMove
  <2>7. EscrowSum(escrow', escrowTokens', t) = EscrowSum(escrow, escrowTokens, t)
          + (IF v[2] = t THEN a ELSE 0)
    BY <1>s, <2>2, <2>5, <2>6
  <2> DEFINE x == IF v[2] = t THEN -a ELSE 0
             y == IF v[2] = t THEN a ELSE 0
  <2>8. /\ x \in Int /\ y \in Int /\ 0 \in Int /\ x + y + 0 + 0 = 0
        /\ outside'[t] = outside[t] + 0
        /\ pool'.tokens + SumFunction(stake') = pool.tokens + SumFunction(stake) + 0
    BY <1>s, <2>1, <2>2
  <2> HIDE DEF x, y
  <2> QED BY <2>4, <2>7, <2>8, Balance, ZenonT(60) DEF x, y
<1>3. CASE ApproveSettlement(r)
  <2>1. /\ \A q \in Reservations : escrow'[q].mint = escrow[q].mint
        /\ UNCHANGED <<vaultTokens, escrowTokens, outside, pool, stake>>
    BY <1>3, <1>t DEF ApproveSettlement, EscrowType
  <2> QED BY <2>1 DEF AllTokens, InVaults, InEscrows
<1>4. ASSUME Closes(r, vault, vaultTokens), escrow[r].state \in Funded,
             UNCHANGED <<pool, recoveryVars>>
      PROVE  AllTokens(t)' = AllTokens(t)
  <2>1. PICK x, y, z \in Int :
            /\ VaultSum(vaultTokens', t) = VaultSum(vaultTokens, t) + x
            /\ EscrowSum(escrow', escrowTokens', t) = EscrowSum(escrow, escrowTokens, t) + y
            /\ outside'[t] = outside[t] + z
            /\ x + y + z = 0
    BY <1>4, <1>t, ClosesConserve
  <2>2. /\ x + y + z + 0 = 0 /\ 0 \in Int
        /\ pool'.tokens + SumFunction(stake') = pool.tokens + SumFunction(stake) + 0
    BY <1>4, <1>s, <2>1
  <2> QED BY <2>1, <2>2, Balance, ZenonT(60)
<1>5. CASE ReleaseEscrow(r)
  BY <1>4, <1>5, ZenonT(60) DEF ReleaseEscrow, Closes, Funded
<1>6. CASE CloseUnapproved(r)
  <2>1. CASE escrow[r].state = "AwaitingFiatSettlement"
    BY <1>4, <1>6, <2>1 DEF CloseUnapproved, Closes, Funded
  <2>2. CASE escrow[r].state = "Reserved" /\ ReleaseReservationMarking(r)
    <3>1. /\ \A q \in Reservations : escrow'[q].mint = escrow[q].mint
          /\ UNCHANGED <<vaultTokens, escrowTokens, outside, pool, stake>>
      BY <1>6, <2>2, <1>t DEF CloseUnapproved, ReleaseReservationMarking, EscrowType
    <3> QED BY <3>1 DEF AllTokens, InVaults, InEscrows
  <2> QED BY <1>6, <2>1, <2>2 DEF CloseUnapproved
<1> QED
  BY <1>1, <1>2, <1>3, <1>5, <1>6 DEF TradeStep, CancelReservation, ExpireReservation

\* Taking an arbitration deposit moves it from a vault to the pool.
LEMMA DepositConserves ==
  ASSUME TypeInv, TypeInv', NEW v \in Vaults, v[2] = OPEN, NEW a \in Nat, TakeDeposit(v, a),
         \A q \in Reservations : escrow'[q].mint = escrow[q].mint,
         UNCHANGED <<escrowTokens, stake, outside>>, NEW t \in Mints
  PROVE  AllTokens(t)' = AllTokens(t)
<1>o. outside \in [Mints -> Nat] /\ vaultTokens \in [Vaults -> Nat] /\ pool.tokens \in Nat
      /\ pool \in [open : BOOLEAN, tokens : Nat]
  BY TokenTypes DEF TypeInv, CustodyTypeOK
<1>1. vaultTokens'[v] = vaultTokens[v] + (-a)
  BY <1>o DEF TakeDeposit, Sub
<1>2. \A w \in Vaults : w # v => vaultTokens'[w] = vaultTokens[w]
  BY <1>o DEF TakeDeposit, Sub
<1>3. pool'.tokens = pool.tokens + a
  BY <1>o DEF TakeDeposit
<1>4. outside'[t] = outside[t] + (IF v[2] = t THEN 0 ELSE 0)
  BY <1>o
<1>5. -a \in Int /\ 0 \in Int /\ a \in Int /\ (-a) + 0 + a = 0
  OBVIOUS
<1>6. UNCHANGED <<escrowTokens, stake>> /\ (v[2] # OPEN => a = 0)
  OBVIOUS
<1> QED BY <1>1, <1>2, <1>3, <1>4, <1>5, <1>6, VaultTransfer, ZenonT(60)

\* Opening, topping up, executing and claiming conserve every mint.
LEMMA DisputeStepConserves ==
  ASSUME TypeInv, TypeInv', EscrowPaidOnce, NEW r \in Reservations, DisputeStep(r), NEW t \in Mints
  PROVE  AllTokens(t)' = AllTokens(t)
<1>t. /\ escrowTokens \in [Reservations -> Nat] /\ escrow \in [Reservations -> EscrowType]
      /\ outside \in [Mints -> Nat] /\ vaultTokens \in [Vaults -> Nat]
      /\ escrowTokens' \in [Reservations -> Nat] /\ vaultTokens' \in [Vaults -> Nat]
      /\ pool \in [open : BOOLEAN, tokens : Nat] /\ pool.tokens \in Nat
  BY DEF TypeInv, CustodyTypeOK
<1>s. /\ VaultSum(vaultTokens, t) \in Int /\ EscrowSum(escrow, escrowTokens, t) \in Int
      /\ outside[t] \in Int /\ pool.tokens \in Int /\ SumFunction(stake) \in Int
  BY SumsAreInt, TokenTypes
<1> DEFINE v == SellerOpenVault(r)
<1>v. ASSUME escrow[r].state # "None"
      PROVE  v \in Vaults /\ v[2] = OPEN /\ vault[v].available \in Nat
  BY <1>v, EscrowVaultType, VaultAt, VaultFields DEF SellerOpenVault, OpenVault, TypeInv
<1>1. ASSUME NEW w \in Wallets, OpenDisputeCase(r, w)
      PROVE  AllTokens(t)' = AllTokens(t)
  <2> DEFINE a == Least(feeConfig.dispute_filing_fee, vault[v].available)
  <2>1. v \in Vaults /\ v[2] = OPEN /\ vault[v].available \in Nat
    BY <1>1, <1>v DEF OpenDisputeCase
  <2>2. a \in Nat
    BY <2>1, ConfigFields DEF Least
  <2>3. TakeDeposit(v, a) /\ UNCHANGED <<escrowTokens, stake, outside>>
    BY <1>1 DEF OpenDisputeCase
  <2>4. \A q \in Reservations : escrow'[q].mint = escrow[q].mint
    BY <1>1, <1>t DEF OpenDisputeCase, EscrowType
  <2> HIDE DEF v, a
  <2> QED BY <2>1, <2>2, <2>3, <2>4, DepositConserves, ZenonT(60)
<1>2. CASE TopUpArbitrationDeposit(r)
  <2> DEFINE a == Least(dispute[r].shortfall, vault[v].available)
  <2>1. v \in Vaults /\ v[2] = OPEN /\ vault[v].available \in Nat
    BY <1>2, <1>v DEF TopUpArbitrationDeposit
  <2>2. a \in Nat
    BY <2>1, DisputeFields DEF Least
  <2>3. TakeDeposit(v, a) /\ UNCHANGED <<escrow, escrowTokens, stake, outside>>
    BY <1>2 DEF TopUpArbitrationDeposit, tradeVars, recoveryVars
  <2> HIDE DEF v, a
  <2> QED BY <2>1, <2>2, <2>3, DepositConserves
<1>3. ASSUME NEW verdict \in Verdicts, ExecuteDisputeOutcome(r, verdict)
      PROVE  AllTokens(t)' = AllTokens(t)
  <2> DEFINE refund == DepositRefund(r, verdict)
             vlt == [vault EXCEPT ![v] = Credited(vault[v], refund)]
             tok == Add(vaultTokens, v, refund)
  <2>1. v \in Vaults /\ v[2] = OPEN
    BY <1>3, <1>v DEF ExecuteDisputeOutcome
  <2>2. refund \in Nat
    BY DisputeFields DEF DepositRefund
  <2>3. /\ Closes(r, vlt, tok) /\ escrow[r].state \in Funded
        /\ pool.tokens >= refund
        /\ pool' = [pool EXCEPT !.tokens = @ - refund]
        /\ UNCHANGED stake
    BY <1>3 DEF ExecuteDisputeOutcome, Closes, recoveryVars, Funded
  <2>4. /\ tok \in [Vaults -> Nat] /\ tok[v] - vaultTokens[v] = refund
        /\ \A w \in Vaults : w # v => tok[w] = vaultTokens[w]
    BY <1>t, <2>1, <2>2 DEF Add
  <2> HIDE DEF v, refund, vlt, tok
  <2>5. VaultSum(tok, t) = VaultSum(vaultTokens, t) + (IF v[2] = t THEN tok[v] - vaultTokens[v] ELSE 0)
    BY <1>t, <2>1, <2>4, VaultSumChange
  <2>6. PICK x, y, z \in Int :
            /\ VaultSum(vaultTokens', t) = VaultSum(tok, t) + x
            /\ EscrowSum(escrow', escrowTokens', t) = EscrowSum(escrow, escrowTokens, t) + y
            /\ outside'[t] = outside[t] + z
            /\ x + y + z = 0
    BY <2>3, <2>4, ClosesConserve
  <2> DEFINE b == IF t = OPEN THEN refund ELSE 0
  <2>7. /\ b + x \in Int /\ 0 - b \in Int /\ (b + x) + y + z + (0 - b) = 0
    BY <2>2, <2>6
  <2>9. VaultSum(tok, t) = VaultSum(vaultTokens, t) + b
    BY <1>s, <2>1, <2>4, <2>5
  <2>10. VaultSum(vaultTokens', t) = VaultSum(vaultTokens, t) + (b + x)
    BY <1>s, <2>2, <2>6, <2>9
  <2>11. t # OPEN => 0 - b = 0
    <3>1. t # OPEN => b = 0
      OBVIOUS
    <3>2. 0 - 0 = 0
      OBVIOUS
    <3> HIDE DEF b
    <3> QED BY <3>1, <3>2, ZenonT(60)
  <2>8. t = OPEN => pool'.tokens + SumFunction(stake') = pool.tokens + SumFunction(stake) + (0 - b)
    BY <1>s, <1>t, <2>2, <2>3
  <2> HIDE DEF b
  <2> QED BY <2>6, <2>7, <2>8, <2>10, <2>11, Balance, ZenonT(60)
<1>4. ASSUME NEW a \in 0..dispute[r].reward_remaining, ClaimArbitrationReward(r, a)
      PROVE  AllTokens(t)' = AllTokens(t)
  <2>1. a \in Nat
    BY DisputeFields
  <2>2. /\ UNCHANGED <<vaultTokens, escrow, escrowTokens, stake>>
        /\ pool' = [pool EXCEPT !.tokens = @ - a]
        /\ outside' = [outside EXCEPT ![OPEN] = @ + a]
    BY <1>4 DEF ClaimArbitrationReward, Add, tradeVars, recoveryVars
  <2> DEFINE z == IF t = OPEN THEN a ELSE 0
  <2>3. /\ z \in Int /\ 0 - z \in Int /\ 0 \in Int /\ 0 + 0 + z + (0 - z) = 0
    BY <2>1
  <2>11. t # OPEN => 0 - z = 0
    <3>1. t # OPEN => z = 0
      OBVIOUS
    <3>2. 0 - 0 = 0
      OBVIOUS
    <3> HIDE DEF z
    <3> QED BY <3>1, <3>2, ZenonT(60)
  <2>6. outside'[t] = outside[t] + z
    BY <1>t, <2>1, <2>2
  <2>4. /\ VaultSum(vaultTokens', t) = VaultSum(vaultTokens, t) + 0
        /\ EscrowSum(escrow', escrowTokens', t) = EscrowSum(escrow, escrowTokens, t) + 0
    BY <1>s, <2>2
  <2>5. t = OPEN => pool'.tokens + SumFunction(stake') = pool.tokens + SumFunction(stake) + (0 - z)
    BY <1>s, <1>t, <2>1, <2>2
  <2> HIDE DEF z
  <2> QED BY <2>3, <2>4, <2>5, <2>6, <2>11, Balance, ZenonT(60)
<1> QED BY <1>1, <1>2, <1>3, <1>4 DEF DisputeStep

\* A recovery moves OPEN from the stake vault, an absorption to the counters only.
LEMMA RecoveryStepConserves ==
  ASSUME TypeInv, TypeInv', NEW mm \in Merchants, RecoveryStep(mm), NEW t \in Mints
  PROVE  AllTokens(t)' = AllTokens(t)
<1>s. /\ VaultSum(vaultTokens, t) \in Int /\ EscrowSum(escrow, escrowTokens, t) \in Int
      /\ outside[t] \in Int /\ pool.tokens \in Int /\ SumFunction(stake) \in Int
  BY SumsAreInt, TokenTypes
<1>t. /\ vaultTokens \in [Vaults -> Nat] /\ vaultTokens' \in [Vaults -> Nat]
      /\ stake \in [Merchants -> Nat] /\ stake' \in [Merchants -> Nat]
  BY DEF TypeInv, CustodyTypeOK
<1>1. CASE RecoverStakeShortfall(mm)
  <2> DEFINE a == Least(claim[mm].owed_total - recovered[mm], stake[mm])
             v == OpenVault(mm)
  <2>1. a \in Nat
    BY <1>1 DEF Least, RecoverStakeShortfall, TypeInv, CustodyTypeOK
  <2>2. /\ stake' = [stake EXCEPT ![mm] = @ - a]
        /\ vaultTokens' = [vaultTokens EXCEPT ![v] = @ + a]
        /\ UNCHANGED <<escrow, escrowTokens, pool, outside>>
    BY <1>1 DEF RecoverStakeShortfall, Add, Sub, tradeVars
  <2>3. v \in Vaults /\ v[2] = OPEN
    BY CustodyAssumption DEF OpenVault, Vaults
  <2> HIDE DEF a, v
  <2>4. /\ vaultTokens'[v] - vaultTokens[v] = a
        /\ \A w \in Vaults : w # v => vaultTokens'[w] = vaultTokens[w]
        /\ stake'[mm] - stake[mm] = -a
        /\ \A w \in Merchants : w # mm => stake'[w] = stake[w]
    BY <1>t, <2>1, <2>2, <2>3
  <2>5. VaultSum(vaultTokens', t) = VaultSum(vaultTokens, t)
           + (IF v[2] = t THEN vaultTokens'[v] - vaultTokens[v] ELSE 0)
    BY <1>t, <2>3, <2>4, VaultSumChange
  <2>6. SumFunction(stake') = SumFunction(stake) + (stake'[mm] - stake[mm])
    <3>1. stake \in [Merchants -> Int] /\ stake' \in [Merchants -> Int] /\ IsFiniteSet(Merchants)
      BY <1>t, CustodyAssumption
    <3> QED BY <2>4, <3>1, SumFunctionChange
  <2> DEFINE x == IF t = OPEN THEN a ELSE 0
  <2>7. /\ x \in Int /\ 0 - x \in Int /\ 0 \in Int /\ x + 0 + 0 + (0 - x) = 0
    BY <2>1
  <2>11. t # OPEN => 0 - x = 0
    <3>1. t # OPEN => x = 0
      OBVIOUS
    <3>2. 0 - 0 = 0
      OBVIOUS
    <3> HIDE DEF x
    <3> QED BY <3>1, <3>2, ZenonT(60)
  <2>10. VaultSum(vaultTokens', t) = VaultSum(vaultTokens, t) + x
    BY <2>3, <2>4, <2>5
  <2>8. /\ outside'[t] = outside[t] + 0
        /\ EscrowSum(escrow', escrowTokens', t) = EscrowSum(escrow, escrowTokens, t) + 0
    BY <1>s, <2>2
  <2>9. t = OPEN => pool'.tokens + SumFunction(stake') = pool.tokens + SumFunction(stake) + (0 - x)
    <3>1. pool'.tokens = pool.tokens /\ SumFunction(stake') = SumFunction(stake) + (-a)
      BY <2>2, <2>4, <2>6, ZenonT(60)
    <3> QED BY <1>s, <2>1, <3>1
  <2> HIDE DEF x
  <2> QED BY <2>7, <2>8, <2>9, <2>10, <2>11, Balance, ZenonT(60)
<1>2. CASE AbsorbStakeRecovery(mm)
  BY <1>2 DEF AbsorbStakeRecovery, AllTokens, InVaults, InEscrows, tradeVars
<1> QED BY <1>1, <1>2 DEF RecoveryStep

\* What the administrator and the clock do moves no token.
LEMMA OtherStepConserves ==
  ASSUME TypeInv, TypeInv', AdminStep \/ Tick \/ UNCHANGED custodyVars, NEW t \in Mints
  PROVE  AllTokens(t)' = AllTokens(t)
<1>1. UNCHANGED <<vaultTokens, escrow, escrowTokens, stake, outside>> /\ pool'.tokens = pool.tokens
  BY DEF AdminStep, InitializeArbitrationPool, UpdateFeeConfig, ListWallet, DelistWallet,
         Tick, custodyVars, tradeVars, recoveryVars, TypeInv, CustodyTypeOK
<1> QED BY <1>1 DEF AllTokens, InVaults, InEscrows

\* No instruction makes or loses a token of any mint.
LEMMA NextConserves ==
  ASSUME TypeInv, TypeInv', EscrowPaidOnce, [CustodyNext]_custodyVars, NEW t \in Mints
  PROVE  AllTokens(t)' = AllTokens(t)
  BY VaultStepConserves, TradeStepConserves, DisputeStepConserves, RecoveryStepConserves,
     OtherStepConserves DEF CustodyNext

-----------------------------------------------------------------------------
(* The pool owes what it holds                                             *)

PoolDue(d) == SumFunction([r \in Reservations |-> PoolOwes(d[r])])

\* A step on one case moves what the pool owes by the change of that case.
LEMMA PoolDueChange ==
  ASSUME TypeInv, TypeInv', NEW r \in Reservations,
         \A q \in Reservations : q # r => dispute'[q] = dispute[q]
  PROVE  /\ PoolDue(dispute) \in Int
         /\ PoolDue(dispute') = PoolDue(dispute)
              + (PoolOwes(dispute'[r]) - PoolOwes(dispute[r]))
<1> DEFINE F == [q \in Reservations |-> PoolOwes(dispute[q])]
           G == [q \in Reservations |-> PoolOwes(dispute'[q])]
<1>1. IsFiniteSet(Reservations)
  BY CustodyAssumption
<1>2. F \in [Reservations -> Int] /\ G \in [Reservations -> Int]
  BY DEF PoolOwes, TypeInv, CustodyTypeOK, DisputeType
<1>3. \A q \in Reservations : q # r => G[q] = F[q]
  OBVIOUS
<1>4. G[r] = PoolOwes(dispute'[r]) /\ F[r] = PoolOwes(dispute[r])
  OBVIOUS
<1>5. /\ SumFunction(F) \in Int
      /\ SumFunction(G) = SumFunction(F) + (G[r] - F[r])
  <2> HIDE DEF F, G
  <2> QED BY <1>1, <1>2, <1>3, SumFunctionType, SumFunctionChange
<1> QED BY <1>4, <1>5 DEF PoolDue

\* The pool gains or pays exactly what the step makes it owe more or less.
LEMMA PoolMove ==
  ASSUME TypeInv, TypeInv', PoolSolvent, NEW r \in Reservations,
         \A q \in Reservations : q # r => dispute'[q] = dispute[q],
         pool'.tokens - pool.tokens = PoolOwes(dispute'[r]) - PoolOwes(dispute[r])
  PROVE  PoolSolvent'
<1>1. pool.tokens \in Nat /\ pool'.tokens \in Nat
  BY DEF TypeInv, CustodyTypeOK
<1>2. /\ PoolDue(dispute) \in Int
      /\ PoolDue(dispute') = PoolDue(dispute) + (PoolOwes(dispute'[r]) - PoolOwes(dispute[r]))
  BY PoolDueChange
<1>3. pool.tokens = PoolDue(dispute)
  BY DEF PoolSolvent, PoolDue
<1>4. PoolOwes(dispute[r]) \in Int /\ PoolOwes(dispute'[r]) \in Int
  BY DEF PoolOwes, TypeInv, CustodyTypeOK, DisputeType
<1>5. pool'.tokens = PoolDue(dispute')
  BY <1>1, <1>2, <1>3, <1>4
<1> QED BY <1>5 DEF PoolSolvent, PoolDue

\* A step of a case keeps the pool holding what its cases are owed.
LEMMA DisputeStepPool ==
  ASSUME TypeInv, TypeInv', CaseInv, PoolSolvent, NEW r \in Reservations, DisputeStep(r)
  PROVE  PoolSolvent'
<1>t. /\ dispute \in [Reservations -> DisputeType] /\ dispute[r] \in DisputeType
      /\ pool \in [open : BOOLEAN, tokens : Nat] /\ pool.tokens \in Nat
      /\ dispute[r].deposit \in Nat /\ dispute[r].reward_remaining \in Nat
  BY DisputeFields DEF TypeInv, CustodyTypeOK
<1> DEFINE v == SellerOpenVault(r)
<1>v. ASSUME escrow[r].state # "None"
      PROVE  vault[v].available \in Nat
  BY <1>v, EscrowVaultType, VaultAt, VaultFields DEF TypeInv
<1>1. ASSUME NEW w \in Wallets, OpenDisputeCase(r, w)
      PROVE  PoolSolvent'
  <2> DEFINE a == Least(feeConfig.dispute_filing_fee, vault[v].available)
  <2>1. vault[v].available \in Nat
    BY <1>1, <1>v DEF OpenDisputeCase
  <2>2. a \in Nat
    BY <2>1, ConfigFields DEF Least
  <2>3. /\ pool' = [pool EXCEPT !.tokens = @ + a]
        /\ \A q \in Reservations : q # r => dispute'[q] = dispute[q]
        /\ dispute'[r].status = "open" /\ dispute'[r].deposit = a
    BY <1>1, <1>t DEF OpenDisputeCase, TakeDeposit, NoDispute
  <2>4. dispute[r].reward_remaining = 0 /\ dispute[r].status = "none"
    BY <1>1 DEF OpenDisputeCase, CaseInv, CaseOK
  <2> HIDE DEF v, a
  <2>5. pool'.tokens - pool.tokens = PoolOwes(dispute'[r]) - PoolOwes(dispute[r])
    BY <1>t, <2>2, <2>3, <2>4 DEF PoolOwes
  <2> QED BY <2>3, <2>5, PoolMove
<1>2. CASE TopUpArbitrationDeposit(r)
  <2> DEFINE a == Least(dispute[r].shortfall, vault[v].available)
  <2>1. vault[v].available \in Nat
    BY <1>2, <1>v DEF TopUpArbitrationDeposit
  <2>2. a \in Nat
    BY <2>1, DisputeFields DEF Least
  <2>3. /\ pool' = [pool EXCEPT !.tokens = @ + a]
        /\ \A q \in Reservations : q # r => dispute'[q] = dispute[q]
        /\ dispute'[r] = ToppedUp(dispute[r], a)
        /\ dispute[r].status = "open"
    BY <1>2, <1>t DEF TopUpArbitrationDeposit, TakeDeposit
  <2> HIDE DEF v, a
  <2>4. dispute'[r].status = "open" /\ dispute'[r].deposit = dispute[r].deposit + a
    BY <1>t, <2>3 DEF ToppedUp, DisputeType
  <2>5. pool'.tokens - pool.tokens = PoolOwes(dispute'[r]) - PoolOwes(dispute[r])
    BY <1>t, <2>2, <2>3, <2>4 DEF PoolOwes
  <2> QED BY <2>3, <2>5, PoolMove
<1>3. ASSUME NEW verdict \in Verdicts, ExecuteDisputeOutcome(r, verdict)
      PROVE  PoolSolvent'
  <2> DEFINE refund == DepositRefund(r, verdict)
             forfeited == Forfeited(r, verdict)
  <2>1. /\ refund \in Nat /\ forfeited \in Nat /\ refund + forfeited = dispute[r].deposit
    BY <1>t DEF DepositRefund, Forfeited
  <2>2. /\ pool' = [pool EXCEPT !.tokens = @ - refund]
        /\ \A q \in Reservations : q # r => dispute'[q] = dispute[q]
        /\ dispute[r].status = "open"
        /\ dispute'[r].status = "resolved" /\ dispute'[r].reward_remaining = forfeited
    BY <1>3, <1>t DEF ExecuteDisputeOutcome, DisputeType
  <2> HIDE DEF refund, forfeited
  <2>3. pool'.tokens - pool.tokens = PoolOwes(dispute'[r]) - PoolOwes(dispute[r])
    BY <1>t, <2>1, <2>2 DEF PoolOwes
  <2> QED BY <2>2, <2>3, PoolMove
<1>4. ASSUME NEW a \in 0..dispute[r].reward_remaining, ClaimArbitrationReward(r, a)
      PROVE  PoolSolvent'
  <2>1. a \in Nat
    BY <1>t
  <2>2. /\ pool' = [pool EXCEPT !.tokens = @ - a]
        /\ \A q \in Reservations : q # r => dispute'[q] = dispute[q]
        /\ dispute[r].status = "resolved" /\ dispute'[r].status = "resolved"
        /\ dispute'[r].reward_remaining = dispute[r].reward_remaining - a
    BY <1>4, <1>t DEF ClaimArbitrationReward, DisputeType
  <2>3. pool'.tokens - pool.tokens = PoolOwes(dispute'[r]) - PoolOwes(dispute[r])
    BY <1>t, <2>1, <2>2 DEF PoolOwes
  <2> QED BY <2>2, <2>3, PoolMove
<1> QED BY <1>1, <1>2, <1>3, <1>4 DEF DisputeStep

\* Every step keeps the pool holding what its cases are owed.
LEMMA NextPool ==
  ASSUME TypeInv, TypeInv', CaseInv, PoolSolvent, [CustodyNext]_custodyVars
  PROVE  PoolSolvent'
<1> USE DEF tradeVars, recoveryVars, adminVars
<1>0. ASSUME UNCHANGED dispute, pool'.tokens = pool.tokens
      PROVE  PoolSolvent'
  BY <1>0 DEF PoolSolvent
<1>1. ASSUME NEW mm \in Merchants, NEW t \in Mints, VaultStep(mm, t)
      PROVE  PoolSolvent'
  <2>1. UNCHANGED <<dispute, pool>>
    BY <1>1 DEF VaultStep, CreateLiquidityVault, ChargeAdListingFee, DepositLiquidity,
                ReserveLiquidity, WithdrawLiquidity
  <2> QED BY <1>0, <2>1
<1>2. ASSUME NEW r \in Reservations, TradeStep(r)
      PROVE  PoolSolvent'
  <2>1. CASE ReleaseEscrow(r) \/ CloseUnapproved(r)
    BY <1>0, <2>1 DEF ReleaseEscrow, CloseUnapproved
  <2>2. CASE FundTradeEscrow(r) \/ ApproveSettlement(r)
    BY <1>0, <2>2 DEF FundTradeEscrow, ApproveSettlement
  <2>3. ASSUME NEW mm \in Merchants, NEW b \in Buyers, NEW t \in Mints, NEW a \in Amounts,
               NEW s \in Timeouts, CreateTradeEscrow(r, mm, b, t, a, s)
        PROVE  PoolSolvent'
    BY <1>0, <2>3, ZenonT(60) DEF CreateTradeEscrow
  <2> QED
    BY <1>2, <2>1, <2>2, <2>3 DEF TradeStep, CancelReservation, ExpireReservation
<1>3. ASSUME NEW mm \in Merchants, RecoveryStep(mm)
      PROVE  PoolSolvent'
  BY <1>0, <1>3 DEF RecoveryStep, RecoverStakeShortfall, AbsorbStakeRecovery
<1>4. ASSUME AdminStep \/ Tick \/ UNCHANGED custodyVars
      PROVE  PoolSolvent'
  <2>1. UNCHANGED dispute /\ pool'.tokens = pool.tokens
    BY <1>4 DEF AdminStep, InitializeArbitrationPool, UpdateFeeConfig, ListWallet, DelistWallet,
                Tick, custodyVars, TypeInv, CustodyTypeOK
  <2> QED BY <1>0, <2>1
<1> QED BY <1>1, <1>2, <1>3, <1>4, DisputeStepPool DEF CustodyNext

-----------------------------------------------------------------------------
(* Solvency                                                                *)

\* The deployed program is solvent: nothing is owed and nothing has moved.
LEMMA InitSolvent == CustodyInit => VaultBacked /\ PoolSolvent /\ SupplyConserved
<1> SUFFICES ASSUME CustodyInit PROVE VaultBacked /\ PoolSolvent /\ SupplyConserved
  OBVIOUS
<1>0. IsFiniteSet(Merchants) /\ IsFiniteSet(Reservations)
  BY CustodyAssumption
<1>1. VaultBacked
  <2> SUFFICES ASSUME NEW v \in Vaults
               PROVE  /\ vaultTokens[v] = vault[v].available + vault[v].reserved + Unabsorbed(v)
                      /\ vault[v].pending_settlement = InTrades(v)
    BY DEF VaultBacked
  <2> DEFINE F == [r \in Reservations |-> IF EscrowVault(r) = v THEN InTrade(r) ELSE 0]
  <2>1. F \in [Reservations -> Int] /\ \A r \in Reservations : F[r] = 0
    BY DEF CustodyInit, InTrade, Funded, NoEscrow
  <2>2. SumFunction(F) = 0
    <3> HIDE DEF F
    <3> QED BY <1>0, <2>1, SumFunctionZero
  <2>3. InTrades(v) = 0
    BY <2>2 DEF InTrades
  <2> QED BY <2>3 DEF CustodyInit, NoVault, Unabsorbed, Vaults
<1>2. PoolSolvent
  <2> DEFINE F == [r \in Reservations |-> PoolOwes(dispute[r])]
  <2>1. F \in [Reservations -> Int] /\ \A r \in Reservations : F[r] = 0
    BY DEF CustodyInit, PoolOwes, NoDispute
  <2>2. SumFunction(F) = 0
    <3> HIDE DEF F
    <3> QED BY <1>0, <2>1, SumFunctionZero
  <2> QED BY <2>2 DEF PoolSolvent, CustodyInit
<1>3. SupplyConserved
  <2> SUFFICES ASSUME NEW t \in Mints
               PROVE  AllTokens(t)
                        = Supply[t] + (IF t = OPEN THEN SumFunction(InitialStake) ELSE 0)
    BY DEF SupplyConserved
  <2> DEFINE F == [m \in Merchants |-> vaultTokens[<<m, t>>]]
             G == [r \in Reservations |-> IF escrow[r].mint = t THEN escrowTokens[r] ELSE 0]
  <2>1. F \in [Merchants -> Int] /\ \A m \in Merchants : F[m] = 0
    BY DEF CustodyInit, Vaults
  <2>2. G \in [Reservations -> Int] /\ \A r \in Reservations : G[r] = 0
    BY DEF CustodyInit
  <2>3. SumFunction(F) = 0 /\ SumFunction(G) = 0
    <3> HIDE DEF F, G
    <3> QED BY <1>0, <2>1, <2>2, SumFunctionZero
  <2>4. InVaults(t) = 0 /\ InEscrows(t) = 0
    BY <2>3 DEF InVaults, InEscrows
  <2>5. outside[t] = Supply[t] /\ stake = InitialStake /\ pool.tokens = 0 /\ Supply[t] \in Nat
    BY CustodyAssumption DEF CustodyInit
  <2>6. SumFunction(stake) \in Int
    BY InitTypeInv, TokenTypes
  <2>7. AllTokens(t) = outside[t] + (IF t = OPEN THEN SumFunction(stake) ELSE 0)
    BY <2>4, <2>5, <2>6 DEF AllTokens
  <2> QED BY <2>5, <2>7
<1> QED BY <1>1, <1>2, <1>3

\* Whatever deposits, top-ups, recoveries, absorptions, verdicts and reward claims of any
\* number of disputes interleave with trades, fees and withdrawals: every vault's token
\* account holds what its counters promise, the pool what its cases are owed, no token is
\* made or lost, a trade is frozen exactly while its case is open, and the counters the two
\* programs keep of one debt never cross.
THEOREM CustodySolventHolds == CustodySpec => []CustodySolvent
<1> DEFINE Solvent == VaultBacked /\ PoolSolvent /\ SupplyConserved
<1>1. CustodyInit => Solvent
  BY InitSolvent
<1>2. TypeInv /\ TypeInv' /\ EscrowPaidOnce /\ CaseInv /\ Solvent /\ [CustodyNext]_custodyVars
        => Solvent'
  <2> SUFFICES ASSUME TypeInv, TypeInv', EscrowPaidOnce, CaseInv, Solvent,
                      [CustodyNext]_custodyVars
               PROVE  Solvent'
    OBVIOUS
  <2>1. \A t \in Mints : AllTokens(t)' = AllTokens(t)
    BY NextConserves
  <2>2. SupplyConserved'
    BY <2>1 DEF SupplyConserved
  <2> QED BY <2>2, NextBacked, NextPool
<1>3. CustodySpec => []EscrowPaidOnce
  BY EscrowConservedHolds, PTL DEF EscrowConserved
<1>4. CustodySpec => []Solvent
  BY <1>1, <1>2, <1>3, AlwaysTypeInv, AlwaysCaseInv, PTL DEF CustodySpec
<1>5. CustodySpec => []VaultAccounting
  BY VaultAccountingHolds
<1> QED
  BY <1>4, <1>5, CustodyTypeCorrect, CasesAndDebtsConsistent, PTL DEF CustodySolvent
==============================================================================
