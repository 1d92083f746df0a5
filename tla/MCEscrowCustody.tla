---------------------------- MODULE MCEscrowCustody ----------------------------
(* Small instances of EscrowCustody.                                       *)
EXTENDS EscrowCustody, TLC

CONSTANTS USDC, m1, b1, r1, r2

Quarter == <<2500, 2500, 2500, 2500>>

\* Fees as in force, in amounts of a few tokens: half of a trade.
BaseConfig ==
  [ad_listing_fee |-> 2, dispute_filing_fee |-> 3, settlement_fee_bps |-> 5000,
   splits |-> Quarter, settlement_mints |-> {USDC, OPEN}, treasury_mint |-> USDC]

\* As first deployed: the treasuries are wallets, not token accounts.
DeployedConfig == [BaseConfig EXCEPT !.treasury_mint = NoMint]

TwoMints == {USDC, OPEN}

\* Races of two trades over one vault, each trade half of it, under an admin who turns the
\* arbitration deposit on and off.  No OPEN is outside: a deposit is a debt at first, and
\* is topped up once stake has been recovered for it.
TradeConfigs == {DeployedConfig, BaseConfig, [BaseConfig EXCEPT !.dispute_filing_fee = 0]}
TradeSupply == (USDC :> 4) @@ (OPEN :> 0)
SomeStake == [m \in Merchants |-> 2]
NoStake == [m \in Merchants |-> 0]

\* An admin who takes the mint of open trades off the list.
DelistConfigs == {BaseConfig, [BaseConfig EXCEPT !.settlement_mints = {OPEN}]}
===============================================================================
