CONSTANTS
  USDC = USDC
  OPEN = OPEN
  NoMint = NoMint
  NoWallet = NoWallet
  m1 = m1
  b1 = b1
  r1 = r1
  r2 = r2
  Merchants = {m1}
  Buyers = {b1}
  Mints <- TwoMints
  Reservations = {r1, r2}
  Amounts = {2}
  Timeouts = {1}
  FeeConfigs <- TradeConfigs
  Supply <- TradeSupply
  InitialStake <- SomeStake
  Bannable = {b1}
  MaxTime = 2
  LastTimeout = 1
SPECIFICATION CustodyFairSpec
INVARIANTS CustodySolvent
PROPERTIES EscrowConserved CasesFollowArbitration FundedTradeCloses
CHECK_DEADLOCK FALSE
