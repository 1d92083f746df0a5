CONSTANTS
  USDC = USDC
  OPEN = OPEN
  NoMint = NoMint
  NoWallet = NoWallet
  m1 = m1
  b1 = b1
  r1 = r1
  r2 = r2
  Merchants = {m1}
  Buyers = {b1}
  Mints <- TwoMints
  Reservations = {r1}
  Amounts = {1}
  Timeouts = {1}
  FeeConfigs <- DelistConfigs
  Supply <- TradeSupply
  InitialStake <- NoStake
  Bannable = {}
  MaxTime = 0
  LastTimeout = 1
SPECIFICATION CustodySpec
INVARIANTS
  DelistingStrandsNothing
CHECK_DEADLOCK FALSE
