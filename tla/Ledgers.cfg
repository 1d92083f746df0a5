CONSTANTS
  a1 = a1 a2 = a2 a3 = a3 b1 = b1 m1 = m1 r1 = r1 s1 = s1 d1 = d1 d2 = d2
  NoTx = NoTx NoSale = NoSale
  Arbitrators = {a1, a2, a3}
  Votes = {"BuyerWins", "MerchantWins"}
  Restakers = {a1}
  Powers = {0, 1, 2}
  MinStake = 1
  Tickets = {0}
  SortitionBps = 0
  CommitWindows = {1}
  RevealWindows = {1}
  Deposits = {0, 5}
  PoolSizes = {2}
  Custodies <- StablecoinTrade
  StoredTreasuries = {}
  MIN_ARBITRATORS = 2
  MAX_ARBITRATORS = 3
  MAX_DISPUTE_ROUNDS = 2
  MAX_BARRED_ARBITRATORS = 3
  Reservations = {r1}
  Settlements = {s1}
  Disputes = {d1, d2}
  Panel = {a1}
  REQUIRED_ARBITRATORS = 1
  Amounts = {1}
  Liquidity = {1}
  OfferedTerms <- OneTrade
  Sales = {1}
  Buyers = {b1, m1}
  Banned = {m1}
  SaleParams <- SomeSales
  DecimalsGap = 0
  Bucket = 6
  Funds = 4
  Payments = {1, 3}
  SaleHorizon = 3
SPECIFICATION LedgersSpec
INVARIANTS VerdictIsQuorate RewardsAddUp SaleAccounted
PROPERTIES ImplementsArbitration CasesGovernSettlements
CHECK_DEADLOCK FALSE
