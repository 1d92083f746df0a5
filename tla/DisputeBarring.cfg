CONSTANTS
  a1 = a1 a2 = a2 a3 = a3 a4 = a4 a5 = a5 a6 = a6
  Arbitrators <- SixArbitrators
  Votes = {"BuyerWins", "MerchantWins"}
  Restakers = {}
  Powers = {1}
  MinStake = 1
  Tickets = {0}
  SortitionBps = 0
  CommitWindows = {1}
  RevealWindows = {1}
  Deposits = {1}
  PoolSizes = {1, 3, 6}
  Custodies <- StablecoinTrade
  StoredTreasuries = {}
  MIN_ARBITRATORS = 2
  MAX_ARBITRATORS = 2
  MAX_DISPUTE_ROUNDS = 3
  MAX_BARRED_ARBITRATORS = 4
SPECIFICATION CaseSpec
SYMMETRY Symmetry
INVARIANTS BarredNeverSit
PROPERTIES UndecidedRoundsMoveOn
CHECK_DEADLOCK FALSE
