CONSTANTS
  w1 = w1 w2 = w2 a1 = a1 a2 = a2 a3 = a3 None = None
  Wallets = {w1, w2}
  Roles = {"Merchant"}
  Amounts = {1, 2}
  Configs <- StakeConfigs
  Periods = {0}
  Legacy <- MerchantLegacy
  LegacyAmount = 2
  Supply = 2
  Bannable = {w2}
  MaxOwed = 2
  MaxReward = 1
  MaxTime = 3
  GovWallets <- Voters
  Ids = {1, 2}
  GovernanceScenes <- Situations
  Holdings = 2
  LastCreation = 1
  HorizonTime = 4
  MIN_VOTING_PERIOD_SECS = 1
  MAX_VOTE_LOCK_SECS = 2
  FIRST_YEAR_SECS = 2
  LastRelease = 3
SPECIFICATION PromisesSpec
INVARIANTS StakesAccounted DepositsBacked
PROPERTIES
  AgeClockHonest RecoveryTakesOnlyDebt ExitNeverTrapped CaseResolves BansAreVoted BanActionsTakeEffect
CHECK_DEADLOCK FALSE
