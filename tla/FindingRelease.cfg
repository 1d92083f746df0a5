CONSTANTS
  w1 = w1 w2 = w2 a1 = a1 a2 = a2 a3 = a3 None = None
  Wallets = {w1}
  Roles = {"Merchant"}
  Amounts = {1, 2}
  Configs <- ShorterPeriod
  Periods = {0, 1}
  Legacy <- NoLegacy
  LegacyAmount = 2
  Supply = 3
  Bannable = {}
  MaxOwed = 1
  MaxReward = 1
  MaxTime = 3
  GovWallets <- Voters
  Ids = {1, 2}
  GovernanceScenes <- Situations
  Holdings = 2
  LastCreation = 1
  HorizonTime = 4
  MIN_VOTING_PERIOD_SECS = 1
  MAX_VOTE_LOCK_SECS = 2
  FIRST_YEAR_SECS = 2
  LastRelease = 5
SPECIFICATION StakesSpec
PROPERTIES ReleaseNeverEarlier
CHECK_DEADLOCK FALSE
