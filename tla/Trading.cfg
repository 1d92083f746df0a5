CONSTANTS
  r1 = r1 r2 = r2 s1 = s1 s2 = s2 d1 = d1 d2 = d2 a1 = a1 a2 = a2 NoTx = NoTx
  m = m b = b x = x None = None
  Reservations = {r1, r2}
  Settlements = {s1, s2}
  Disputes = {}
  Panel = {a1}
  REQUIRED_ARBITRATORS = 1
  Amounts = {1, 2}
  Liquidity = {2}
  OfferedTerms <- ChangingTerms
SPECIFICATION TradingSpec
INVARIANTS LiquidityConserved ShownPriceBinds PagesMissNothing AnswersAreProven
PROPERTIES RecordsAreSigned LocksAreGivenUp ViewsAgree BridgeDelivers
CHECK_DEADLOCK FALSE
