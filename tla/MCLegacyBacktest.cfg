SPECIFICATION Spec
CONSTANTS
  IncludeCosts = TRUE
  BrokeragePerOrder = 1
  SlippagePct = 10
  ChargePct = 5
  ProfitTargetPct = 50
  StopLossMultiple = 2
  SizingPct = 15
  LotSize = 2
  ShortCallLeg = "short-call"
  InitialCapital = 15000
  QuantityPerTrade = 2
  AverageUnit = 12
  CandleLists <- SomeCandleLists
  Spreads <- SomeSpreads
  MaxRuns = 2
  MaxTrades = 6
INVARIANTS
  CashBalancesWithTrades
  RunHoldsWhatStrategyManages
  CalculatorsAgree
  ConversionsAgree
CHECK_DEADLOCK FALSE
