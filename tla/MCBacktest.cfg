SPECIFICATION Spec
CONSTANTS
  Strategies = {"bull-put-spread", "bull-put-spread-v1", "iron-condor",
                "covered-call", "mine"}
  Instruments = {"nifty"}
  LegGroups = {"default", "short-call"}
  DefaultLeg = "default"
  ShortCallLeg = "short-call"
  InitialCapital = 120
  IncludeCosts = TRUE
  BrokeragePerOrder = 1
  SlippagePct = 10
  ChargePct = 5
  ProfitTargetPct = 50
  StopLossMultiple = 2
  SizingPct = 15
  LotSize = 2
  CustomStrategy = "mine"
  CustomSignals <- MySignals
  RiskConfigs <- BothConfigs
  Prices = {20, 24}
  Chains <- SomeChains
  MaxTime = 1
  MaxEvents = 5
INVARIANTS
  PeakSeesFlatAccounts
  TradesReportLedger
  OpenSpreadIsManaged
  ExitsAreTaken
  CurveAgreesWithAccount
CHECK_DEADLOCK FALSE
