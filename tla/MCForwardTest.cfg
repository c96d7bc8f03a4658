SPECIFICATION Spec
CONSTANTS
  Strategies = {"bull-put-spread", "bull-put-spread-v1", "iron-condor",
                "covered-call", "mine", "others"}
  TestedStrategies = {"bull-put-spread", "bull-put-spread-v1", "iron-condor",
                      "covered-call", "mine"}
  Instruments = {"nifty"}
  LegGroups = {"default", "short-call"}
  DefaultLeg = "default"
  ShortCallLeg = "short-call"
  InitialCapital = 120
  IncludeCosts = TRUE
  BrokeragePerOrder = 1
  SlippagePct = 10
  ChargePct = 5
  ProfitTargetPct = 50
  StopLossMultiple = 2
  SizingPct = 15
  LotSize = 2
  CustomStrategy = "mine"
  CustomSignals <- MySignals
  Feeds <- SomeFeeds
  ClientRequests <- OthersRequests
  MaxOrders = 7
  MaxClientOrders = 1
  MaxSnapshots = 3
  MaxRuns = 3
INVARIANTS
  ExecutionsAreFills
  ResultsAddUp
  BeliefIsTheAccounts
  CallsStayCovered
  VarianceIsCosts
CHECK_DEADLOCK FALSE
