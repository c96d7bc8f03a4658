SPECIFICATION Spec
CONSTANTS
  Strategies = {"trend"}
  Instruments = {"nifty"}
  LegGroups = {"default", "week"}
  DefaultLeg = "default"
  InitialCapital = 34
  Requests <- MixedRequests
  QuoteBatches <- OneOrTwoQuotes
  Marks = {11}
  IncludeCosts = TRUE
  BrokeragePerOrder = 1
  SlippagePct = 10
  ChargePct = 5
  MaxOrders = 4
INVARIANTS
  PendingRequestsArePendingOrders
  StatusTellsFills
  FillsReportLedger
  RealizedTotalIsLedgers
PROPERTIES
  QuoteFillsWhatItMeets
  ImplementsLifecycle
