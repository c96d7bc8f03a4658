SPECIFICATION Spec
CONSTANTS
  Strategies = {"trend"}
  Instruments = {"nifty"}
  LegGroups = {"default", "week"}
  DefaultLeg = "default"
  InitialCapital = 34
  Requests <- MixedRequests
  QuoteBatches <- OneOrTwoQuotes
  Marks = {11}
  IncludeCosts = FALSE
  BrokeragePerOrder = 1
  SlippagePct = 10
  ChargePct = 5
  MaxOrders = 4
PROPERTY CrossedOrdersFill
