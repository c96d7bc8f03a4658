SPECIFICATION Spec
CONSTANTS
  Placements <- TwoPlacements
  InstrumentOf <- OneInstrument
  StrategyOf <- TwoStrategies
  Cancels = {"cancel"}
  MaxAttempts = 2
  CodeLikeIds = {}
INVARIANTS
  ToldOrdersAreRegistered
  StatusFollowsExchange
PROPERTIES
  FilledForGood
  CallsEnd
CHECK_DEADLOCK FALSE
