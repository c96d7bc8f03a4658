SPECIFICATION Spec
CONSTANTS
  Placements <- TwoPlacements
  InstrumentOf <- OneInstrument
  StrategyOf <- TwoStrategies
  Cancels = {"cancel"}
  MaxAttempts = 2
  CodeLikeIds = {1}
INVARIANT UnknownOrdersAreNotFound
CHECK_DEADLOCK FALSE
