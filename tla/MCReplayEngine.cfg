SPECIFICATION Spec
CONSTANTS
  Types = {"MARKET", "OPTION_CHAIN"}
  MaxEntries = 3
  MaxDepth = 4
  MaxPublished = 2
  Inputs <- SomeInputs
  Times = {1}
  MaxSubscribers = 2
INVARIANTS
  CalledOnceInOrder
  SubscribedAreCalled
  ReplayedInOrder
  ReplaysLeaveNoSubscription
