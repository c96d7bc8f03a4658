SPECIFICATION Spec
CONSTANTS
  Strategies = {covered}
  Instruments = {nifty}
  LegGroups = {default, week}
  DefaultLeg = default
  InitialCapital = 200
  Quantities <- MCQuantities
  Prices <- MCPrices
  Fees <- MCFees
  Credits <- MCCredits
  MaxLosses <- MCMaxLosses
  CloseCosts <- MCCloseCosts
  Marks <- MCMarks
  MaxLedger = 4
INVARIANTS
  PortfolioTypeOK
  LedgerReplaysCash
  LedgerReplaysPositions
  OverdraftOnlyFromSaleFees
  BooksBalance
  ValuationAgreesWithEngine
