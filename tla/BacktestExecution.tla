------------------------- MODULE BacktestExecution -------------------------
(***************************************************************************)
(* backtest-execution.service.ts and backtest-trade-ledger.ts of           *)
(* src/src/backtest/execution: the steps of a signal are checked by the    *)
(* risk engine and carried out on the account of the backtest.  A step     *)
(* that risk turns down, or that closes what is not open, is passed over   *)
(* in silence; one that throws ends the whole backtest.                    *)
(*                                                                         *)
(* Each of the four methods is an action here, defined for a step that     *)
(* does not throw; StepReturns says when that is.                          *)
(***************************************************************************)
EXTENDS PortfolioEngine, TradingCosts, RiskEngine

VARIABLES
  riskConfig,
  peakEquity,
  positionMetadata,  \* position id -> how to mark it, the Map of the code
  tradeLedger        \* the trades of the report

executionVars == <<peakEquity, positionMetadata, tradeLedger>>

ExecutionInit ==
  /\ PortfolioInit
  /\ peakEquity = InitialCapital
  /\ positionMetadata = [id \in {} |-> {}]
  /\ tradeLedger = <<>>

RecordTrade(side, quantity, price, fees, realizedPnl) ==
  tradeLedger' = Append(tradeLedger,
    [side |-> side, quantity |-> quantity, price |-> price,
     totalFees |-> fees, realizedPnl |-> realizedPnl])

-----------------------------------------------------------------------------
(* The four kinds of step.  A missing leg group is the default one. *)

SpreadId(signal, step) ==
  CreatePositionId(signal.strategyName, signal.instrumentId,
                   IF step.leg = {} THEN DefaultLeg
                                    ELSE CHOOSE leg \in step.leg : TRUE)

CanValidateStep(amount) == CanValidate(Equity, peakEquity, amount)

PassesRisk(amount) == TradeAllowed(riskConfig, Equity, peakEquity, amount)

Skip == UNCHANGED <<portfolioVars, positionMetadata, tradeLedger>>

OpenDefinedRisk(signal, step) ==
  LET amount == step.maxLoss * step.quantity
      id     == SpreadId(signal, step)
  IN  \/ ~PassesRisk(amount) /\ Skip
      \/ /\ PassesRisk(amount)
         /\ OpenDefinedRiskPosition(id[1], id[2], id[3], step.quantity,
                                    step.entryCredit, step.maxLoss)
         /\ positionMetadata' =
              [x \in DOMAIN positionMetadata
                     \cup (IF step.metadata = {} THEN {} ELSE {id}) |->
                 IF x = id /\ step.metadata # {}
                 THEN CHOOSE metadata \in step.metadata : TRUE
                 ELSE positionMetadata[x]]
         /\ RecordTrade("BUY", step.quantity, step.entryCredit,
                        TotalFees("SELL", step.entryCredit, step.quantity), 0)

CloseDefinedRisk(signal, step) ==
  LET id == SpreadId(signal, step)
  IN  \/ ~IsOpen(id) /\ Skip
      \/ /\ CloseDefinedRiskPosition(id, step.closeCost)
         /\ positionMetadata' =
              [x \in DOMAIN positionMetadata \ {id} |-> positionMetadata[x]]
         /\ RecordTrade("SELL", openPositions[id].quantity, step.closeCost,
                        TotalFees("BUY", step.closeCost,
                                  openPositions[id].quantity),
                        DefinedRiskRealizedPnl(id, step.closeCost))

(* Mutation: the trade is recorded before risk has been asked. *)
OpenEquityRecordedFirst(signal, step) ==
  LET fees == TotalFees("BUY", step.price, step.quantity)
  IN  /\ \/ /\ ~PassesRisk(step.price * step.quantity)
            /\ UNCHANGED portfolioVars
         \/ /\ PassesRisk(step.price * step.quantity)
            /\ OpenEquityPosition(signal.strategyName, signal.instrumentId,
                                  step.quantity, step.price, fees)
      /\ RecordTrade("BUY", step.quantity, step.price, fees, 0)
      /\ UNCHANGED positionMetadata

OpenEquity(signal, step) ==
  LET fees == TotalFees("BUY", step.price, step.quantity)
  IN  \/ ~PassesRisk(step.price * step.quantity) /\ Skip
      \/ /\ PassesRisk(step.price * step.quantity)
         /\ OpenEquityPosition(signal.strategyName, signal.instrumentId,
                               step.quantity, step.price, fees)
         /\ RecordTrade("BUY", step.quantity, step.price, fees, 0)
         /\ UNCHANGED positionMetadata

(* step.quantity ?? position.quantity *)
QuantityToSell(step) ==
  IF step.quantity = {} THEN openPositions[step.positionId].quantity
                        ELSE CHOOSE quantity \in step.quantity : TRUE

CloseEquity(step) ==
  LET id       == step.positionId
      quantity == QuantityToSell(step)
      fees     == TotalFees("SELL", step.price, quantity)
  IN  \/ ~IsOpenAs(id, "EQUITY") /\ Skip
      \/ /\ CloseEquityPosition(id, quantity, step.price, fees)
         /\ RecordTrade("SELL", quantity, step.price, fees,
                        EquityRealizedPnl(id, quantity, step.price, fees))
         /\ UNCHANGED positionMetadata

(* executeStep returns; otherwise it throws before it changes anything. *)
StepReturns(signal, step) ==
  CASE step.kind = "OPEN_DEFINED_RISK" ->
         LET amount == step.maxLoss * step.quantity
         IN  /\ CanValidateStep(amount)
             /\ PassesRisk(amount) =>
                  OpenDefinedRiskAllowed(SpreadId(signal, step), step.quantity,
                                         step.entryCredit, step.maxLoss)
    [] step.kind = "CLOSE_DEFINED_RISK" ->
         IsOpen(SpreadId(signal, step)) =>
           CloseDefinedRiskAllowed(SpreadId(signal, step), step.closeCost)
    [] step.kind = "OPEN_EQUITY" ->
         LET amount == step.price * step.quantity
         IN  /\ CanValidateStep(amount)
             /\ PassesRisk(amount) =>
                  OpenEquityAllowed(
                    CreatePositionId(signal.strategyName, signal.instrumentId,
                                     DefaultLeg),
                    step.quantity, step.price,
                    TotalFees("BUY", step.price, step.quantity))
    [] step.kind = "CLOSE_EQUITY" ->
         IsOpenAs(step.positionId, "EQUITY") =>
           CloseEquityAllowed(step.positionId, QuantityToSell(step))

Carry(signal, step) ==
  \/ step.kind = "OPEN_DEFINED_RISK" /\ OpenDefinedRisk(signal, step)
  \/ step.kind = "CLOSE_DEFINED_RISK" /\ CloseDefinedRisk(signal, step)
  \/ step.kind = "OPEN_EQUITY" /\ OpenEquity(signal, step)
  \/ step.kind = "CLOSE_EQUITY" /\ CloseEquity(step)

(* The peak is refreshed after every step, one passed over included. *)
ExecuteStep(signal, step) ==
  /\ StepReturns(signal, step)
  /\ Carry(signal, step)
  /\ peakEquity' = UpdatePeakEquity(peakEquity, Equity')
  /\ UNCHANGED riskConfig

-----------------------------------------------------------------------------
(* Properties *)

(* Does this trade report this row of the account's ledger?  Shares pay    *)
(* the reported fees; spreads do not.                                      *)
TradeReportsRow(trade, row) ==
  /\ trade.quantity = row.quantity
  /\ trade.price = row.price
  /\ trade.realizedPnl = row.realizedPnl
  /\ row.cashDelta =
       CASE row.type = "EQUITY_BUY" ->
              -(trade.price * trade.quantity + trade.totalFees)
         [] row.type = "EQUITY_SELL" ->
              trade.price * trade.quantity - trade.totalFees
         [] row.type = "CREDIT_SPREAD_OPEN" -> trade.price * trade.quantity
         [] row.type = "CREDIT_SPREAD_CLOSE" -> -(trade.price * trade.quantity)
  /\ trade.side = "BUY" <=> row.type \in {"EQUITY_BUY", "CREDIT_SPREAD_OPEN"}

(* The trades of the report are the rows of the account's ledger, one for  *)
(* one: no trade is reported for a step that risk turned down, that closed *)
(* nothing or that threw, and none is missing.                             *)
TradesReportLedger ==
  /\ Len(tradeLedger) = Len(ledger)
  /\ \A n \in DOMAIN ledger : TradeReportsRow(tradeLedger[n], ledger[n])

=============================================================================
