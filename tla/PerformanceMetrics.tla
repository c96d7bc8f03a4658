------------------------- MODULE PerformanceMetrics -------------------------
(***************************************************************************)
(* The figures of a backtest's report and of its analytics:                *)
(* performance-metrics.ts and trade-statistics.calculator.ts of            *)
(* src/src/analytics and backtest-performance-metrics.ts of                *)
(* src/src/backtest/report.  A trade is a record with side, realizedPnl    *)
(* and totalFees, a point of an equity curve one with equity, a closed     *)
(* position one with realizedPnl.  Ratios are in ten-thousandths, rounded  *)
(* down.  CAGR, the ratios of Sharpe and Sortino and the drawdown are left *)
(* out.                                                                    *)
(***************************************************************************)
EXTENDS Integers, FiniteSets, SequencesExt

(* numerator / denominator *)
Ratio(numerator, denominator) == (10000 * numerator) \div denominator

SumOf(numbers) == FoldSeq(LAMBDA n, total : n + total, 0, numbers)

PnlsOf(records) == [n \in DOMAIN records |-> records[n].realizedPnl]

Positive(numbers) == SelectSeq(numbers, LAMBDA n : n > 0)
Negative(numbers) == SelectSeq(numbers, LAMBDA n : n < 0)

-----------------------------------------------------------------------------
(* performance-metrics.ts *)

ClosingTrades(trades) == SelectSeq(trades, LAMBDA trade : trade.side = "SELL")

GrossProfit(pnls) == SumOf(Positive(pnls))
GrossLoss(pnls)   == -SumOf(Negative(pnls))

(* Numbers of JavaScript, as far as a profit factor needs them. *)
Finite(number) == [isFinite |-> TRUE, value |-> number]
Infinity       == [isFinite |-> FALSE]

CalculateProfitFactor(trades) ==
  LET pnls == PnlsOf(ClosingTrades(trades))
  IN  IF GrossLoss(pnls) # 0
      THEN Finite(Ratio(GrossProfit(pnls), GrossLoss(pnls)))
      ELSE IF GrossProfit(pnls) > 0 THEN Infinity ELSE Finite(0)

(* Mutation: all trades are counted, those that open too. *)
CalculateWinRateOfAll(trades) ==
  IF trades = <<>> THEN 0
  ELSE Ratio(Len(Positive(PnlsOf(ClosingTrades(trades)))), Len(trades))

CalculateWinRate(trades) ==
  LET pnls == PnlsOf(ClosingTrades(trades))
  IN  IF pnls = <<>> THEN 0 ELSE Ratio(Len(Positive(pnls)), Len(pnls))

-----------------------------------------------------------------------------
(* backtest-performance-metrics.ts *)

FinalCapital(equityCurve, initialCapital) ==
  IF equityCurve = <<>> THEN initialCapital
                        ELSE equityCurve[Len(equityCurve)].equity

CalculateBacktestPerformanceMetrics(equityCurve, trades, initialCapital) ==
  [profitFactor |-> CalculateProfitFactor(trades),
   winRate      |-> CalculateWinRate(trades),
   totalTrades  |-> Len(ClosingTrades(trades)),
   finalCapital |-> FinalCapital(equityCurve, initialCapital)]

-----------------------------------------------------------------------------
(* trade-statistics.calculator.ts.  The profits are those of the closed    *)
(* positions, the number of trades that of the trades which sell.          *)

(* A number or null: a set of at most one. *)
FiniteProfitFactor(grossProfit, grossLoss) ==
  IF grossLoss # 0 THEN {Ratio(grossProfit, grossLoss)}
  ELSE IF grossProfit > 0 THEN {} ELSE {0}

TradeStatistics(trades, closedPositions) ==
  LET closing == Len(ClosingTrades(trades))
      pnls    == IF closedPositions # <<>> THEN PnlsOf(closedPositions)
                                           ELSE [n \in 1..closing |-> 0]
      total   == IF closing > 0 THEN closing ELSE Len(pnls)
      winning == Len(Positive(pnls))
  IN  [totalTrades     |-> total,
       winningTrades   |-> winning,
       losingTrades    |-> Len(Negative(pnls)),
       breakEvenTrades |-> Len(pnls) - winning - Len(Negative(pnls)),
       winRate         |-> IF total > 0 THEN Ratio(winning, total) ELSE 0,
       netRealizedPnl  |-> SumOf(pnls),
       profitFactor    |-> FiniteProfitFactor(GrossProfit(pnls), GrossLoss(pnls)),
       totalFees       |->
         SumOf([n \in DOMAIN trades |-> trades[n].totalFees])]

-----------------------------------------------------------------------------
(* backtest-analytics.service.ts, over what the database holds of a run.   *)
(* A column that may be null is a set of at most one.                      *)

(* values ?? default *)
OrElse(values, default) ==
  IF values = {} THEN default ELSE CHOOSE value \in values : TRUE

(* Closed positions stand for trades; trades alone have no profit. *)
ToAnalyticsTrades(trades, closedPositions) ==
  IF closedPositions # <<>>
  THEN [n \in DOMAIN closedPositions |->
          [side |-> "SELL", realizedPnl |-> closedPositions[n].realizedPnl]]
  ELSE [n \in DOMAIN trades |->
          [side |-> trades[n].side, realizedPnl |-> 0]]

(* Number.isFinite(number) ? number : null *)
FiniteOrNull(number) == IF number.isFinite THEN {number.value} ELSE {}

ResolvePerformanceMetrics(run, trades, snapshots, closedPositions) ==
  IF snapshots # <<>>
  THEN [CalculateBacktestPerformanceMetrics(snapshots,
          ToAnalyticsTrades(trades, closedPositions), run.initialCapital)
        EXCEPT !.profitFactor = FiniteOrNull(@)]
  ELSE [profitFactor |-> run.profitFactor,
        winRate      |-> OrElse(run.winRate, 0),
        totalTrades  |-> OrElse(run.totalTrades, 0),
        finalCapital |-> OrElse(run.finalCapital, run.initialCapital)]

=============================================================================
