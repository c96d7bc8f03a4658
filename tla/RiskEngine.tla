----------------------------- MODULE RiskEngine -----------------------------
(***************************************************************************)
(* src/src/risk/engine/risk-engine.ts: may a new trade be made?  Ratios    *)
(* are compared by cross-multiplying and limits are whole percents.        *)
(***************************************************************************)
EXTENDS Integers

(* The constructor refuses other limits. *)
RiskConfig ==
  {c \in [maxRiskPerTradePct : Nat, hardStopRiskPerTradePct : Nat,
          maxPortfolioDrawdownPct : Nat] :
     /\ c.maxRiskPerTradePct \in 1..100
     /\ c.hardStopRiskPerTradePct > c.maxRiskPerTradePct
     /\ c.maxPortfolioDrawdownPct \in 1..100}

(* Outside of this validateNewTrade throws. *)
CanValidate(equity, peakEquity, tradeRiskAmount) ==
  /\ tradeRiskAmount >= 0
  /\ equity > 0
  /\ peakEquity > 0

TradeRiskExceeds(pct, tradeRiskAmount, equity) ==
  tradeRiskAmount * 100 > pct * equity

(* calculateDrawdownPct is 0 above the peak, and limits are positive. *)
DrawdownReaches(pct, peakEquity, equity) ==
  /\ equity <= peakEquity
  /\ (peakEquity - equity) * 100 >= pct * peakEquity

Violations(config, equity, peakEquity, tradeRiskAmount) ==
  { code \in {"HARD_STOP_RISK", "MAX_RISK_PER_TRADE", "PORTFOLIO_DRAWDOWN"} :
      CASE code = "HARD_STOP_RISK" ->
             TradeRiskExceeds(config.hardStopRiskPerTradePct,
                              tradeRiskAmount, equity)
        [] code = "MAX_RISK_PER_TRADE" ->
             /\ ~TradeRiskExceeds(config.hardStopRiskPerTradePct,
                                  tradeRiskAmount, equity)
             /\ TradeRiskExceeds(config.maxRiskPerTradePct,
                                 tradeRiskAmount, equity)
        [] code = "PORTFOLIO_DRAWDOWN" ->
             DrawdownReaches(config.maxPortfolioDrawdownPct,
                             peakEquity, equity) }

TradeAllowed(config, equity, peakEquity, tradeRiskAmount) ==
  Violations(config, equity, peakEquity, tradeRiskAmount) = {}

(* Mutation: the peak follows the equity down. *)
UpdatePeakToLatest(currentPeak, currentEquity) == currentEquity

UpdatePeakEquity(currentPeak, currentEquity) ==
  IF currentEquity > currentPeak THEN currentEquity ELSE currentPeak

=============================================================================
