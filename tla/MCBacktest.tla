----------------------------- MODULE MCBacktest -----------------------------
(***************************************************************************)
(* Instances of Backtest: every built-in strategy and a user's, a risk     *)
(* configuration like the backtest's default and a strict one, and chains  *)
(* that price an entry, a profit, a loss of exactly the stop, an inverted  *)
(* spread and nothing.                                                     *)
(***************************************************************************)
EXTENDS Backtest

Q(strike, premium, delta) ==
  [strike |-> strike, premium |-> premium, delta |-> delta]

(* Puts at 18 and 12, calls at 30 and 36: the spreads are 6 wide. *)
Chain(shortPut, longPut, shortCall, longCall, expiry) ==
  [puts |-> <<Q(18, shortPut, 15), Q(12, longPut, 5)>>,
   calls |-> <<Q(30, shortCall, 15), Q(36, longCall, 5)>>,
   expiryDate |-> expiry]

SomeChains ==
  { Chain(4, 2, 4, 2, 1),      \* credit 2, 2 and 4, a call at 4
    Chain(2, 1, 2, 1, 1),      \* half of it: the profit target
    Chain(6, 2, 8, 4, 1),      \* twice of it: the stop loss
    Chain(1, 3, 4, 2, 2),      \* the put spread is inverted
    [puts |-> <<Q(10, 1, 15)>>, calls |-> <<>>, expiryDate |-> 1] }

Permissive == [maxRiskPerTradePct |-> 99, hardStopRiskPerTradePct |-> 100,
               maxPortfolioDrawdownPct |-> 100]

Strict == [maxRiskPerTradePct |-> 20, hardStopRiskPerTradePct |-> 40,
           maxPortfolioDrawdownPct |-> 15]

BothConfigs == {Permissive, Strict}

BuyShares(quantity) ==
  [kind |-> "OPEN_EQUITY", quantity |-> quantity, price |-> 10]

SellShares(quantity) ==
  [kind |-> "CLOSE_EQUITY", quantity |-> quantity, price |-> 12,
   positionId |-> <<"mine", "nifty", "default">>]

OpenSpread(metadata) ==
  [kind |-> "OPEN_DEFINED_RISK", leg |-> {"short-call"}, quantity |-> 2,
   entryCredit |-> 4, maxLoss |-> 6, metadata |-> metadata]

CloseSpread(cost) ==
  [kind |-> "CLOSE_DEFINED_RISK", leg |-> {"short-call"}, closeCost |-> cost]

MySignals ==
  { <<BuyShares(2), OpenSpread({[spreadKind |-> "COVERED_CALL",
                                 callStrike |-> 30]})>>,
    <<OpenSpread({})>>,
    <<SellShares({1})>>,
    <<CloseSpread(3), SellShares({})>> }

=============================================================================
