---------------------------- MODULE TradingCosts ----------------------------
(***************************************************************************)
(* calculateOrderCosts of src/src/backtest/simulation/trading-costs.ts,    *)
(* which the paper broker and the backtest both charge: brokerage per      *)
(* order, STT and exchange charges as one percentage of the turnover, and  *)
(* slippage.  Rates are whole percents, products are rounded down.         *)
(***************************************************************************)
EXTENDS Integers

CONSTANTS
  IncludeCosts,     \* config.includeCosts
  BrokeragePerOrder,
  SlippagePct,      \* slippage, in percent of the price
  ChargePct         \* STT and exchange charges, in percent of the turnover

ASSUME CostAssumption ==
  /\ IncludeCosts \in BOOLEAN
  /\ BrokeragePerOrder \in Nat
  /\ SlippagePct \in 0..100
  /\ ChargePct \in Nat

ExecutionPrice(side, price) ==
  IF ~IncludeCosts THEN price
  ELSE IF side = "BUY" THEN (price * (100 + SlippagePct)) \div 100
                       ELSE (price * (100 - SlippagePct)) \div 100

Distance(a, b) == IF a >= b THEN a - b ELSE b - a

(* The slippage is in the execution price and in the fees. *)
TotalFees(side, price, quantity) ==
  IF ~IncludeCosts THEN 0
  ELSE LET executionPrice == ExecutionPrice(side, price)
       IN  BrokeragePerOrder
           + (executionPrice * quantity * ChargePct) \div 100
           + Distance(executionPrice, price) * quantity

=============================================================================
