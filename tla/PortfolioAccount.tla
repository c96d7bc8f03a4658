------------------------- MODULE PortfolioAccount --------------------------
(***************************************************************************)
(* An account whose methods are called in any order with any inputs, the   *)
(* boundary values they reject included: the callers are the paper broker, *)
(* the backtest execution service and the forward-test engine, and none of *)
(* them orders its calls in a way the engine could rely on.                *)
(***************************************************************************)
EXTENDS PortfolioEngine

CONSTANTS
  Quantities, Prices, Fees, Credits, MaxLosses, CloseCosts, Marks,
  MaxLedger         \* bound: number of ledger rows explored

ASSUME InputAssumption ==
  /\ Quantities \subseteq Int
  /\ Prices \subseteq Int
  /\ Fees \subseteq Int
  /\ Credits \subseteq Int
  /\ MaxLosses \subseteq Int
  /\ CloseCosts \subseteq Int
  /\ Marks \subseteq Int
  /\ MaxLedger \in Nat

LedgerHasRoom == Len(ledger) < MaxLedger

Trade ==
  \/ \E s \in Strategies, i \in Instruments, q \in Quantities,
        p \in Prices, f \in Fees : OpenEquityPosition(s, i, q, p, f)
  \/ \E id \in PositionIds, q \in Quantities, p \in Prices, f \in Fees :
        CloseEquityPosition(id, q, p, f)
  \/ \E s \in Strategies, i \in Instruments, leg \in LegGroups,
        q \in Quantities, c \in Credits, m \in MaxLosses :
        OpenDefinedRiskPosition(s, i, leg, q, c, m)
  \/ \E id \in PositionIds, c \in CloseCosts : CloseDefinedRiskPosition(id, c)

Next ==
  \/ LedgerHasRoom /\ Trade
  \/ \E id \in PositionIds, m \in Marks : MarkToMarket(id, m)

Spec == PortfolioInit /\ [][Next]_portfolioVars

=============================================================================
