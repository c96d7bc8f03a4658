-------------------------- MODULE PortfolioEngine --------------------------
(***************************************************************************)
(* The book of one account: src/src/portfolio/engine/portfolio-engine.ts   *)
(* with its margin calculator and position types.  Cash, the map of open   *)
(* positions, the list of closed ones and the append-only ledger change    *)
(* only through five synchronous methods; a method that throws changes     *)
(* nothing, so each action below is a method's successful return and its   *)
(* guard, ...Allowed, is the conjunction of the method's checks.  The      *)
(* modules that own an account (PortfolioAccount, PaperBroker) extend this *)
(* one and say who calls the methods with what.                            *)
(*                                                                         *)
(* Money is counted in whole units of the smallest price step; the code    *)
(* uses doubles.  The one inexact computation, the average price of an     *)
(* equity position, is rounded down to a unit here.                        *)
(***************************************************************************)
EXTENDS FiniteSetsExt, RunningTotals

CONSTANTS
  Strategies, Instruments,
  LegGroups,        \* leg group ids a defined-risk position can carry
  DefaultLeg,       \* the leg group of every equity position
  InitialCapital

ASSUME LegAssumption     == DefaultLeg \in LegGroups
ASSUME CapitalAssumption == InitialCapital \in Nat \ {0}

VARIABLES
  cash,
  openPositions,    \* position id -> position, the Map of the code
  closedPositions,  \* sequence of closed position records
  ledger            \* sequence of ledger rows

portfolioVars == <<cash, openPositions, closedPositions, ledger>>

-----------------------------------------------------------------------------
(* Positions and ledger rows *)

(* Ids are strings strategy:instrument:leg in the code, triples here. *)
CreatePositionId(strategy, instrument, leg) == <<strategy, instrument, leg>>

PositionIds == Strategies \X Instruments \X LegGroups

Positive == Nat \ {0}

EquityPosition ==
  [kind : {"EQUITY"}, quantity : Positive, averagePrice : Int,
   markPrice : Int]

DefinedRiskPosition ==
  [kind : {"DEFINED_RISK"}, quantity : Positive, entryCredit : Positive,
   maxLoss : Positive, markPrice : Int]

Position == EquityPosition \cup DefinedRiskPosition

LedgerRow ==
  [type : {"EQUITY_BUY", "EQUITY_SELL",
           "CREDIT_SPREAD_OPEN", "CREDIT_SPREAD_CLOSE"},
   positionId : PositionIds, cashDelta : Int, marginDelta : Int,
   realizedPnl : Int, quantity : Positive, price : Int]

IsOpen(id) == id \in DOMAIN openPositions

IsOpenAs(id, kind) == IsOpen(id) /\ openPositions[id].kind = kind

(* Mutation: a sale of the whole position leaves an empty one open. *)
StaysOpenWhenEmpty(remaining) == remaining >= 0

(* Does a sale that leaves this much leave the position open? *)
StaysOpen(remaining) == remaining > 0

(* Map.set and Map.delete on the open positions. *)
WithPosition(id, position) ==
  [x \in DOMAIN openPositions \cup {id} |->
     IF x = id THEN position ELSE openPositions[x]]

WithoutPosition(id) ==
  [x \in DOMAIN openPositions \ {id} |-> openPositions[x]]

-----------------------------------------------------------------------------
(* Margin and valuation *)

CalculateDefinedRiskMargin(maxLoss, quantity) ==
  IF maxLoss <= 0 \/ quantity <= 0 THEN 0 ELSE maxLoss * quantity

CalculateEquityMargin(markPrice, quantity) ==
  IF markPrice <= 0 \/ quantity <= 0 THEN 0 ELSE markPrice * quantity

CalculatePositionMargin(position) ==
  IF position.kind = "DEFINED_RISK"
  THEN CalculateDefinedRiskMargin(position.maxLoss, position.quantity)
  ELSE CalculateEquityMargin(position.markPrice, position.quantity)

CalculatePositionUnrealizedPnl(position) ==
  IF position.kind = "DEFINED_RISK"
  THEN (position.entryCredit - position.markPrice) * position.quantity
  ELSE (position.markPrice - position.averagePrice) * position.quantity

SumOverPositions(Value(_), ids) ==
  MapThenSumSet(LAMBDA id : Value(openPositions[id]), ids)

MarginUsed == SumOverPositions(CalculatePositionMargin, DOMAIN openPositions)

MarginAvailable == cash - MarginUsed

UnrealizedPnl ==
  SumOverPositions(CalculatePositionUnrealizedPnl, DOMAIN openPositions)

(* snapshot.equity *)
Equity == cash + UnrealizedPnl

CanOpenDefinedRiskPosition(maxLoss, quantity) ==
  MarginAvailable >= CalculateDefinedRiskMargin(maxLoss, quantity)

(* Mutation: shares are bought on the reported equity instead of the cash. *)
CanOpenOnEquity(totalCost) == Equity >= totalCost

CanOpenEquityPosition(totalCost) == cash >= totalCost

-----------------------------------------------------------------------------
(* Operations *)

PortfolioInit ==
  /\ cash = InitialCapital
  /\ openPositions = [id \in {} |-> {}]
  /\ closedPositions = <<>>
  /\ ledger = <<>>

(* Mutation: the ledger shows the gross amount, without the fees. *)
RecordGrossEntry(type, id, cashDelta, marginDelta, pnl, quantity, price) ==
  ledger' = Append(ledger,
    [type |-> type, positionId |-> id,
     cashDelta |-> IF cashDelta < 0 THEN -price * quantity
                                    ELSE price * quantity,
     marginDelta |-> marginDelta, realizedPnl |-> pnl,
     quantity |-> quantity, price |-> price])

RecordLedgerEntry(type, id, cashDelta, marginDelta, pnl, quantity, price) ==
  ledger' = Append(ledger,
    [type |-> type, positionId |-> id, cashDelta |-> cashDelta,
     marginDelta |-> marginDelta, realizedPnl |-> pnl,
     quantity |-> quantity, price |-> price])

ClosePositionRecord(id) ==
  /\ openPositions' = WithoutPosition(id)
  /\ closedPositions' = Append(closedPositions,
       [positionId |-> id, position |-> openPositions[id]])

(* Mutation: a buy on top of a position replaces its size. *)
EquityReplacedByBuy(id, quantity, price) ==
  [kind |-> "EQUITY", quantity |-> quantity,
   averagePrice |-> price, markPrice |-> price]

(* Mutation: the average ignores the sizes of the two purchases. *)
EquityAfterBuyUnweighted(id, quantity, price) ==
  IF IsOpen(id)
  THEN [openPositions[id] EXCEPT
          !.quantity = @ + quantity,
          !.averagePrice = (@ + price) \div 2,
          !.markPrice = price]
  ELSE [kind |-> "EQUITY", quantity |-> quantity,
        averagePrice |-> price, markPrice |-> price]

(* The equity position under id once quantity more is bought at price. *)
EquityAfterBuy(id, quantity, price) ==
  IF IsOpen(id)
  THEN LET held == openPositions[id]
           newQuantity == held.quantity + quantity
       IN  [held EXCEPT
              !.quantity = newQuantity,
              !.averagePrice =
                (held.averagePrice * held.quantity + price * quantity)
                  \div newQuantity,
              !.markPrice = price]
  ELSE [kind |-> "EQUITY", quantity |-> quantity,
        averagePrice |-> price, markPrice |-> price]

OpenEquityAllowed(id, quantity, price, fees) ==
  /\ quantity > 0
  /\ CanOpenEquityPosition(price * quantity + fees)
  /\ IsOpen(id) => IsOpenAs(id, "EQUITY")

OpenEquityPosition(strategy, instrument, quantity, price, fees) ==
  LET id        == CreatePositionId(strategy, instrument, DefaultLeg)
      totalCost == price * quantity + fees
  IN  /\ OpenEquityAllowed(id, quantity, price, fees)
      /\ cash' = cash - totalCost
      /\ openPositions' = WithPosition(id, EquityAfterBuy(id, quantity, price))
      /\ RecordLedgerEntry("EQUITY_BUY", id, -totalCost, 0, 0, quantity, price)
      /\ UNCHANGED closedPositions

CloseEquityAllowed(id, quantity) ==
  /\ IsOpenAs(id, "EQUITY")
  /\ quantity > 0
  /\ quantity <= openPositions[id].quantity

EquityRealizedPnl(id, quantity, price, fees) ==
  price * quantity - fees - openPositions[id].averagePrice * quantity

CloseEquityPosition(id, quantity, price, fees) ==
  LET position  == openPositions[id]
      proceeds  == price * quantity - fees
      remaining == position.quantity - quantity
  IN  /\ CloseEquityAllowed(id, quantity)
      /\ cash' = cash + proceeds
      /\ \/ /\ StaysOpen(remaining)
            /\ openPositions' =
                 WithPosition(id, [position EXCEPT !.quantity = remaining,
                                                   !.markPrice = price])
            /\ UNCHANGED closedPositions
         \/ /\ ~StaysOpen(remaining)
            /\ ClosePositionRecord(id)
      /\ RecordLedgerEntry("EQUITY_SELL", id, proceeds, 0,
                           EquityRealizedPnl(id, quantity, price, fees),
                           quantity, price)

(* The margin test reads the cash before the credit is received. *)
OpenDefinedRiskAllowed(id, quantity, entryCredit, maxLoss) ==
  /\ quantity > 0
  /\ entryCredit > 0
  /\ maxLoss > 0
  /\ ~IsOpen(id)
  /\ CanOpenDefinedRiskPosition(maxLoss, quantity)

OpenDefinedRiskPosition(strategy, instrument, leg, quantity, credit, maxLoss) ==
  LET id       == CreatePositionId(strategy, instrument, leg)
      received == credit * quantity
      margin   == CalculateDefinedRiskMargin(maxLoss, quantity)
  IN  /\ OpenDefinedRiskAllowed(id, quantity, credit, maxLoss)
      /\ cash' = cash + received
      /\ openPositions' =
           WithPosition(id, [kind |-> "DEFINED_RISK", quantity |-> quantity,
                             entryCredit |-> credit, maxLoss |-> maxLoss,
                             markPrice |-> credit])
      /\ RecordLedgerEntry("CREDIT_SPREAD_OPEN", id, received, margin, 0,
                           quantity, credit)
      /\ UNCHANGED closedPositions

CloseDefinedRiskAllowed(id, closeCost) ==
  /\ IsOpenAs(id, "DEFINED_RISK")
  /\ closeCost >= 0
  /\ cash >= closeCost * openPositions[id].quantity

DefinedRiskRealizedPnl(id, closeCost) ==
  (openPositions[id].entryCredit - closeCost) * openPositions[id].quantity

CloseDefinedRiskPosition(id, closeCost) ==
  LET position == openPositions[id]
      total    == closeCost * position.quantity
      margin   == CalculateDefinedRiskMargin(position.maxLoss,
                                             position.quantity)
  IN  /\ CloseDefinedRiskAllowed(id, closeCost)
      /\ cash' = cash - total
      /\ ClosePositionRecord(id)
      /\ RecordLedgerEntry("CREDIT_SPREAD_CLOSE", id, -total, -margin,
                           DefinedRiskRealizedPnl(id, closeCost),
                           position.quantity, closeCost)

(* A list of quotes is applied one at a time; unknown ids are skipped. *)
MarkToMarket(id, markPrice) ==
  /\ openPositions' =
       IF IsOpen(id)
       THEN WithPosition(id,
              [openPositions[id] EXCEPT !.markPrice = markPrice])
       ELSE openPositions
  /\ UNCHANGED <<cash, closedPositions, ledger>>

-----------------------------------------------------------------------------
(* Properties *)

(* Every open position has a positive size and, for a spread, a positive  *)
(* credit and maximum loss; rows and records have the shapes above.       *)
PortfolioTypeOK ==
  /\ cash \in Int
  /\ DOMAIN openPositions \subseteq PositionIds
  /\ \A id \in DOMAIN openPositions : openPositions[id] \in Position
  /\ closedPositions \in Seq([positionId : PositionIds, position : Position])
  /\ ledger \in Seq(LedgerRow)

(* A column of the ledger, and the same column with the rows of other     *)
(* positions zeroed.                                                      *)
CashDeltas == [n \in DOMAIN ledger |-> ledger[n].cashDelta]

OwnRow(row, id, value) == IF row.positionId = id THEN value ELSE 0

MarginDeltas(id) ==
  [n \in DOMAIN ledger |-> OwnRow(ledger[n], id, ledger[n].marginDelta)]

SignedQuantity(row) ==
  IF row.type \in {"EQUITY_BUY", "CREDIT_SPREAD_OPEN"}
  THEN row.quantity ELSE -row.quantity

QuantityDeltas(id) ==
  [n \in DOMAIN ledger |-> OwnRow(ledger[n], id, SignedQuantity(ledger[n]))]

(* Replaying the cash column of the ledger from the initial capital gives *)
(* the cash balance: no method moves cash that the ledger does not show.  *)
LedgerReplaysCash == cash = RunningTotal(InitialCapital, CashDeltas)

HeldQuantity(id) == IF IsOpen(id) THEN openPositions[id].quantity ELSE 0

HeldMargin(id) ==
  IF IsOpenAs(id, "DEFINED_RISK")
  THEN CalculatePositionMargin(openPositions[id]) ELSE 0

(* Replaying the ledger rows of a position id gives the size held under   *)
(* that id now, across any number of averaging buys, partial sales,       *)
(* closes and reopenings, and the margin its spread blocks.               *)
LedgerReplaysPositions ==
  \A id \in PositionIds :
    /\ HeldQuantity(id) = RunningTotal(0, QuantityDeltas(id))
    /\ HeldMargin(id) = RunningTotal(0, MarginDeltas(id))

(* Cash falls below zero only by the fees of sales: no purchase and no    *)
(* spread close is ever paid with money the account does not have.        *)
SaleShortfalls ==
  [n \in DOMAIN ledger |->
     IF ledger[n].type = "EQUITY_SELL" /\ ledger[n].cashDelta < 0
     THEN ledger[n].cashDelta ELSE 0]

OverdraftOnlyFromSaleFees == cash >= RunningTotal(0, SaleShortfalls)

(* The account's books balance: cash is the initial capital plus realized *)
(* profit, less what open shares cost and the fees of buys (which no      *)
(* realized figure ever shows), plus the credits of open spreads.  The    *)
(* slack is the rounding of averaged prices: less than a unit per share.  *)
RealizedPnls == [n \in DOMAIN ledger |-> ledger[n].realizedPnl]

BuyFees ==
  [n \in DOMAIN ledger |->
     IF ledger[n].type = "EQUITY_BUY"
     THEN -ledger[n].cashDelta - ledger[n].price * ledger[n].quantity ELSE 0]

CarriedValue(position) ==
  IF position.kind = "DEFINED_RISK"
  THEN -position.entryCredit * position.quantity
  ELSE position.averagePrice * position.quantity

SharesBought ==
  [n \in DOMAIN ledger |->
     IF ledger[n].type = "EQUITY_BUY" THEN ledger[n].quantity ELSE 0]

BooksBalance ==
  LET accounted == InitialCapital
                   + RunningTotal(0, RealizedPnls)
                   - SumOverPositions(CarriedValue, DOMAIN openPositions)
                   - RunningTotal(0, BuyFees)
      bought == RunningTotal(0, SharesBought)
  IN  /\ accounted - cash >= 0
      /\ accounted - cash <= bought * bought

=============================================================================
