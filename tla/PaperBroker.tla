---------------------------- MODULE PaperBroker ----------------------------
(***************************************************************************)
(* The simulated broker: src/src/broker/paper/paper-broker.ts with its     *)
(* limit order matcher and the trading costs of the backtest, over an      *)
(* account it alone trades (PortfolioEngine).  Every method is synchronous *)
(* JavaScript; processMarketQuotes, the one with a loop, is a start step   *)
(* and a step per quote and per order, during which nothing else runs      *)
(* (Idle), because a fill that throws in the middle of the loop leaves the *)
(* fills before it in place and drops the rest of the batch.               *)
(*                                                                         *)
(* A request is an object: ref is its identity, so that one object can be  *)
(* placed twice and two equal objects told apart.  entryCredit 0 stands    *)
(* for a missing one, and closeCost is the given cost or else the price.   *)
(***************************************************************************)
EXTENDS PortfolioEngine, TradingCosts, SequencesExt

CONSTANTS
  Requests,         \* the request objects callers may place
  QuoteBatches,     \* sequences of quotes [instrument, price]
  Marks,
  MaxOrders         \* bound: order numbers given out

(* Sides and types are given; numbers may be zero or negative. *)
IsRequest(r) ==
  /\ r.strategy \in Strategies
  /\ r.instrument \in Instruments
  /\ r.leg \in LegGroups
  /\ r.definedRisk \in BOOLEAN
  /\ r.side \in {"BUY", "SELL"}
  /\ r.type \in {"LIMIT", "MARKET"}
  /\ r.quantity \in Int
  /\ r.price \in Int
  /\ r.entryCredit \in Int
  /\ r.maxLoss \in Int
  /\ r.closeCost \in Int

ASSUME RequestAssumption == \A r \in Requests : IsRequest(r)

ASSUME IdentityAssumption == \A r, s \in Requests : r.ref = s.ref => r = s

ASSUME BrokerAssumption ==
  /\ Marks \subseteq Int
  /\ MaxOrders \in Nat

NoQuote == [instrument |-> "none", price |-> 0]

VARIABLES
  orders,           \* order number -> request and status
  pendingRequests,  \* order numbers of the Map of that name; a number is
                    \* given out once, so insertion order is number order
  fills,            \* sequence of fills
  realizedPnlTotal,
  orderCounter,
  queue,            \* quotes the running processMarketQuotes still has
  quote,            \* the quote being applied, NoQuote when none is
  work              \* orders the quote has still to fill

brokerVars == <<orders, pendingRequests, fills, realizedPnlTotal>>
quoteVars  == <<queue, quote, work>>
vars       == <<portfolioVars, brokerVars, orderCounter, quoteVars>>

Idle == queue = <<>> /\ work = <<>>

-----------------------------------------------------------------------------
(* Requests and matching *)

ValidRequest(r) ==
  /\ r.quantity > 0
  /\ r.definedRisk => r.maxLoss > 0
  /\ ~r.definedRisk => r.price > 0

(* Mutation: a quote at the limit itself does not fill. *)
ShouldFillBeyondLimit(side, limitPrice, marketPrice) ==
  IF side = "BUY" THEN marketPrice < limitPrice ELSE marketPrice > limitPrice

ShouldFillLimitOrder(side, limitPrice, marketPrice) ==
  IF side = "BUY" THEN marketPrice <= limitPrice ELSE marketPrice >= limitPrice

Crosses(r, q) ==
  /\ r.instrument = q.instrument
  /\ ShouldFillLimitOrder(r.side, r.price, q.price)

CrossedOrders(q) ==
  {o \in pendingRequests : Crosses(orders[o].request, q)}

(* A fillable request is looked up among the pending ones by identity, so *)
(* the orders of one object all resolve to the first of them.             *)
FirstOrderOf(o) ==
  Min({x \in pendingRequests :
         orders[x].request.ref = orders[o].request.ref})

(* The Map gives its entries in the order in which they were set. *)
ByNumber(numbers) ==
  CHOOSE s \in [1..Cardinality(numbers) -> numbers] :
    \A m, n \in DOMAIN s : m < n => s[m] < s[n]

FillableOrders(q) ==
  LET crossed == ByNumber(CrossedOrders(q))
  IN  [n \in DOMAIN crossed |-> FirstOrderOf(crossed[n])]

-----------------------------------------------------------------------------
(* Executing a request against the account *)

PositionOf(r) ==
  CreatePositionId(r.strategy, r.instrument,
                   IF r.definedRisk THEN r.leg ELSE DefaultLeg)

FillPrice(r) ==
  IF r.definedRisk
  THEN IF r.side = "BUY" THEN r.price ELSE r.closeCost
  ELSE ExecutionPrice(r.side, r.price)

FillFees(r) ==
  IF r.definedRisk THEN 0 ELSE TotalFees(r.side, r.price, r.quantity)

RealizedBy(r) ==
  IF r.side = "BUY" THEN 0
  ELSE IF r.definedRisk
       THEN DefinedRiskRealizedPnl(PositionOf(r), r.closeCost)
       ELSE EquityRealizedPnl(PositionOf(r), r.quantity, FillPrice(r),
                              FillFees(r))

(* executeFill returns; otherwise it throws and changes nothing. *)
FillAllowed(r) ==
  CASE r.definedRisk /\ r.side = "BUY" ->
         OpenDefinedRiskAllowed(PositionOf(r), r.quantity, r.entryCredit,
                                r.maxLoss)
    [] r.definedRisk /\ r.side = "SELL" ->
         CloseDefinedRiskAllowed(PositionOf(r), r.closeCost)
    [] ~r.definedRisk /\ r.side = "BUY" ->
         OpenEquityAllowed(PositionOf(r), r.quantity, FillPrice(r),
                           FillFees(r))
    [] ~r.definedRisk /\ r.side = "SELL" ->
         CloseEquityAllowed(PositionOf(r), r.quantity)

TradeFor(r) ==
  \/ /\ r.definedRisk /\ r.side = "BUY"
     /\ OpenDefinedRiskPosition(r.strategy, r.instrument, r.leg, r.quantity,
                                r.entryCredit, r.maxLoss)
  \/ /\ r.definedRisk /\ r.side = "SELL"
     /\ CloseDefinedRiskPosition(PositionOf(r), r.closeCost)
  \/ /\ ~r.definedRisk /\ r.side = "BUY"
     /\ OpenEquityPosition(r.strategy, r.instrument, r.quantity,
                           FillPrice(r), FillFees(r))
  \/ /\ ~r.definedRisk /\ r.side = "SELL"
     /\ CloseEquityPosition(PositionOf(r), r.quantity, FillPrice(r),
                            FillFees(r))

(* Mutation: the fill shows the requested price, not the executed one. *)
FillAtRequestPrice(o, r) ==
  [orderId |-> o, strategy |-> r.strategy, instrument |-> r.instrument,
   side |-> r.side, quantity |-> r.quantity, price |-> r.price,
   totalFees |-> FillFees(r), realizedPnl |-> RealizedBy(r)]

FillOf(o, r) ==
  [orderId |-> o, strategy |-> r.strategy, instrument |-> r.instrument,
   side |-> r.side, quantity |-> r.quantity, price |-> FillPrice(r),
   totalFees |-> FillFees(r), realizedPnl |-> RealizedBy(r)]

(* Mutation: the total is the last trade's profit. *)
ExecuteFillForgetting(o, r) ==
  /\ TradeFor(r)
  /\ fills' = Append(fills, FillOf(o, r))
  /\ realizedPnlTotal' = RealizedBy(r)

(* The trade, its fill and the realized total, in one go. *)
ExecuteFill(o, r) ==
  /\ TradeFor(r)
  /\ fills' = Append(fills, FillOf(o, r))
  /\ realizedPnlTotal' = realizedPnlTotal + RealizedBy(r)

WithOrder(o, r, status) ==
  [x \in DOMAIN orders \cup {o} |->
     IF x = o THEN [request |-> r, status |-> status] ELSE orders[x]]

-----------------------------------------------------------------------------
(* Operations *)

Init ==
  /\ PortfolioInit
  /\ orders = [o \in {} |-> {}]
  /\ pendingRequests = {}
  /\ fills = <<>>
  /\ realizedPnlTotal = 0
  /\ orderCounter = 0
  /\ queue = <<>>
  /\ quote = NoQuote
  /\ work = <<>>

(* placeOrder validates before it gives out a number. *)
NextOrder == orderCounter + 1

Placing(r) ==
  /\ Idle
  /\ ValidRequest(r)
  /\ orderCounter < MaxOrders
  /\ orderCounter' = NextOrder

PlaceLimitOrder(r) ==
  /\ r.type = "LIMIT"
  /\ Placing(r)
  /\ orders' = WithOrder(NextOrder, r, "PENDING")
  /\ pendingRequests' = pendingRequests \cup {NextOrder}
  /\ UNCHANGED <<portfolioVars, fills, realizedPnlTotal, quoteVars>>

PlaceMarketOrder(r) ==
  /\ r.type = "MARKET"
  /\ Placing(r)
  /\ ExecuteFill(NextOrder, r)
  /\ orders' = WithOrder(NextOrder, r, "FILLED")
  /\ UNCHANGED <<pendingRequests, quoteVars>>

(* The account refuses the trade: the number is spent, no order is kept. *)
RejectMarketOrder(r) ==
  /\ r.type = "MARKET"
  /\ Placing(r)
  /\ ~FillAllowed(r)
  /\ UNCHANGED <<portfolioVars, brokerVars, quoteVars>>

(* Mutation: an order is cancelled whatever its status. *)
CancelAnyOrder(o) ==
  /\ Idle
  /\ o \in DOMAIN orders
  /\ orders' = WithOrder(o, orders[o].request, "CANCELLED")
  /\ pendingRequests' = pendingRequests \ {o}
  /\ UNCHANGED <<portfolioVars, fills, realizedPnlTotal, orderCounter,
                 quoteVars>>

(* An unknown order, or one no longer pending, is left as it is. *)
CancelOrder(o) ==
  /\ Idle
  /\ o \in DOMAIN orders
  /\ orders[o].status = "PENDING"
  /\ orders' = WithOrder(o, orders[o].request, "CANCELLED")
  /\ pendingRequests' = pendingRequests \ {o}
  /\ UNCHANGED <<portfolioVars, fills, realizedPnlTotal, orderCounter,
                 quoteVars>>

(* markToMarket of the broker delegates to the account. *)
Mark(id, price) ==
  /\ Idle
  /\ MarkToMarket(id, price)
  /\ UNCHANGED <<brokerVars, orderCounter, quoteVars>>

ProcessMarketQuotes(batch) ==
  /\ Idle
  /\ queue' = batch
  /\ UNCHANGED <<portfolioVars, brokerVars, orderCounter, quote, work>>

(* The loop takes its next quote and lists the orders the quote fills. *)
TakeQuote ==
  /\ work = <<>>
  /\ queue # <<>>
  /\ queue' = Tail(queue)
  /\ work' = FillableOrders(Head(queue))
  /\ quote' = IF work' = <<>> THEN NoQuote ELSE Head(queue)
  /\ UNCHANGED <<portfolioVars, brokerVars, orderCounter>>

AdvanceWork ==
  /\ work' = Tail(work)
  /\ quote' = IF work' = <<>> THEN NoQuote ELSE quote
  /\ UNCHANGED queue

(* Mutation: the request of a filled order stays pending. *)
FillKeepingRequest(o) ==
  /\ work # <<>>
  /\ o = Head(work)
  /\ o \in pendingRequests
  /\ ExecuteFill(o, orders[o].request)
  /\ orders' = WithOrder(o, orders[o].request, "FILLED")
  /\ AdvanceWork
  /\ UNCHANGED <<pendingRequests, orderCounter>>

FillPendingLimitOrder(o) ==
  /\ work # <<>>
  /\ o = Head(work)
  /\ o \in pendingRequests
  /\ orders[o].status = "PENDING"
  /\ ExecuteFill(o, orders[o].request)
  /\ orders' = WithOrder(o, orders[o].request, "FILLED")
  /\ pendingRequests' = pendingRequests \ {o}
  /\ AdvanceWork
  /\ UNCHANGED orderCounter

(* An order filled a moment ago under the same request object is skipped. *)
SkipSettledOrder(o) ==
  /\ work # <<>>
  /\ o = Head(work)
  /\ o \notin pendingRequests
  /\ AdvanceWork
  /\ UNCHANGED <<portfolioVars, brokerVars, orderCounter>>

(* The account refuses a fill: the exception leaves processMarketQuotes, *)
(* the order stays pending and the rest of the batch is not looked at.   *)
AbortQuotes(o) ==
  /\ work # <<>>
  /\ o = Head(work)
  /\ o \in pendingRequests
  /\ ~FillAllowed(orders[o].request)
  /\ queue' = <<>>
  /\ work' = <<>>
  /\ quote' = NoQuote
  /\ UNCHANGED <<portfolioVars, brokerVars, orderCounter>>

ApplyQuotes ==
  \/ TakeQuote
  \/ \E o \in pendingRequests : FillPendingLimitOrder(o) \/ AbortQuotes(o)
  \/ \E o \in DOMAIN orders : SkipSettledOrder(o)

Next ==
  \/ \E r \in Requests :
       PlaceLimitOrder(r) \/ PlaceMarketOrder(r) \/ RejectMarketOrder(r)
  \/ \E o \in DOMAIN orders : CancelOrder(o)
  \/ \E id \in PositionIds, price \in Marks : Mark(id, price)
  \/ \E batch \in QuoteBatches : ProcessMarketQuotes(batch)
  \/ ApplyQuotes

Spec == Init /\ [][Next]_vars

-----------------------------------------------------------------------------
(* Properties *)

Fill ==
  [orderId : 1..MaxOrders, strategy : Strategies, instrument : Instruments,
   side : {"BUY", "SELL"}, quantity : Positive, price : Int,
   totalFees : Int, realizedPnl : Int]

BrokerOrders == [request : Requests, status : {"PENDING", "FILLED", "CANCELLED"}]

(* The account is well formed, orders have numbers already given out and  *)
(* hold requests that passed validation, fills name numbers in range.     *)
BrokerTypeOK ==
  /\ PortfolioTypeOK
  /\ orderCounter \in 0..MaxOrders
  /\ DOMAIN orders \subseteq 1..orderCounter
  /\ \A o \in DOMAIN orders : /\ orders[o] \in BrokerOrders
                              /\ ValidRequest(orders[o].request)
  /\ pendingRequests \subseteq DOMAIN orders
  /\ fills \in Seq(Fill)
  /\ realizedPnlTotal \in Int

(* The two places that know which orders are open, the statuses and the   *)
(* map of requests, always agree, in the middle of a batch too.           *)
PendingRequestsArePendingOrders ==
  pendingRequests = {o \in DOMAIN orders : orders[o].status = "PENDING"}

FillsOf(o) == {n \in DOMAIN fills : fills[n].orderId = o}

(* An order is FILLED exactly if it has a fill, and then it has one fill; *)
(* no fill names an order that is not registered.                         *)
StatusTellsFills ==
  /\ \A o \in DOMAIN orders :
       (orders[o].status = "FILLED") <=> (FillsOf(o) # {})
  /\ \A m, n \in DOMAIN fills : fills[m].orderId = fills[n].orderId => m = n
  /\ \A n \in DOMAIN fills : fills[n].orderId \in DOMAIN orders

(* The n-th fill reports the n-th row of the account's ledger: the same   *)
(* strategy, instrument and profit, and for shares the same size and the  *)
(* cash that price, size and fees of the fill amount to.                  *)
FillReportsRow(fill, row) ==
  /\ fill.strategy = row.positionId[1]
  /\ fill.instrument = row.positionId[2]
  /\ fill.realizedPnl = row.realizedPnl
  /\ (fill.side = "BUY") <=> (row.type \in {"EQUITY_BUY", "CREDIT_SPREAD_OPEN"})
  /\ row.type = "EQUITY_BUY" =>
       /\ fill.quantity = row.quantity
       /\ row.cashDelta = -(fill.price * fill.quantity + fill.totalFees)
  /\ row.type = "EQUITY_SELL" =>
       /\ fill.quantity = row.quantity
       /\ row.cashDelta = fill.price * fill.quantity - fill.totalFees
  /\ row.type = "CREDIT_SPREAD_CLOSE" => fill.price = row.price

FillsReportLedger ==
  /\ Len(fills) = Len(ledger)
  /\ \A n \in DOMAIN fills : FillReportsRow(fills[n], ledger[n])

(* The broker's running total of realized profit is the account's.        *)
RealizedTotalIsLedgers == realizedPnlTotal = RunningTotal(0, RealizedPnls)

(* Buys are met by quotes at or below their limit, sales at or above it.  *)
LimitMet(r, q) ==
  /\ r.instrument = q.instrument
  /\ r.side = "BUY"  => q.price <= r.price
  /\ r.side = "SELL" => q.price >= r.price

LaterOrderOfSameRequest(o) ==
  \E x \in DOMAIN orders :
    x < o /\ orders[x].request.ref = orders[o].request.ref

RefusedByAccount == ~FillAllowed(orders[Head(work)].request)

(* A quote fills only orders whose limit it meets.  Once it has been       *)
(* worked through without a refusal it leaves none of them pending, but   *)
(* those that share a request object with an earlier order, and a quote   *)
(* that is passed over meets no pending order at all.                     *)
FillsOnlyMet ==
  work # <<>> =>
    \A o \in pendingRequests \ pendingRequests' :
      LimitMet(orders[o].request, quote)

LeavesNoneMet ==
  work # <<>> /\ work' = <<>>
    /\ ~(Head(work) \in pendingRequests /\ RefusedByAccount)
  => \A o \in pendingRequests' :
       LimitMet(orders[o].request, quote) => LaterOrderOfSameRequest(o)

PassesOverUnmet ==
  work = <<>> /\ work' = <<>> /\ queue # <<>> =>
    \A o \in pendingRequests : ~LimitMet(orders[o].request, Head(queue))

QuoteFillsWhatItMeets ==
  [][FillsOnlyMet /\ LeavesNoneMet /\ PassesOverUnmet]_vars

OrderStatus ==
  [o \in 1..MaxOrders |->
     IF o \in DOMAIN orders THEN orders[o].status ELSE "NEW"]

OrderExecutions == [o \in 1..MaxOrders |-> FillsOf(o)]

Lifecycle ==
  INSTANCE OrderLifecycle WITH
    OrderIds <- 1..MaxOrders, FillNumbers <- 1..MaxOrders,
    status <- OrderStatus, executions <- OrderExecutions

(* The broker implements the order lifecycle all brokers share: one       *)
(* execution per order, FILLED and CANCELLED for good, a refused number   *)
(* never used again.                                                      *)
ImplementsLifecycle == Lifecycle!Spec

-----------------------------------------------------------------------------
(* A claim of the repository's tests *)

(* tests/broker/paper-broker.test.ts:117 "fills limit orders when market  *)
(* quotes cross the limit price": when processMarketQuotes returns, no    *)
(* order whose limit its last quote met is pending, if the account can    *)
(* pay for it.                                                            *)
CrossedOrdersFill ==
  [][work # <<>> /\ Idle' =>
       \A o \in pendingRequests' :
         LimitMet(orders[o].request, quote)
           => ~FillAllowed(orders[o].request)']_vars

=============================================================================
