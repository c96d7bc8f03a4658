------------------------- MODULE PaperBrokerProofs -------------------------
(***************************************************************************)
(* Theorems about the simulated broker, for every set of requests, quotes  *)
(* and costs.  ExecuteFill is the only step that trades, so the proof      *)
(* describes it once (FillStep) and the actions reduce to bookkeeping.     *)
(***************************************************************************)
EXTENDS PaperBroker, PortfolioEngineProofs, FiniteSetTheorems

BrokerInv ==
  /\ BrokerTypeOK
  /\ ReplayInv
  /\ PendingRequestsArePendingOrders
  /\ StatusTellsFills
  /\ FillsReportLedger
  /\ TotalIs(0, RealizedPnls, realizedPnlTotal)

-----------------------------------------------------------------------------
(* One execution *)

LEMMA CostsAreIntegers ==
  ASSUME NEW r, IsRequest(r)
  PROVE  FillPrice(r) \in Int /\ FillFees(r) \in Int
<1>1. \A side \in {"BUY", "SELL"}, price \in Int :
        ExecutionPrice(side, price) \in Int
  BY CostAssumption DEF ExecutionPrice
<1>2. \A a, b \in Int : Distance(a, b) \in Int
  BY DEF Distance
<1>3. \A side \in {"BUY", "SELL"}, price, quantity \in Int :
        TotalFees(side, price, quantity) \in Int
  <2> SUFFICES ASSUME NEW side \in {"BUY", "SELL"}, NEW price \in Int,
                      NEW quantity \in Int
               PROVE  TotalFees(side, price, quantity) \in Int
    OBVIOUS
  <2>1. /\ ExecutionPrice(side, price) \in Int
        /\ Distance(ExecutionPrice(side, price), price) \in Int
    BY <1>1, <1>2
  <2>2. (ExecutionPrice(side, price) * quantity * ChargePct) \in Int
    BY <2>1, CostAssumption
  <2>3. (ExecutionPrice(side, price) * quantity * ChargePct) \div 100 \in Int
    BY <2>2
  <2>. QED
    BY <2>1, <2>3, CostAssumption DEF TotalFees
<1>4. /\ ExecutionPrice(r.side, r.price) \in Int
      /\ TotalFees(r.side, r.price, r.quantity) \in Int
  BY <1>1, <1>3 DEF IsRequest
<1>5. FillPrice(r) \in Int
  BY <1>4 DEF FillPrice, IsRequest
<1>6. FillFees(r) \in Int
  BY <1>4 DEF FillFees
<1>. QED
  BY <1>5, <1>6

LEMMA TradeType ==
  ASSUME PortfolioTypeOK, NEW r, IsRequest(r), TradeFor(r)
  PROVE  PortfolioTypeOK'
<1>1. FillPrice(r) \in Int /\ FillFees(r) \in Int
  BY CostsAreIntegers
<1>2. PositionOf(r) \in PositionIds
  BY LegAssumption
  DEF PositionOf, CreatePositionId, PositionIds, IsRequest
<1>3. CASE /\ r.definedRisk /\ r.side = "BUY"
           /\ OpenDefinedRiskPosition(r.strategy, r.instrument, r.leg,
                                      r.quantity, r.entryCredit, r.maxLoss)
  BY <1>3, OpenDefinedRiskType DEF IsRequest
<1>4. CASE /\ r.definedRisk /\ r.side = "SELL"
           /\ CloseDefinedRiskPosition(PositionOf(r), r.closeCost)
  BY <1>2, <1>4, CloseDefinedRiskType DEF IsRequest
<1>5. CASE /\ ~r.definedRisk /\ r.side = "BUY"
           /\ OpenEquityPosition(r.strategy, r.instrument, r.quantity,
                                 FillPrice(r), FillFees(r))
  BY <1>1, <1>5, OpenEquityType DEF IsRequest
<1>6. CASE /\ ~r.definedRisk /\ r.side = "SELL"
           /\ CloseEquityPosition(PositionOf(r), r.quantity, FillPrice(r),
                                  FillFees(r))
  BY <1>1, <1>2, <1>6, CloseEquityType DEF IsRequest
<1>. QED
  BY <1>3, <1>4, <1>5, <1>6 DEF TradeFor

LEMMA TradeRowApplied ==
  ASSUME PortfolioTypeOK, NEW r, IsRequest(r), TradeFor(r)
  PROVE  \E row : RowApplied(row)
<1>1. FillPrice(r) \in Int /\ FillFees(r) \in Int
  BY CostsAreIntegers
<1>2. PositionOf(r) \in PositionIds
  BY LegAssumption
  DEF PositionOf, CreatePositionId, PositionIds, IsRequest
<1>3. CASE /\ r.definedRisk /\ r.side = "BUY"
           /\ OpenDefinedRiskPosition(r.strategy, r.instrument, r.leg,
                                      r.quantity, r.entryCredit, r.maxLoss)
  BY <1>3, OpenDefinedRiskRow DEF IsRequest
<1>4. CASE /\ r.definedRisk /\ r.side = "SELL"
           /\ CloseDefinedRiskPosition(PositionOf(r), r.closeCost)
  BY <1>2, <1>4, CloseDefinedRiskRow DEF IsRequest
<1>5. CASE /\ ~r.definedRisk /\ r.side = "BUY"
           /\ OpenEquityPosition(r.strategy, r.instrument, r.quantity,
                                 FillPrice(r), FillFees(r))
  BY <1>1, <1>5, OpenEquityRow DEF IsRequest
<1>6. CASE /\ ~r.definedRisk /\ r.side = "SELL"
           /\ CloseEquityPosition(PositionOf(r), r.quantity, FillPrice(r),
                                  FillFees(r))
  BY <1>1, <1>2, <1>6, CloseEquityRow DEF IsRequest
<1>. QED
  BY <1>3, <1>4, <1>5, <1>6 DEF TradeFor

(* The row a trade appends is the one its fill reports. *)
LEMMA FillReportsTrade ==
  ASSUME PortfolioTypeOK, NEW o, NEW r, IsRequest(r), TradeFor(r)
  PROVE  \E row : /\ ledger' = Append(ledger, row)
                  /\ FillReportsRow(FillOf(o, r), row)
<1> DEFINE fill == FillOf(o, r)
<1>0. /\ fill.strategy = r.strategy /\ fill.instrument = r.instrument
      /\ fill.side = r.side /\ fill.quantity = r.quantity
      /\ fill.price = FillPrice(r) /\ fill.totalFees = FillFees(r)
      /\ fill.realizedPnl = RealizedBy(r)
      /\ PositionOf(r)[1] = r.strategy /\ PositionOf(r)[2] = r.instrument
  BY DEF FillOf, PositionOf, CreatePositionId
<1> HIDE DEF fill
<1>1. CASE /\ r.definedRisk /\ r.side = "BUY"
           /\ OpenDefinedRiskPosition(r.strategy, r.instrument, r.leg,
                                      r.quantity, r.entryCredit, r.maxLoss)
  <2> DEFINE row == [type |-> "CREDIT_SPREAD_OPEN",
                     positionId |-> PositionOf(r),
                     cashDelta |-> r.entryCredit * r.quantity,
                     marginDelta |->
                       CalculateDefinedRiskMargin(r.maxLoss, r.quantity),
                     realizedPnl |-> 0, quantity |-> r.quantity,
                     price |-> r.entryCredit]
  <2>1. ledger' = Append(ledger, row)
    BY <1>1 DEF OpenDefinedRiskPosition, RecordLedgerEntry, PositionOf
  <2>2. RealizedBy(r) = 0
    BY <1>1 DEF RealizedBy
  <2>3. FillReportsRow(fill, row)
    BY <1>0, <1>1, <2>2 DEF FillReportsRow
  <2>. QED
    BY <2>1, <2>3 DEF fill
<1>2. CASE /\ r.definedRisk /\ r.side = "SELL"
           /\ CloseDefinedRiskPosition(PositionOf(r), r.closeCost)
  <2> DEFINE held == openPositions[PositionOf(r)]
             row == [type |-> "CREDIT_SPREAD_CLOSE",
                     positionId |-> PositionOf(r),
                     cashDelta |-> -(r.closeCost * held.quantity),
                     marginDelta |-> -CalculateDefinedRiskMargin(
                                        held.maxLoss, held.quantity),
                     realizedPnl |-> DefinedRiskRealizedPnl(PositionOf(r),
                                                            r.closeCost),
                     quantity |-> held.quantity, price |-> r.closeCost]
  <2>1. ledger' = Append(ledger, row)
    BY <1>2 DEF CloseDefinedRiskPosition, RecordLedgerEntry
  <2>2. /\ RealizedBy(r) = DefinedRiskRealizedPnl(PositionOf(r), r.closeCost)
        /\ FillPrice(r) = r.closeCost
    BY <1>2 DEF RealizedBy, FillPrice
  <2>3. FillReportsRow(fill, row)
    BY <1>0, <1>2, <2>2 DEF FillReportsRow
  <2>. QED
    BY <2>1, <2>3 DEF fill
<1>3. CASE /\ ~r.definedRisk /\ r.side = "BUY"
           /\ OpenEquityPosition(r.strategy, r.instrument, r.quantity,
                                 FillPrice(r), FillFees(r))
  <2> DEFINE cost == FillPrice(r) * r.quantity + FillFees(r)
             row == [type |-> "EQUITY_BUY", positionId |-> PositionOf(r),
                     cashDelta |-> -cost, marginDelta |-> 0,
                     realizedPnl |-> 0, quantity |-> r.quantity,
                     price |-> FillPrice(r)]
  <2>1. ledger' = Append(ledger, row)
    BY <1>3 DEF OpenEquityPosition, RecordLedgerEntry, PositionOf
  <2>2. RealizedBy(r) = 0
    BY <1>3 DEF RealizedBy
  <2>3. FillReportsRow(fill, row)
    BY <1>0, <1>3, <2>2 DEF FillReportsRow
  <2>. QED
    BY <2>1, <2>3 DEF fill
<1>4. CASE /\ ~r.definedRisk /\ r.side = "SELL"
           /\ CloseEquityPosition(PositionOf(r), r.quantity, FillPrice(r),
                                  FillFees(r))
  <2> DEFINE row == [type |-> "EQUITY_SELL", positionId |-> PositionOf(r),
                     cashDelta |-> FillPrice(r) * r.quantity - FillFees(r),
                     marginDelta |-> 0, realizedPnl |-> RealizedBy(r),
                     quantity |-> r.quantity, price |-> FillPrice(r)]
  <2>1. RealizedBy(r) = EquityRealizedPnl(PositionOf(r), r.quantity,
                                          FillPrice(r), FillFees(r))
    BY <1>4 DEF RealizedBy
  <2>2. ledger' = Append(ledger, row)
    BY <1>4, <2>1 DEF CloseEquityPosition, RecordLedgerEntry
  <2>3. FillReportsRow(fill, row)
    BY <1>0, <1>4 DEF FillReportsRow
  <2>. QED
    BY <2>2, <2>3 DEF fill
<1>. QED
  BY <1>1, <1>2, <1>3, <1>4 DEF TradeFor

(* An execution keeps the account replayable, and the fills and the       *)
(* realized total in step with its ledger.                                *)
LEMMA FillStep ==
  ASSUME BrokerInv, NEW o \in 1..MaxOrders, NEW r, IsRequest(r),
         r.quantity > 0, ExecuteFill(o, r)
  PROVE  /\ PortfolioTypeOK'
         /\ ReplayInv'
         /\ FillOf(o, r) \in Fill
         /\ fills' = Append(fills, FillOf(o, r))
         /\ FillsReportLedger'
         /\ realizedPnlTotal' \in Int
         /\ TotalIs(0, RealizedPnls, realizedPnlTotal)'
<1> DEFINE fill == FillOf(o, r)
<1>1. PortfolioTypeOK /\ TradeFor(r) /\ ReplayInv
  BY DEF BrokerInv, BrokerTypeOK, ExecuteFill
<1>2. PortfolioTypeOK'
  BY <1>1, TradeType
<1>3. ReplayInv'
  BY <1>1, <1>2, TradeRowApplied, ReplayStep
<1>4. PICK row : ledger' = Append(ledger, row) /\ FillReportsRow(fill, row)
  BY <1>1, FillReportsTrade
<1>5. /\ ledger \in Seq(LedgerRow) /\ ledger' \in Seq(LedgerRow)
      /\ row \in LedgerRow
  <2>1. ledger \in Seq(LedgerRow) /\ ledger' \in Seq(LedgerRow)
    BY <1>1, <1>2 DEF PortfolioTypeOK
  <2>2. ledger'[Len(ledger) + 1] = row /\ Len(ledger) + 1 \in DOMAIN ledger'
    BY <1>4, <2>1
  <2>. QED
    BY <2>1, <2>2
<1>6. fill.realizedPnl = row.realizedPnl /\ row.realizedPnl \in Int
  BY <1>4, <1>5 DEF FillReportsRow, LedgerRow
<1>7. RealizedBy(r) = row.realizedPnl
  BY <1>6 DEF FillOf
<1>8. fill \in Fill
  BY <1>6, <1>7, CostsAreIntegers DEF FillOf, Fill, IsRequest, Positive
<1>9. fills' = Append(fills, fill)
  BY DEF ExecuteFill
<1>10. FillsReportLedger'
  <2>1. /\ fills \in Seq(Fill) /\ Len(fills) = Len(ledger)
        /\ \A n \in DOMAIN fills : FillReportsRow(fills[n], ledger[n])
    BY DEF BrokerInv, BrokerTypeOK, FillsReportLedger
  <2> HIDE DEF fill
  <2>2. /\ Len(fills') = Len(fills) + 1 /\ Len(ledger') = Len(ledger) + 1
        /\ DOMAIN fills' = 1..(Len(fills) + 1)
        /\ DOMAIN fills = 1..Len(fills) /\ Len(fills) \in Nat
        /\ fills'[Len(fills) + 1] = fill
        /\ ledger'[Len(fills) + 1] = row
        /\ \A n \in DOMAIN fills : fills'[n] = fills[n]
                                   /\ ledger'[n] = ledger[n]
    BY <1>4, <1>5, <1>8, <1>9, <2>1
  <2>3. \A n \in DOMAIN fills' : FillReportsRow(fills'[n], ledger'[n])
    BY <1>4, <2>1, <2>2
  <2>. QED
    BY <2>1, <2>2, <2>3 DEF FillsReportLedger
<1>11. realizedPnlTotal \in Int
       /\ realizedPnlTotal' = realizedPnlTotal + row.realizedPnl
  BY <1>7 DEF ExecuteFill, BrokerInv, BrokerTypeOK
<1>12. TotalIs(0, RealizedPnls, realizedPnlTotal)'
  <2>1. /\ RealizedPnls \in Seq(Int)
        /\ RealizedPnls' = Append(RealizedPnls, row.realizedPnl)
    <3>0. \A w \in LedgerRow : w.realizedPnl \in Int
      BY DEF LedgerRow
    <3>1. /\ \A n \in DOMAIN ledger : ledger[n] \in LedgerRow
          /\ \A n \in DOMAIN ledger' : ledger'[n] \in LedgerRow
      BY <1>5
    <3>2. /\ RealizedPnls \in [DOMAIN ledger -> Int]
          /\ RealizedPnls' \in [DOMAIN ledger' -> Int]
      BY <3>0, <3>1 DEF RealizedPnls
    <3>3. /\ \A n \in DOMAIN ledger : RealizedPnls'[n] = RealizedPnls[n]
          /\ RealizedPnls'[Len(ledger) + 1] = row.realizedPnl
      BY <1>4, <1>5 DEF RealizedPnls
    <3>. QED
      BY <1>4, <1>5, <1>6, <3>2, <3>3, ColumnOfAppend
  <2>2. TotalIs(0, RealizedPnls, realizedPnlTotal) /\ 0 \in Int
    BY DEF BrokerInv
  <2>. QED
    BY <1>6, <1>11, <2>1, <2>2, TotalOfAppend
<1>. QED
  BY <1>2, <1>3, <1>6, <1>8, <1>9, <1>10, <1>11, <1>12

-----------------------------------------------------------------------------
(* Bookkeeping of orders *)

(* An order is new or pending exactly if it has not been filled. *)
Open(o) == o \notin DOMAIN orders \/ orders[o].status = "PENDING"

LEMMA OpenHasNoFill ==
  ASSUME BrokerInv, NEW o, Open(o)
  PROVE  \A n \in DOMAIN fills : fills[n].orderId # o
BY DEF BrokerInv, StatusTellsFills, FillsOf, Open

(* What both kinds of change to an order have in common. *)
OrderBecomes(o, r, status) ==
  /\ orders' = WithOrder(o, r, status)
  /\ pendingRequests' = IF status = "PENDING" THEN pendingRequests \cup {o}
                                              ELSE pendingRequests \ {o}
  /\ orderCounter' \in 0..MaxOrders
  /\ orderCounter <= orderCounter'
  /\ o <= orderCounter'

LEMMA OrdersStayTyped ==
  ASSUME BrokerInv, NEW o \in 1..MaxOrders, NEW r \in Requests,
         ValidRequest(r), NEW status \in {"PENDING", "FILLED", "CANCELLED"},
         OrderBecomes(o, r, status)
  PROVE  /\ orderCounter' \in 0..MaxOrders
         /\ DOMAIN orders' \subseteq 1..orderCounter'
         /\ \A x \in DOMAIN orders' : /\ orders'[x] \in BrokerOrders
                                      /\ ValidRequest(orders'[x].request)
         /\ pendingRequests' \subseteq DOMAIN orders'
         /\ PendingRequestsArePendingOrders'
<1>1. /\ orderCounter \in 0..MaxOrders
      /\ DOMAIN orders \subseteq 1..orderCounter
      /\ \A x \in DOMAIN orders : /\ orders[x] \in BrokerOrders
                                  /\ ValidRequest(orders[x].request)
      /\ pendingRequests = {x \in DOMAIN orders :
                              orders[x].status = "PENDING"}
      /\ MaxOrders \in Nat
  BY BrokerAssumption
  DEF BrokerInv, BrokerTypeOK, PendingRequestsArePendingOrders
<1>2. /\ DOMAIN orders' = DOMAIN orders \cup {o}
      /\ orders'[o] = [request |-> r, status |-> status]
      /\ \A x \in DOMAIN orders \ {o} : orders'[x] = orders[x]
  BY DEF OrderBecomes, WithOrder
<1>3. orderCounter' \in 0..MaxOrders /\ DOMAIN orders' \subseteq 1..orderCounter'
  BY <1>1, <1>2 DEF OrderBecomes
<1>4. orders'[o] \in BrokerOrders /\ ValidRequest(orders'[o].request)
  BY <1>2 DEF BrokerOrders
<1>5. pendingRequests' = {x \in DOMAIN orders' :
                            orders'[x].status = "PENDING"}
  BY <1>1, <1>2 DEF OrderBecomes
<1>. QED
  BY <1>1, <1>2, <1>3, <1>4, <1>5 DEF PendingRequestsArePendingOrders

LEMMA OrderExecuted ==
  ASSUME BrokerInv, NEW o \in 1..MaxOrders, NEW r \in Requests,
         ValidRequest(r), Open(o), ExecuteFill(o, r),
         OrderBecomes(o, r, "FILLED")
  PROVE  BrokerInv'
<1> DEFINE fill == FillOf(o, r)
<1>1. IsRequest(r) /\ r.quantity > 0
  BY RequestAssumption DEF ValidRequest
<1>2. /\ PortfolioTypeOK' /\ ReplayInv' /\ FillsReportLedger'
      /\ TotalIs(0, RealizedPnls, realizedPnlTotal)'
      /\ realizedPnlTotal' \in Int
      /\ fill \in Fill /\ fills' = Append(fills, fill)
  BY <1>1, FillStep
<1>3. fills \in Seq(Fill) /\ fill.orderId = o
  BY DEF BrokerInv, BrokerTypeOK, FillOf
<1> HIDE DEF fill
<1>4. fills' \in Seq(Fill)
  BY <1>2, <1>3
<1>5. BrokerTypeOK' /\ PendingRequestsArePendingOrders'
  BY <1>2, <1>4, OrdersStayTyped DEF BrokerTypeOK
<1>6. StatusTellsFills'
  <2>1. /\ \A n \in DOMAIN fills : fills[n].orderId # o
        /\ \A m, n \in DOMAIN fills :
             fills[m].orderId = fills[n].orderId => m = n
        /\ \A n \in DOMAIN fills : fills[n].orderId \in DOMAIN orders
        /\ \A x \in DOMAIN orders :
             (orders[x].status = "FILLED")
               <=> (\E n \in DOMAIN fills : fills[n].orderId = x)
    BY OpenHasNoFill DEF BrokerInv, StatusTellsFills, FillsOf
  <2>2. /\ DOMAIN fills' = DOMAIN fills \cup {Len(fills) + 1}
        /\ Len(fills) + 1 \notin DOMAIN fills
        /\ fills'[Len(fills) + 1].orderId = o
        /\ \A n \in DOMAIN fills : fills'[n] = fills[n]
    BY <1>2, <1>3
  <2>3. /\ DOMAIN orders' = DOMAIN orders \cup {o}
        /\ orders'[o].status = "FILLED"
        /\ \A x \in DOMAIN orders \ {o} : orders'[x] = orders[x]
    BY DEF OrderBecomes, WithOrder
  <2>4. \A x \in DOMAIN orders' :
          (orders'[x].status = "FILLED")
            <=> (\E n \in DOMAIN fills' : fills'[n].orderId = x)
    BY <2>1, <2>2, <2>3
  <2>5. \A m, n \in DOMAIN fills' :
          fills'[m].orderId = fills'[n].orderId => m = n
    BY <2>1, <2>2
  <2>6. \A n \in DOMAIN fills' : fills'[n].orderId \in DOMAIN orders'
    BY <2>1, <2>2, <2>3
  <2>. QED
    BY <2>4, <2>5, <2>6 DEF StatusTellsFills, FillsOf
<1>. QED
  BY <1>2, <1>5, <1>6 DEF BrokerInv

LEMMA OrderSettledOtherwise ==
  ASSUME BrokerInv, NEW o \in 1..MaxOrders, NEW r \in Requests,
         ValidRequest(r), Open(o), NEW status \in {"PENDING", "CANCELLED"},
         OrderBecomes(o, r, status),
         UNCHANGED <<portfolioVars, fills, realizedPnlTotal>>
  PROVE  BrokerInv'
<1>1. BrokerTypeOK' /\ PendingRequestsArePendingOrders'
  BY OrdersStayTyped DEF BrokerInv, BrokerTypeOK, portfolioVars,
                         PortfolioTypeOK
<1>2. StatusTellsFills'
  BY OpenHasNoFill
  DEF BrokerInv, StatusTellsFills, FillsOf, OrderBecomes, WithOrder
<1>3. ReplayInv'
  BY ReplayOfStutter DEF BrokerInv
<1>4. FillsReportLedger' /\ TotalIs(0, RealizedPnls, realizedPnlTotal)'
  BY DEF BrokerInv, FillsReportLedger, RealizedPnls, portfolioVars
<1>. QED
  BY <1>1, <1>2, <1>3, <1>4 DEF BrokerInv

(* Nothing the invariant speaks of changes, but perhaps marks and counter. *)
LEMMA OrdersUntouched ==
  ASSUME BrokerInv, UNCHANGED <<brokerVars, ledger>>,
         PortfolioTypeOK', ReplayInv',
         orderCounter' \in 0..MaxOrders, orderCounter <= orderCounter'
  PROVE  BrokerInv'
<1>1. BrokerTypeOK'
  BY DEF BrokerInv, BrokerTypeOK, brokerVars
<1>2. PendingRequestsArePendingOrders' /\ StatusTellsFills'
  BY DEF BrokerInv, PendingRequestsArePendingOrders, StatusTellsFills,
         FillsOf, brokerVars
<1>3. FillsReportLedger' /\ TotalIs(0, RealizedPnls, realizedPnlTotal)'
  BY DEF BrokerInv, FillsReportLedger, RealizedPnls, brokerVars
<1>. QED
  BY <1>1, <1>2, <1>3 DEF BrokerInv

-----------------------------------------------------------------------------
(* The invariant, action by action *)

LEMMA PlacingGivesOutNumber ==
  ASSUME BrokerInv, NEW r, Placing(r)
  PROVE  /\ NextOrder \in 1..MaxOrders
         /\ NextOrder \notin DOMAIN orders
         /\ orderCounter' = NextOrder
         /\ orderCounter' \in 0..MaxOrders
         /\ orderCounter <= orderCounter'
BY BrokerAssumption DEF BrokerInv, BrokerTypeOK, Placing, NextOrder

LEMMA PlaceLimitKeeps ==
  ASSUME BrokerInv, NEW r \in Requests, PlaceLimitOrder(r)
  PROVE  BrokerInv'
<1>1. Placing(r) /\ ValidRequest(r)
  BY DEF PlaceLimitOrder, Placing
<1>2. OrderBecomes(NextOrder, r, "PENDING")
  <2>1. NextOrder <= orderCounter'
    BY <1>1, PlacingGivesOutNumber
  <2>. QED
    BY <1>1, <2>1, PlacingGivesOutNumber DEF PlaceLimitOrder, OrderBecomes
<1>. QED
  BY <1>1, <1>2, PlacingGivesOutNumber, OrderSettledOtherwise
  DEF PlaceLimitOrder, Open

LEMMA PlaceMarketKeeps ==
  ASSUME BrokerInv, NEW r \in Requests, PlaceMarketOrder(r)
  PROVE  BrokerInv'
<1>1. Placing(r) /\ ValidRequest(r)
  BY DEF PlaceMarketOrder, Placing
<1>2. OrderBecomes(NextOrder, r, "FILLED")
  <2>1. NextOrder <= orderCounter'
    BY <1>1, PlacingGivesOutNumber
  <2>2. pendingRequests \ {NextOrder} = pendingRequests
    BY <1>1, PlacingGivesOutNumber DEF BrokerInv, BrokerTypeOK
  <2>. QED
    BY <1>1, <2>1, <2>2, PlacingGivesOutNumber
    DEF PlaceMarketOrder, OrderBecomes
<1>. QED
  BY <1>1, <1>2, PlacingGivesOutNumber, OrderExecuted
  DEF PlaceMarketOrder, Open

LEMMA RejectKeeps ==
  ASSUME BrokerInv, NEW r \in Requests, RejectMarketOrder(r)
  PROVE  BrokerInv'
<1>1. ReplayInv' /\ PortfolioTypeOK'
  BY ReplayOfStutter DEF RejectMarketOrder, BrokerInv, ReplayInv
<1>. QED
  BY <1>1, PlacingGivesOutNumber, OrdersUntouched
  DEF RejectMarketOrder, portfolioVars

(* Orders the invariant knows about carry what an execution needs. *)
LEMMA RegisteredOrder ==
  ASSUME BrokerInv, NEW o \in DOMAIN orders
  PROVE  /\ o \in 1..MaxOrders
         /\ o <= orderCounter
         /\ orderCounter \in 0..MaxOrders
         /\ orders[o].request \in Requests
         /\ ValidRequest(orders[o].request)
BY BrokerAssumption DEF BrokerInv, BrokerTypeOK, BrokerOrders

LEMMA CancelKeeps ==
  ASSUME BrokerInv, NEW o \in DOMAIN orders, CancelOrder(o)
  PROVE  BrokerInv'
<1>1. OrderBecomes(o, orders[o].request, "CANCELLED")
  BY RegisteredOrder DEF CancelOrder, OrderBecomes
<1>. QED
  BY <1>1, RegisteredOrder, OrderSettledOtherwise DEF CancelOrder, Open

LEMMA FillPendingKeeps ==
  ASSUME BrokerInv, NEW o \in pendingRequests, FillPendingLimitOrder(o)
  PROVE  BrokerInv'
<1>1. o \in DOMAIN orders
  BY DEF BrokerInv, BrokerTypeOK
<1>2. OrderBecomes(o, orders[o].request, "FILLED")
  BY <1>1, RegisteredOrder DEF FillPendingLimitOrder, OrderBecomes
<1>. QED
  BY <1>1, <1>2, RegisteredOrder, OrderExecuted
  DEF FillPendingLimitOrder, Open

LEMMA MarkKeeps ==
  ASSUME BrokerInv, NEW id \in PositionIds, NEW price \in Marks,
         Mark(id, price)
  PROVE  BrokerInv'
<1>1. ReplayInv' /\ PortfolioTypeOK'
  BY ReplayOfMark, BrokerAssumption DEF Mark, BrokerInv, ReplayInv
<1>2. orderCounter' = orderCounter /\ orderCounter \in 0..MaxOrders
  BY DEF Mark, BrokerInv, BrokerTypeOK
<1>. QED
  BY <1>1, <1>2, OrdersUntouched DEF Mark, MarkToMarket

(* The steps of the quote loop that neither trade nor settle an order. *)
LEMMA LoopKeeps ==
  ASSUME BrokerInv, UNCHANGED <<portfolioVars, brokerVars, orderCounter>>
  PROVE  BrokerInv'
<1>1. ReplayInv' /\ PortfolioTypeOK'
  BY ReplayOfStutter DEF BrokerInv, ReplayInv
<1>2. orderCounter' = orderCounter /\ orderCounter \in 0..MaxOrders
  BY DEF BrokerInv, BrokerTypeOK
<1>. QED
  BY <1>1, <1>2, OrdersUntouched DEF portfolioVars

LEMMA BrokerInvariant == BrokerInv /\ [Next]_vars => BrokerInv'
<1> SUFFICES ASSUME BrokerInv, [Next]_vars PROVE BrokerInv'
  OBVIOUS
<1>1. CASE \E r \in Requests : \/ PlaceLimitOrder(r)
                               \/ PlaceMarketOrder(r)
                               \/ RejectMarketOrder(r)
  BY <1>1, PlaceLimitKeeps, PlaceMarketKeeps, RejectKeeps
<1>2. CASE \E o \in DOMAIN orders : CancelOrder(o)
  BY <1>2, CancelKeeps
<1>3. CASE \E id \in PositionIds, price \in Marks : Mark(id, price)
  BY <1>3, MarkKeeps
<1>4. CASE \E batch \in QuoteBatches : ProcessMarketQuotes(batch)
  BY <1>4, LoopKeeps DEF ProcessMarketQuotes
<1>5. CASE ApplyQuotes
  <2>1. CASE TakeQuote
    BY <2>1, LoopKeeps DEF TakeQuote
  <2>2. CASE \E o \in pendingRequests : FillPendingLimitOrder(o)
    BY <2>2, FillPendingKeeps
  <2>3. CASE \E o \in pendingRequests : AbortQuotes(o)
    BY <2>3, LoopKeeps DEF AbortQuotes
  <2>4. CASE \E o \in DOMAIN orders : SkipSettledOrder(o)
    BY <2>4, LoopKeeps DEF SkipSettledOrder
  <2>. QED
    BY <1>5, <2>1, <2>2, <2>3, <2>4 DEF ApplyQuotes
<1>6. CASE UNCHANGED vars
  BY <1>6, LoopKeeps DEF vars
<1>. QED
  BY <1>1, <1>2, <1>3, <1>4, <1>5, <1>6 DEF Next

LEMMA BrokerInvOfInit == Init => BrokerInv
<1> SUFFICES ASSUME Init PROVE BrokerInv
  OBVIOUS
<1>1. ReplayInv /\ PortfolioTypeOK
  BY ReplayOfInit, InitType DEF Init
<1>2. ledger = <<>> /\ RealizedPnls = <<>>
  BY DEF Init, PortfolioInit, RealizedPnls
<1>3. TotalIs(0, RealizedPnls, realizedPnlTotal)
  <2>1. TotalIs(0, <<>>, 0)
    BY TotalOfEmpty
  <2>. QED
    BY <1>2, <2>1 DEF Init
<1>4. BrokerTypeOK
  BY <1>1, BrokerAssumption DEF Init, BrokerTypeOK
<1>5. /\ PendingRequestsArePendingOrders
      /\ StatusTellsFills
      /\ FillsReportLedger
  BY <1>2 DEF Init, PendingRequestsArePendingOrders, StatusTellsFills,
              FillsOf, FillsReportLedger
<1>. QED
  BY <1>1, <1>3, <1>4, <1>5 DEF BrokerInv

LEMMA BrokerInvAlways == Spec => []BrokerInv
<1>. QED
  BY BrokerInvOfInit, BrokerInvariant, PTL DEF Spec

(* Whatever is placed, cancelled and quoted, with any costs: orders have  *)
(* the numbers given out, hold validated requests, and the account under  *)
(* the broker is well formed.                                             *)
THEOREM BrokerTypeCorrect == Spec => []BrokerTypeOK
<1>. QED
  BY BrokerInvAlways, PTL DEF BrokerInv

(* The map of pending requests and the statuses of orders never disagree, *)
(* not even after a quote batch was abandoned on an exception.            *)
THEOREM PendingAgrees == Spec => []PendingRequestsArePendingOrders
<1>. QED
  BY BrokerInvAlways, PTL DEF BrokerInv

(* An order is FILLED exactly if one fill names it.                       *)
THEOREM FilledOnce == Spec => []StatusTellsFills
<1>. QED
  BY BrokerInvAlways, PTL DEF BrokerInv

(* The fills a client sees are the ledger's rows, one for one and in      *)
(* order, with the same profits and the same cash.                        *)
THEOREM FillsAgreeWithLedger == Spec => []FillsReportLedger
<1>. QED
  BY BrokerInvAlways, PTL DEF BrokerInv

(* The realized profit of getPnlSummary is the ledger's, from the first   *)
(* trade to the last.                                                     *)
THEOREM RealizedTotalCorrect == Spec => []RealizedTotalIsLedgers
<1>1. BrokerInv => RealizedTotalIsLedgers
  BY TotalIsRunningTotal DEF BrokerInv, RealizedTotalIsLedgers
<1>. QED
  BY <1>1, BrokerInvAlways, PTL

-----------------------------------------------------------------------------
(* The broker implements the order lifecycle *)

(* At most N different numbers can be given out of 1..N. *)
LEMMA DistinctNumbersAreFew ==
  ASSUME NEW N \in Nat, NEW K \in Nat, NEW f \in [1..K -> 1..N],
         \A m, n \in 1..K : f[m] = f[n] => m = n
  PROVE  K <= N
<1>1. 1 \in Int /\ N \in Int /\ K \in Int
  OBVIOUS
<1>2. /\ IsFiniteSet(1..K) /\ IsFiniteSet(1..N)
      /\ Cardinality(1..K) = IF 1 > K THEN 0 ELSE K - 1 + 1
      /\ Cardinality(1..N) = IF 1 > N THEN 0 ELSE N - 1 + 1
  BY <1>1, FS_Interval
<1>3. SUFFICES ASSUME N < K PROVE FALSE
  OBVIOUS
<1>4. Cardinality(1..N) < Cardinality(1..K)
  BY <1>2, <1>3
<1>. QED
  BY <1>2, <1>4, FS_PigeonHole

LEMMA StatusAfter ==
  ASSUME NEW o \in 1..MaxOrders, NEW r, NEW status,
         orders' = WithOrder(o, r, status)
  PROVE  OrderStatus' = [OrderStatus EXCEPT ![o] = status]
BY DEF OrderStatus, WithOrder

LEMMA ExecuteRefines ==
  ASSUME BrokerInv, BrokerInv', NEW o \in 1..MaxOrders, Open(o), NEW r,
         ExecuteFill(o, r), orders' = WithOrder(o, r, "FILLED")
  PROVE  Lifecycle!Execute(o)
<1> DEFINE fill == FillOf(o, r)
           number == Len(fills) + 1
<1>1. /\ fills \in Seq(Fill) /\ fills' = Append(fills, fill)
      /\ fill.orderId = o /\ fills' \in Seq(Fill)
  BY DEF BrokerInv, BrokerTypeOK, ExecuteFill, FillOf
<1> HIDE DEF fill
<1>2. /\ Len(fills') = number
      /\ DOMAIN fills' = DOMAIN fills \cup {number}
      /\ number \notin DOMAIN fills
      /\ fills'[number] = fill
      /\ \A n \in DOMAIN fills : fills'[n] = fills[n]
  BY <1>1
<1>3. number \in 1..MaxOrders
  <2> DEFINE ids == [n \in DOMAIN fills' |-> fills'[n].orderId]
  <2>1. /\ \A f \in Fill : f.orderId \in 1..MaxOrders
        /\ MaxOrders \in Nat
    BY BrokerAssumption DEF Fill
  <2>2. /\ DOMAIN fills' = 1..number /\ number \in Nat
        /\ \A n \in 1..number : fills'[n] \in Fill
    BY <1>1, <1>2
  <2>3. ids \in [1..number -> 1..MaxOrders]
    BY <2>1, <2>2
  <2>4. \A m, n \in 1..number : ids[m] = ids[n] => m = n
    BY <2>2 DEF BrokerInv, StatusTellsFills
  <2>5. number <= MaxOrders
    <3> HIDE DEF ids, number
    <3>. QED
      BY <2>1, <2>2, <2>3, <2>4, DistinctNumbersAreFew
  <2>. QED
    BY <1>1, <2>1, <2>2, <2>5
<1>4. FillsOf(o) = {}
  BY OpenHasNoFill DEF FillsOf
<1>5. OrderExecutions' = [OrderExecutions EXCEPT ![o] = {number}]
  <2>1. FillsOf(o)' = {number}
    BY <1>1, <1>2, <1>4 DEF FillsOf
  <2>2. \A x \in 1..MaxOrders : x # o => FillsOf(x)' = FillsOf(x)
    BY <1>1, <1>2 DEF FillsOf
  <2>. QED
    BY <2>1, <2>2 DEF OrderExecutions
<1>6. OrderStatus' = [OrderStatus EXCEPT ![o] = "FILLED"]
  BY StatusAfter
<1>7. OrderStatus[o] \in {"NEW", "PENDING"} /\ OrderExecutions[o] = {}
  BY <1>4 DEF OrderStatus, OrderExecutions, Open
<1>. QED
  BY <1>3, <1>5, <1>6, <1>7 DEF Lifecycle!Execute

LEMMA StepRefines ==
  BrokerInv /\ BrokerInv' /\ [Next]_vars
    => [Lifecycle!Next]_<<OrderStatus, OrderExecutions>>
<1> SUFFICES ASSUME BrokerInv, BrokerInv', [Next]_vars
             PROVE  [Lifecycle!Next]_<<OrderStatus, OrderExecutions>>
  OBVIOUS
<1>1. ASSUME UNCHANGED fills PROVE OrderExecutions' = OrderExecutions
  BY <1>1 DEF OrderExecutions, FillsOf
<1>2. ASSUME UNCHANGED brokerVars
      PROVE  UNCHANGED <<OrderStatus, OrderExecutions>>
  BY <1>1, <1>2 DEF brokerVars, OrderStatus
<1>3. ASSUME NEW r \in Requests, PlaceLimitOrder(r) PROVE Lifecycle!Next
  <2>1. NextOrder \in 1..MaxOrders /\ NextOrder \notin DOMAIN orders
    BY <1>3, PlacingGivesOutNumber DEF PlaceLimitOrder
  <2>2. OrderStatus' = [OrderStatus EXCEPT ![NextOrder] = "PENDING"]
    BY <1>3, <2>1, StatusAfter DEF PlaceLimitOrder
  <2>3. OrderStatus[NextOrder] = "NEW"
    BY <2>1 DEF OrderStatus
  <2>4. OrderExecutions' = OrderExecutions
    BY <1>1, <1>3 DEF PlaceLimitOrder
  <2>. QED
    BY <2>1, <2>2, <2>3, <2>4 DEF Lifecycle!Next, Lifecycle!Accept
<1>4. ASSUME NEW r \in Requests, PlaceMarketOrder(r) PROVE Lifecycle!Next
  <2>1. NextOrder \in 1..MaxOrders /\ Open(NextOrder)
    BY <1>4, PlacingGivesOutNumber DEF PlaceMarketOrder, Open
  <2>2. Lifecycle!Execute(NextOrder)
    BY <1>4, <2>1, ExecuteRefines DEF PlaceMarketOrder
  <2>. QED
    BY <2>1, <2>2 DEF Lifecycle!Next
<1>5. ASSUME NEW o \in DOMAIN orders, CancelOrder(o) PROVE Lifecycle!Next
  <2>1. o \in 1..MaxOrders /\ OrderStatus[o] = "PENDING"
    BY <1>5, RegisteredOrder DEF CancelOrder, OrderStatus
  <2>2. OrderStatus' = [OrderStatus EXCEPT ![o] = "CANCELLED"]
    BY <1>5, <2>1, StatusAfter DEF CancelOrder
  <2>3. OrderExecutions' = OrderExecutions
    BY <1>1, <1>5 DEF CancelOrder
  <2>. QED
    BY <2>1, <2>2, <2>3 DEF Lifecycle!Next, Lifecycle!Cancel
<1>6. ASSUME NEW o \in pendingRequests, FillPendingLimitOrder(o)
      PROVE  Lifecycle!Next
  <2>1. o \in 1..MaxOrders /\ Open(o)
    BY <1>6, RegisteredOrder
    DEF BrokerInv, BrokerTypeOK, FillPendingLimitOrder, Open
  <2>2. Lifecycle!Execute(o)
    BY <1>6, <2>1, ExecuteRefines DEF FillPendingLimitOrder
  <2>. QED
    BY <2>1, <2>2 DEF Lifecycle!Next
<1>7. CASE \/ \E r \in Requests : RejectMarketOrder(r)
           \/ \E id \in PositionIds, price \in Marks : Mark(id, price)
           \/ \E batch \in QuoteBatches : ProcessMarketQuotes(batch)
           \/ TakeQuote
           \/ \E o \in pendingRequests : AbortQuotes(o)
           \/ \E o \in DOMAIN orders : SkipSettledOrder(o)
           \/ UNCHANGED vars
  <2>1. UNCHANGED brokerVars
    BY <1>7 DEF RejectMarketOrder, Mark, ProcessMarketQuotes, TakeQuote,
                AbortQuotes, SkipSettledOrder, vars
  <2>. QED
    BY <1>2, <2>1
<1>. QED
  BY <1>3, <1>4, <1>5, <1>6, <1>7 DEF Next, ApplyQuotes

(* The simulated broker implements the order lifecycle, for any number of *)
(* orders: one execution per order, final states final.                   *)
THEOREM BrokerImplementsLifecycle == Spec => ImplementsLifecycle
<1>1. Init => Lifecycle!Init
  BY DEF Init, Lifecycle!Init, OrderStatus, OrderExecutions, FillsOf
<1>2. BrokerInv /\ BrokerInv' /\ [Next]_vars
        => [Lifecycle!Next]_(Lifecycle!orderVars)
  BY StepRefines DEF Lifecycle!orderVars
<1>. QED
  BY <1>1, <1>2, BrokerInvAlways, PTL
  DEF Spec, ImplementsLifecycle, Lifecycle!Spec

-----------------------------------------------------------------------------
(* What a quote fills *)

(* A finite set of order numbers can be listed in their order, and the     *)
(* list shows every one of them.                                           *)
LEMMA ByNumberLists ==
  ASSUME NEW S, IsFiniteSet(S), S \subseteq Nat
  PROVE  /\ Cardinality(S) \in Nat
         /\ ByNumber(S) \in [1..Cardinality(S) -> S]
         /\ \A o \in S : \E n \in 1..Cardinality(S) : ByNumber(S)[n] = o
<1> DEFINE N == Cardinality(S)
           before(o) == {x \in S : x < o}
           rank == [o \in S |-> Cardinality(before(o)) + 1]
<1>1. N \in Nat
  BY FS_CardinalityType
<1>2. ASSUME NEW o \in S
      PROVE  /\ IsFiniteSet(before(o)) /\ Cardinality(before(o)) \in Nat
             /\ Cardinality(before(o)) <= N - 1
  <2>1. before(o) \in SUBSET (S \ {o})
    OBVIOUS
  <2>2. IsFiniteSet(S \ {o}) /\ Cardinality(S \ {o}) = N - 1
    BY FS_RemoveElement
  <2> HIDE DEF before, N
  <2>. QED
    BY <2>1, <2>2, FS_Subset, FS_CardinalityType
<1>3. ASSUME NEW o \in S, NEW x \in S, o < x PROVE rank[o] < rank[x]
  <2>1. before(o) \subseteq before(x)
    <3>1. \A y \in S : y < o => y < x
      <4> SUFFICES ASSUME NEW y \in S, y < o PROVE y < x
        OBVIOUS
      <4>1. y \in Nat /\ o \in Nat /\ x \in Nat
        OBVIOUS
      <4>. QED
        BY <1>3, <4>1
    <3>. QED
      BY <3>1
  <2>2. o \in before(x) /\ o \notin before(o)
    BY <1>3
  <2>3. before(o) # before(x)
    BY <2>2
  <2>4. rank[o] = Cardinality(before(o)) + 1 /\ rank[x] = Cardinality(before(x)) + 1
    OBVIOUS
  <2>5. IsFiniteSet(before(x)) /\ Cardinality(before(x)) \in Nat
        /\ Cardinality(before(o)) \in Nat
    BY <1>2
  <2> HIDE DEF before, rank
  <2>6. Cardinality(before(o)) <= Cardinality(before(x))
        /\ Cardinality(before(o)) # Cardinality(before(x))
    BY <2>1, <2>3, <2>5, FS_Subset
  <2>. QED
    BY <2>4, <2>5, <2>6
<1>4. rank \in [S -> 1..N]
  <2>1. ASSUME NEW o \in S PROVE Cardinality(before(o)) + 1 \in 1..N
    <3> HIDE DEF before, N
    <3>. QED
      BY <1>1, <1>2
  <2>. QED
    BY <2>1
<1> HIDE DEF rank, N
<1>5. \A o, x \in S : o # x => rank[o] # rank[x]
  <2> SUFFICES ASSUME NEW o \in S, NEW x \in S, o # x
               PROVE  rank[o] # rank[x]
    OBVIOUS
  <2>1. o < x \/ x < o
    OBVIOUS
  <2>2. rank[o] < rank[x] \/ rank[x] < rank[o]
    BY <1>3, <2>1
  <2>3. rank[o] \in 1..N /\ rank[x] \in 1..N
    BY <1>4
  <2>. QED
    BY <2>2, <2>3
<1>6. IsFiniteSet(1..N) /\ Cardinality(1..N) = N
  BY <1>1, FS_Interval
<1>7. \A n \in 1..N : \E o \in S : rank[o] = n
  <2>1. rank \in Injection(S, 1..N)
    BY <1>4, <1>5 DEF Injection, IsInjective
  <2>2. rank \in Surjection(S, 1..N)
    BY <1>6, <2>1, FS_Injection DEF N
  <2>. QED
    BY <2>2 DEF Surjection
<1> DEFINE InOrder(s) == \A m, n \in DOMAIN s : m < n => s[m] < s[n]
           g == [n \in 1..N |-> CHOOSE o \in S : rank[o] = n]
           s == ByNumber(S)
<1>8. g \in [1..N -> S] /\ InOrder(g)
  <2>1. \A n \in 1..N : g[n] \in S /\ rank[g[n]] = n
    BY <1>7
  <2>2. DOMAIN g = 1..N /\ g \in [1..N -> S]
    BY <2>1
  <2> HIDE DEF g
  <2>3. ASSUME NEW m \in 1..N, NEW n \in 1..N, m < n PROVE g[m] < g[n]
    <3>1. /\ g[m] \in S /\ g[n] \in S /\ rank[g[m]] = m /\ rank[g[n]] = n
          /\ g[m] \in Nat /\ g[n] \in Nat /\ m \in Nat /\ n \in Nat
      <4>1. g[m] \in S /\ g[n] \in S /\ rank[g[m]] = m /\ rank[g[n]] = n
        BY <2>1
      <4>2. S \subseteq Nat /\ m \in Nat /\ n \in Nat
        BY <1>1
      <4>. QED
        BY <4>1, <4>2
    <3>2. g[m] # g[n]
      BY <2>3, <3>1
    <3>3. ~(g[n] < g[m])
      <4>1. g[n] < g[m] => rank[g[n]] < rank[g[m]]
        BY <1>3, <3>1
      <4>. QED
        BY <2>3, <3>1, <4>1
    <3>. QED
      BY <3>1, <3>2, <3>3
  <2>. QED
    BY <2>2, <2>3
<1>9. s \in [1..N -> S] /\ InOrder(s)
  <2>1. s = CHOOSE f \in [1..N -> S] : InOrder(f)
    BY DEF ByNumber, N
  <2> HIDE DEF g, s, InOrder
  <2>. QED
    BY <1>8, <2>1
<1> HIDE DEF g, s
<1>10. \A m, n \in 1..N : m # n => s[m] # s[n]
  <2> SUFFICES ASSUME NEW m \in 1..N, NEW n \in 1..N, m # n, s[m] = s[n]
               PROVE  FALSE
    OBVIOUS
  <2>1. m < n \/ n < m
    BY <1>1
  <2>2. s[m] \in Nat
    BY <1>9
  <2>. QED
    BY <1>9, <2>1, <2>2
<1>11. \A o \in S : \E n \in 1..N : s[n] = o
  <2>1. s \in Injection(1..N, S)
    BY <1>9, <1>10 DEF Injection, IsInjective
  <2>2. s \in Surjection(1..N, S)
    BY <1>6, <2>1, FS_Injection DEF N
  <2>. QED
    BY <2>2 DEF Surjection
<1>. QED
  BY <1>1, <1>9, <1>11 DEF N, s

LEMMA LeastNumber ==
  ASSUME NEW S, IsFiniteSet(S), S \subseteq Nat, S # {}
  PROVE  Min(S) \in S /\ \A x \in S : Min(S) <= x
<1> DEFINE above(o) == {x \in S : x <= o}
           T == {above(o) : o \in S}
<1>1. IsFiniteSet(S) /\ T \subseteq SUBSET S /\ T # {}
  OBVIOUS
<1>2. PICK U \in T : \A V \in T : V \subseteq U => V = U
  <2> HIDE DEF T
  <2>. QED
    BY ONLY <1>1, MinimalSubset
<1>3. PICK o \in S : U = above(o)
  BY <1>2
<1>4. ASSUME NEW x \in S PROVE o <= x
  <2> SUFFICES ASSUME x < o PROVE FALSE
    OBVIOUS
  <2>1. above(x) \in T /\ above(x) \subseteq U
    <3>1. x \in Nat /\ o \in Nat
      OBVIOUS
    <3>2. \A y \in S : y \in Nat /\ (y <= x => y <= o)
      <4> SUFFICES ASSUME NEW y \in S, y <= x PROVE y <= o
        OBVIOUS
      <4>1. y \in Nat
        OBVIOUS
      <4>. QED
        BY <3>1, <4>1
    <3>. QED
      BY <1>3, <3>2
  <2>2. o \in U /\ o \notin above(x)
    BY <1>3
  <2>. QED
    BY <1>2, <2>1, <2>2
<1>5. \E y \in S : \A x \in S : y <= x
  BY <1>4
<1>. QED
  BY <1>5 DEF Min

LEMMA PendingAreFinite ==
  ASSUME BrokerTypeOK, NEW S, S \subseteq pendingRequests
  PROVE  IsFiniteSet(S) /\ S \subseteq Nat
<1>1. S \subseteq 1..orderCounter /\ orderCounter \in Nat
  BY DEF BrokerTypeOK
<1>2. IsFiniteSet(1..orderCounter)
  BY <1>1, FS_Interval
<1>3. IsFiniteSet(S)
  BY <1>1, <1>2, FS_Subset
<1>4. 1..orderCounter \subseteq Nat
  BY <1>1
<1>. QED
  BY <1>1, <1>3, <1>4

(* Of the orders that share a request object the first is looked up.       *)
LEMMA FirstIsFirst ==
  ASSUME BrokerTypeOK, NEW o \in pendingRequests
  PROVE  /\ FirstOrderOf(o) \in pendingRequests
         /\ orders[FirstOrderOf(o)].request = orders[o].request
         /\ FirstOrderOf(o) = o \/ LaterOrderOfSameRequest(o)
<1> DEFINE same == {x \in pendingRequests :
                      orders[x].request.ref = orders[o].request.ref}
           first == FirstOrderOf(o)
<1>1. IsFiniteSet(same) /\ same \subseteq Nat /\ o \in same
  BY PendingAreFinite
<1>2. first = Min(same)
  BY DEF FirstOrderOf
<1>3. first \in same /\ first <= o /\ first \in Nat /\ o \in Nat
  <2> HIDE DEF same, first
  <2>. QED
    BY <1>1, <1>2, LeastNumber
<1>4. first \in DOMAIN orders /\ o \in DOMAIN orders
  BY <1>3 DEF BrokerTypeOK
<1>5. orders[first].request \in Requests /\ orders[o].request \in Requests
  BY <1>4 DEF BrokerTypeOK, BrokerOrders
<1>6. orders[first].request = orders[o].request
  BY <1>3, <1>5, IdentityAssumption
<1>7. first = o \/ LaterOrderOfSameRequest(o)
  BY <1>3, <1>4 DEF LaterOrderOfSameRequest
<1>. QED
  BY <1>3, <1>6, <1>7

(* Crossing is what meeting a limit is.                                    *)
LEMMA CrossedMeet ==
  ASSUME BrokerTypeOK, NEW o \in pendingRequests, NEW q
  PROVE  o \in CrossedOrders(q) <=> LimitMet(orders[o].request, q)
<1>1. orders[o].request.side \in {"BUY", "SELL"}
  BY RequestAssumption DEF BrokerTypeOK, BrokerOrders, IsRequest
<1>. QED
  BY <1>1 DEF CrossedOrders, Crosses, ShouldFillLimitOrder, LimitMet

(* The orders a quote lists are pending and meet it; one that meets it is  *)
(* listed, unless an earlier order has its request.                        *)
LEMMA FillableMeet ==
  ASSUME BrokerTypeOK, NEW q, NEW list, list = FillableOrders(q)
  PROVE  /\ list \in Seq(pendingRequests)
         /\ \A n \in DOMAIN list : LimitMet(orders[list[n]].request, q)
         /\ \A o \in pendingRequests :
              LimitMet(orders[o].request, q) =>
                /\ list # <<>>
                /\ \/ LaterOrderOfSameRequest(o)
                   \/ \E n \in DOMAIN list : list[n] = o
<1> DEFINE S == CrossedOrders(q)
           N == Cardinality(S)
           crossed == ByNumber(S)
<1>1. IsFiniteSet(S) /\ S \subseteq Nat /\ S \subseteq pendingRequests
  <2>1. S \subseteq pendingRequests
    BY DEF CrossedOrders
  <2>. QED
    BY <2>1, PendingAreFinite
<1>2. /\ N \in Nat /\ crossed \in [1..N -> S]
      /\ \A o \in S : \E n \in 1..N : crossed[n] = o
  <2> HIDE DEF S
  <2>. QED
    BY <1>1, ByNumberLists
<1>3. DOMAIN list = 1..N /\ \A n \in 1..N : list[n] = FirstOrderOf(crossed[n])
  BY <1>2 DEF FillableOrders
<1>4. list = [n \in 1..N |-> list[n]]
  BY <1>2 DEF FillableOrders
<1> HIDE DEF S, N, crossed
<1>5. ASSUME NEW n \in 1..N
      PROVE  /\ list[n] \in pendingRequests
             /\ LimitMet(orders[list[n]].request, q)
  <2>1. crossed[n] \in S /\ crossed[n] \in pendingRequests
    BY <1>1, <1>2
  <2>2. LimitMet(orders[crossed[n]].request, q)
    BY <2>1, CrossedMeet DEF S
  <2>. QED
    BY <1>3, <2>1, <2>2, FirstIsFirst
<1>6. list \in Seq(pendingRequests)
  <2>1. list \in [1..N -> pendingRequests]
    BY <1>4, <1>5
  <2>. QED
    BY <1>2, <2>1
<1>7. ASSUME NEW o \in pendingRequests, LimitMet(orders[o].request, q)
      PROVE  /\ list # <<>>
             /\ \/ LaterOrderOfSameRequest(o)
                \/ \E n \in DOMAIN list : list[n] = o
  <2>1. PICK n \in 1..N : crossed[n] = o
    BY <1>2, <1>7, CrossedMeet DEF S
  <2>2. n \in DOMAIN list /\ list[n] = FirstOrderOf(o)
    BY <1>3, <2>1
  <2>. QED
    BY <2>2, FirstIsFirst
<1>. QED
  BY <1>3, <1>5, <1>6, <1>7

(* What is known while a quote is worked through.                          *)
WorkMeets ==
  /\ work \in Seq(DOMAIN orders)
  /\ \A n \in DOMAIN work :
       work[n] \in pendingRequests => LimitMet(orders[work[n]].request, quote)

WorkCovers ==
  work # <<>> =>
    \A o \in pendingRequests :
      LimitMet(orders[o].request, quote) =>
        \/ LaterOrderOfSameRequest(o)
        \/ \E n \in DOMAIN work : work[n] = o

QuoteInv == WorkMeets /\ WorkCovers

(* The order at the head is done with, one way or the other.               *)
LEMMA WorkAdvances ==
  ASSUME BrokerTypeOK, QuoteInv, work # <<>>, AdvanceWork,
         pendingRequests' = pendingRequests \ {Head(work)},
         DOMAIN orders' = DOMAIN orders,
         \A o \in DOMAIN orders : orders'[o].request = orders[o].request
  PROVE  /\ QuoteInv'
         /\ FillsOnlyMet /\ LeavesNoneMet /\ PassesOverUnmet
<1>1. /\ work \in Seq(DOMAIN orders) /\ work' = Tail(work)
      /\ quote' = IF work' = <<>> THEN NoQuote ELSE quote
      /\ pendingRequests \subseteq DOMAIN orders
  BY DEF QuoteInv, WorkMeets, AdvanceWork, BrokerTypeOK
<1> DEFINE N == Len(work)
<1>2. /\ N \in Nat /\ N > 0 /\ DOMAIN work = 1..N /\ Head(work) = work[1]
      /\ work' \in Seq(DOMAIN orders) /\ DOMAIN work' = 1..(N - 1)
      /\ \A n \in 1..(N - 1) : work'[n] = work[n + 1]
      /\ (work' = <<>>) <=> (N = 1)
  <2>1. N \in Nat /\ DOMAIN work = 1..N /\ Head(work) = work[1]
    BY <1>1
  <2>2. N > 0
    BY <1>1
  <2>3. /\ work' \in Seq(DOMAIN orders) /\ Len(work') = N - 1
        /\ \A n \in 1..(N - 1) : work'[n] = work[n + 1]
    BY <1>1
  <2>4. /\ DOMAIN work' = 1..(N - 1)
        /\ (work' = <<>>) <=> (Len(work') = 0)
    BY <2>3
  <2>. QED
    BY <2>1, <2>2, <2>3, <2>4
<1> HIDE DEF N
<1>3. \A o \in DOMAIN orders : \A q :
        LimitMet(orders'[o].request, q) <=> LimitMet(orders[o].request, q)
  BY DEF LimitMet
<1>4. \A o \in DOMAIN orders :
        LaterOrderOfSameRequest(o) <=> LaterOrderOfSameRequest(o)'
  BY DEF LaterOrderOfSameRequest
<1>5. \A o \in pendingRequests' : o \in pendingRequests /\ o # work[1]
  BY <1>2
<1>6. ASSUME NEW o \in pendingRequests', NEW n \in DOMAIN work, work[n] = o
      PROVE  N > 1 /\ n - 1 \in DOMAIN work' /\ work'[n - 1] = o
  <2>1. n \in 1..N /\ n # 1
    BY <1>2, <1>5, <1>6
  <2>2. n - 1 \in 1..(N - 1) /\ (n - 1) + 1 = n /\ N > 1
    BY <1>2, <2>1
  <2>. QED
    BY <1>2, <1>6, <2>2
<1>7. WorkMeets'
  <2>1. ASSUME NEW n \in DOMAIN work', work'[n] \in pendingRequests'
        PROVE  LimitMet(orders'[work'[n]].request, quote')
    <3>1. n \in 1..(N - 1) /\ n + 1 \in DOMAIN work /\ N # 1
      BY <1>2
    <3>2. work'[n] = work[n + 1] /\ work[n + 1] \in pendingRequests
          /\ quote' = quote
      BY <1>1, <1>2, <1>5, <2>1, <3>1
    <3>3. LimitMet(orders[work[n + 1]].request, quote)
      BY <3>1, <3>2 DEF QuoteInv, WorkMeets
    <3>. QED
      BY <1>1, <1>3, <3>2, <3>3
  <2>. QED
    BY <1>2, <2>1 DEF WorkMeets
<1>8. WorkCovers'
  <2> SUFFICES ASSUME work' # <<>>, NEW o \in pendingRequests',
                      LimitMet(orders'[o].request, quote')
               PROVE  \/ LaterOrderOfSameRequest(o)'
                      \/ \E n \in DOMAIN work' : work'[n] = o
    BY DEF WorkCovers
  <2>1. o \in pendingRequests /\ o \in DOMAIN orders
        /\ LimitMet(orders[o].request, quote)
    BY <1>1, <1>3, <1>5
  <2>2. \/ LaterOrderOfSameRequest(o)
        \/ \E n \in DOMAIN work : work[n] = o
    BY <2>1 DEF QuoteInv, WorkCovers
  <2>. QED
    BY <1>4, <1>6, <2>1, <2>2
<1>9. FillsOnlyMet
  <2>1. \A o \in pendingRequests \ pendingRequests' : o = work[1]
    BY <1>2
  <2>2. 1 \in DOMAIN work
    BY <1>2
  <2>. QED
    BY <2>1, <2>2 DEF FillsOnlyMet, QuoteInv, WorkMeets
<1>10. LeavesNoneMet
  <2> SUFFICES ASSUME work' = <<>>, NEW o \in pendingRequests',
                      LimitMet(orders[o].request, quote)
               PROVE  LaterOrderOfSameRequest(o)
    BY DEF LeavesNoneMet
  <2>1. \/ LaterOrderOfSameRequest(o)
        \/ \E n \in DOMAIN work : work[n] = o
    BY <1>5 DEF QuoteInv, WorkCovers
  <2>. QED
    BY <1>2, <1>6, <2>1
<1>11. PassesOverUnmet
  BY DEF PassesOverUnmet
<1>. QED
  BY <1>7, <1>8, <1>9, <1>10, <1>11 DEF QuoteInv

LEMMA QuoteTaken ==
  ASSUME BrokerTypeOK, TakeQuote
  PROVE  /\ QuoteInv'
         /\ FillsOnlyMet /\ LeavesNoneMet /\ PassesOverUnmet
<1>1. /\ work = <<>> /\ queue # <<>> /\ work' = FillableOrders(Head(queue))
      /\ quote' = IF work' = <<>> THEN NoQuote ELSE Head(queue)
      /\ pendingRequests' = pendingRequests /\ orders' = orders
      /\ pendingRequests \subseteq DOMAIN orders
  BY DEF TakeQuote, brokerVars, BrokerTypeOK
<1> DEFINE q == Head(queue)
           list == FillableOrders(q)
<1>2. /\ list \in Seq(pendingRequests)
      /\ \A n \in DOMAIN list : LimitMet(orders[list[n]].request, q)
      /\ \A o \in pendingRequests :
           LimitMet(orders[o].request, q) =>
             /\ list # <<>>
             /\ \/ LaterOrderOfSameRequest(o)
                \/ \E n \in DOMAIN list : list[n] = o
  BY FillableMeet
<1> HIDE DEF list, q
<1>3. work' = list /\ quote' = IF list = <<>> THEN NoQuote ELSE q
  BY <1>1 DEF list, q
<1>4. WorkMeets'
  <2>1. list \in Seq(DOMAIN orders)
    BY <1>1, <1>2
  <2>2. ASSUME NEW n \in DOMAIN list PROVE LimitMet(orders[list[n]].request, quote')
    <3>1. list # <<>>
      OBVIOUS
    <3>. QED
      BY <1>2, <1>3, <3>1
  <2>. QED
    BY <1>1, <1>3, <2>1, <2>2 DEF WorkMeets
<1>5. WorkCovers'
  BY <1>1, <1>2, <1>3 DEF WorkCovers, LaterOrderOfSameRequest
<1>6. PassesOverUnmet
  BY <1>2, <1>3 DEF PassesOverUnmet, q
<1>. QED
  BY <1>1, <1>4, <1>5, <1>6 DEF QuoteInv, FillsOnlyMet, LeavesNoneMet

(* Outside the loop nothing is worked on.                                  *)
LEMMA NothingWorkedOn ==
  ASSUME work = <<>>, work' = <<>>, queue = <<>>
  PROVE  /\ QuoteInv'
         /\ FillsOnlyMet /\ LeavesNoneMet /\ PassesOverUnmet
<1>1. WorkMeets'
  BY DEF WorkMeets
<1>. QED
  BY <1>1 DEF QuoteInv, WorkCovers, FillsOnlyMet, LeavesNoneMet, PassesOverUnmet

LEMMA QuoteAborted ==
  ASSUME NEW o \in pendingRequests, AbortQuotes(o)
  PROVE  /\ QuoteInv'
         /\ FillsOnlyMet /\ LeavesNoneMet /\ PassesOverUnmet
<1>1. /\ work # <<>> /\ o = Head(work) /\ ~FillAllowed(orders[o].request)
      /\ work' = <<>> /\ pendingRequests' = pendingRequests
  BY DEF AbortQuotes, brokerVars
<1>2. Head(work) \in pendingRequests /\ RefusedByAccount
  BY <1>1 DEF RefusedByAccount
<1>3. WorkMeets'
  BY <1>1 DEF WorkMeets
<1>. QED
  BY <1>1, <1>2, <1>3
  DEF QuoteInv, WorkCovers, FillsOnlyMet, LeavesNoneMet, PassesOverUnmet

LEMMA QuoteStep ==
  BrokerInv /\ QuoteInv /\ [Next]_vars =>
    /\ QuoteInv'
    /\ [FillsOnlyMet /\ LeavesNoneMet /\ PassesOverUnmet]_vars
<1> SUFFICES ASSUME BrokerInv, QuoteInv, [Next]_vars
             PROVE  /\ QuoteInv'
                    /\ [FillsOnlyMet /\ LeavesNoneMet /\ PassesOverUnmet]_vars
  OBVIOUS
<1> DEFINE Result == /\ QuoteInv'
                     /\ FillsOnlyMet /\ LeavesNoneMet /\ PassesOverUnmet
<1>1. BrokerTypeOK
  BY DEF BrokerInv
<1>2. CASE UNCHANGED vars
  BY <1>2 DEF vars, brokerVars, quoteVars, QuoteInv, WorkMeets, WorkCovers,
              LaterOrderOfSameRequest, LimitMet
<1>3. CASE \/ \E r \in Requests : \/ PlaceLimitOrder(r) \/ PlaceMarketOrder(r)
                                  \/ RejectMarketOrder(r)
           \/ \E o \in DOMAIN orders : CancelOrder(o)
           \/ \E id \in PositionIds, price \in Marks : Mark(id, price)
           \/ \E batch \in QuoteBatches : ProcessMarketQuotes(batch)
  <2>1. queue = <<>> /\ work = <<>> /\ work' = <<>>
    BY <1>3 DEF PlaceLimitOrder, PlaceMarketOrder, RejectMarketOrder, Placing,
                CancelOrder, Mark, ProcessMarketQuotes, Idle, quoteVars
  <2>. QED
    BY <2>1, NothingWorkedOn
<1>4. CASE TakeQuote
  BY <1>1, <1>4, QuoteTaken
<1>5. ASSUME NEW o \in pendingRequests, FillPendingLimitOrder(o) PROVE Result
  <2>1. /\ work # <<>> /\ o = Head(work) /\ AdvanceWork
        /\ pendingRequests' = pendingRequests \ {Head(work)}
        /\ orders' = WithOrder(o, orders[o].request, "FILLED")
        /\ o \in DOMAIN orders
    BY <1>1, <1>5 DEF FillPendingLimitOrder, BrokerTypeOK
  <2>2. /\ DOMAIN orders' = DOMAIN orders
        /\ \A x \in DOMAIN orders : orders'[x].request = orders[x].request
    BY <2>1 DEF WithOrder
  <2>. QED
    BY <1>1, <2>1, <2>2, WorkAdvances
<1>6. ASSUME NEW o \in pendingRequests, AbortQuotes(o) PROVE Result
  BY <1>6, QuoteAborted
<1>7. ASSUME NEW o \in DOMAIN orders, SkipSettledOrder(o) PROVE Result
  <2>1. /\ work # <<>> /\ AdvanceWork /\ orders' = orders
        /\ pendingRequests' = pendingRequests \ {Head(work)}
    BY <1>7 DEF SkipSettledOrder, brokerVars
  <2>. QED
    BY <1>1, <2>1, WorkAdvances
<1>. QED
  BY <1>2, <1>3, <1>4, <1>5, <1>6, <1>7 DEF Next, ApplyQuotes

LEMMA QuoteInvOfInit == Init => QuoteInv
<1> SUFFICES ASSUME Init PROVE QuoteInv
  OBVIOUS
<1>1. work = <<>>
  BY DEF Init
<1>. QED
  BY <1>1 DEF QuoteInv, WorkMeets, WorkCovers

(* A quote fills no order whose limit it does not meet, and leaves none     *)
(* whose limit it meets pending unless the account refuses one or it shares *)
(* its request with an earlier order: for any requests, batches and costs.  *)
THEOREM QuotesFillWhatTheyMeet == Spec => QuoteFillsWhatItMeets
<1>. QED
  BY QuoteInvOfInit, QuoteStep, BrokerInvAlways, PTL DEF Spec, QuoteFillsWhatItMeets

=============================================================================
