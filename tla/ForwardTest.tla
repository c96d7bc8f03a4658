---------------------------- MODULE ForwardTest ----------------------------
(***************************************************************************)
(* src/src/forward-test: a forward testing engine with its feed, its    *)
(* execution service and its metrics, over a paper broker (PaperBroker)    *)
(* and a strategy (Strategies).  runDaily awaits the feed and each order   *)
(* of the signal, so runs overlap; what lies between two awaits is one     *)
(* step.  The quote at the end of a run goes through processMarketQuotes,  *)
(* which is a step per order (see PaperBroker), in the phase "quoting":    *)
(* meanwhile nothing else runs.                                            *)
(*                                                                         *)
(* Others use the same broker: they place and cancel limit orders.         *)
(***************************************************************************)
EXTENDS Strategies, FiniteSetsExt, SequencesExt

CONSTANTS
  Strategies, Instruments, LegGroups, DefaultLeg, InitialCapital,
  IncludeCosts, BrokeragePerOrder, SlippagePct, ChargePct,
  TestedStrategies, \* names an engine may be configured with
  CustomStrategy,   \* name of a strategy written by a user of the engine
  CustomSignals,    \* the step sequences its signals may have
  Feeds,            \* sequences of snapshots [time, price, chain]
  ClientRequests,   \* limit orders of others
  MaxOrders,        \* bound: order numbers given out
  MaxClientOrders,  \* bound: those of them in ClientRequests
  MaxSnapshots,     \* bound: snapshots pushed into the feed
  MaxRuns           \* bound: calls of runDaily

ASSUME ForwardAssumption ==
  /\ TestedStrategies \subseteq Strategies
  /\ TestedStrategies \subseteq BuiltInStrategies \cup {CustomStrategy}
  /\ CustomStrategy \notin BuiltInStrategies
  /\ \A r \in ClientRequests :
       r.type = "LIMIT" /\ r.strategy \notin TestedStrategies

VARIABLES
  cash, openPositions, closedPositions, ledger,
  orders, pendingRequests, fills, realizedPnlTotal, orderCounter,
  queue, quote, work,
  config,           \* strategy and instrument of the engine
  series, cursor,   \* the feed's snapshots and how many it has given out
  strategyPosition, \* what the strategy believes it holds, at most one
  runs,             \* the calls of runDaily; what each has placed is history
  metrics,          \* the collector's totals
  results           \* session.runs

Broker == INSTANCE PaperBroker
            WITH Requests <- ClientRequests, QuoteBatches <- {}, Marks <- {}

brokerVars ==
  <<cash, openPositions, closedPositions, ledger, orders, pendingRequests,
    fills, realizedPnlTotal, orderCounter, queue, quote, work>>
feedVars   == <<series, cursor>>
engineVars == <<config, strategyPosition, metrics, results>>
vars == <<brokerVars, feedVars, engineVars, runs>>

NoMetrics ==
  [totalRuns |-> 0, totalExecutions |-> 0, totalExpectedPnl |-> 0,
   totalActualPnl |-> 0, totalSlippageCost |-> 0]

Init ==
  /\ Broker!Init
  /\ config \in [strategyName : TestedStrategies, instrumentId : Instruments]
  /\ series = <<>>
  /\ cursor = 0
  /\ strategyPosition = {}
  /\ runs = <<>>
  /\ metrics = NoMetrics
  /\ results = <<>>

(* No processMarketQuotes is under way. *)
Resting == \A n \in DOMAIN runs : runs[n].phase # "quoting"

-----------------------------------------------------------------------------
(* From a step of the signal to an order *)

Opens(step) == step.kind \in {"OPEN_DEFINED_RISK", "OPEN_EQUITY"}
IsSpread(step) == step.kind \in {"OPEN_DEFINED_RISK", "CLOSE_DEFINED_RISK"}

LegGroupOf(step) ==
  IF IsSpread(step) /\ step.leg # {} THEN CHOOSE leg \in step.leg : TRUE
                                     ELSE DefaultLeg

(* The position a closing step looks up. *)
LookedUp(step) ==
  IF IsSpread(step)
  THEN Broker!CreatePositionId(config.strategyName, config.instrumentId,
                               LegGroupOf(step))
  ELSE step.positionId

HeldOrLot(id) ==
  IF Broker!IsOpen(id) THEN openPositions[id].quantity ELSE LotSize

QuantityOf(step) ==
  CASE Opens(step) -> step.quantity
    [] step.kind = "CLOSE_DEFINED_RISK" -> HeldOrLot(LookedUp(step))
    [] step.kind = "CLOSE_EQUITY" ->
         IF step.quantity = {} THEN HeldOrLot(LookedUp(step))
                               ELSE CHOOSE quantity \in step.quantity : TRUE

ExpectedPrice(step) ==
  CASE step.kind = "OPEN_DEFINED_RISK" -> step.entryCredit
    [] step.kind = "CLOSE_DEFINED_RISK" -> step.closeCost
    [] ~IsSpread(step) -> step.price

MaxLossOf(step) ==
  CASE step.kind = "OPEN_DEFINED_RISK" -> step.maxLoss
    [] step.kind = "CLOSE_DEFINED_RISK"
         /\ Broker!IsOpenAs(LookedUp(step), "DEFINED_RISK") ->
         openPositions[LookedUp(step)].maxLoss
    [] OTHER -> 0

(* The request names its position by strategy, instrument and leg group,   *)
(* so a sale of shares need not be of the position that was looked up.     *)
OrderOf(step) ==
  [ref |-> "run", strategy |-> config.strategyName,
   instrument |-> config.instrumentId, leg |-> LegGroupOf(step),
   definedRisk |-> IsSpread(step), type |-> "MARKET",
   side |-> IF Opens(step) THEN "BUY" ELSE "SELL",
   quantity |-> QuantityOf(step), price |-> ExpectedPrice(step),
   entryCredit |-> IF Opens(step) /\ IsSpread(step) THEN step.entryCredit ELSE 0,
   maxLoss |-> MaxLossOf(step), closeCost |-> ExpectedPrice(step)]

(* Mutation: computed after the order, when a closed position is gone. *)
ExpectedPnlAfterOrder(step) == 0

ExpectedPnl(step) ==
  LET position == openPositions[LookedUp(step)]
  IN  IF Opens(step) \/ ~Broker!IsOpen(LookedUp(step)) THEN 0
      ELSE IF position.kind = "DEFINED_RISK"
      THEN (position.entryCredit - ExpectedPrice(step)) * QuantityOf(step)
      ELSE (ExpectedPrice(step) - position.averagePrice) * QuantityOf(step)

(* The slippage is counted twice: by the price and by the fill's own. *)
ExecutionOf(step) ==
  LET order == OrderOf(step)
      slippage == Broker!Distance(Broker!FillPrice(order), order.price)
                    * order.quantity
  IN  [side |-> order.side, quantity |-> order.quantity,
       expectedPrice |-> order.price, actualPrice |-> Broker!FillPrice(order),
       expectedPnl |-> ExpectedPnl(step), actualPnl |-> Broker!RealizedBy(order),
       slippageCost |-> 2 * slippage]

-----------------------------------------------------------------------------
(* executeSignal: an order per step, each awaited *)

Continued(run, steps) == [run EXCEPT !.phase = "executing", !.steps = steps]

(* Mutation: the records of a step replace those of the steps before it. *)
ExecutedLastOnly(run, step, steps) ==
  [Continued(run, steps) EXCEPT
     !.executions = <<ExecutionOf(step)>>,
     !.placed = @ \cup {Broker!NextOrder}]

Executed(run, step, steps) ==
  [Continued(run, steps) EXCEPT
     !.executions = Append(@, ExecutionOf(step)),
     !.placed = @ \cup {Broker!NextOrder}]

(* The records are the call's own: with the exception they are lost. *)
Failed(run) == [run EXCEPT !.phase = "failed", !.executions = <<>>]

Refused(order) ==
  \/ Broker!RejectMarketOrder(order)
  \/ ~Broker!ValidRequest(order) /\ UNCHANGED brokerVars

(* Mutation: a refused order is passed over, as the backtest does. *)
ExecutePassingRefusals(n, steps) ==
  \/ /\ steps = <<>>
     /\ runs' = [runs EXCEPT ![n] = Continued(@, <<>>)]
     /\ UNCHANGED brokerVars
  \/ /\ steps # <<>>
     /\ Broker!PlaceMarketOrder(OrderOf(Head(steps)))
     /\ runs' = [runs EXCEPT ![n] = Executed(@, Head(steps), Tail(steps))]
  \/ /\ steps # <<>>
     /\ Refused(OrderOf(Head(steps)))
     /\ runs' = [runs EXCEPT ![n] = Continued(@, Tail(steps))]

(* Up to the next await.  A refused order ends the run: what its earlier   *)
(* orders did in the account remains, and so does what the strategy        *)
(* believes, but no record of them.                                        *)
Execute(n, steps) ==
  \/ /\ steps = <<>>
     /\ runs' = [runs EXCEPT ![n] = Continued(@, <<>>)]
     /\ UNCHANGED brokerVars
  \/ /\ steps # <<>>
     /\ Broker!PlaceMarketOrder(OrderOf(Head(steps)))
     /\ runs' = [runs EXCEPT ![n] = Executed(@, Head(steps), Tail(steps))]
  \/ /\ steps # <<>>
     /\ Refused(OrderOf(Head(steps)))
     /\ runs' = [runs EXCEPT ![n] = Failed(@)]

-----------------------------------------------------------------------------
(* runDaily *)

(* fetchSnapshot of the feed moves its cursor before anything is awaited. *)
StartRun ==
  /\ Resting
  /\ Len(runs) < MaxRuns
  /\ runs' = Append(runs,
       [phase |-> "fetching", steps |-> <<>>, executions |-> <<>>, placed |-> {},
        snapshot |-> {series[i] : i \in {cursor + 1} \cap DOMAIN series}])
  /\ cursor' = IF cursor < Len(series) THEN cursor + 1 ELSE cursor
  /\ UNCHANGED <<brokerVars, series, engineVars>>

Skip(n) ==
  /\ Resting
  /\ runs[n].phase = "fetching" /\ runs[n].snapshot = {}
  /\ runs' = [runs EXCEPT ![n].phase = "ended"]
  /\ results' = Append(results, [run |-> n, metrics |-> metrics])
  /\ UNCHANGED <<brokerVars, feedVars, config, strategyPosition, metrics>>

Decisions(s) ==
  IF config.strategyName = CustomStrategy
  THEN {Decision(strategyPosition, steps) : steps \in CustomSignals}
  ELSE Evaluate(config.strategyName, config.instrumentId, strategyPosition,
                s, Broker!Equity)

(* Mutation: the signal is awaited before its first order is placed. *)
DecideThenAwait(n) ==
  /\ Resting
  /\ runs[n].phase = "fetching"
  /\ \E s \in runs[n].snapshot : \E decision \in Decisions(s) :
       /\ strategyPosition' = decision.position
       /\ runs' = [runs EXCEPT ![n] = Continued(@, decision.steps)]
  /\ UNCHANGED <<brokerVars, feedVars, config, metrics, results>>

(* The equity is read, the signal generated and its first order placed     *)
(* without an await in between.                                            *)
Decide(n) ==
  /\ Resting
  /\ runs[n].phase = "fetching"
  /\ \E s \in runs[n].snapshot : \E decision \in Decisions(s) :
       /\ strategyPosition' = decision.position
       /\ Execute(n, decision.steps)
  /\ UNCHANGED <<feedVars, config, metrics, results>>

ExecuteNextStep(n) ==
  /\ Resting
  /\ runs[n].phase = "executing" /\ runs[n].steps # <<>>
  /\ Execute(n, runs[n].steps)
  /\ UNCHANGED <<feedVars, engineVars>>

ProcessQuote(n) ==
  /\ Resting
  /\ runs[n].phase = "executing" /\ runs[n].steps = <<>>
  /\ \E s \in runs[n].snapshot :
       Broker!ProcessMarketQuotes(
         <<[instrument |-> config.instrumentId, price |-> s.price]>>)
  /\ runs' = [runs EXCEPT ![n].phase = "quoting"]
  /\ UNCHANGED <<feedVars, engineVars>>

ApplyQuote(n) ==
  /\ runs[n].phase = "quoting"
  /\ \/ Broker!TakeQuote
     \/ \E o \in pendingRequests : Broker!FillPendingLimitOrder(o)
     \/ \E o \in DOMAIN orders : Broker!SkipSettledOrder(o)
  /\ UNCHANGED <<runs, feedVars, engineVars>>

(* A limit order the account refuses ends the run that brought the quote. *)
FailOnQuote(n) ==
  /\ runs[n].phase = "quoting"
  /\ \E o \in pendingRequests : Broker!AbortQuotes(o)
  /\ runs' = [runs EXCEPT ![n] = Failed(@)]
  /\ UNCHANGED <<feedVars, engineVars>>

(* Shares of every strategy and instrument are marked at the snapshot's    *)
(* price; spreads keep their marks.                                        *)
MarkOpenPositions(price) ==
  /\ openPositions' =
       [id \in DOMAIN openPositions |->
          IF openPositions[id].kind = "EQUITY"
          THEN [openPositions[id] EXCEPT !.markPrice = price]
          ELSE openPositions[id]]
  /\ UNCHANGED <<cash, closedPositions, ledger>>

Total(executions, Column(_)) ==
  FoldSeq(LAMBDA execution, sum : sum + Column(execution), 0, executions)

(* Mutation: a run without executions is no run. *)
RecordedIfExecuted(executions) ==
  IF executions = <<>> THEN metrics
  ELSE
  [totalRuns |-> metrics.totalRuns + 1,
   totalExecutions |-> metrics.totalExecutions + Len(executions),
   totalExpectedPnl |->
     metrics.totalExpectedPnl + Total(executions, LAMBDA e : e.expectedPnl),
   totalActualPnl |->
     metrics.totalActualPnl + Total(executions, LAMBDA e : e.actualPnl),
   totalSlippageCost |->
     metrics.totalSlippageCost + Total(executions, LAMBDA e : e.slippageCost)]

(* recordRun *)
Recorded(executions) ==
  [totalRuns |-> metrics.totalRuns + 1,
   totalExecutions |-> metrics.totalExecutions + Len(executions),
   totalExpectedPnl |->
     metrics.totalExpectedPnl + Total(executions, LAMBDA e : e.expectedPnl),
   totalActualPnl |->
     metrics.totalActualPnl + Total(executions, LAMBDA e : e.actualPnl),
   totalSlippageCost |->
     metrics.totalSlippageCost + Total(executions, LAMBDA e : e.slippageCost)]

EndRun(n) ==
  /\ runs[n].phase = "quoting" /\ Broker!Idle
  /\ \E s \in runs[n].snapshot : MarkOpenPositions(s.price)
  /\ metrics' = Recorded(runs[n].executions)
  /\ results' = Append(results, [run |-> n, metrics |-> metrics'])
  /\ runs' = [runs EXCEPT ![n].phase = "ended"]
  /\ UNCHANGED <<orders, pendingRequests, fills, realizedPnlTotal, orderCounter,
                 queue, quote, work, feedVars, config, strategyPosition>>

-----------------------------------------------------------------------------
(* The feed's owner and other users of the broker *)

PushMany(snapshots) ==
  /\ Resting
  /\ Len(series) + Len(snapshots) <= MaxSnapshots
  /\ series' = series \o snapshots
  /\ UNCHANGED <<brokerVars, cursor, engineVars, runs>>

ResetFeed ==
  /\ Resting
  /\ cursor' = 0
  /\ UNCHANGED <<brokerVars, series, engineVars, runs>>

PlaceClientOrder(r) ==
  /\ Resting
  /\ Cardinality({o \in DOMAIN orders : orders[o].request \in ClientRequests})
       < MaxClientOrders
  /\ Broker!PlaceLimitOrder(r)
  /\ UNCHANGED <<feedVars, engineVars, runs>>

CancelClientOrder(o) ==
  /\ Resting
  /\ Broker!CancelOrder(o)
  /\ UNCHANGED <<feedVars, engineVars, runs>>

Next ==
  \/ StartRun
  \/ \E n \in DOMAIN runs :
       \/ Skip(n)
       \/ Decide(n)
       \/ ExecuteNextStep(n)
       \/ ProcessQuote(n)
       \/ ApplyQuote(n)
       \/ FailOnQuote(n)
       \/ EndRun(n)
  \/ \E snapshots \in Feeds : PushMany(snapshots)
  \/ ResetFeed
  \/ \E r \in ClientRequests : PlaceClientOrder(r)
  \/ \E o \in DOMAIN orders : CancelClientOrder(o)

Spec == Init /\ [][Next]_vars

-----------------------------------------------------------------------------
(* Properties *)

RecordedRuns == {results[k].run : k \in DOMAIN results}

(* The fills of the orders these runs placed. *)
FillsOf(someRuns) ==
  SelectSeq(fills, LAMBDA fill :
              \E n \in someRuns : fill.orderId \in runs[n].placed)

OtherFills(someRuns) ==
  SelectSeq(fills, LAMBDA fill :
              \A n \in someRuns : fill.orderId \notin runs[n].placed)

(* However runs overlap, the executions of a run that has not failed are   *)
(* the fills of its own orders, one by one, whatever happened to the       *)
(* account between them; and what the broker has filled and realized       *)
(* beyond the metrics is exactly the fills of the runs that never came to  *)
(* be recorded and of other users: a run is in the metrics whole or, when  *)
(* one of its orders or the quote behind them is refused, not at all.      *)
ExecutionsAreFills ==
  /\ \A n \in DOMAIN runs : runs[n].phase # "failed" =>
       LET mine == FillsOf({n})
       IN  /\ Len(runs[n].executions) = Len(mine)
           /\ \A i \in DOMAIN mine :
                [side |-> mine[i].side, quantity |-> mine[i].quantity,
                 actualPrice |-> mine[i].price,
                 actualPnl |-> mine[i].realizedPnl]
                = Restrict(runs[n].executions[i],
                           {"side", "quantity", "actualPrice", "actualPnl"})
  /\ metrics.totalExecutions + Len(OtherFills(RecordedRuns)) = Len(fills)
  /\ metrics.totalActualPnl
       + Total(OtherFills(RecordedRuns), LAMBDA fill : fill.realizedPnl)
       = realizedPnlTotal

(* The metrics a run shows in the session are the totals over the runs     *)
(* recorded before it and its own: a run that overlaps it is either in     *)
(* both or in neither.                                                     *)
ResultsAddUp ==
  \A k \in DOMAIN results :
    LET upTo == FlattenSeq([i \in 1..k |-> runs[results[i].run].executions])
        shown == results[k].metrics
    IN  /\ shown.totalRuns =
             Cardinality({i \in 1..k : runs[results[i].run].snapshot # {}})
        /\ shown.totalExecutions = Len(upTo)
        /\ shown.totalExpectedPnl = Total(upTo, LAMBDA e : e.expectedPnl)
        /\ shown.totalActualPnl = Total(upTo, LAMBDA e : e.actualPnl)
        /\ shown.totalSlippageCost = Total(upTo, LAMBDA e : e.slippageCost)

OpenSpreads ==
  {id \in DOMAIN openPositions :
     id[1] = config.strategyName /\ openPositions[id].kind = "DEFINED_RISK"}

FailedWithoutOrder(n) == runs[n].phase = "failed" /\ runs[n].placed = {}

(* A strategy whose signals are one order believes in a spread exactly if  *)
(* the account holds it, at its credit and size, as long as no run failed  *)
(* without an order in the account: overlapping runs never come between a  *)
(* signal and its order.                                                   *)
BeliefIsTheAccounts ==
  /\ config.strategyName \in BuiltInStrategies \ {"covered-call"}
  /\ \A n \in DOMAIN runs : ~FailedWithoutOrder(n)
  => {[credit |-> openPositions[id].entryCredit,
       quantity |-> openPositions[id].quantity] : id \in OpenSpreads}
     = {[credit |-> entry.entryCredit, quantity |-> entry.quantity] :
          entry \in strategyPosition}

(* However the runs of a covered call overlap, and whichever of its orders *)
(* are refused, the account holds the shares that cover its open call.     *)
CallsStayCovered ==
  config.strategyName = "covered-call" =>
    \A id \in OpenSpreads :
      Broker!HeldQuantity(Broker!CreatePositionId(id[1], id[2], DefaultLeg))
        >= openPositions[id].quantity

(* Over all recorded runs, the actual profit falls short of the expected   *)
(* one by what selling shares cost in fees and slippage, to the unit.      *)
(* (Not for the covered call, which looks its shares up under another id   *)
(* and so expects nothing of them.)                                        *)
VarianceIsCosts ==
  config.strategyName # "covered-call" =>
    metrics.totalExpectedPnl - metrics.totalActualPnl
    = Total(SelectSeq(FillsOf(RecordedRuns), LAMBDA fill : fill.side = "SELL"),
            LAMBDA fill :
              fill.totalFees
                + (orders[fill.orderId].request.price - fill.price) * fill.quantity)

=============================================================================
