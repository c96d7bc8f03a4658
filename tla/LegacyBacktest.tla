--------------------------- MODULE LegacyBacktest ---------------------------
(***************************************************************************)
(* The three portfolios that backtests kept before the portfolio engine:   *)
(*   - the candle run: candle-backtest.engine.ts with order-simulator.ts   *)
(*     and portfolio-tracker.ts, for a strategy of a user, external here;  *)
(*   - the condor run: iron-condor-backtest.runner.ts, with a strategy     *)
(*     object that remembers its position from one run to the next;        *)
(*   - the simulator: portfolio-simulator.ts, used in any order.           *)
(* A run is synchronous; it is cut into a step per candle.                 *)
(*                                                                         *)
(* Cash and prices are whole units.  The average price of shares is in     *)
(* units of 1/AverageUnit and rounded down, profits are in that unit too.  *)
(***************************************************************************)
EXTENDS Strategies, TradingCosts, LegacyEvents, PerformanceMetrics

CONSTANTS
  InitialCapital, QuantityPerTrade, AverageUnit,
  CandleLists,   \* of the runs: sequences of [time, close, chain]
  Spreads,       \* of the simulator: [shortStrike, longStrike, entryCredit]
  MaxRuns,       \* bound: runs of one condor strategy
  MaxTrades      \* bound: trades of a simulator

ASSUME LegacyAssumption ==
  /\ {InitialCapital, QuantityPerTrade, AverageUnit} \subseteq Nat \ {0}
  /\ \A candles \in CandleLists : candles # <<>>
  /\ MaxRuns \in Nat /\ MaxTrades \in Nat

VARIABLES
  kind,             \* "candles", "condor" or "simulator"
  runs,             \* runs begun
  candles,          \* of this run, as given
  remaining,        \* of these, in order of time, those not replayed
  cash,
  position,         \* shares held: at most one [quantity, averagePrice]
  spread,           \* the open spread: a set of at most one
  openCredit,
  strategyPosition, \* what the condor strategy believes it holds, likewise
  inherited,        \* what it believed when this run began
  trades,
  closedPositions,  \* of the simulator
  equityCurve

account == <<cash, position, spread, openCredit>>
vars == <<kind, runs, candles, remaining, account, strategyPosition,
          inherited, trades, closedPositions, equityCurve>>

FreshAccount ==
  /\ cash' = InitialCapital
  /\ position' = {}
  /\ spread' = {}
  /\ openCredit' = 0
  /\ trades' = <<>>
  /\ equityCurve' = <<>>

Init ==
  /\ kind \in {"candles", "condor", "simulator"}
  /\ runs = 0
  /\ candles = <<>>
  /\ remaining = <<>>
  /\ cash = InitialCapital
  /\ position = {}
  /\ spread = {}
  /\ openCredit = 0
  /\ strategyPosition = {}
  /\ inherited = {}
  /\ trades = <<>>
  /\ closedPositions = <<>>
  /\ equityCurve = <<>>

(* A run begins when there is none, or the last one has ended. *)
StartRun(list) ==
  /\ kind # "simulator" /\ remaining = <<>>
  /\ runs < (IF kind = "condor" THEN MaxRuns ELSE 1)
  /\ runs' = runs + 1
  /\ candles' = list
  /\ remaining' = SortByTime(list)
  /\ inherited' = strategyPosition
  /\ FreshAccount
  /\ UNCHANGED <<kind, strategyPosition, closedPositions>>

Trade(time, side, quantity, price, fees, pnl) ==
  [time |-> time, side |-> side, quantity |-> quantity, price |-> price,
   totalFees |-> fees, realizedPnl |-> pnl]

Point(time, newCash, positionValue) ==
  [time |-> time, cash |-> newCash, equity |-> newCash + positionValue]

-----------------------------------------------------------------------------
(* The candle run *)

BuyCost(price) ==
  ExecutionPrice("BUY", price) * QuantityPerTrade
    + TotalFees("BUY", price, QuantityPerTrade)

(* Mutation: the average is that of the two prices. *)
MeanPrice(held, price) ==
  (held.averagePrice + price * AverageUnit) \div 2

(* The average price after a purchase at this price. *)
AveragePrice(held, price) ==
  (held.averagePrice * held.quantity + price * AverageUnit * QuantityPerTrade)
    \div (held.quantity + QuantityPerTrade)

ExecuteBuy(candle) ==
  LET price == ExecutionPrice("BUY", candle.close)
      bought == {[quantity |-> held.quantity + QuantityPerTrade,
                  averagePrice |-> AveragePrice(held, price)] :
                    held \in position}
  IN  /\ BuyCost(candle.close) <= cash
      /\ cash' = cash - BuyCost(candle.close)
      /\ position' = IF position # {} THEN bought
                     ELSE {[quantity |-> QuantityPerTrade,
                            averagePrice |-> price * AverageUnit]}
      /\ trades' = Append(trades,
           Trade(candle.time, "BUY", QuantityPerTrade, price,
                 TotalFees("BUY", candle.close, QuantityPerTrade), 0))

ExecuteSell(candle) ==
  \E held \in position :
    LET quantity == IF QuantityPerTrade < held.quantity THEN QuantityPerTrade
                                                        ELSE held.quantity
        price    == ExecutionPrice("SELL", candle.close)
        fees     == TotalFees("SELL", candle.close, quantity)
        proceeds == price * quantity - fees
    IN  /\ cash' = cash + proceeds
        /\ position' = IF quantity = held.quantity THEN {}
                       ELSE {[held EXCEPT !.quantity = @ - quantity]}
        /\ trades' = Append(trades,
             Trade(candle.time, "SELL", quantity, price, fees,
                   proceeds * AverageUnit - held.averagePrice * quantity))

(* A signal to hold, a purchase beyond the cash, a sale of nothing. *)
NoOrder == UNCHANGED <<cash, position, trades>>

SharesHeld(shares) ==
  SumOf([n \in 1..Cardinality(shares) |-> (CHOOSE s \in shares : TRUE).quantity])

ExecuteSignal(action, candle) ==
  \/ action = "HOLD" /\ NoOrder
  \/ action = "BUY"  /\ ExecuteBuy(candle)
  \/ action = "BUY"  /\ BuyCost(candle.close) > cash /\ NoOrder
  \/ action = "SELL" /\ ExecuteSell(candle)
  \/ action = "SELL" /\ position = {} /\ NoOrder

ReplayCandle(action) ==
  /\ kind = "candles" /\ remaining # <<>>
  /\ LET candle == Head(remaining)
     IN  /\ ExecuteSignal(action, candle)
         /\ equityCurve' = Append(equityCurve,
              Point(candle.time, cash', SharesHeld(position') * candle.close))
  /\ remaining' = Tail(remaining)
  /\ UNCHANGED <<kind, runs, candles, spread, openCredit, strategyPosition,
                 inherited, closedPositions>>

-----------------------------------------------------------------------------
(* The condor run *)

CondorCloseCost(condor, chain) ==
  IronCondorCloseCost(condor.metadata.putSpread, condor.metadata.callSpread,
                      chain)

(* Of candles with one timestamp the last one given is evaluated for each. *)
SourceCandle(time) ==
  candles[Max({n \in DOMAIN candles : candles[n].time = time})]

OpensCondor(decision) == strategyPosition = {} /\ decision.position # {}
ClosesCondor(decision) == strategyPosition # {} /\ decision.position = {}

OpenCondor(decision, time) ==
  \E condor \in decision.position :
    /\ spread' = {condor}
    /\ openCredit' = condor.entryCredit * LotSize
    /\ cash' = cash + condor.entryCredit * LotSize
    /\ trades' = Append(trades,
         Trade(time, "BUY", LotSize, condor.entryCredit, 0, 0))

(* Mutation: the run goes on with the condor it has closed. *)
CloseCondorAndKeepIt(time, chain) ==
  \E condor \in spread :
    LET cost == OrElse(CondorCloseCost(condor, chain), 0)
    IN  /\ cash' = cash - cost * LotSize
        /\ trades' = Append(trades,
             Trade(time, "SELL", LotSize, cost, 0,
                   (openCredit - cost * LotSize) * AverageUnit))
        /\ UNCHANGED <<spread, openCredit>>

CloseCondor(time, chain) ==
  \E condor \in spread :
    LET cost == OrElse(CondorCloseCost(condor, chain), 0)
    IN  /\ spread' = {}
        /\ openCredit' = 0
        /\ cash' = cash - cost * LotSize
        /\ trades' = Append(trades,
             Trade(time, "SELL", LotSize, cost, 0,
                   (openCredit - cost * LotSize) * AverageUnit))

(* A close of a condor that another run opened is not executed. *)
Settles(decision, time, chain) ==
  \/ OpensCondor(decision) /\ OpenCondor(decision, time)
  \/ ClosesCondor(decision) /\ CloseCondor(time, chain)
  \/ /\ ~OpensCondor(decision)
     /\ ~ClosesCondor(decision) \/ spread = {}
     /\ UNCHANGED <<cash, spread, openCredit, trades>>

(* A condor that cannot be priced is marked at its entry. *)
CondorUnrealized(condors, credit, chain) ==
  IF condors = {} THEN 0
  ELSE LET condor == CHOOSE c \in condors : TRUE
       IN  credit - OrElse(CondorCloseCost(condor, chain), condor.entryCredit)
                      * LotSize

NoQuotes == [puts |-> <<>>, calls |-> <<>>, expiryDate |-> 0]

ReplayCondorCandle ==
  /\ kind = "condor" /\ remaining # <<>>
  /\ LET source == SourceCandle(Head(remaining).time)
         chain  == OrElse(source.chain, NoQuotes)
         snapshot == [time |-> source.time, price |-> source.close,
                      chain |-> chain]
     IN  \E decision \in Evaluate("iron-condor", "", strategyPosition,
                                  snapshot, 0) :
           /\ strategyPosition' = decision.position
           /\ Settles(decision, source.time, chain)
           /\ equityCurve' = Append(equityCurve,
                Point(source.time, cash',
                      CondorUnrealized(spread', openCredit', chain)))
  /\ remaining' = Tail(remaining)
  /\ UNCHANGED <<kind, runs, candles, position, inherited, closedPositions>>

-----------------------------------------------------------------------------
(* The simulator *)

SimulatorFees(side, price) == TotalFees(side, price, LotSize)

OpenCreditSpread(params) ==
  /\ kind = "simulator" /\ spread = {}
  /\ Len(trades) < MaxTrades
  /\ LET fees   == SimulatorFees("SELL", params.entryCredit)
         credit == params.entryCredit * LotSize - fees
     IN  /\ spread' = {params}
         /\ openCredit' = credit
         /\ cash' = cash + credit
         /\ trades' = Append(trades,
              Trade(0, "BUY", LotSize, params.entryCredit, fees, 0))
  /\ UNCHANGED <<kind, runs, candles, remaining, position, strategyPosition,
                 inherited, closedPositions, equityCurve>>

(* A spread whose strikes the chain does not list closes at no cost. *)
CloseCreditSpread(chain) ==
  /\ kind = "simulator"
  /\ \E open \in spread :
       LET cost == OrElse(SpreadCloseCost(open, chain.puts), 0)
           fees == SimulatorFees("BUY", cost)
           pnl  == (openCredit - (cost * LotSize + fees)) * AverageUnit
       IN  /\ cash' = cash - (cost * LotSize + fees)
           /\ closedPositions' = Append(closedPositions,
                [exitDebit |-> cost, realizedPnl |-> pnl])
           /\ trades' = Append(trades,
                Trade(0, "SELL", LotSize, cost, fees, pnl))
  /\ spread' = {}
  /\ openCredit' = 0
  /\ UNCHANGED <<kind, runs, candles, remaining, position, strategyPosition,
                 inherited, equityCurve>>

-----------------------------------------------------------------------------

Chains ==
  UNION {UNION {list[n].chain : n \in DOMAIN list} : list \in CandleLists}

Next ==
  \/ \E list \in CandleLists : StartRun(list)
  \/ \E action \in {"BUY", "SELL", "HOLD"} : ReplayCandle(action)
  \/ ReplayCondorCandle
  \/ \E params \in Spreads : OpenCreditSpread(params)
  \/ \E chain \in Chains : CloseCreditSpread(chain)

Spec == Init /\ [][Next]_vars

-----------------------------------------------------------------------------
(* Properties *)

(* Fees of purchases of shares, which no profit ever shows. *)
UnreportedFees ==
  IF kind # "candles" THEN 0
  ELSE SumOf([n \in DOMAIN trades |-> IF trades[n].side = "BUY"
                                      THEN trades[n].totalFees ELSE 0])

CostOf(shares) ==
  SumOf([n \in 1..Cardinality(shares) |->
           LET held == CHOOSE s \in shares : TRUE
           IN  held.quantity * held.averagePrice])

(* The books of all three balance at every step: the cash is the initial   *)
(* capital and the profits of the trades, less what the shares held cost   *)
(* at their average price and the fees of purchases, which no trade's      *)
(* profit shows, plus the credit of an open spread, net of its fees.  When *)
(* nothing is held the final capital of the report is that cash.           *)
CashBalancesWithTrades ==
  /\ (cash - InitialCapital + UnreportedFees - openCredit) * AverageUnit
       = SumOf(PnlsOf(trades)) - CostOf(position)
  /\ equityCurve # <<>> /\ position = {} /\ spread = {} =>
       cash = CalculateBacktestPerformanceMetrics(equityCurve, trades,
                                                  InitialCapital).finalCapital

(* A condor run holds the very condor that its strategy manages, or        *)
(* nothing; it holds nothing while the strategy believes in a condor only  *)
(* if the strategy brought that from an earlier run.                       *)
RunHoldsWhatStrategyManages ==
  kind = "condor" =>
    \/ spread = strategyPosition
    \/ spread = {} /\ strategyPosition = inherited

AllWon(positions) ==
  LET pnls == PnlsOf(positions)
  IN  Positive(pnls) # <<>> /\ Negative(pnls) = <<>>

(* The figures of a backtest agree on every history of the simulator,      *)
(* whose positions close whole: those of the report over trades, the       *)
(* statistics over trades and positions, and those that the analytics      *)
(* service makes out of stored snapshots and closed positions.  Where      *)
(* nothing was lost they part in one figure and one way only: the profit   *)
(* factor is Infinity in the report and null in both of analytics'.        *)
CalculatorsAgree ==
  kind = "simulator" /\ spread = {} =>
    LET curve      == <<Point(0, cash, 0)>>
        report     == CalculateBacktestPerformanceMetrics(curve, trades,
                                                          InitialCapital)
        statistics == TradeStatistics(trades, closedPositions)
        analytics  == ResolvePerformanceMetrics(
                        [initialCapital |-> InitialCapital], trades, curve,
                        closedPositions)
    IN  /\ {statistics.totalTrades, analytics.totalTrades} = {report.totalTrades}
        /\ {statistics.winRate, analytics.winRate} = {report.winRate}
        /\ (cash - InitialCapital) * AverageUnit = statistics.netRealizedPnl
        /\ analytics.finalCapital = report.finalCapital
        /\ statistics.profitFactor = analytics.profitFactor
        /\ IF AllWon(closedPositions)
           THEN report.profitFactor = Infinity /\ analytics.profitFactor = {}
           ELSE analytics.profitFactor = {report.profitFactor.value}

(* The conversions of events lose nothing: to the engine's events and back *)
(* is the identity, and runFromEvents replays what the adapter converts,   *)
(* as long as no two candles have one timestamp.                           *)
ConversionsAgree ==
  LET N == DOMAIN candles
  IN  /\ ToLegacyMarketEvents(FromLegacyMarketEvents(candles)) = candles
      /\ (\A m, n \in N : m # n => candles[m].time # candles[n].time) =>
           ReplayedEvents(candles) = FromLegacyMarketEvents(SortByTime(candles))

=============================================================================
