------------------------------ MODULE Backtest ------------------------------
(***************************************************************************)
(* One run of the event-driven backtest (src/src/backtest/engine): the     *)
(* replay hands sorted market and option chain events to                   *)
(* backtest-session.handler.ts, which asks the strategy for a signal, has  *)
(* it executed, marks the open positions and records a point of the equity *)
(* curve.  All of it is synchronous; it is cut into a step per event, per  *)
(* execution step and per point because an execution step may throw, which *)
(* ends the run (status "failed") with what was done before it in place.   *)
(*                                                                         *)
(* The strategy is one of the four of module Strategies, which keep a      *)
(* position of their own, or a user's, external here, whose signals are    *)
(* any of CustomSignals.                                                   *)
(***************************************************************************)
EXTENDS BacktestExecution, Strategies, SequencesExt

CONSTANTS
  CustomStrategy,   \* name of a strategy written by a user of the engine
  CustomSignals,    \* the step sequences its signals may have
  RiskConfigs,
  Prices,           \* closing prices of candles
  Chains,           \* option chains
  MaxTime,          \* bound: timestamps
  MaxEvents         \* bound: events of the replay

(* SignalExecution; a quantity left out of an open step is the lot size.   *)
SignalExecution ==
  [kind : {"OPEN_DEFINED_RISK"}, leg : SUBSET LegGroups, quantity : Int,
   entryCredit : Int, maxLoss : Int,
   metadata : SUBSET DefinedRiskMarkMetadata]
    \cup [kind : {"CLOSE_DEFINED_RISK"}, leg : SUBSET LegGroups,
          closeCost : Int]
    \cup [kind : {"OPEN_EQUITY"}, quantity : Int, price : Int]
    \cup [kind : {"CLOSE_EQUITY"}, quantity : SUBSET Int, price : Int,
          positionId : Seq(Strategies \cup Instruments \cup LegGroups)]

ASSUME BacktestAssumption ==
  /\ Strategies \subseteq BuiltInStrategies \cup {CustomStrategy}
  /\ CustomStrategy \notin BuiltInStrategies
  /\ ShortCallLeg \in LegGroups \ {DefaultLeg}
  /\ RiskConfigs \subseteq RiskConfig
  /\ Prices \subseteq Int
  /\ Chains \subseteq OptionChainSnapshot
  /\ CustomSignals \subseteq Seq(SignalExecution)
  /\ MaxTime \in Nat /\ MaxEvents \in Nat

(* What the handler makes of a missing option chain: no quotes at all. *)
NoChain == [puts |-> <<>>, calls |-> <<>>, expiryDate |-> 0]

VARIABLES
  config,           \* strategy, instrument, evaluateWithoutOptionChain
  lastEvent,        \* [time, order] of the latest event, for the sorting
  eventCount,
  pendingMarket,    \* the latest market event, as a set of at most one
  snapshot,         \* the latest market snapshot, as a set of at most one
  strategyPosition, \* what the strategy believes it holds, likewise
  steps,            \* steps of the signal still to execute
  equityCurve,
  status

replayVars   == <<config, lastEvent, eventCount, pendingMarket>>
decisionVars == <<snapshot, strategyPosition, steps, status>>
vars == <<portfolioVars, executionVars, riskConfig, replayVars, decisionVars,
          equityCurve>>

Init ==
  /\ ExecutionInit
  /\ riskConfig \in RiskConfigs
  /\ config \in [strategyName : Strategies, instrumentId : Instruments,
                 evaluateWithoutOptionChain : BOOLEAN]
  /\ lastEvent = [time |-> 0, order |-> 0]
  /\ eventCount = 0
  /\ pendingMarket = {}
  /\ snapshot = {}
  /\ strategyPosition = {}
  /\ steps = <<>>
  /\ equityCurve = <<>>
  /\ status = "waiting"

-----------------------------------------------------------------------------
(* The strategy's decision *)

(* The position is remembered before anything is executed. *)
GenerateSignal(s) ==
  \/ /\ config.strategyName = CustomStrategy
     /\ steps' \in CustomSignals
     /\ UNCHANGED strategyPosition
  \/ /\ config.strategyName # CustomStrategy
     /\ \E decision \in Evaluate(config.strategyName, config.instrumentId,
                                  strategyPosition, s, Equity) :
          /\ strategyPosition' = decision.position
          /\ steps' = decision.steps

(* processSnapshot, up to the signal. *)
ProcessSnapshot(s) ==
  /\ snapshot' = {s}
  /\ status' = "executing"
  /\ GenerateSignal(s)

-----------------------------------------------------------------------------
(* Events *)

Snapshot(market, chain) ==
  [time |-> market.time, price |-> market.price, chain |-> chain]

(* mergeAndSort: by timestamp, market events first; ties stay possible. *)
Replays(time, order) ==
  /\ status = "waiting"
  /\ eventCount < MaxEvents
  /\ \/ time > lastEvent.time
     \/ time = lastEvent.time /\ order >= lastEvent.order
  /\ lastEvent' = [time |-> time, order |-> order]
  /\ eventCount' = eventCount + 1

HandleMarket(time, price) ==
  LET market == [time |-> time, price |-> price]
  IN  /\ Replays(time, 0)
      /\ pendingMarket' = {market}
      /\ \/ /\ config.evaluateWithoutOptionChain
            /\ ProcessSnapshot(Snapshot(market, NoChain))
         \/ /\ ~config.evaluateWithoutOptionChain
            /\ UNCHANGED decisionVars
      /\ UNCHANGED <<portfolioVars, executionVars, riskConfig, config,
                     equityCurve>>

(* A chain without a market event of its time is dropped. *)
HandleOptionChain(time, chain) ==
  LET markets == {market \in pendingMarket : market.time = time}
  IN  /\ Replays(time, 1)
      /\ \/ markets = {} /\ UNCHANGED decisionVars
         \/ \E market \in markets : ProcessSnapshot(Snapshot(market, chain))
      /\ UNCHANGED <<portfolioVars, executionVars, riskConfig, config,
                     pendingMarket, equityCurve>>

-----------------------------------------------------------------------------
(* Execution, marking and the equity curve *)

ExecuteSignalStep ==
  /\ status = "executing" /\ steps # <<>>
  /\ ExecuteStep(config, Head(steps))
  /\ steps' = Tail(steps)
  /\ UNCHANGED <<replayVars, snapshot, strategyPosition, equityCurve, status>>

(* The error leaves replay and run; no report is built. *)
FailSignalStep ==
  /\ status = "executing" /\ steps # <<>>
  /\ ~StepReturns(config, Head(steps))
  /\ status' = "failed"
  /\ UNCHANGED <<portfolioVars, executionVars, riskConfig, replayVars,
                 snapshot, strategyPosition, steps, equityCurve>>

(* What a spread costs to close at this snapshot, if it can be told. *)
Debits(id, s) ==
  IF id \in DOMAIN positionMetadata
  THEN MarkDebit(positionMetadata[id], s.chain) ELSE {}

Marks(id, s) ==
  IF openPositions[id].kind = "DEFINED_RISK" THEN Debits(id, s)
  ELSE {price \in {s.price} : price > 0}

(* The positions after all the markToMarket calls of markOpenPositions. *)
MarkOpenPositions(s) ==
  [id \in DOMAIN openPositions |->
     IF Marks(id, s) = {} THEN openPositions[id]
     ELSE [openPositions[id] EXCEPT
             !.markPrice = CHOOSE mark \in Marks(id, s) : TRUE]]

(* calculateUnrealizedPnl: a spread that cannot be priced counts nothing. *)
CurvePnl(id, position, s) ==
  IF position.kind = "EQUITY"
  THEN (position.markPrice - position.averagePrice) * position.quantity
  ELSE MapThenSumSet(
         LAMBDA debit : position.entryCredit * position.quantity
                        - debit * position.quantity,
         Debits(id, s))

(* Mutation: the point is computed before the positions are marked. *)
RecordPointThenMark ==
  /\ status = "executing" /\ steps = <<>>
  /\ \E s \in snapshot :
       /\ openPositions' = MarkOpenPositions(s)
       /\ equityCurve' = Append(equityCurve,
            [time |-> s.time, cash |-> cash,
             unrealizedPnl |->
               MapThenSumSet(LAMBDA id : CurvePnl(id, openPositions[id], s),
                             DOMAIN openPositions)])
  /\ status' = "waiting"
  /\ UNCHANGED <<cash, closedPositions, ledger, executionVars, riskConfig,
                 replayVars, snapshot, strategyPosition, steps>>

RecordEquityPoint ==
  /\ status = "executing" /\ steps = <<>>
  /\ \E s \in snapshot :
       LET marked == MarkOpenPositions(s)
       IN  /\ openPositions' = marked
           /\ equityCurve' = Append(equityCurve,
                [time |-> s.time, cash |-> cash,
                 unrealizedPnl |->
                   MapThenSumSet(LAMBDA id : CurvePnl(id, marked[id], s),
                                 DOMAIN marked)])
  /\ status' = "waiting"
  /\ UNCHANGED <<cash, closedPositions, ledger, executionVars, riskConfig,
                 replayVars, snapshot, strategyPosition, steps>>

Next ==
  \/ \E time \in 0..MaxTime, price \in Prices : HandleMarket(time, price)
  \/ \E time \in 0..MaxTime, chain \in Chains : HandleOptionChain(time, chain)
  \/ ExecuteSignalStep
  \/ FailSignalStep
  \/ RecordEquityPoint

Spec == Init /\ [][Next]_vars

-----------------------------------------------------------------------------
(* Properties *)

(* The peak that the risk engine measures drawdowns from is the account's  *)
(* equity at its highest: it is not below the cash at any time, as the     *)
(* ledger replays it, at which the account held nothing.                   *)
FlatAfter(n) ==
  \A id \in PositionIds :
    RunningTotal(0, SubSeq(QuantityDeltas(id), 1, n)) = 0

PeakSeesFlatAccounts ==
  \A n \in 0..Len(ledger) :
    FlatAfter(n) =>
      peakEquity >= RunningTotal(InitialCapital, SubSeq(CashDeltas, 1, n))

OpenSpreads ==
  {id \in DOMAIN openPositions : openPositions[id].kind = "DEFINED_RISK"}

BuiltIn == config.strategyName \in BuiltInStrategies

(* Between events, a spread that the account holds is the one the strategy *)
(* believes it holds, at the same credit and size and marked by the same   *)
(* strikes: no sequence of events makes a strategy lose track of a spread  *)
(* that is still open.  (The converse fails: an open that risk turned down *)
(* leaves a strategy believing.)                                           *)
OpenSpreadIsManaged ==
  BuiltIn /\ status = "waiting" =>
    \A id \in OpenSpreads : \E entry \in strategyPosition :
      /\ openPositions[id].entryCredit = entry.entryCredit
      /\ openPositions[id].quantity = entry.quantity
      /\ id \in DOMAIN positionMetadata
      /\ positionMetadata[id] = entry.metadata

(* Every spread has a profit target and a stop loss: once an event has     *)
(* been processed, no spread of the account stays open at a price that is  *)
(* at or beyond either, whatever the strategy believes.                    *)
ExitsAreTaken ==
  BuiltIn /\ status = "waiting" =>
    \A s \in snapshot, id \in OpenSpreads : \A debit \in Debits(id, s) :
      /\ debit * 100 > openPositions[id].entryCredit * (100 - ProfitTargetPct)
      /\ debit < openPositions[id].entryCredit * StopLossMultiple

(* The equity curve agrees with the account: the last point is the         *)
(* account's equity, short of the spreads the snapshot could not price,    *)
(* which the point leaves out and the account shows at their old marks.    *)
CurveAgreesWithAccount ==
  status = "waiting" =>
    \A s \in snapshot :
      LET point    == Last(equityCurve)
          unpriced == {id \in OpenSpreads : Debits(id, s) = {}}
      IN  point.cash + point.unrealizedPnl
            = Equity - SumOverPositions(CalculatePositionUnrealizedPnl, unpriced)

(* "Never implement: Naked short calls" (src/rules.md): a short call is    *)
(* covered by at least as many shares of the strategy.                     *)
NoNakedShortCalls ==
  status = "waiting" =>
    \A id \in DOMAIN positionMetadata :
      positionMetadata[id].spreadKind = "COVERED_CALL" =>
        HeldQuantity(CreatePositionId(id[1], id[2], DefaultLeg))
          >= openPositions[id].quantity

=============================================================================
