--------------------------- MODULE BacktestProofs ---------------------------
(***************************************************************************)
(* Theorems about the event-driven backtest, for every set of strategies,  *)
(* signals, chains, prices, costs and risk limits.                         *)
(***************************************************************************)
EXTENDS Backtest, PortfolioEngineProofs

MarketEvent == [time : Int, price : Int]

MarketSnapshot == [time : Int, price : Int, chain : OptionChainSnapshot]

StrategyPosition ==
  [entryCredit : Int, maxLoss : Int, quantity : Int, expiryDate : Int,
   metadata : DefinedRiskMarkMetadata]

Trade == [side : {"BUY", "SELL"}, quantity : Int, price : Int,
          totalFees : Int, realizedPnl : Int]

CurvePoint == [time : Int, cash : Int, unrealizedPnl : Int]

BacktestTypeOK ==
  /\ PortfolioTypeOK
  /\ IsFiniteSet(DOMAIN openPositions)
  /\ peakEquity \in Int
  /\ \A id \in DOMAIN positionMetadata :
       positionMetadata[id] \in DefinedRiskMarkMetadata
  /\ config.strategyName \in Strategies
  /\ config.instrumentId \in Instruments
  /\ pendingMarket \subseteq MarketEvent
  /\ snapshot \subseteq MarketSnapshot
  /\ \A s, t \in snapshot : s = t
  /\ tradeLedger \in Seq(Trade)
  /\ equityCurve \in Seq(CurvePoint)
  /\ strategyPosition \subseteq StrategyPosition
  /\ steps \in Seq(SignalExecution)

-----------------------------------------------------------------------------
(* What the option chain utilities and the strategies return *)

LEMMA FirstPlaceIsPlace ==
  ASSUME NEW places
  PROVE  FirstPlace(places) \subseteq places
BY DEF FirstPlace

LEMMA FindReturnsQuotes ==
  ASSUME NEW quotes \in Seq(OptionQuote), NEW delta, NEW low, NEW high
  PROVE  /\ FindByTargetDelta(quotes, delta) \subseteq OptionQuote
         /\ FindPutInDeltaRange(quotes, low, high) \subseteq OptionQuote
<1>1. ASSUME NEW places, places \subseteq DOMAIN quotes, NEW twice
      PROVE  Nearest(quotes, places, twice) \subseteq OptionQuote
  <2>1. ASSUME NEW some, some \subseteq places
        PROVE  {quotes[n] : n \in FirstPlace(some)} \subseteq OptionQuote
    BY <1>1, <2>1, FirstPlaceIsPlace
  <2>. QED
    BY <2>1 DEF Nearest
<1>2. {n \in DOMAIN quotes : quotes[n].delta \in low..high}
        \subseteq DOMAIN quotes
  OBVIOUS
<1>. QED
  BY <1>1, <1>2 DEF FindByTargetDelta, FindPutInDeltaRange

LEMMA PremiumIsInt ==
  ASSUME NEW quotes \in Seq(OptionQuote), NEW strike
  PROVE  PremiumAt(strike, quotes) \subseteq Int
<1>1. \A n \in DOMAIN quotes : quotes[n].premium \in Int
  <2>1. \A n \in DOMAIN quotes : quotes[n] \in OptionQuote
    OBVIOUS
  <2>. QED
    BY <2>1 DEF OptionQuote
<1> DEFINE places == {n \in DOMAIN quotes : quotes[n].strike = strike}
<1>2. FirstPlace(places) \subseteq DOMAIN quotes
  BY FirstPlaceIsPlace
<1>. QED
  BY <1>1, <1>2 DEF PremiumAt

LEMMA MarkDebitIsInt ==
  ASSUME NEW metadata \in DefinedRiskMarkMetadata,
         NEW chain \in OptionChainSnapshot
  PROVE  MarkDebit(metadata, chain) \subseteq Int
<1>1. chain.puts \in Seq(OptionQuote) /\ chain.calls \in Seq(OptionQuote)
  BY DEF OptionChainSnapshot
<1>2. ASSUME NEW spread, NEW quotes \in Seq(OptionQuote)
      PROVE  SpreadCloseCost(spread, quotes) \subseteq Int
  BY PremiumIsInt DEF SpreadCloseCost
<1>3. CASE metadata.spreadKind = "BULL_PUT"
  <2>1. SpreadCloseCost(metadata.putSpread, chain.puts) \subseteq Int
    BY <1>1, <1>2
  <2>. QED
    BY <1>3, <2>1 DEF MarkDebit
<1>4. CASE metadata.spreadKind = "IRON_CONDOR"
  <2>1. /\ SpreadCloseCost(metadata.putSpread, chain.puts) \subseteq Int
        /\ SpreadCloseCost(metadata.callSpread, chain.calls) \subseteq Int
    BY <1>1, <1>2
  <2>. QED
    BY <1>4, <2>1 DEF MarkDebit, IronCondorCloseCost
<1>5. CASE metadata.spreadKind = "COVERED_CALL"
  <2>1. PremiumAt(metadata.callStrike, chain.calls) \subseteq Int
    BY <1>1, PremiumIsInt
  <2>. QED
    BY <1>5, <2>1 DEF MarkDebit
<1>. QED
  BY <1>3, <1>4, <1>5 DEF DefinedRiskMarkMetadata

-----------------------------------------------------------------------------
(* Entries *)

LEMMA BullPutEntryType ==
  ASSUME NEW legs \in OptionQuote \X OptionQuote, NEW quantity \in Int,
         NEW chain \in OptionChainSnapshot
  PROVE  BullPutEntry(legs, quantity, chain) \in StrategyPosition
<1>1. /\ legs[1].strike \in Int /\ legs[1].premium \in Int
      /\ legs[2].strike \in Int /\ legs[2].premium \in Int
      /\ chain.expiryDate \in Int
  BY DEF OptionQuote, OptionChainSnapshot
<1>2. SpreadStrikes(legs[1], legs[2]) \in Strikes
  BY <1>1 DEF SpreadStrikes, Strikes
<1>3. [spreadKind |-> "BULL_PUT",
       putSpread |-> SpreadStrikes(legs[1], legs[2])]
        \in DefinedRiskMarkMetadata
  BY <1>2 DEF DefinedRiskMarkMetadata
<1>4. SpreadCredit(legs[1], legs[2]) \in Int
  BY <1>1 DEF SpreadCredit
<1>5. AtLeastZero(legs[1].strike - legs[2].strike
                  - SpreadCredit(legs[1], legs[2])) \in Int
  BY <1>1, <1>4 DEF AtLeastZero
<1>. QED
  BY <1>1, <1>3, <1>4, <1>5 DEF BullPutEntry, Entry, StrategyPosition

LEMMA LotsAreIntegers ==
  ASSUME NEW equity \in Int, NEW maxLoss \in Int
  PROVE  CalculateDefinedRiskQuantity(equity, maxLoss, LotSize, SizingPct)
           \in Int
<1>1. CASE equity <= 0 \/ maxLoss <= 0
  BY <1>1 DEF CalculateDefinedRiskQuantity
<1>2. CASE ~(equity <= 0 \/ maxLoss <= 0)
  <2> DEFINE budget == equity * SizingPct
             perLot == 100 * maxLoss * LotSize
  <2>1. budget \in Int
    BY StrategyAssumption
  <2>2. perLot \in Int /\ perLot > 0
    <3>1. LotSize \in Nat /\ LotSize > 0 /\ 100 * maxLoss > 0
          /\ 100 * maxLoss \in Int
      BY <1>2, StrategyAssumption
    <3> DEFINE risk == 100 * maxLoss
    <3> HIDE DEF risk
    <3>2. risk * LotSize \in Int /\ risk * LotSize > 0
      BY <3>1 DEF risk
    <3>. QED
      BY <3>2 DEF risk
  <2> HIDE DEF budget, perLot
  <2>3. budget \div perLot \in Int
    BY <2>1, <2>2
  <2>4. (budget \div perLot) * LotSize \in Int
    BY <2>3, StrategyAssumption
  <2>. QED
    BY <1>2, <2>4 DEF CalculateDefinedRiskQuantity, budget, perLot
<1>. QED
  BY <1>1, <1>2

LEMMA CondorEntryType ==
  ASSUME NEW legs \in OptionQuote \X OptionQuote \X OptionQuote \X OptionQuote,
         NEW chain \in OptionChainSnapshot
  PROVE  CondorEntry(legs, chain) \in StrategyPosition
<1> DEFINE credit == SpreadCredit(legs[1], legs[2])
                     + SpreadCredit(legs[3], legs[4])
           maxLoss == IronCondorMaxLoss(legs[1], legs[2], legs[3], legs[4],
                                        credit)
           metadata == [spreadKind |-> "IRON_CONDOR",
                        putSpread |-> SpreadStrikes(legs[1], legs[2]),
                        callSpread |-> SpreadStrikes(legs[3], legs[4])]
<1>1. /\ legs[1] \in OptionQuote /\ legs[2] \in OptionQuote
      /\ legs[3] \in OptionQuote /\ legs[4] \in OptionQuote
      /\ chain.expiryDate \in Int
  BY DEF OptionChainSnapshot
<1>2. \A q \in OptionQuote : q.strike \in Int /\ q.premium \in Int
  BY DEF OptionQuote
<1>3. credit \in Int
  BY <1>1, <1>2 DEF SpreadCredit
<1>4. maxLoss \in Int
  BY <1>1, <1>2, <1>3 DEF IronCondorMaxLoss
<1>5. /\ SpreadStrikes(legs[1], legs[2]) \in Strikes
      /\ SpreadStrikes(legs[3], legs[4]) \in Strikes
  BY <1>1, <1>2 DEF SpreadStrikes, Strikes
<1>6. metadata \in DefinedRiskMarkMetadata
  BY <1>5 DEF DefinedRiskMarkMetadata
<1>7. CondorEntry(legs, chain) = Entry(credit, maxLoss, LotSize, chain,
                                       metadata)
  BY DEF CondorEntry
<1> HIDE DEF credit, maxLoss, metadata
<1>. QED
  BY <1>1, <1>3, <1>4, <1>6, <1>7, StrategyAssumption
  DEF Entry, StrategyPosition

LEMMA CoveredCallEntryType ==
  ASSUME NEW call \in OptionQuote, NEW price \in Int,
         NEW chain \in OptionChainSnapshot
  PROVE  Entry(call.premium, AtLeastZero(call.strike - price - call.premium),
               LotSize, chain,
               [spreadKind |-> "COVERED_CALL", callStrike |-> call.strike])
           \in StrategyPosition
<1>1. /\ call.strike \in Int /\ call.premium \in Int
      /\ chain.expiryDate \in Int
  BY DEF OptionQuote, OptionChainSnapshot
<1>2. AtLeastZero(call.strike - price - call.premium) \in Int
  BY <1>1 DEF AtLeastZero
<1>3. [spreadKind |-> "COVERED_CALL", callStrike |-> call.strike]
        \in DefinedRiskMarkMetadata
  BY <1>1 DEF DefinedRiskMarkMetadata
<1>. QED
  BY <1>1, <1>2, <1>3, StrategyAssumption DEF Entry, StrategyPosition

LEMMA EntriesType ==
  ASSUME NEW strategy \in BuiltInStrategies, NEW s \in MarketSnapshot,
         NEW equity \in Int
  PROVE  Entries(strategy, s, equity) \subseteq StrategyPosition
<1>1. /\ s.chain \in OptionChainSnapshot /\ s.price \in Int
      /\ s.chain.puts \in Seq(OptionQuote)
      /\ s.chain.calls \in Seq(OptionQuote)
  BY DEF MarketSnapshot, OptionChainSnapshot
<1>2. \A shorts, longs : shorts \subseteq OptionQuote /\ longs \subseteq OptionQuote =>
        PutSpreads(shorts, longs) \subseteq OptionQuote \X OptionQuote
  BY DEF PutSpreads
<1>3. CASE strategy = "bull-put-spread"
  <2>1. PutSpreads(FindByTargetDelta(s.chain.puts, ShortDelta),
                   FindByTargetDelta(s.chain.puts, LongDelta))
          \subseteq OptionQuote \X OptionQuote
    BY <1>1, <1>2, FindReturnsQuotes
  <2>2. LotSize \in Int
    BY StrategyAssumption
  <2>3. BullPutEntries(s.chain) \subseteq StrategyPosition
    BY <1>1, <2>1, <2>2, BullPutEntryType DEF BullPutEntries
  <2>. QED
    BY <1>3, <2>3 DEF Entries
<1>4. CASE strategy = "bull-put-spread-v1"
  <2> DEFINE legPairs == PutSpreads(InRange(s.chain.puts, ShortDeltaRange),
                                    InRange(s.chain.puts, LongDeltaRange))
  <2>1. legPairs \subseteq OptionQuote \X OptionQuote
    BY <1>1, <1>2, FindReturnsQuotes DEF InRange
  <2> HIDE DEF legPairs
  <2>2. {BullPutEntry(legs, 0, s.chain) : legs \in legPairs}
          \subseteq StrategyPosition
    BY <1>1, <2>1, BullPutEntryType
  <2>3. ASSUME NEW entry \in StrategyPosition
        PROVE  [entry EXCEPT !.quantity = SizeFor(entry, equity)]
                 \in StrategyPosition
    <3>1. entry.maxLoss \in Int
      BY DEF StrategyPosition
    <3>2. SizeFor(entry, equity) \in Int
      BY <3>1, LotsAreIntegers DEF SizeFor
    <3>. QED
      BY <3>2 DEF StrategyPosition
  <2>4. BullPutV1Entries(s.chain, equity) \subseteq StrategyPosition
    BY <2>2, <2>3 DEF BullPutV1Entries, legPairs
  <2>. QED
    BY <1>4, <2>4 DEF Entries
<1>5. CASE strategy = "iron-condor"
  <2>1. Condors(s.chain)
          \subseteq OptionQuote \X OptionQuote \X OptionQuote \X OptionQuote
    <3>1. \A d : /\ FindByTargetDelta(s.chain.puts, d) \subseteq OptionQuote
                 /\ FindByTargetDelta(s.chain.calls, d) \subseteq OptionQuote
      BY <1>1, FindReturnsQuotes
    <3>. QED
      BY <3>1 DEF Condors
  <2>2. IronCondorEntries(s.chain) \subseteq StrategyPosition
    BY <1>1, <2>1, CondorEntryType DEF IronCondorEntries
  <2>. QED
    BY <1>5, <2>2 DEF Entries
<1>6. CASE strategy = "covered-call"
  <2>1. FindByTargetDelta(s.chain.calls, CallDelta) \subseteq OptionQuote
    BY <1>1, FindReturnsQuotes
  <2>2. CoveredCallEntries(s.chain, s.price) \subseteq StrategyPosition
    BY <1>1, <2>1, CoveredCallEntryType DEF CoveredCallEntries
  <2>. QED
    BY <1>6, <2>2 DEF Entries
<1>. QED
  BY <1>3, <1>4, <1>5, <1>6 DEF BuiltInStrategies

-----------------------------------------------------------------------------
(* Signals *)

LEMMA OpenStepsType ==
  ASSUME NEW strategy, NEW entry \in StrategyPosition, NEW price \in Int
  PROVE  OpenSteps(strategy, entry, price) \in Seq(SignalExecution)
<1> DEFINE spread == [kind |-> "OPEN_DEFINED_RISK", leg |-> LegOf(strategy),
                      quantity |-> entry.quantity,
                      entryCredit |-> entry.entryCredit,
                      maxLoss |-> entry.maxLoss,
                      metadata |-> {entry.metadata}]
           shares == [kind |-> "OPEN_EQUITY", quantity |-> LotSize,
                      price |-> price]
<1>1. LegOf(strategy) \in SUBSET LegGroups
  BY BacktestAssumption DEF LegOf
<1>2. /\ entry.quantity \in Int /\ entry.entryCredit \in Int
      /\ entry.maxLoss \in Int
      /\ {entry.metadata} \in SUBSET DefinedRiskMarkMetadata
  BY DEF StrategyPosition
<1>3. spread \in SignalExecution
  BY <1>1, <1>2 DEF SignalExecution
<1>4. shares \in SignalExecution
  BY StrategyAssumption DEF SignalExecution
<1> HIDE DEF spread, shares
<1>5. <<shares, spread>> \in Seq(SignalExecution)
      /\ <<spread>> \in Seq(SignalExecution)
  BY <1>3, <1>4
<1>. QED
  BY <1>5 DEF OpenSteps, spread, shares

LEMMA CloseStepsType ==
  ASSUME NEW strategy \in Strategies, NEW instrument \in Instruments,
         NEW cost \in Int, NEW price \in Int
  PROVE  CloseSteps(strategy, instrument, cost, price) \in Seq(SignalExecution)
<1> DEFINE spread == [kind |-> "CLOSE_DEFINED_RISK", leg |-> LegOf(strategy),
                      closeCost |-> cost]
           shares == [kind |-> "CLOSE_EQUITY", price |-> price,
                      quantity |-> {}, positionId |-> <<strategy, instrument>>]
<1>1. LegOf(strategy) \in SUBSET LegGroups
  BY BacktestAssumption DEF LegOf
<1>2. spread \in SignalExecution
  BY <1>1 DEF SignalExecution
<1>3. <<strategy, instrument>>
        \in Seq(Strategies \cup Instruments \cup LegGroups)
  OBVIOUS
<1>4. shares \in SignalExecution
  BY <1>3 DEF SignalExecution
<1> HIDE DEF spread, shares
<1>5. <<spread, shares>> \in Seq(SignalExecution)
      /\ <<spread>> \in Seq(SignalExecution)
  BY <1>2, <1>4
<1>. QED
  BY <1>5 DEF CloseSteps, spread, shares

LEMMA EvaluateType ==
  ASSUME NEW strategy \in Strategies \cap BuiltInStrategies,
         NEW instrument \in Instruments,
         NEW position, position \subseteq StrategyPosition,
         NEW s \in MarketSnapshot, NEW equity \in Int,
         NEW d \in Evaluate(strategy, instrument, position, s, equity)
  PROVE  /\ d.position \subseteq StrategyPosition
         /\ d.steps \in Seq(SignalExecution)
<1>1. s.price \in Int /\ s.chain \in OptionChainSnapshot
  BY DEF MarketSnapshot
<1>2. CASE d = Decision(position, <<>>)
  BY <1>2 DEF Decision
<1>3. CASE d \in EvaluateEntry(strategy, s, equity)
  <2>1. PICK entry \in StrategyPosition :
          d = Decision({entry}, OpenSteps(strategy, entry, s.price))
    BY <1>3, EntriesType DEF EvaluateEntry
  <2>. QED
    BY <1>1, <2>1, OpenStepsType DEF Decision
<1>4. ASSUME NEW entry \in position,
             d \in EvaluateOpenPosition(strategy, instrument, entry, s)
      PROVE  /\ d.position \subseteq StrategyPosition
             /\ d.steps \in Seq(SignalExecution)
  <2>1. entry.metadata \in DefinedRiskMarkMetadata
    BY DEF StrategyPosition
  <2>2. MarkDebit(entry.metadata, s.chain) \subseteq Int
    BY <1>1, <2>1, MarkDebitIsInt
  <2>3. ExitCosts(strategy, entry, s) \subseteq Int
    BY <2>2 DEF ExitCosts
  <2>4. PICK cost \in Int :
          d = Decision({}, CloseSteps(strategy, instrument, cost, s.price))
    BY <1>4, <2>3 DEF EvaluateOpenPosition
  <2>. QED
    BY <1>1, <2>4, CloseStepsType DEF Decision
<1>. QED
  BY <1>2, <1>3, <1>4 DEF Evaluate

-----------------------------------------------------------------------------
(* Execution: every step that is carried out is one row of the account's   *)
(* ledger and one trade of the report.                                     *)

LEMMA FeesAreIntegers ==
  ASSUME NEW side \in {"BUY", "SELL"}, NEW price \in Int, NEW quantity \in Int
  PROVE  TotalFees(side, price, quantity) \in Int
<1> DEFINE execution == ExecutionPrice(side, price)
           turnover == execution * quantity * ChargePct
<1>1. execution \in Int
  BY CostAssumption DEF ExecutionPrice
<1>2. Distance(execution, price) \in Int
  BY <1>1 DEF Distance
<1>3. turnover \in Int
  <2> HIDE DEF execution
  <2>. QED
    BY <1>1, CostAssumption
<1>4. turnover \div 100 \in Int
  <2> HIDE DEF turnover
  <2>. QED
    BY <1>3
<1>5. Distance(execution, price) * quantity \in Int
  BY <1>2
<1> HIDE DEF turnover
<1>. QED
  BY <1>4, <1>5, CostAssumption DEF TotalFees, turnover

(* Nothing happens, or one row and the trade that reports it are added.    *)
Traded ==
  \/ UNCHANGED <<portfolioVars, tradeLedger>>
  \/ \E row, trade : /\ RowApplied(row)
                     /\ trade \in Trade
                     /\ tradeLedger' = Append(tradeLedger, trade)
                     /\ TradeReportsRow(trade, row)

Touches(id) == DOMAIN openPositions' \subseteq DOMAIN openPositions \cup {id}

(* What a step does to the account and to what is kept beside it.          *)
Carried ==
  /\ PortfolioTypeOK'
  /\ Traded
  /\ \E id : Touches(id)
  /\ \A id \in DOMAIN positionMetadata' :
       positionMetadata'[id] \in DefinedRiskMarkMetadata

LEMMA SkipCarried ==
  ASSUME BacktestTypeOK, Skip
  PROVE  Carried
BY DEF BacktestTypeOK, Skip, Carried, Traded, Touches, PortfolioTypeOK,
       portfolioVars

LEMMA OpenDefinedRiskCarried ==
  ASSUME BacktestTypeOK, NEW step \in SignalExecution,
         step.kind = "OPEN_DEFINED_RISK", OpenDefinedRisk(config, step)
  PROVE  Carried
<1>1. CASE Skip
  BY <1>1, SkipCarried
<1>2. CASE ~Skip
  <2> DEFINE id == SpreadId(config, step)
             q == step.quantity
             c == step.entryCredit
             m == step.maxLoss
             fees == TotalFees("SELL", c, q)
             row == [type |-> "CREDIT_SPREAD_OPEN", positionId |-> id,
                     cashDelta |-> c * q,
                     marginDelta |-> CalculateDefinedRiskMargin(m, q),
                     realizedPnl |-> 0, quantity |-> q, price |-> c]
             trade == [side |-> "BUY", quantity |-> q, price |-> c,
                       totalFees |-> fees, realizedPnl |-> 0]
  <2>1. /\ step.leg \in SUBSET LegGroups /\ q \in Int /\ c \in Int
        /\ m \in Int /\ step.metadata \in SUBSET DefinedRiskMarkMetadata
    BY DEF SignalExecution
  <2>2. /\ id = <<id[1], id[2], id[3]>>
        /\ id[1] \in Strategies /\ id[2] \in Instruments
        /\ id[3] \in LegGroups
    BY <2>1, LegAssumption DEF SpreadId, CreatePositionId, BacktestTypeOK
  <2>3. /\ OpenDefinedRiskPosition(id[1], id[2], id[3], q, c, m)
        /\ tradeLedger' = Append(tradeLedger, trade)
        /\ positionMetadata' =
             [x \in DOMAIN positionMetadata
                    \cup (IF step.metadata = {} THEN {} ELSE {id}) |->
                IF x = id /\ step.metadata # {}
                THEN CHOOSE metadata \in step.metadata : TRUE
                ELSE positionMetadata[x]]
    BY <1>2 DEF OpenDefinedRisk, RecordTrade
  <2>4. fees \in Int
    BY <2>1, FeesAreIntegers
  <2> HIDE DEF id, fees
  <2>5. PortfolioTypeOK /\ PortfolioTypeOK'
    BY <2>1, <2>2, <2>3, OpenDefinedRiskType DEF BacktestTypeOK
  <2>6. PICK r : RowApplied(r)
    BY <2>1, <2>2, <2>3, <2>5, OpenDefinedRiskRow
  <2>7. ledger' = Append(ledger, row) /\ Touches(id)
    BY <2>2, <2>3
    DEF OpenDefinedRiskPosition, RecordLedgerEntry, CreatePositionId,
        WithPosition, Touches
  <2>8. r = row
    BY <2>5, <2>6, <2>7, RowIsLast
  <2>9. trade \in Trade /\ TradeReportsRow(trade, row)
    BY <2>1, <2>4 DEF Trade, TradeReportsRow
  <2>10. \A x \in DOMAIN positionMetadata' :
           positionMetadata'[x] \in DefinedRiskMarkMetadata
    BY <2>1, <2>3 DEF BacktestTypeOK
  <2> HIDE DEF row, trade, q, c, m
  <2>. QED
    BY <2>3, <2>5, <2>6, <2>7, <2>8, <2>9, <2>10 DEF Carried, Traded
<1>. QED
  BY <1>1, <1>2

LEMMA CloseDefinedRiskCarried ==
  ASSUME BacktestTypeOK, NEW step \in SignalExecution,
         step.kind = "CLOSE_DEFINED_RISK", CloseDefinedRisk(config, step)
  PROVE  Carried
<1>1. CASE Skip
  BY <1>1, SkipCarried
<1>2. CASE ~Skip
  <2> DEFINE id == SpreadId(config, step)
             position == openPositions[id]
             q == position.quantity
             c == step.closeCost
             pnl == DefinedRiskRealizedPnl(id, c)
             fees == TotalFees("BUY", c, q)
             row == [type |-> "CREDIT_SPREAD_CLOSE", positionId |-> id,
                     cashDelta |-> -(c * q),
                     marginDelta |-> -CalculateDefinedRiskMargin(
                                        position.maxLoss, q),
                     realizedPnl |-> pnl, quantity |-> q, price |-> c]
             trade == [side |-> "SELL", quantity |-> q, price |-> c,
                       totalFees |-> fees, realizedPnl |-> pnl]
  <2>1. step.leg \in SUBSET LegGroups /\ c \in Int
    BY DEF SignalExecution
  <2>2. id \in PositionIds
    BY <2>1, LegAssumption
    DEF SpreadId, CreatePositionId, BacktestTypeOK, PositionIds
  <2>3. /\ CloseDefinedRiskPosition(id, c)
        /\ tradeLedger' = Append(tradeLedger, trade)
        /\ positionMetadata' =
             [x \in DOMAIN positionMetadata \ {id} |-> positionMetadata[x]]
    BY <1>2 DEF CloseDefinedRisk, RecordTrade
  <2> HIDE DEF id
  <2>4. /\ IsOpen(id) /\ position \in DefinedRiskPosition
    BY <2>3
    DEF CloseDefinedRiskPosition, CloseDefinedRiskAllowed, IsOpenAs, IsOpen,
        BacktestTypeOK, PortfolioTypeOK, Position, EquityPosition,
        DefinedRiskPosition
  <2>5. q \in Int /\ pnl \in Int
    BY <2>1, <2>4 DEF DefinedRiskPosition, Positive, DefinedRiskRealizedPnl
  <2>6. fees \in Int
    BY <2>1, <2>5, FeesAreIntegers
  <2> HIDE DEF fees
  <2>7. PortfolioTypeOK /\ PortfolioTypeOK'
    BY <2>1, <2>2, <2>3, CloseDefinedRiskType DEF BacktestTypeOK
  <2>8. PICK r : RowApplied(r)
    BY <2>1, <2>2, <2>3, <2>7, CloseDefinedRiskRow
  <2>9. ledger' = Append(ledger, row) /\ Touches(id)
    BY <2>3
    DEF CloseDefinedRiskPosition, ClosePositionRecord, RecordLedgerEntry,
        WithoutPosition, Touches
  <2>10. r = row
    BY <2>7, <2>8, <2>9, RowIsLast
  <2>11. trade \in Trade /\ TradeReportsRow(trade, row)
    <3> HIDE DEF pnl, position
    <3>. QED
      BY <2>1, <2>5, <2>6 DEF Trade, TradeReportsRow
  <2>12. \A x \in DOMAIN positionMetadata' :
           positionMetadata'[x] \in DefinedRiskMarkMetadata
    BY <2>3 DEF BacktestTypeOK
  <2> HIDE DEF row, trade
  <2>. QED
    BY <2>3, <2>7, <2>8, <2>9, <2>10, <2>11, <2>12 DEF Carried, Traded
<1>. QED
  BY <1>1, <1>2

LEMMA OpenEquityCarried ==
  ASSUME BacktestTypeOK, NEW step \in SignalExecution,
         step.kind = "OPEN_EQUITY", OpenEquity(config, step)
  PROVE  Carried
<1>1. CASE Skip
  BY <1>1, SkipCarried
<1>2. CASE ~Skip
  <2> DEFINE s == config.strategyName
             i == config.instrumentId
             id == CreatePositionId(s, i, DefaultLeg)
             q == step.quantity
             p == step.price
             fees == TotalFees("BUY", p, q)
             row == [type |-> "EQUITY_BUY", positionId |-> id,
                     cashDelta |-> -(p * q + fees), marginDelta |-> 0,
                     realizedPnl |-> 0, quantity |-> q, price |-> p]
             trade == [side |-> "BUY", quantity |-> q, price |-> p,
                       totalFees |-> fees, realizedPnl |-> 0]
  <2>1. q \in Int /\ p \in Int /\ s \in Strategies /\ i \in Instruments
    BY DEF SignalExecution, BacktestTypeOK
  <2>2. /\ OpenEquityPosition(s, i, q, p, fees)
        /\ tradeLedger' = Append(tradeLedger, trade)
        /\ positionMetadata' = positionMetadata
    BY <1>2 DEF OpenEquity, RecordTrade
  <2>3. fees \in Int
    BY <2>1, FeesAreIntegers
  <2> HIDE DEF fees
  <2>4. PortfolioTypeOK /\ PortfolioTypeOK'
    BY <2>1, <2>2, <2>3, OpenEquityType DEF BacktestTypeOK
  <2>5. PICK r : RowApplied(r)
    BY <2>1, <2>2, <2>3, <2>4, OpenEquityRow
  <2>6. ledger' = Append(ledger, row) /\ Touches(id)
    BY <2>2
    DEF OpenEquityPosition, RecordLedgerEntry, WithPosition, Touches
  <2>7. r = row
    BY <2>4, <2>5, <2>6, RowIsLast
  <2>8. trade \in Trade /\ TradeReportsRow(trade, row)
    BY <2>1, <2>3 DEF Trade, TradeReportsRow
  <2> HIDE DEF row, trade, q, p, s, i, id
  <2>. QED
    BY <2>2, <2>4, <2>5, <2>6, <2>7, <2>8
    DEF Carried, Traded, BacktestTypeOK
<1>. QED
  BY <1>1, <1>2

LEMMA CloseEquityCarried ==
  ASSUME BacktestTypeOK, NEW step \in SignalExecution,
         step.kind = "CLOSE_EQUITY", CloseEquity(step)
  PROVE  Carried
<1>1. CASE Skip
  BY <1>1, SkipCarried
<1>2. CASE ~Skip
  <2> DEFINE id == step.positionId
             q == QuantityToSell(step)
             p == step.price
             fees == TotalFees("SELL", p, q)
             pnl == EquityRealizedPnl(id, q, p, fees)
             row == [type |-> "EQUITY_SELL", positionId |-> id,
                     cashDelta |-> p * q - fees, marginDelta |-> 0,
                     realizedPnl |-> pnl, quantity |-> q, price |-> p]
             trade == [side |-> "SELL", quantity |-> q, price |-> p,
                       totalFees |-> fees, realizedPnl |-> pnl]
  <2>1. step.quantity \in SUBSET Int /\ p \in Int
    BY DEF SignalExecution
  <2>2. /\ CloseEquityPosition(id, q, p, fees)
        /\ tradeLedger' = Append(tradeLedger, trade)
        /\ positionMetadata' = positionMetadata
    BY <1>2 DEF CloseEquity, RecordTrade
  <2>3. IsOpen(id) /\ id \in PositionIds
        /\ openPositions[id] \in EquityPosition
    BY <2>2
    DEF CloseEquityPosition, CloseEquityAllowed, IsOpenAs, IsOpen,
        BacktestTypeOK, PortfolioTypeOK, Position, EquityPosition,
        DefinedRiskPosition
  <2>4. q \in Int
    BY <2>1, <2>3 DEF QuantityToSell, EquityPosition, Positive
  <2>5. fees \in Int
    BY <2>1, <2>4, FeesAreIntegers
  <2> HIDE DEF fees, q
  <2>6. p * q \in Int /\ pnl \in Int
    BY <2>1, <2>3, <2>4, <2>5 DEF EquityRealizedPnl, EquityPosition
  <2>7. PortfolioTypeOK /\ PortfolioTypeOK'
    BY <2>1, <2>2, <2>3, <2>4, <2>5, CloseEquityType DEF BacktestTypeOK
  <2>8. PICK r : RowApplied(r)
    BY <2>1, <2>2, <2>3, <2>4, <2>5, <2>7, CloseEquityRow
  <2>9. ledger' = Append(ledger, row) /\ Touches(id)
    BY <2>2, <2>3
    DEF CloseEquityPosition, RecordLedgerEntry, WithPosition, IsOpen,
        ClosePositionRecord, WithoutPosition, Touches
  <2>10. r = row
    BY <2>7, <2>8, <2>9, RowIsLast
  <2>11. trade \in Trade /\ TradeReportsRow(trade, row)
    <3> HIDE DEF pnl
    <3>. QED
      BY <2>1, <2>4, <2>5, <2>6 DEF Trade, TradeReportsRow
  <2> HIDE DEF row, trade, p, id
  <2>. QED
    BY <2>2, <2>7, <2>8, <2>9, <2>10, <2>11
    DEF Carried, Traded, BacktestTypeOK
<1>. QED
  BY <1>1, <1>2

LEMMA CarryCarried ==
  ASSUME BacktestTypeOK, NEW step \in SignalExecution, Carry(config, step)
  PROVE  Carried
BY OpenDefinedRiskCarried, CloseDefinedRiskCarried, OpenEquityCarried,
   CloseEquityCarried DEF Carry

-----------------------------------------------------------------------------
(* The peak, and the trades of the report *)

LEMMA EquityType ==
  /\ PortfolioTypeOK /\ IsFiniteSet(DOMAIN openPositions) => Equity \in Int
  /\ (PortfolioTypeOK /\ IsFiniteSet(DOMAIN openPositions))'
       => Equity' \in Int
<1>1. PortfolioTypeOK /\ IsFiniteSet(DOMAIN openPositions) => Equity \in Int
  BY BookPnlType, UnrealizedIsBookPnl DEF PortfolioTypeOK, Equity
<1>2. (PortfolioTypeOK /\ IsFiniteSet(DOMAIN openPositions))'
        => Equity' \in Int
  BY BookPnlType, UnrealizedIsBookPnl DEF PortfolioTypeOK, Equity
<1>. QED
  BY <1>1, <1>2

(* An account that holds nothing is worth its cash.                        *)
LEMMA FlatIsCash ==
  ASSUME PortfolioTypeOK', \A id \in PositionIds : HeldQuantity(id)' = 0
  PROVE  Equity' = cash'
<1>1. \A id \in DOMAIN openPositions' : openPositions'[id].quantity # 0
  BY DEF PortfolioTypeOK, Position, EquityPosition, DefinedRiskPosition,
         Positive
<1>2. DOMAIN openPositions' = {}
  BY <1>1 DEF PortfolioTypeOK, HeldQuantity, IsOpen
<1>3. BookPnl(openPositions', DOMAIN openPositions') = 0
  BY <1>2, BookPnlType, FS_EmptySet
<1>. QED
  BY <1>3, UnrealizedIsBookPnl DEF Equity, PortfolioTypeOK

LEMMA SamePrefix ==
  ASSUME NEW s \in Seq(Int), NEW t \in Seq(Int), NEW n \in 0..Len(s),
         n <= Len(t), \A i \in 1..n : s[i] = t[i]
  PROVE  SubSeq(s, 1, n) = SubSeq(t, 1, n)
<1> DEFINE a == SubSeq(s, 1, n)
           b == SubSeq(t, 1, n)
<1>1. a \in Seq(Int) /\ Len(a) = n /\ \A i \in 1..n : a[i] = s[i]
  OBVIOUS
<1>2. b \in Seq(Int) /\ Len(b) = n /\ \A i \in 1..n : b[i] = t[i]
  OBVIOUS
<1> HIDE DEF a, b
<1>3. Len(a) = Len(b) /\ \A i \in 1..Len(a) : a[i] = b[i]
  BY <1>1, <1>2
<1>4. a = b
  BY <1>1, <1>2, <1>3
<1>. QED
  BY <1>4 DEF a, b

LEMMA WholePrefix ==
  ASSUME NEW s \in Seq(Int)
  PROVE  SubSeq(s, 1, Len(s)) = s
OBVIOUS

(* The balance after any number of rows is an integer.                     *)
BalancesAreIntegers ==
  \A n \in 0..Len(ledger) :
    RunningTotal(InitialCapital, SubSeq(CashDeltas, 1, n)) \in Int

(* The columns of the ledger, before and after a row.                      *)
LEMMA ColumnsAreIntegers ==
  ASSUME PortfolioTypeOK, PortfolioTypeOK', NEW id
  PROVE  /\ CashDeltas \in Seq(Int) /\ Len(CashDeltas) = Len(ledger)
         /\ QuantityDeltas(id) \in Seq(Int)
         /\ Len(QuantityDeltas(id)) = Len(ledger)
         /\ CashDeltas' \in Seq(Int) /\ Len(CashDeltas') = Len(ledger')
         /\ QuantityDeltas(id)' \in Seq(Int)
         /\ Len(QuantityDeltas(id)') = Len(ledger')
<1>1. /\ ledger \in Seq(LedgerRow) /\ ledger' \in Seq(LedgerRow)
      /\ \A n \in DOMAIN ledger : ledger[n] \in LedgerRow
      /\ \A n \in DOMAIN ledger' : ledger'[n] \in LedgerRow
  BY DEF PortfolioTypeOK
<1>2. \A r \in LedgerRow : /\ r.cashDelta \in Int
                           /\ OwnRow(r, id, SignedQuantity(r)) \in Int
  BY DEF LedgerRow, OwnRow, SignedQuantity, Positive
<1>3. /\ CashDeltas \in [DOMAIN ledger -> Int]
      /\ CashDeltas' \in [DOMAIN ledger' -> Int]
      /\ QuantityDeltas(id) \in [DOMAIN ledger -> Int]
      /\ QuantityDeltas(id)' \in [DOMAIN ledger' -> Int]
  BY <1>1, <1>2 DEF CashDeltas, QuantityDeltas
<1>4. ASSUME NEW rows \in Seq(LedgerRow), NEW column \in [DOMAIN rows -> Int]
      PROVE  column \in Seq(Int) /\ Len(column) = Len(rows)
  OBVIOUS
<1>. QED
  BY <1>1, <1>3, <1>4

LEMMA PrefixesKept ==
  ASSUME PortfolioTypeOK, PortfolioTypeOK', NEW row,
         ledger' = Append(ledger, row), NEW id, NEW n \in 0..Len(ledger)
  PROVE  /\ SubSeq(CashDeltas', 1, n) = SubSeq(CashDeltas, 1, n)
         /\ SubSeq(QuantityDeltas(id)', 1, n)
              = SubSeq(QuantityDeltas(id), 1, n)
<1>1. /\ ledger \in Seq(LedgerRow) /\ ledger' \in Seq(LedgerRow)
      /\ Len(ledger') = Len(ledger) + 1
      /\ \A i \in 1..Len(ledger) : ledger'[i] = ledger[i]
  BY DEF PortfolioTypeOK
<1>2. /\ \A i \in 1..n : CashDeltas'[i] = CashDeltas[i]
      /\ \A i \in 1..n : QuantityDeltas(id)'[i] = QuantityDeltas(id)[i]
  BY <1>1 DEF CashDeltas, QuantityDeltas
<1>3. n \in 0..Len(CashDeltas') /\ n \in 0..Len(QuantityDeltas(id)')
      /\ n <= Len(CashDeltas) /\ n <= Len(QuantityDeltas(id))
  BY <1>1, ColumnsAreIntegers
<1>4. SubSeq(CashDeltas', 1, n) = SubSeq(CashDeltas, 1, n)
  BY <1>2, <1>3, SamePrefix, ColumnsAreIntegers
<1>5. SubSeq(QuantityDeltas(id)', 1, n) = SubSeq(QuantityDeltas(id), 1, n)
  BY <1>2, <1>3, SamePrefix, ColumnsAreIntegers
<1>. QED
  BY <1>4, <1>5

LEMMA PeakAfterRow ==
  ASSUME BacktestTypeOK, PortfolioTypeOK', ReplayInv',
         BalancesAreIntegers, PeakSeesFlatAccounts,
         NEW row, ledger' = Append(ledger, row),
         peakEquity' \in Int, peakEquity' >= peakEquity,
         peakEquity' >= Equity'
  PROVE  BalancesAreIntegers' /\ PeakSeesFlatAccounts'
<1>1. PortfolioTypeOK /\ PortfolioTypeOK' /\ peakEquity \in Int
  BY DEF BacktestTypeOK
<1>2. Len(ledger) \in Nat /\ Len(ledger') = Len(ledger) + 1
  BY <1>1 DEF PortfolioTypeOK
<1>3. ASSUME NEW n \in 0..Len(ledger)
      PROVE  /\ RunningTotal(InitialCapital, SubSeq(CashDeltas', 1, n)) \in Int
             /\ FlatAfter(n)' =>
                  peakEquity' >= RunningTotal(InitialCapital,
                                              SubSeq(CashDeltas', 1, n))
  <2>1. SubSeq(CashDeltas', 1, n) = SubSeq(CashDeltas, 1, n)
    BY <1>1, PrefixesKept
  <2>2. \A id : SubSeq(QuantityDeltas(id)', 1, n)
                  = SubSeq(QuantityDeltas(id), 1, n)
    BY <1>1, PrefixesKept
  <2>3. FlatAfter(n)' => FlatAfter(n)
    BY <2>2 DEF FlatAfter
  <2>4. RunningTotal(InitialCapital, SubSeq(CashDeltas, 1, n)) \in Int
    BY DEF BalancesAreIntegers
  <2>5. FlatAfter(n) => peakEquity >= RunningTotal(InitialCapital,
                                                   SubSeq(CashDeltas, 1, n))
    BY DEF PeakSeesFlatAccounts
  <2>6. RunningTotal(InitialCapital, SubSeq(CashDeltas', 1, n))
          = RunningTotal(InitialCapital, SubSeq(CashDeltas, 1, n))
    BY <2>1
  <2> DEFINE old == RunningTotal(InitialCapital, SubSeq(CashDeltas, 1, n))
  <2>7. old \in Int /\ (FlatAfter(n) => peakEquity >= old)
    BY <2>4, <2>5
  <2> HIDE DEF old
  <2>8. FlatAfter(n)' => peakEquity' >= old
    BY <1>1, <2>3, <2>7
  <2>. QED
    BY <2>6, <2>7, <2>8 DEF old
<1>4. ASSUME NEW n, n = Len(ledger')
      PROVE  /\ RunningTotal(InitialCapital, SubSeq(CashDeltas', 1, n)) \in Int
             /\ FlatAfter(n)' =>
                  peakEquity' >= RunningTotal(InitialCapital,
                                              SubSeq(CashDeltas', 1, n))
  <2>1. SubSeq(CashDeltas', 1, n) = CashDeltas'
    BY <1>1, <1>4, ColumnsAreIntegers, WholePrefix
  <2>2. RunningTotal(InitialCapital, CashDeltas') = cash' /\ cash' \in Int
    BY TotalIsRunningTotal DEF ReplayInv, PortfolioTypeOK
  <2>3. ASSUME FlatAfter(n)', NEW id \in PositionIds
        PROVE  HeldQuantity(id)' = 0
    <3>1. SubSeq(QuantityDeltas(id)', 1, n) = QuantityDeltas(id)'
      BY <1>1, <1>4, ColumnsAreIntegers, WholePrefix
    <3>2. RunningTotal(0, QuantityDeltas(id)') = HeldQuantity(id)'
      BY TotalIsRunningTotal DEF ReplayInv
    <3>. QED
      BY <2>3, <3>1, <3>2 DEF FlatAfter
  <2>4. FlatAfter(n)' => Equity' = cash'
    BY <1>1, <2>3, FlatIsCash
  <2>. QED
    BY <2>1, <2>2, <2>4
<1>5. \A n \in 0..Len(ledger') : n \in 0..Len(ledger) \/ n = Len(ledger')
  BY <1>2
<1>. QED
  BY <1>3, <1>4, <1>5 DEF BalancesAreIntegers, PeakSeesFlatAccounts

(* Where the ledger does not change, the peak only has to stay.            *)
LEMMA PeakWithoutRow ==
  ASSUME BacktestTypeOK, BalancesAreIntegers, PeakSeesFlatAccounts,
         UNCHANGED ledger, peakEquity' \in Int, peakEquity' >= peakEquity
  PROVE  BalancesAreIntegers' /\ PeakSeesFlatAccounts'
<1>1. CashDeltas' = CashDeltas /\ \A id : QuantityDeltas(id)' = QuantityDeltas(id)
  BY DEF CashDeltas, QuantityDeltas
<1>2. \A n : FlatAfter(n)' <=> FlatAfter(n)
  BY <1>1 DEF FlatAfter
<1>3. peakEquity \in Int
  BY DEF BacktestTypeOK
<1>4. BalancesAreIntegers'
  BY <1>1 DEF BalancesAreIntegers
<1>. QED
  BY <1>1, <1>2, <1>3, <1>4 DEF BalancesAreIntegers, PeakSeesFlatAccounts

LEMMA TradesAfterStep ==
  ASSUME BacktestTypeOK, TradesReportLedger, Traded
  PROVE  TradesReportLedger' /\ tradeLedger' \in Seq(Trade)
<1>1. ledger \in Seq(LedgerRow) /\ tradeLedger \in Seq(Trade)
  BY DEF BacktestTypeOK, PortfolioTypeOK
<1>2. CASE UNCHANGED <<portfolioVars, tradeLedger>>
  BY <1>1, <1>2 DEF TradesReportLedger, portfolioVars
<1>3. ASSUME NEW row, NEW trade, RowApplied(row), trade \in Trade,
             tradeLedger' = Append(tradeLedger, trade),
             TradeReportsRow(trade, row)
      PROVE  TradesReportLedger' /\ tradeLedger' \in Seq(Trade)
  <2>1. row \in LedgerRow /\ ledger' = Append(ledger, row)
    BY <1>3 DEF RowApplied
  <2>2. /\ Len(ledger') = Len(ledger) + 1
        /\ Len(tradeLedger') = Len(tradeLedger) + 1
        /\ DOMAIN ledger' = 1..(Len(ledger) + 1)
        /\ DOMAIN ledger = 1..Len(ledger)
        /\ ledger'[Len(ledger) + 1] = row
        /\ tradeLedger'[Len(tradeLedger) + 1] = trade
    BY <1>1, <1>3, <2>1
  <2>3. /\ \A n \in 1..Len(ledger) : ledger'[n] = ledger[n]
        /\ \A n \in 1..Len(tradeLedger) : tradeLedger'[n] = tradeLedger[n]
    BY <1>1, <1>3, <2>1
  <2>4. \A n \in 1..(Len(ledger) + 1) : n \in 1..Len(ledger) \/ n = Len(ledger) + 1
    BY <1>1
  <2>5. tradeLedger' \in Seq(Trade)
    BY <1>1, <1>3
  <2>. QED
    BY <1>3, <2>2, <2>3, <2>4, <2>5 DEF TradesReportLedger
<1>. QED
  BY <1>2, <1>3 DEF Traded

-----------------------------------------------------------------------------
(* The steps of the run *)

ReplayedInv ==
  /\ BacktestTypeOK
  /\ ReplayInv
  /\ TradesReportLedger
  /\ BalancesAreIntegers
  /\ PeakSeesFlatAccounts

LEMMA ReplayedInit == Init => ReplayedInv
<1> SUFFICES ASSUME Init PROVE ReplayedInv
  OBVIOUS
<1>1. PortfolioInit /\ peakEquity = InitialCapital /\ tradeLedger = <<>>
      /\ positionMetadata = [id \in {} |-> {}]
  BY DEF Init, ExecutionInit
<1>2. PortfolioTypeOK /\ ReplayInv
  BY <1>1, InitType, ReplayOfInit
<1>3. BacktestTypeOK
  <2>1. DOMAIN openPositions = {} /\ DOMAIN positionMetadata = {}
    BY <1>1 DEF PortfolioInit
  <2>2. IsFiniteSet(DOMAIN openPositions)
    BY <2>1, FS_EmptySet
  <2>3. config.strategyName \in Strategies /\ config.instrumentId \in Instruments
    BY DEF Init
  <2>4. peakEquity \in Int /\ tradeLedger \in Seq(Trade)
    BY <1>1, CapitalAssumption
  <2>5. /\ pendingMarket = {} /\ snapshot = {} /\ strategyPosition = {}
        /\ steps \in Seq(SignalExecution) /\ equityCurve \in Seq(CurvePoint)
    BY DEF Init
  <2>. QED
    BY <1>2, <2>1, <2>2, <2>3, <2>4, <2>5 DEF BacktestTypeOK
<1>4. ledger = <<>> /\ CashDeltas = <<>>
  BY <1>1 DEF PortfolioInit, CashDeltas
<1>5. TradesReportLedger
  BY <1>1, <1>4 DEF TradesReportLedger
<1>6. RunningTotal(InitialCapital, <<>>) = InitialCapital
  BY CapitalAssumption, TotalOfEmpty, TotalIsRunningTotal
<1>7. \A n \in 0..Len(ledger) : SubSeq(CashDeltas, 1, n) = <<>>
  BY <1>4
<1>8. BalancesAreIntegers /\ PeakSeesFlatAccounts
  <2>1. ASSUME NEW n \in 0..Len(ledger)
        PROVE  RunningTotal(InitialCapital, SubSeq(CashDeltas, 1, n))
                 = InitialCapital
    BY <1>6, <1>7
  <2>2. InitialCapital \in Int /\ peakEquity >= InitialCapital
    BY <1>1, CapitalAssumption
  <2>. QED
    BY <2>1, <2>2 DEF BalancesAreIntegers, PeakSeesFlatAccounts
<1>. QED
  BY <1>2, <1>3, <1>5, <1>8 DEF ReplayedInv

LEMMA ExecuteReplayed ==
  ASSUME ReplayedInv, ExecuteSignalStep
  PROVE  ReplayedInv'
<1> DEFINE step == Head(steps)
<1>1. BacktestTypeOK /\ ReplayInv /\ PortfolioTypeOK
  BY DEF ReplayedInv, BacktestTypeOK
<1>2. step \in SignalExecution /\ steps' \in Seq(SignalExecution)
  BY <1>1 DEF ExecuteSignalStep, BacktestTypeOK
<1>3. /\ Carry(config, step)
      /\ peakEquity' = UpdatePeakEquity(peakEquity, Equity')
      /\ UNCHANGED <<riskConfig, replayVars, snapshot, strategyPosition,
                     equityCurve, status>>
  BY DEF ExecuteSignalStep, ExecuteStep
<1> HIDE DEF step
<1>4. Carried
  BY <1>1, <1>2, <1>3, CarryCarried
<1>5. PortfolioTypeOK' /\ Traded
  BY <1>4 DEF Carried
<1>6. IsFiniteSet(DOMAIN openPositions')
  <2>1. PICK id : DOMAIN openPositions' \subseteq DOMAIN openPositions \cup {id}
    BY <1>4 DEF Carried, Touches
  <2>2. IsFiniteSet(DOMAIN openPositions)
    BY <1>1 DEF BacktestTypeOK
  <2>. QED
    BY <2>1, <2>2, FS_AddElement, FS_Subset
<1>7. /\ peakEquity' \in Int /\ peakEquity' >= peakEquity
      /\ peakEquity' >= Equity'
  <2>1. Equity' \in Int /\ peakEquity \in Int
    BY <1>1, <1>5, <1>6, EquityType DEF BacktestTypeOK
  <2> HIDE DEF Equity
  <2>. QED
    BY <1>3, <2>1 DEF UpdatePeakEquity
<1>8. TradesReportLedger' /\ tradeLedger' \in Seq(Trade)
  BY <1>1, <1>5, TradesAfterStep DEF ReplayedInv
<1>9. BacktestTypeOK'
  BY <1>1, <1>2, <1>3, <1>4, <1>5, <1>6, <1>7, <1>8
  DEF BacktestTypeOK, Carried, replayVars
<1>10. CASE UNCHANGED <<portfolioVars, tradeLedger>>
  <2>1. ReplayInv' /\ ledger' = ledger
    BY <1>1, <1>10, ReplayOfStutter DEF portfolioVars
  <2>. QED
    BY <1>1, <1>7, <1>8, <1>9, <2>1, PeakWithoutRow DEF ReplayedInv
<1>11. ASSUME NEW row, RowApplied(row) PROVE ReplayedInv'
  <2>1. ReplayInv'
    BY <1>1, <1>5, <1>11, ReplayStep
  <2>2. ledger' = Append(ledger, row)
    BY <1>11 DEF RowApplied
  <2>3. BalancesAreIntegers' /\ PeakSeesFlatAccounts'
    BY <1>1, <1>5, <1>7, <2>1, <2>2, PeakAfterRow DEF ReplayedInv
  <2>. QED
    BY <1>8, <1>9, <2>1, <2>3 DEF ReplayedInv
<1>. QED
  BY <1>5, <1>10, <1>11 DEF Traded

(* Marking changes the mark of a position and nothing else of it.          *)
WithMark(position, mark) == [position EXCEPT !.markPrice = mark]

LEMMA MarkedPositions ==
  ASSUME BacktestTypeOK, NEW s \in snapshot, NEW marked,
         marked = MarkOpenPositions(s)
  PROVE  /\ DOMAIN marked = DOMAIN openPositions
         /\ \A id \in DOMAIN openPositions :
              /\ marked[id] \in Position
              /\ \/ Marks(id, s) = {} /\ marked[id] = openPositions[id]
                 \/ \E mark \in Marks(id, s) :
                      marked[id] = WithMark(openPositions[id], mark)
<1>1. s.price \in Int /\ s.chain \in OptionChainSnapshot
  BY DEF BacktestTypeOK, MarketSnapshot
<1>2. ASSUME NEW id \in DOMAIN openPositions
      PROVE  Marks(id, s) \subseteq Int
  <2>1. Debits(id, s) \subseteq Int
    BY <1>1, MarkDebitIsInt DEF Debits, BacktestTypeOK
  <2>2. {price \in {s.price} : price > 0} \subseteq Int
    BY <1>1
  <2>. QED
    BY <2>1, <2>2 DEF Marks
<1>3. ASSUME NEW position \in Position, NEW mark \in Int
      PROVE  WithMark(position, mark) \in Position
  BY DEF WithMark, Position, EquityPosition, DefinedRiskPosition
<1>4. ASSUME NEW id \in DOMAIN openPositions, Marks(id, s) # {}
      PROVE  (CHOOSE mark \in Marks(id, s) : TRUE) \in Marks(id, s)
  BY <1>4
<1>5. ASSUME NEW id \in DOMAIN openPositions
      PROVE  /\ marked[id] \in Position
             /\ \/ Marks(id, s) = {} /\ marked[id] = openPositions[id]
                \/ \E mark \in Marks(id, s) :
                     marked[id] = WithMark(openPositions[id], mark)
  <2>1. openPositions[id] \in Position
    BY DEF BacktestTypeOK, PortfolioTypeOK
  <2>2. CASE Marks(id, s) = {}
    BY <2>1, <2>2 DEF MarkOpenPositions
  <2>3. CASE Marks(id, s) # {}
    <3> DEFINE mark == CHOOSE m \in Marks(id, s) : TRUE
    <3>1. mark \in Marks(id, s) /\ mark \in Int
      BY <1>2, <1>4, <2>3
    <3>2. marked[id] = WithMark(openPositions[id], mark)
      BY <2>3 DEF MarkOpenPositions, WithMark
    <3> HIDE DEF mark
    <3>. QED
      BY <1>3, <2>1, <3>1, <3>2
  <2>. QED
    BY <2>2, <2>3
<1>6. DOMAIN marked = DOMAIN openPositions
  BY DEF MarkOpenPositions
<1>. QED
  BY <1>5, <1>6

LEMMA MarkedSizes ==
  ASSUME BacktestTypeOK, NEW s \in snapshot,
         openPositions' = MarkOpenPositions(s)
  PROVE  \A id \in PositionIds : /\ HeldQuantity(id)' = HeldQuantity(id)
                                 /\ HeldMargin(id)' = HeldMargin(id)
<1>1. DOMAIN openPositions' = DOMAIN openPositions
  BY MarkedPositions
<1>2. ASSUME NEW id \in DOMAIN openPositions
      PROVE  /\ openPositions'[id].kind = openPositions[id].kind
             /\ openPositions'[id].quantity = openPositions[id].quantity
             /\ openPositions'[id].kind = "DEFINED_RISK" =>
                  openPositions'[id].maxLoss = openPositions[id].maxLoss
  <2>1. openPositions[id] \in Position
    BY DEF BacktestTypeOK, PortfolioTypeOK
  <2>2. \/ openPositions'[id] = openPositions[id]
        \/ \E mark \in Marks(id, s) :
             openPositions'[id] = WithMark(openPositions[id], mark)
    BY MarkedPositions
  <2>. QED
    BY <2>1, <2>2 DEF WithMark, Position, EquityPosition, DefinedRiskPosition
<1>. QED
  BY <1>1, <1>2
  DEF HeldQuantity, HeldMargin, IsOpen, IsOpenAs, CalculatePositionMargin,
      CalculateDefinedRiskMargin

LEMMA RecordReplayed ==
  ASSUME ReplayedInv, RecordEquityPoint, equityCurve' \in Seq(CurvePoint)
  PROVE  ReplayedInv'
<1>1. BacktestTypeOK /\ ReplayInv /\ PortfolioTypeOK
  BY DEF ReplayedInv, BacktestTypeOK
<1>2. PICK s \in snapshot : openPositions' = MarkOpenPositions(s)
  BY DEF RecordEquityPoint
<1>3. UNCHANGED <<cash, closedPositions, ledger, executionVars, riskConfig,
                  replayVars, snapshot, strategyPosition, steps>>
  BY DEF RecordEquityPoint
<1>4. /\ DOMAIN openPositions' = DOMAIN openPositions
      /\ \A id \in DOMAIN openPositions' : openPositions'[id] \in Position
  BY <1>1, <1>2, MarkedPositions
<1>5. PortfolioTypeOK'
  BY <1>1, <1>3, <1>4 DEF PortfolioTypeOK
<1>6. BacktestTypeOK'
  BY <1>1, <1>3, <1>4, <1>5 DEF BacktestTypeOK, executionVars, replayVars
<1>7. ReplayInv'
  <2>1. \A id \in PositionIds : /\ HeldQuantity(id)' = HeldQuantity(id)
                                /\ HeldMargin(id)' = HeldMargin(id)
    BY <1>1, <1>2, MarkedSizes
  <2>2. /\ CashDeltas' = CashDeltas /\ SaleShortfalls' = SaleShortfalls
        /\ \A id : /\ QuantityDeltas(id)' = QuantityDeltas(id)
                   /\ MarginDeltas(id)' = MarginDeltas(id)
    BY <1>3 DEF CashDeltas, SaleShortfalls, QuantityDeltas, MarginDeltas
  <2>. QED
    BY <1>1, <1>3, <1>5, <2>1, <2>2 DEF ReplayInv
<1>8. TradesReportLedger'
  BY <1>3 DEF ReplayedInv, TradesReportLedger, executionVars
<1>9. BalancesAreIntegers' /\ PeakSeesFlatAccounts'
  BY <1>1, <1>3, PeakWithoutRow
  DEF ReplayedInv, executionVars, BacktestTypeOK
<1>. QED
  BY <1>6, <1>7, <1>8, <1>9 DEF ReplayedInv

(* An event, and the failure of a step, leave account and ledger alone.    *)
LEMMA QuietReplayed ==
  ASSUME ReplayedInv, UNCHANGED <<portfolioVars, executionVars, equityCurve>>,
         BacktestTypeOK'
  PROVE  ReplayedInv'
<1>1. ReplayInv'
  BY ReplayOfStutter DEF ReplayedInv
<1>2. TradesReportLedger'
  BY DEF ReplayedInv, TradesReportLedger, executionVars, portfolioVars
<1>3. BalancesAreIntegers' /\ PeakSeesFlatAccounts'
  BY PeakWithoutRow
  DEF ReplayedInv, executionVars, portfolioVars, BacktestTypeOK
<1>. QED
  BY <1>1, <1>2, <1>3 DEF ReplayedInv

LEMMA SnapshotType ==
  ASSUME BacktestTypeOK, NEW market \in MarketEvent,
         NEW chain \in OptionChainSnapshot,
         ProcessSnapshot(Snapshot(market, chain))
  PROVE  /\ snapshot' \subseteq MarketSnapshot
         /\ \A s, t \in snapshot' : s = t
         /\ strategyPosition' \subseteq StrategyPosition
         /\ steps' \in Seq(SignalExecution)
<1> DEFINE s == Snapshot(market, chain)
<1>1. s \in MarketSnapshot
  BY DEF Snapshot, MarketEvent, MarketSnapshot
<1>2. snapshot' = {s} /\ GenerateSignal(s)
  BY DEF ProcessSnapshot
<1> HIDE DEF s
<1>3. CASE config.strategyName = CustomStrategy
  BY <1>1, <1>2, <1>3, BacktestAssumption DEF GenerateSignal, BacktestTypeOK
<1>4. CASE config.strategyName # CustomStrategy
  <2>1. config.strategyName \in Strategies \cap BuiltInStrategies
    BY <1>4, BacktestAssumption DEF BacktestTypeOK
  <2>2. Equity \in Int
    BY EquityType DEF BacktestTypeOK
  <2>3. PICK d \in Evaluate(config.strategyName, config.instrumentId,
                            strategyPosition, s, Equity) :
          strategyPosition' = d.position /\ steps' = d.steps
    BY <1>2, <1>4 DEF GenerateSignal
  <2>4. d.position \subseteq StrategyPosition /\ d.steps \in Seq(SignalExecution)
    BY <1>1, <2>1, <2>2, EvaluateType DEF BacktestTypeOK
  <2>. QED
    BY <1>1, <1>2, <2>3, <2>4
<1>. QED
  BY <1>3, <1>4

LEMMA EventType ==
  ASSUME BacktestTypeOK, NEW time \in Int, NEW price, NEW chain,
         \/ price \in Prices /\ HandleMarket(time, price)
         \/ chain \in Chains /\ HandleOptionChain(time, chain)
  PROVE  /\ BacktestTypeOK'
         /\ UNCHANGED <<portfolioVars, executionVars, equityCurve>>
<1>1. /\ UNCHANGED <<portfolioVars, executionVars, equityCurve>>
      /\ config' = config
  BY DEF HandleMarket, HandleOptionChain
<1>2. NoChain \in OptionChainSnapshot
  BY DEF NoChain, OptionChainSnapshot
<1>3. pendingMarket' \subseteq MarketEvent
  <2>1. CASE price \in Prices /\ HandleMarket(time, price)
    <3>1. [time |-> time, price |-> price] \in MarketEvent
      BY <2>1, BacktestAssumption DEF MarketEvent
    <3>. QED
      BY <2>1, <3>1 DEF HandleMarket
  <2>2. CASE chain \in Chains /\ HandleOptionChain(time, chain)
    BY <2>2 DEF HandleOptionChain, BacktestTypeOK
  <2>. QED
    BY <2>1, <2>2
<1>4. CASE UNCHANGED decisionVars
  BY <1>1, <1>3, <1>4
  DEF BacktestTypeOK, decisionVars, portfolioVars, executionVars,
      PortfolioTypeOK
<1>5. ASSUME NEW market \in MarketEvent, NEW c \in OptionChainSnapshot,
             ProcessSnapshot(Snapshot(market, c))
      PROVE  BacktestTypeOK'
  BY <1>1, <1>3, <1>5, SnapshotType
  DEF BacktestTypeOK, portfolioVars, executionVars, PortfolioTypeOK
<1>6. CASE price \in Prices /\ HandleMarket(time, price)
  <2>1. [time |-> time, price |-> price] \in MarketEvent
    BY <1>6, BacktestAssumption DEF MarketEvent
  <2>. QED
    BY <1>1, <1>2, <1>4, <1>5, <1>6, <2>1 DEF HandleMarket
<1>7. CASE chain \in Chains /\ HandleOptionChain(time, chain)
  <2>1. chain \in OptionChainSnapshot
    BY <1>7, BacktestAssumption
  <2>. QED
    BY <1>1, <1>4, <1>5, <1>7, <2>1 DEF HandleOptionChain, BacktestTypeOK
<1>. QED
  BY <1>6, <1>7

-----------------------------------------------------------------------------
(* The equity curve *)

(* A spread has at most one price at a snapshot.                           *)
LEMMA PremiumIsOne ==
  ASSUME NEW strike, NEW quotes \in Seq(OptionQuote),
         NEW a \in PremiumAt(strike, quotes),
         NEW b \in PremiumAt(strike, quotes)
  PROVE  a = b
<1> DEFINE places == {n \in DOMAIN quotes : quotes[n].strike = strike}
<1>1. places \subseteq Int
  OBVIOUS
<1>2. \A m, n \in FirstPlace(places) : m = n
  <2> HIDE DEF places
  <2>1. \A m, n \in FirstPlace(places) : /\ m \in Int /\ n \in Int
                                        /\ m <= n /\ n <= m
    BY <1>1 DEF FirstPlace
  <2>. QED
    BY <2>1
<1>3. PICK m \in FirstPlace(places) : a = quotes[m].premium
  BY DEF PremiumAt
<1>4. PICK n \in FirstPlace(places) : b = quotes[n].premium
  BY DEF PremiumAt
<1>. QED
  BY <1>2, <1>3, <1>4

LEMMA MarkDebitIsOne ==
  ASSUME NEW metadata \in DefinedRiskMarkMetadata,
         NEW chain \in OptionChainSnapshot,
         NEW a \in MarkDebit(metadata, chain),
         NEW b \in MarkDebit(metadata, chain)
  PROVE  a = b
<1>1. chain.puts \in Seq(OptionQuote) /\ chain.calls \in Seq(OptionQuote)
  BY DEF OptionChainSnapshot
<1>2. ASSUME NEW spread, NEW quotes \in Seq(OptionQuote)
      PROVE  \A x, y \in SpreadCloseCost(spread, quotes) : x = y
  BY PremiumIsOne DEF SpreadCloseCost
<1>3. CASE metadata.spreadKind = "BULL_PUT"
  BY <1>1, <1>2, <1>3 DEF MarkDebit
<1>4. CASE metadata.spreadKind = "IRON_CONDOR"
  <2>1. /\ a \in IronCondorCloseCost(metadata.putSpread, metadata.callSpread,
                                     chain)
        /\ b \in IronCondorCloseCost(metadata.putSpread, metadata.callSpread,
                                     chain)
    BY <1>4 DEF MarkDebit
  <2>. QED
    BY <1>1, <1>2, <2>1 DEF IronCondorCloseCost
<1>5. CASE metadata.spreadKind = "COVERED_CALL"
  BY <1>1, <1>5, PremiumIsOne DEF MarkDebit
<1>. QED
  BY <1>3, <1>4, <1>5 DEF DefinedRiskMarkMetadata

(* What a spread contributes to the point.                                 *)
SpreadPnl(position, debits) ==
  MapThenSumSet(
    LAMBDA debit : position.entryCredit * position.quantity
                   - debit * position.quantity, debits)

LEMMA SpreadPnlValue ==
  ASSUME NEW position \in DefinedRiskPosition, NEW debits \in SUBSET Int,
         \A x, y \in debits : x = y
  PROVE  /\ debits = {} => SpreadPnl(position, debits) = 0
         /\ \A debit \in debits :
              SpreadPnl(position, debits)
                = (position.entryCredit - debit) * position.quantity
<1> DEFINE value == [debit \in debits |->
                       position.entryCredit * position.quantity
                       - debit * position.quantity]
           P(h) == h = [s \in SUBSET debits |->
                          IF s = {} THEN 0
                          ELSE LET x == CHOOSE y \in s : TRUE
                               IN  (position.entryCredit * position.quantity
                                    - x * position.quantity) + h[s \ {x}]]
<1>1. position.entryCredit \in Int /\ position.quantity \in Int
  BY DEF DefinedRiskPosition, Positive
<1>2. \A x \in debits : value[x] \in Int
  BY <1>1
<1>3. IsFiniteSet(debits)
  <2>1. CASE debits = {}
    BY <2>1, FS_EmptySet
  <2>2. ASSUME NEW x \in debits PROVE IsFiniteSet(debits)
    <3>1. debits = {x}
      OBVIOUS
    <3>. QED
      BY <3>1, FS_Singleton
  <2>. QED
    BY <2>1, <2>2
<1>4. \A s \in SUBSET debits : s # {} => (CHOOSE y \in s : TRUE) \in debits
  OBVIOUS
<1>5. ASSUME NEW h PROVE P(h) <=> IsSum(h, value, debits)
  BY <1>4 DEF IsSum, SomeOf
<1>6. PICK g : IsSum(g, value, debits)
  BY <1>2, <1>3, SumExists DEF HasSum
<1>7. P(CHOOSE h : P(h))
  <2> HIDE DEF P
  <2>1. P(g)
    BY <1>5, <1>6
  <2>. QED
    BY <2>1
<1>8. (CHOOSE h : P(h))[debits] = SetSum(value, debits)
  <2> DEFINE k == CHOOSE h : P(h)
  <2>1. IsSum(k, value, debits)
    BY <1>5, <1>7
  <2> HIDE DEF k
  <2>. QED
    BY <1>3, <2>1, SetSumOf DEF k
<1>9. SpreadPnl(position, debits) = SetSum(value, debits)
  <2>1. SpreadPnl(position, debits) = (CHOOSE h : P(h))[debits]
    BY DEF SpreadPnl, MapThenSumSet, MapThenFoldSet
  <2>. QED
    BY <1>8, <2>1
<1>10. debits = {} => SpreadPnl(position, debits) = 0
  BY <1>9, SetSumEmpty
<1>11. ASSUME NEW debit \in debits
       PROVE  SpreadPnl(position, debits)
                = (position.entryCredit - debit) * position.quantity
  <2>1. debits \ {debit} = {}
    OBVIOUS
  <2>2. SetSum(value, debits) = value[debit] + SetSum(value, debits \ {debit})
    <3> HIDE DEF value
    <3>. QED
      BY <1>2, <1>3, SetSumRemove
  <2>3. SetSum(value, debits \ {debit}) = 0
    BY <2>1, SetSumEmpty
  <2>4. value[debit] = (position.entryCredit - debit) * position.quantity
    BY <1>1
  <2>5. value[debit] \in Int
    BY <1>2
  <2> HIDE DEF value
  <2>. QED
    BY <1>9, <2>2, <2>3, <2>4, <2>5
<1>. QED
  BY <1>10, <1>11

(* A position counts at its new mark, a spread without a price not at all. *)
LEMMA CurveValue ==
  ASSUME BacktestTypeOK, NEW s \in snapshot, NEW marked,
         marked = MarkOpenPositions(s), NEW id \in DOMAIN openPositions
  PROVE  CurvePnl(id, marked[id], s)
           = IF marked[id].kind = "DEFINED_RISK" /\ Debits(id, s) = {} THEN 0
             ELSE CalculatePositionUnrealizedPnl(marked[id])
<1>1. /\ openPositions[id] \in Position /\ marked[id] \in Position
      /\ \/ Marks(id, s) = {} /\ marked[id] = openPositions[id]
         \/ \E mark \in Marks(id, s) :
              marked[id] = WithMark(openPositions[id], mark)
  BY MarkedPositions DEF BacktestTypeOK, PortfolioTypeOK
<1>2. CASE marked[id].kind = "EQUITY"
  BY <1>2 DEF CurvePnl, CalculatePositionUnrealizedPnl
<1>3. CASE marked[id] \in DefinedRiskPosition
  <2> DEFINE position == marked[id]
             debits == Debits(id, s)
  <2>1. marked[id].kind = "DEFINED_RISK" /\ marked[id].kind # "EQUITY"
    BY <1>3 DEF DefinedRiskPosition
  <2>2. openPositions[id].kind = "DEFINED_RISK"
    BY <1>1, <2>1
    DEF WithMark, Position, EquityPosition, DefinedRiskPosition
  <2>3. Marks(id, s) = debits
    BY <2>2 DEF Marks
  <2>4. s.chain \in OptionChainSnapshot
    BY DEF BacktestTypeOK, MarketSnapshot
  <2>5. debits \subseteq Int /\ \A x, y \in debits : x = y
    BY <2>4, MarkDebitIsInt, MarkDebitIsOne DEF Debits, BacktestTypeOK
  <2>6. CurvePnl(id, position, s) = SpreadPnl(position, debits)
    BY <2>1 DEF CurvePnl, SpreadPnl, MapThenSumSet, MapThenFoldSet
  <2>7. ASSUME debits # {}
        PROVE  position.markPrice \in debits
    <3>1. PICK mark \in debits : position = WithMark(openPositions[id], mark)
      BY <1>1, <2>3, <2>7
    <3>. QED
      BY <1>1, <3>1 DEF WithMark, Position, EquityPosition, DefinedRiskPosition
  <2> HIDE DEF debits, position
  <2>8. position \in DefinedRiskPosition /\ position.kind = "DEFINED_RISK"
    BY <1>3, <2>1 DEF position
  <2>9. CurvePnl(id, position, s)
          = IF debits = {} THEN 0
            ELSE (position.entryCredit - position.markPrice)
                   * position.quantity
    BY <2>5, <2>6, <2>7, <2>8, SpreadPnlValue
  <2>10. CurvePnl(id, position, s)
          = IF position.kind = "DEFINED_RISK" /\ debits = {} THEN 0
            ELSE CalculatePositionUnrealizedPnl(position)
    BY <2>8, <2>9 DEF CalculatePositionUnrealizedPnl
  <2>. QED
    BY <2>10 DEF position, debits
<1>4. marked[id].kind = "EQUITY" \/ marked[id] \in DefinedRiskPosition
  BY <1>1 DEF Position, EquityPosition
<1>5. marked[id].kind = "EQUITY" => marked[id].kind # "DEFINED_RISK"
  OBVIOUS
<1>. QED
  BY <1>2, <1>3, <1>4

CurveSum(positions, s) ==
  MapThenSumSet(LAMBDA id : CurvePnl(id, positions[id], s), DOMAIN positions)

LEMMA CurveIsSum ==
  ASSUME NEW positions, IsFiniteSet(DOMAIN positions), NEW s, NEW value,
         value = [id \in DOMAIN positions |-> CurvePnl(id, positions[id], s)],
         \A id \in DOMAIN positions : value[id] \in Int
  PROVE  CurveSum(positions, s) = SetSum(value, DOMAIN positions)
<1> DEFINE ids == DOMAIN positions
           P(h) == h = [t \in SUBSET ids |->
                          IF t = {} THEN 0
                          ELSE LET x == CHOOSE y \in t : TRUE
                               IN  CurvePnl(x, positions[x], s)
                                   + h[t \ {x}]]
<1>1. \A x \in ids : value[x] = CurvePnl(x, positions[x], s)
  OBVIOUS
<1>2. \A t \in SUBSET ids : t # {} => (CHOOSE y \in t : TRUE) \in ids
  OBVIOUS
<1>3. ASSUME NEW h PROVE P(h) <=> IsSum(h, value, ids)
  BY <1>1, <1>2 DEF IsSum, SomeOf
<1>4. PICK g : IsSum(g, value, ids)
  BY SumExists DEF HasSum
<1>5. P(CHOOSE h : P(h))
  <2>1. P(g)
    <3> HIDE DEF P
    <3>. QED
      BY <1>3, <1>4
  <2> HIDE DEF P
  <2>. QED
    BY <2>1
<1>6. (CHOOSE h : P(h))[ids] = SetSum(value, ids)
  <2> DEFINE k == CHOOSE h : P(h)
  <2>1. IsSum(k, value, ids)
    BY <1>3, <1>5
  <2> HIDE DEF k
  <2>2. IsFiniteSet(ids)
    OBVIOUS
  <2>. QED
    BY <2>1, <2>2, SetSumOf DEF k
<1>7. CurveSum(positions, s) = (CHOOSE h : P(h))[ids]
  BY DEF CurveSum, MapThenSumSet, MapThenFoldSet
<1>. QED
  BY <1>6, <1>7

Unpriced(positions, s) ==
  {id \in DOMAIN positions :
     positions[id].kind = "DEFINED_RISK" /\ Debits(id, s) = {}}

LEMMA CurveSumAgrees ==
  ASSUME BacktestTypeOK, NEW s \in snapshot, NEW marked,
         marked = MarkOpenPositions(s)
  PROVE  /\ CurveSum(marked, s) = BookPnl(marked, DOMAIN marked)
                                  - BookPnl(marked, Unpriced(marked, s))
         /\ CurveSum(marked, s) \in Int
<1> DEFINE ids == DOMAIN marked
           U == Unpriced(marked, s)
           pnl == [id \in ids |-> CalculatePositionUnrealizedPnl(marked[id])]
           value == [id \in ids |-> CurvePnl(id, marked[id], s)]
<1>1. /\ ids = DOMAIN openPositions /\ IsFiniteSet(ids)
      /\ \A id \in ids : marked[id] \in Position
  BY MarkedPositions DEF BacktestTypeOK
<1>2. U \subseteq ids /\ ids \cap U = U
  BY DEF Unpriced
<1>3. \A id \in ids : pnl[id] \in Int
  BY <1>1, PnlIsInt
<1>4. \A id \in ids : value[id] = IF id \in U THEN 0 ELSE pnl[id]
  BY <1>1, CurveValue DEF Unpriced
<1>5. BookPnl(marked, ids) = SetSum(pnl, ids) /\ BookPnl(marked, U) = SetSum(pnl, U)
  BY <1>1, <1>2, PnlIsSum
<1>6. \A id \in ids : value[id] \in Int
  BY <1>3, <1>4
<1>7. CurveSum(marked, s) = SetSum(value, ids)
  BY <1>1, <1>6, CurveIsSum
<1> HIDE DEF U, pnl, value, ids
<1>8. SetSum(value, ids) = SetSum(pnl, ids) - SetSum(pnl, ids \cap U)
  <2>1. \A x \in ids : /\ pnl[x] \in Int
                       /\ value[x] = (IF x \in U THEN 0 ELSE pnl[x])
    BY <1>3, <1>4
  <2>2. IsFiniteSet(ids)
    BY <1>1
  <2>. QED
    BY <2>1, <2>2, SetSumWithout
<1>9. SetSum(pnl, ids \cap U) = SetSum(pnl, U)
  BY <1>2
<1>10. SetSum(value, ids) \in Int
  BY <1>1, <1>6, SetSumType
<1>. QED
  BY <1>5, <1>7, <1>8, <1>9, <1>10 DEF U, ids

(* What the account shows for the spreads that the point leaves out.       *)
UnpricedPnl(s) ==
  SumOverPositions(CalculatePositionUnrealizedPnl,
                   {id \in OpenSpreads : Debits(id, s) = {}})

LEMMA UnpricedPnlIsBookPnl ==
  ASSUME NEW s
  PROVE  /\ UnpricedPnl(s)
              = BookPnl(openPositions, {id \in OpenSpreads : Debits(id, s) = {}})
         /\ UnpricedPnl(s)'
              = BookPnl(openPositions',
                        {id \in OpenSpreads' : Debits(id, s)' = {}})
BY DEF UnpricedPnl, SumOverPositions, BookPnl, MapThenSumSet, MapThenFoldSet

LEMMA CurveMeaning ==
  ASSUME \A s \in snapshot' :
           Last(equityCurve').cash + Last(equityCurve').unrealizedPnl
             = Equity' - UnpricedPnl(s)'
  PROVE  CurveAgreesWithAccount'
BY DEF CurveAgreesWithAccount, UnpricedPnl, SumOverPositions, MapThenSumSet,
       MapThenFoldSet

LEMMA PointRecorded ==
  ASSUME BacktestTypeOK, RecordEquityPoint
  PROVE  /\ equityCurve' \in Seq(CurvePoint)
         /\ CurveAgreesWithAccount'
<1>1. PICK s \in snapshot :
        LET marked == MarkOpenPositions(s)
        IN  /\ openPositions' = marked
            /\ equityCurve' = Append(equityCurve,
                 [time |-> s.time, cash |-> cash,
                  unrealizedPnl |->
                    MapThenSumSet(LAMBDA id : CurvePnl(id, marked[id], s),
                                  DOMAIN marked)])
  BY DEF RecordEquityPoint
<1> DEFINE marked == MarkOpenPositions(s)
           profit == CurveSum(marked, s)
           point == [time |-> s.time, cash |-> cash, unrealizedPnl |-> profit]
           U == Unpriced(marked, s)
<1>2. equityCurve' = Append(equityCurve, point) /\ openPositions' = marked
  BY <1>1 DEF CurveSum, MapThenSumSet, MapThenFoldSet
<1>3. /\ profit = BookPnl(marked, DOMAIN marked) - BookPnl(marked, U)
      /\ profit \in Int
  BY CurveSumAgrees
<1>4. UNCHANGED <<cash, snapshot, positionMetadata>>
  BY DEF RecordEquityPoint, executionVars
<1>5. point \in CurvePoint
  BY <1>3 DEF CurvePoint, BacktestTypeOK, PortfolioTypeOK, MarketSnapshot
<1> HIDE DEF marked, profit
<1>6. equityCurve' \in Seq(CurvePoint)
  BY <1>2, <1>5 DEF BacktestTypeOK
<1>7. Last(equityCurve') = point
  <2> HIDE DEF point
  <2>1. equityCurve \in Seq(CurvePoint)
    BY DEF BacktestTypeOK
  <2>. QED
    BY <1>2, <1>5, <2>1 DEF Last
<1>8. \A t \in snapshot' : t = s
  BY <1>4 DEF BacktestTypeOK
<1>9. {id \in OpenSpreads' : Debits(id, s)' = {}} = U
  BY <1>2, <1>4 DEF OpenSpreads, Debits, Unpriced
<1>10. Equity' - BookPnl(marked, U) = cash + profit
  <2>1. UnrealizedPnl' = BookPnl(marked, DOMAIN marked)
    BY <1>2, UnrealizedIsBookPnl
  <2>2. cash \in Int
    BY DEF BacktestTypeOK, PortfolioTypeOK
  <2>3. /\ IsFiniteSet(DOMAIN marked) /\ U \subseteq DOMAIN marked
        /\ \A id \in DOMAIN marked : marked[id] \in Position
    BY MarkedPositions DEF BacktestTypeOK, Unpriced, marked
  <2>4. BookPnl(marked, DOMAIN marked) \in Int /\ BookPnl(marked, U) \in Int
    BY <2>3, BookPnlType
  <2> HIDE DEF U
  <2>. QED
    BY <1>3, <1>4, <2>1, <2>2, <2>4 DEF Equity
<1>11. UnpricedPnl(s)' = BookPnl(marked, U)
  BY <1>2, <1>9, UnpricedPnlIsBookPnl, Zenon
<1>. QED
  BY <1>6, <1>7, <1>8, <1>10, <1>11, CurveMeaning

-----------------------------------------------------------------------------
(* Theorems *)

BacktestInv == ReplayedInv /\ CurveAgreesWithAccount

LEMMA BacktestInit == Init => BacktestInv
BY ReplayedInit DEF Init, BacktestInv, CurveAgreesWithAccount

(* Nothing that the curve speaks of changes.                               *)
LEMMA CurveOfStutter ==
  ASSUME CurveAgreesWithAccount,
         UNCHANGED <<portfolioVars, executionVars, snapshot, equityCurve,
                     status>>
  PROVE  CurveAgreesWithAccount'
<1>1. CASE status # "waiting"
  BY <1>1 DEF CurveAgreesWithAccount
<1>2. CASE status = "waiting"
  <2>1. \A s \in snapshot :
          Last(equityCurve).cash + Last(equityCurve).unrealizedPnl
            = Equity - UnpricedPnl(s)
    BY <1>2
    DEF CurveAgreesWithAccount, UnpricedPnl, SumOverPositions, MapThenSumSet,
        MapThenFoldSet
  <2>2. /\ cash' = cash /\ openPositions' = openPositions
        /\ positionMetadata' = positionMetadata
        /\ snapshot' = snapshot /\ equityCurve' = equityCurve
    BY DEF portfolioVars, executionVars
  <2>3. Equity' = Equity
    <3>1. UnrealizedPnl' = UnrealizedPnl
      BY <2>2, UnrealizedIsBookPnl
    <3>. QED
      BY <2>2, <3>1 DEF Equity
  <2>4. \A s : UnpricedPnl(s)' = UnpricedPnl(s)
    <3>1. ASSUME NEW s
          PROVE  {id \in OpenSpreads' : Debits(id, s)' = {}}
                   = {id \in OpenSpreads : Debits(id, s) = {}}
      BY <2>2 DEF OpenSpreads, Debits
    <3>. QED
      BY <2>2, <3>1, UnpricedPnlIsBookPnl
  <2>5. \A s \in snapshot' :
          Last(equityCurve').cash + Last(equityCurve').unrealizedPnl
            = Equity' - UnpricedPnl(s)'
    <3> HIDE DEF Equity
    <3>. QED
      BY <2>1, <2>2, <2>3, <2>4
  <2>. QED
    BY <2>5, CurveMeaning
<1>. QED
  BY <1>1, <1>2

LEMMA BacktestNext == BacktestInv /\ [Next]_vars => BacktestInv'
<1> SUFFICES ASSUME BacktestInv, [Next]_vars PROVE BacktestInv'
  OBVIOUS
<1>1. ReplayedInv /\ BacktestTypeOK
  BY DEF BacktestInv, ReplayedInv
<1>2. ASSUME NEW time \in Int, NEW price, NEW chain,
             \/ price \in Prices /\ HandleMarket(time, price)
             \/ chain \in Chains /\ HandleOptionChain(time, chain)
      PROVE  BacktestInv'
  <2>1. /\ BacktestTypeOK'
        /\ UNCHANGED <<portfolioVars, executionVars, equityCurve>>
    BY <1>1, <1>2, EventType
  <2>2. ReplayedInv'
    BY <1>1, <2>1, QuietReplayed
  <2>3. \/ status' = "executing"
        \/ UNCHANGED <<snapshot, status>>
    BY <1>2
    DEF HandleMarket, HandleOptionChain, ProcessSnapshot, decisionVars
  <2>4. CurveAgreesWithAccount'
    <3>1. CASE status' = "executing"
      BY <3>1 DEF CurveAgreesWithAccount
    <3>2. CASE UNCHANGED <<snapshot, status>>
      BY <2>1, <3>2, CurveOfStutter DEF BacktestInv
    <3>. QED
      BY <2>3, <3>1, <3>2
  <2>. QED
    BY <2>2, <2>4 DEF BacktestInv
<1>3. CASE ExecuteSignalStep
  <2>1. ReplayedInv'
    BY <1>1, <1>3, ExecuteReplayed
  <2>2. status' = "executing"
    BY <1>3 DEF ExecuteSignalStep
  <2>. QED
    BY <2>1, <2>2 DEF BacktestInv, CurveAgreesWithAccount
<1>4. CASE FailSignalStep
  <2>1. /\ UNCHANGED <<portfolioVars, executionVars, equityCurve>>
        /\ UNCHANGED <<riskConfig, replayVars, snapshot, strategyPosition, steps>>
        /\ status' = "failed"
    BY <1>4 DEF FailSignalStep
  <2>2. BacktestTypeOK'
    BY <1>1, <2>1
    DEF BacktestTypeOK, portfolioVars, executionVars, replayVars,
        PortfolioTypeOK
  <2>3. ReplayedInv'
    BY <1>1, <2>1, <2>2, QuietReplayed
  <2>. QED
    BY <2>1, <2>3 DEF BacktestInv, CurveAgreesWithAccount
<1>5. CASE RecordEquityPoint
  <2>1. equityCurve' \in Seq(CurvePoint) /\ CurveAgreesWithAccount'
    BY <1>1, <1>5, PointRecorded
  <2>2. ReplayedInv'
    BY <1>1, <1>5, <2>1, RecordReplayed
  <2>. QED
    BY <2>1, <2>2 DEF BacktestInv
<1>6. CASE UNCHANGED vars
  <2>1. UNCHANGED <<portfolioVars, executionVars, riskConfig, replayVars,
                    decisionVars, equityCurve>>
    BY <1>6 DEF vars
  <2>2. BacktestTypeOK'
    BY <1>1, <2>1
    DEF BacktestTypeOK, portfolioVars, executionVars, replayVars,
        decisionVars, PortfolioTypeOK
  <2>3. ReplayedInv'
    BY <1>1, <2>1, <2>2, QuietReplayed
  <2>. QED
    BY <2>1, <2>3, CurveOfStutter DEF BacktestInv, decisionVars
<1>. QED
  BY <1>2, <1>3, <1>4, <1>5, <1>6, BacktestAssumption DEF Next

LEMMA BacktestInvAlways == Spec => []BacktestInv
<1>. QED
  BY BacktestInit, BacktestNext, PTL DEF Spec

(* Whatever steps a signal asks for, the trades of the report are the rows *)
(* of the account's ledger, one for one: a step that risk turns down or    *)
(* that finds nothing to close reports no trade.                           *)
THEOREM ReportIsLedger == Spec => []TradesReportLedger
<1>1. BacktestInv => TradesReportLedger
  BY DEF BacktestInv, ReplayedInv
<1>. QED
  BY <1>1, BacktestInvAlways, PTL

(* The peak that drawdowns are measured from is never below the cash of a  *)
(* moment at which the account held nothing.                               *)
THEOREM PeakIsHighest == Spec => []PeakSeesFlatAccounts
<1>1. BacktestInv => PeakSeesFlatAccounts
  BY DEF BacktestInv, ReplayedInv
<1>. QED
  BY <1>1, BacktestInvAlways, PTL

(* The last point of the equity curve is the account's equity, short of    *)
(* the spreads that the option chain of the event could not price.         *)
THEOREM CurveIsAccount == Spec => []CurveAgreesWithAccount
<1>1. BacktestInv => CurveAgreesWithAccount
  BY DEF BacktestInv
<1>. QED
  BY <1>1, BacktestInvAlways, PTL

(* The account of a backtest replays from its ledger, as one driven in any *)
(* order does: cash, sizes and margins are what the rows say they are.     *)
THEOREM BacktestReplays ==
  Spec => [](LedgerReplaysCash /\ LedgerReplaysPositions)
<1>1. BacktestInv => LedgerReplaysCash /\ LedgerReplaysPositions
  BY ReplayMeaning DEF BacktestInv, ReplayedInv
<1>. QED
  BY <1>1, BacktestInvAlways, PTL

-----------------------------------------------------------------------------
(* The spread of a built-in strategy.  It has one id, which only the       *)
(* strategy's own steps open and close; between an event and the point it  *)
(* adds to the curve the steps of one signal are under way, and what they  *)
(* have left to do tells whether strategy and account agree yet.           *)

OwnSpread ==
  CreatePositionId(config.strategyName, config.instrumentId,
                   IF config.strategyName = "covered-call" THEN ShortCallLeg
                                                           ELSE DefaultLeg)

SpreadStep(entry) ==
  [kind |-> "OPEN_DEFINED_RISK", leg |-> LegOf(config.strategyName),
   quantity |-> entry.quantity, entryCredit |-> entry.entryCredit,
   maxLoss |-> entry.maxLoss, metadata |-> {entry.metadata}]

SharesStep(price) ==
  [kind |-> "OPEN_EQUITY", quantity |-> LotSize, price |-> price]

SpreadExitStep(cost) ==
  [kind |-> "CLOSE_DEFINED_RISK", leg |-> LegOf(config.strategyName),
   closeCost |-> cost]

SharesExitStep(price) ==
  [kind |-> "CLOSE_EQUITY", price |-> price, quantity |-> {},
   positionId |-> <<config.strategyName, config.instrumentId>>]

IsEntry(id, entry) ==
  /\ openPositions[id].entryCredit = entry.entryCredit
  /\ openPositions[id].quantity = entry.quantity
  /\ id \in DOMAIN positionMetadata
  /\ positionMetadata[id] = entry.metadata

Managed ==
  \A id \in OpenSpreads : \E entry \in strategyPosition : IsEntry(id, entry)

Opening ==
  /\ OpenSpreads = {}
  /\ \E entry : /\ strategyPosition = {entry}
                /\ \/ steps = <<SpreadStep(entry)>>
                   \/ \E price : steps = <<SharesStep(price), SpreadStep(entry)>>

ClosingSpread ==
  \E cost, price : \/ steps = <<SpreadExitStep(cost)>>
                   \/ steps = <<SpreadExitStep(cost), SharesExitStep(price)>>

ClosingShares ==
  OpenSpreads = {} /\ \E price : steps = <<SharesExitStep(price)>>

Phases ==
  \/ steps = <<>> /\ Managed
  \/ status = "executing" /\ (Opening \/ ClosingSpread \/ ClosingShares)

ManagedInv ==
  BuiltIn /\ status # "failed" => OpenSpreads \subseteq {OwnSpread} /\ Phases

LEMMA KindOfStep ==
  ASSUME NEW step, Carry(config, step)
  PROVE  /\ step.kind = "OPEN_DEFINED_RISK" => OpenDefinedRisk(config, step)
         /\ step.kind = "CLOSE_DEFINED_RISK" => CloseDefinedRisk(config, step)
         /\ step.kind = "OPEN_EQUITY" => OpenEquity(config, step)
         /\ step.kind = "CLOSE_EQUITY" => CloseEquity(step)
BY DEF Carry

(* Steps about shares leave an account without spreads without spreads.    *)
LEMMA SharesOpenNoSpread ==
  ASSUME OpenSpreads = {}, NEW step,
         OpenEquity(config, step) \/ CloseEquity(step)
  PROVE  OpenSpreads' = {}
<1>1. \A id \in DOMAIN openPositions : openPositions[id].kind # "DEFINED_RISK"
  BY DEF OpenSpreads
<1>2. CASE Skip
  BY <1>2 DEF Skip, portfolioVars, OpenSpreads
<1>3. CASE OpenEquity(config, step) /\ ~Skip
  <2> DEFINE id == CreatePositionId(config.strategyName, config.instrumentId,
                                    DefaultLeg)
             bought == EquityAfterBuy(id, step.quantity, step.price)
  <2>1. /\ openPositions' = WithPosition(id, bought)
        /\ IsOpen(id) => IsOpenAs(id, "EQUITY")
    BY <1>3 DEF OpenEquity, OpenEquityPosition, OpenEquityAllowed
  <2>2. bought.kind = "EQUITY"
    BY <2>1 DEF EquityAfterBuy, IsOpenAs
  <2> HIDE DEF id, bought
  <2>. QED
    BY <1>1, <2>1, <2>2 DEF WithPosition, OpenSpreads
<1>4. CASE CloseEquity(step) /\ ~Skip
  <2> DEFINE id == step.positionId
             left == [openPositions[id] EXCEPT
                        !.quantity = openPositions[id].quantity
                                       - QuantityToSell(step),
                        !.markPrice = step.price]
  <2>1. /\ openPositions' = WithPosition(id, left)
             \/ openPositions' = WithoutPosition(id)
        /\ IsOpenAs(id, "EQUITY")
    BY <1>4
    DEF CloseEquity, CloseEquityPosition, CloseEquityAllowed,
        ClosePositionRecord
  <2>2. left.kind = openPositions[id].kind
    OBVIOUS
  <2> HIDE DEF id, left
  <2>3. left.kind = "EQUITY"
    BY <2>1, <2>2 DEF IsOpenAs
  <2>. QED
    BY <1>1, <2>1, <2>3 DEF WithPosition, WithoutPosition, OpenSpreads
<1>. QED
  BY <1>2, <1>3, <1>4

(* The strategy's own open step opens its entry, if it opens anything.     *)
LEMMA SpreadOpened ==
  ASSUME OpenSpreads = {}, NEW entry, OpenDefinedRisk(config, SpreadStep(entry))
  PROVE  /\ OpenSpreads' \subseteq {OwnSpread}
         /\ \A id \in OpenSpreads' : IsEntry(id, entry)'
<1> DEFINE step == SpreadStep(entry)
<1>1. CASE Skip
  BY <1>1 DEF Skip, portfolioVars, OpenSpreads
<1>2. CASE ~Skip
  <2>1. SpreadId(config, step) = OwnSpread
    BY DEF SpreadId, SpreadStep, LegOf, OwnSpread
  <2>2. OwnSpread = <<OwnSpread[1], OwnSpread[2], OwnSpread[3]>>
    BY DEF OwnSpread, CreatePositionId
  <2>3. /\ step.metadata = {entry.metadata} /\ step.metadata # {}
        /\ step.quantity = entry.quantity
        /\ step.entryCredit = entry.entryCredit
    BY DEF SpreadStep
  <2> HIDE DEF step
  <2>4. /\ openPositions' =
             WithPosition(OwnSpread,
               [kind |-> "DEFINED_RISK", quantity |-> entry.quantity,
                entryCredit |-> entry.entryCredit, maxLoss |-> step.maxLoss,
                markPrice |-> entry.entryCredit])
        /\ positionMetadata' =
             [x \in DOMAIN positionMetadata \cup {OwnSpread} |->
                IF x = OwnSpread THEN entry.metadata ELSE positionMetadata[x]]
    <3>1. OpenDefinedRisk(config, step)
      BY DEF step
    <3>. QED
      BY <1>2, <2>1, <2>2, <2>3, <3>1
      DEF OpenDefinedRisk, OpenDefinedRiskPosition, CreatePositionId
  <2> HIDE DEF OwnSpread
  <2>5. \A id \in DOMAIN openPositions : openPositions[id].kind # "DEFINED_RISK"
    BY DEF OpenSpreads
  <2>6. OpenSpreads' \subseteq {OwnSpread}
    BY <2>4, <2>5 DEF WithPosition, OpenSpreads
  <2>7. ASSUME NEW id, id = OwnSpread
        PROVE  IsEntry(id, entry)'
    BY <2>4, <2>7 DEF WithPosition, IsEntry
  <2>. QED
    BY <2>6, <2>7
<1>. QED
  BY <1>1, <1>2

(* The strategy's own exit step leaves it no spread.                       *)
LEMMA SpreadClosed ==
  ASSUME OpenSpreads \subseteq {OwnSpread}, NEW cost,
         CloseDefinedRisk(config, SpreadExitStep(cost))
  PROVE  OpenSpreads' = {}
<1>1. SpreadId(config, SpreadExitStep(cost)) = OwnSpread
  BY DEF SpreadId, SpreadExitStep, LegOf, OwnSpread
<1>2. \/ OwnSpread \notin DOMAIN openPositions /\ openPositions' = openPositions
      \/ openPositions' = WithoutPosition(OwnSpread)
  BY <1>1
  DEF CloseDefinedRisk, CloseDefinedRiskPosition, ClosePositionRecord, Skip,
      IsOpen, portfolioVars
<1> HIDE DEF OwnSpread
<1>. QED
  BY <1>2 DEF WithoutPosition, OpenSpreads

LEMMA ManagedStep ==
  ASSUME ManagedInv, ExecuteSignalStep
  PROVE  ManagedInv'
<1>1. /\ status = "executing" /\ status' = "executing"
      /\ steps # <<>> /\ steps' = Tail(steps)
      /\ Carry(config, Head(steps))
      /\ config' = config /\ strategyPosition' = strategyPosition
  BY DEF ExecuteSignalStep, ExecuteStep, replayVars
<1> SUFFICES ASSUME BuiltIn
             PROVE  OpenSpreads' \subseteq {OwnSpread} /\ Phases'
  BY <1>1 DEF ManagedInv, BuiltIn, OwnSpread
<1>2. OpenSpreads \subseteq {OwnSpread}
      /\ (Opening \/ ClosingSpread \/ ClosingShares)
  BY <1>1 DEF ManagedInv, Phases
<1>3. CASE Opening
  <2>1. PICK entry : /\ strategyPosition = {entry}
                     /\ \/ steps = <<SpreadStep(entry)>>
                        \/ \E price : steps = <<SharesStep(price),
                                                SpreadStep(entry)>>
    BY <1>3 DEF Opening
  <2>2. SpreadStep(entry)' = SpreadStep(entry)
    BY <1>1 DEF SpreadStep
  <2>3. CASE steps = <<SpreadStep(entry)>>
    <3>1. Head(steps) = SpreadStep(entry) /\ steps' = <<>>
      BY <1>1, <2>3
    <3>2. OpenDefinedRisk(config, SpreadStep(entry))
      <4>1. SpreadStep(entry).kind = "OPEN_DEFINED_RISK"
        BY DEF SpreadStep
      <4>2. Carry(config, SpreadStep(entry))
        BY <1>1, <3>1
      <4>. QED
        BY <4>1, <4>2, KindOfStep
    <3>3. /\ OpenSpreads' \subseteq {OwnSpread}
          /\ \A id \in OpenSpreads' : IsEntry(id, entry)'
      BY <1>3, <3>2, SpreadOpened DEF Opening
    <3>4. Managed'
      BY <1>1, <2>1, <3>3 DEF Managed
    <3>. QED
      BY <3>1, <3>3, <3>4 DEF Phases
  <2>4. ASSUME NEW price, steps = <<SharesStep(price), SpreadStep(entry)>>
        PROVE  OpenSpreads' \subseteq {OwnSpread} /\ Phases'
    <3>1. Head(steps) = SharesStep(price) /\ steps' = <<SpreadStep(entry)>>
      BY <1>1, <2>4
    <3>2. OpenEquity(config, SharesStep(price))
      BY <1>1, <3>1, KindOfStep DEF SharesStep
    <3>3. OpenSpreads' = {}
      BY <1>3, <3>2, SharesOpenNoSpread DEF Opening
    <3>4. Opening'
      BY <1>1, <2>1, <2>2, <3>1, <3>3 DEF Opening
    <3>. QED
      BY <1>1, <3>3, <3>4 DEF Phases
  <2>. QED
    BY <2>1, <2>3, <2>4
<1>4. CASE ClosingSpread
  <2>1. PICK cost, price :
          \/ steps = <<SpreadExitStep(cost)>>
          \/ steps = <<SpreadExitStep(cost), SharesExitStep(price)>>
    BY <1>4 DEF ClosingSpread
  <2>2. /\ Head(steps) = SpreadExitStep(cost)
        /\ steps' = <<>> \/ steps' = <<SharesExitStep(price)>>
    <3>1. CASE steps = <<SpreadExitStep(cost)>>
      BY <1>1, <3>1
    <3>2. CASE steps = <<SpreadExitStep(cost), SharesExitStep(price)>>
      BY <1>1, <3>2
    <3>. QED
      BY <2>1, <3>1, <3>2
  <2>3. CloseDefinedRisk(config, SpreadExitStep(cost))
    BY <1>1, <2>2, KindOfStep DEF SpreadExitStep
  <2>4. OpenSpreads' = {}
    BY <1>2, <2>3, SpreadClosed
  <2>5. SharesExitStep(price)' = SharesExitStep(price)
    BY <1>1 DEF SharesExitStep
  <2>6. CASE steps' = <<>>
    BY <2>4, <2>6 DEF Phases, Managed
  <2>7. CASE steps' = <<SharesExitStep(price)>>
    <3>1. ClosingShares'
      BY <2>4, <2>5, <2>7 DEF ClosingShares
    <3>. QED
      BY <1>1, <2>4, <3>1 DEF Phases
  <2>. QED
    BY <2>2, <2>6, <2>7
<1>5. CASE ClosingShares
  <2>1. PICK price : steps = <<SharesExitStep(price)>>
    BY <1>5 DEF ClosingShares
  <2>2. Head(steps) = SharesExitStep(price) /\ steps' = <<>>
    BY <1>1, <2>1
  <2>3. CloseEquity(SharesExitStep(price))
    BY <1>1, <2>2, KindOfStep DEF SharesExitStep
  <2>4. OpenSpreads' = {}
    BY <1>5, <2>3, SharesOpenNoSpread DEF ClosingShares
  <2>. QED
    BY <2>2, <2>4 DEF Phases, Managed
<1>. QED
  BY <1>2, <1>3, <1>4, <1>5

(* What the strategy decides, at a moment when it agrees with the account: *)
(* it opens only when the account has no spread.                           *)
LEMMA ManagedSignal ==
  ASSUME NEW s, BuiltIn, OpenSpreads \subseteq {OwnSpread}, Managed,
         ProcessSnapshot(s),
         UNCHANGED <<openPositions, positionMetadata, config>>
  PROVE  OpenSpreads' \subseteq {OwnSpread} /\ Phases'
<1>1. /\ status' = "executing" /\ GenerateSignal(s)
      /\ config.strategyName # CustomStrategy
  BY BacktestAssumption DEF ProcessSnapshot, BuiltIn
<1>2. PICK d \in Evaluate(config.strategyName, config.instrumentId,
                          strategyPosition, s, Equity) :
        strategyPosition' = d.position /\ steps' = d.steps
  BY <1>1 DEF GenerateSignal
<1>3. /\ OpenSpreads' = OpenSpreads /\ OwnSpread' = OwnSpread
      /\ \A id, entry : IsEntry(id, entry)' = IsEntry(id, entry)
      /\ \A entry : SpreadStep(entry)' = SpreadStep(entry)
      /\ \A price : /\ SharesStep(price)' = SharesStep(price)
                    /\ SharesExitStep(price)' = SharesExitStep(price)
      /\ \A cost : SpreadExitStep(cost)' = SpreadExitStep(cost)
  BY DEF OpenSpreads, OwnSpread, IsEntry, SpreadStep, SharesStep,
         SharesExitStep, SpreadExitStep
<1>4. CASE d = Decision(strategyPosition, <<>>)
  <2>1. steps' = <<>> /\ strategyPosition' = strategyPosition
    BY <1>2, <1>4 DEF Decision
  <2>. QED
    BY <1>3, <2>1 DEF Phases, Managed
<1>5. CASE /\ strategyPosition = {}
           /\ d \in EvaluateEntry(config.strategyName, s, Equity)
  <2>1. PICK entry : d = Decision({entry},
                                  OpenSteps(config.strategyName, entry, s.price))
    BY <1>5 DEF EvaluateEntry
  <2>2. /\ strategyPosition' = {entry}
        /\ \/ steps' = <<SpreadStep(entry)>>
           \/ steps' = <<SharesStep(s.price), SpreadStep(entry)>>
    BY <1>2, <2>1 DEF Decision, OpenSteps, SpreadStep, SharesStep
  <2>3. OpenSpreads = {}
    BY <1>5 DEF Managed
  <2>4. Opening'
    BY <1>3, <2>2, <2>3 DEF Opening
  <2>. QED
    BY <1>1, <1>3, <2>4 DEF Phases
<1>6. ASSUME NEW entry,
             d \in EvaluateOpenPosition(config.strategyName,
                                        config.instrumentId, entry, s)
      PROVE  OpenSpreads' \subseteq {OwnSpread} /\ Phases'
  <2>1. PICK cost : d = Decision({}, CloseSteps(config.strategyName,
                                                config.instrumentId, cost,
                                                s.price))
    BY <1>6 DEF EvaluateOpenPosition
  <2>2. \/ steps' = <<SpreadExitStep(cost)>>
        \/ steps' = <<SpreadExitStep(cost), SharesExitStep(s.price)>>
    BY <1>2, <2>1 DEF Decision, CloseSteps, SpreadExitStep, SharesExitStep
  <2>3. ClosingSpread'
    BY <1>3, <2>2 DEF ClosingSpread
  <2>. QED
    BY <1>1, <1>3, <2>3 DEF Phases
<1>. QED
  BY <1>4, <1>5, <1>6 DEF Evaluate

LEMMA ManagedEvent ==
  ASSUME ManagedInv, NEW time, NEW price, NEW chain,
         HandleMarket(time, price) \/ HandleOptionChain(time, chain)
  PROVE  ManagedInv'
<1>1. /\ status = "waiting"
      /\ UNCHANGED <<openPositions, positionMetadata, config>>
      /\ UNCHANGED decisionVars \/ \E s : ProcessSnapshot(s)
  BY DEF HandleMarket, HandleOptionChain, Replays, portfolioVars, executionVars
<1> SUFFICES ASSUME BuiltIn
             PROVE  OpenSpreads' \subseteq {OwnSpread} /\ Phases'
  BY <1>1 DEF ManagedInv, BuiltIn, OwnSpread
<1>2. OpenSpreads \subseteq {OwnSpread} /\ steps = <<>> /\ Managed
  BY <1>1 DEF ManagedInv, Phases
<1>3. CASE UNCHANGED decisionVars
  <2>1. OpenSpreads' = OpenSpreads /\ Managed' = Managed /\ steps' = steps
    BY <1>1, <1>3 DEF decisionVars, OpenSpreads, Managed, IsEntry
  <2>. QED
    BY <1>2, <2>1 DEF Phases
<1>4. ASSUME NEW s, ProcessSnapshot(s)
      PROVE  OpenSpreads' \subseteq {OwnSpread} /\ Phases'
  BY <1>1, <1>2, <1>4, ManagedSignal
<1>. QED
  BY <1>1, <1>3, <1>4

(* Marking moves the mark of a spread and nothing else of it.              *)
LEMMA MarkedSpreads ==
  ASSUME BacktestTypeOK, RecordEquityPoint
  PROVE  /\ OpenSpreads' = OpenSpreads
         /\ \A id \in OpenSpreads :
              /\ openPositions'[id].entryCredit = openPositions[id].entryCredit
              /\ openPositions'[id].quantity = openPositions[id].quantity
<1>1. PICK s \in snapshot : openPositions' = MarkOpenPositions(s)
  BY DEF RecordEquityPoint
<1>2. DOMAIN openPositions' = DOMAIN openPositions
  BY <1>1, MarkedPositions
<1>3. ASSUME NEW id \in DOMAIN openPositions
      PROVE  /\ openPositions'[id].kind = openPositions[id].kind
             /\ openPositions[id].kind = "DEFINED_RISK" =>
                  /\ openPositions'[id].entryCredit
                       = openPositions[id].entryCredit
                  /\ openPositions'[id].quantity = openPositions[id].quantity
  <2>1. openPositions[id] \in Position
    BY DEF BacktestTypeOK, PortfolioTypeOK
  <2>2. \/ openPositions'[id] = openPositions[id]
        \/ \E mark : openPositions'[id] = WithMark(openPositions[id], mark)
    BY <1>1, MarkedPositions
  <2>. QED
    BY <2>1, <2>2
    DEF WithMark, Position, EquityPosition, DefinedRiskPosition
<1>4. OpenSpreads' = OpenSpreads
  BY <1>2, <1>3 DEF OpenSpreads
<1>. QED
  BY <1>3, <1>4 DEF OpenSpreads

LEMMA ManagedPoint ==
  ASSUME BacktestTypeOK, ManagedInv, RecordEquityPoint
  PROVE  ManagedInv'
<1>1. /\ status = "executing" /\ steps = <<>>
      /\ UNCHANGED <<config, steps, strategyPosition, positionMetadata>>
  BY DEF RecordEquityPoint, replayVars, executionVars
<1> SUFFICES ASSUME BuiltIn
             PROVE  OpenSpreads' \subseteq {OwnSpread} /\ Phases'
  BY <1>1 DEF ManagedInv, BuiltIn, OwnSpread
<1>2. OpenSpreads \subseteq {OwnSpread} /\ Managed
  BY <1>1 DEF ManagedInv, Phases, Opening, ClosingSpread, ClosingShares
<1>3. \A id \in OpenSpreads : \A entry : IsEntry(id, entry) => IsEntry(id, entry)'
  BY <1>1, MarkedSpreads DEF IsEntry
<1>4. Managed'
  BY <1>1, <1>2, <1>3, MarkedSpreads DEF Managed
<1>. QED
  BY <1>1, <1>2, <1>4, MarkedSpreads DEF Phases

LEMMA ManagedInit == Init => ManagedInv
BY DEF Init, ExecutionInit, PortfolioInit, ManagedInv, OpenSpreads, Phases,
       Managed

LEMMA ManagedNext == BacktestInv /\ ManagedInv /\ [Next]_vars => ManagedInv'
<1> SUFFICES ASSUME BacktestInv, ManagedInv, [Next]_vars PROVE ManagedInv'
  OBVIOUS
<1>1. ASSUME NEW time, NEW price, NEW chain,
             HandleMarket(time, price) \/ HandleOptionChain(time, chain)
      PROVE  ManagedInv'
  BY <1>1, ManagedEvent
<1>2. CASE ExecuteSignalStep
  BY <1>2, ManagedStep
<1>3. CASE FailSignalStep
  BY <1>3 DEF FailSignalStep, ManagedInv
<1>4. CASE RecordEquityPoint
  BY <1>4, ManagedPoint DEF BacktestInv, ReplayedInv
<1>5. CASE UNCHANGED vars
  <2>1. /\ UNCHANGED <<openPositions, positionMetadata, config>>
        /\ UNCHANGED <<strategyPosition, steps, status>>
    BY <1>5 DEF vars, portfolioVars, executionVars, replayVars, decisionVars
  <2>. QED
    BY <2>1
    DEF ManagedInv, BuiltIn, OpenSpreads, OwnSpread, Phases, Managed, IsEntry,
        Opening, ClosingSpread, ClosingShares, SpreadStep, SharesStep,
        SpreadExitStep, SharesExitStep
<1>. QED
  BY <1>1, <1>2, <1>3, <1>4, <1>5 DEF Next

(* Between events a spread that the account holds is the one its built-in  *)
(* strategy believes it holds, at the same credit and size and marked by   *)
(* the same strikes: neither a step that risk turns down nor one that      *)
(* finds nothing to close makes a strategy lose track of an open spread.   *)
THEOREM SpreadsAreManaged == Spec => []OpenSpreadIsManaged
<1>1. Spec => []ManagedInv
  BY ManagedInit, ManagedNext, BacktestInvAlways, PTL DEF Spec
<1>2. ManagedInv => OpenSpreadIsManaged
  BY DEF ManagedInv, Phases, Managed, IsEntry, OpenSpreadIsManaged
<1>. QED
  BY <1>1, <1>2, PTL

-----------------------------------------------------------------------------
(* Exits.  A spread is opened at the snapshot its entry was found at, and  *)
(* is priced there at exactly its credit when no list of the chain quotes  *)
(* a strike twice; at any later snapshot the strategy has asked whether    *)
(* its price is at the profit target or the stop.                          *)

StrikesIdentifyQuotes ==
  \A chain \in Chains : \A quotes \in {chain.puts, chain.calls} :
    \A m, n \in DOMAIN quotes : quotes[m].strike = quotes[n].strike => m = n

ListedOnce(quotes) ==
  /\ quotes \in Seq(OptionQuote)
  /\ \A m, n \in DOMAIN quotes : quotes[m].strike = quotes[n].strike => m = n

Listed(quotes) == {quotes[n] : n \in DOMAIN quotes}

LEMMA FindReturnsListed ==
  ASSUME NEW quotes, NEW delta, NEW low, NEW high
  PROVE  /\ FindByTargetDelta(quotes, delta) \subseteq Listed(quotes)
         /\ FindPutInDeltaRange(quotes, low, high) \subseteq Listed(quotes)
<1>1. ASSUME NEW places, places \subseteq DOMAIN quotes, NEW twice
      PROVE  Nearest(quotes, places, twice) \subseteq Listed(quotes)
  <2>1. ASSUME NEW some, some \subseteq places
        PROVE  {quotes[n] : n \in FirstPlace(some)} \subseteq Listed(quotes)
    BY <1>1, <2>1, FirstPlaceIsPlace DEF Listed
  <2>. QED
    BY <2>1 DEF Nearest
<1>2. {n \in DOMAIN quotes : quotes[n].delta \in low..high}
        \subseteq DOMAIN quotes
  OBVIOUS
<1>. QED
  BY <1>1, <1>2 DEF FindByTargetDelta, FindPutInDeltaRange

(* A quote of the list is what is found at its strike.                     *)
LEMMA PremiumOfListed ==
  ASSUME NEW quotes, ListedOnce(quotes), NEW quote \in Listed(quotes)
  PROVE  PremiumAt(quote.strike, quotes) \subseteq {quote.premium}
<1>1. PICK n \in DOMAIN quotes : quote = quotes[n]
  BY DEF Listed
<1> DEFINE places == {m \in DOMAIN quotes : quotes[m].strike = quote.strike}
<1>2. places \subseteq {n}
  BY <1>1 DEF ListedOnce
<1>3. FirstPlace(places) \subseteq {n}
  BY <1>2, FirstPlaceIsPlace
<1>. QED
  BY <1>1, <1>3 DEF PremiumAt

LEMMA CostOfListed ==
  ASSUME NEW quotes, ListedOnce(quotes), NEW short \in Listed(quotes),
         NEW long \in Listed(quotes)
  PROVE  /\ SpreadCloseCost(SpreadStrikes(short, long), quotes)
              \subseteq {SpreadCredit(short, long)}
         /\ SpreadCredit(short, long) \in Int
<1>1. /\ PremiumAt(short.strike, quotes) \subseteq {short.premium}
      /\ PremiumAt(long.strike, quotes) \subseteq {long.premium}
  BY PremiumOfListed
<1>2. /\ SpreadStrikes(short, long).shortStrike = short.strike
      /\ SpreadStrikes(short, long).longStrike = long.strike
  BY DEF SpreadStrikes
<1>3. SpreadCredit(short, long) \in Int
  <2>1. Listed(quotes) \subseteq OptionQuote
    BY DEF Listed, ListedOnce
  <2>2. short.premium \in Int /\ long.premium \in Int
    BY <2>1 DEF OptionQuote
  <2>. QED
    BY <2>2 DEF SpreadCredit
<1>. QED
  BY <1>1, <1>2, <1>3 DEF SpreadCloseCost, SpreadCredit

EntryAtCredit(s, entry) ==
  \A debit \in MarkDebit(entry.metadata, s.chain) : debit = entry.entryCredit

ChainListsOnce(s) == ListedOnce(s.chain.puts) /\ ListedOnce(s.chain.calls)

LEMMA BullPutAtCredit ==
  ASSUME NEW s, ChainListsOnce(s), NEW quantity,
         NEW legs \in Listed(s.chain.puts) \X Listed(s.chain.puts)
  PROVE  EntryAtCredit(s, BullPutEntry(legs, quantity, s.chain))
<1>1. legs[1] \in Listed(s.chain.puts) /\ legs[2] \in Listed(s.chain.puts)
  OBVIOUS
<1>2. SpreadCloseCost(SpreadStrikes(legs[1], legs[2]), s.chain.puts)
        \subseteq {SpreadCredit(legs[1], legs[2])}
  BY <1>1, CostOfListed DEF ChainListsOnce
<1> DEFINE entry == BullPutEntry(legs, quantity, s.chain)
<1>3. /\ entry.entryCredit = SpreadCredit(legs[1], legs[2])
      /\ entry.metadata.spreadKind = "BULL_PUT"
      /\ entry.metadata.putSpread = SpreadStrikes(legs[1], legs[2])
  BY DEF BullPutEntry, Entry
<1> HIDE DEF entry
<1>4. MarkDebit(entry.metadata, s.chain)
        = SpreadCloseCost(SpreadStrikes(legs[1], legs[2]), s.chain.puts)
  BY <1>3 DEF MarkDebit
<1>. QED
  BY <1>2, <1>3, <1>4 DEF EntryAtCredit, entry

LEMMA CondorAtCredit ==
  ASSUME NEW s, ChainListsOnce(s),
         NEW legs \in Listed(s.chain.puts) \X Listed(s.chain.puts)
                      \X Listed(s.chain.calls) \X Listed(s.chain.calls)
  PROVE  EntryAtCredit(s, CondorEntry(legs, s.chain))
<1>1. /\ legs[1] \in Listed(s.chain.puts) /\ legs[2] \in Listed(s.chain.puts)
      /\ legs[3] \in Listed(s.chain.calls) /\ legs[4] \in Listed(s.chain.calls)
  OBVIOUS
<1> DEFINE putSpread == SpreadStrikes(legs[1], legs[2])
           callSpread == SpreadStrikes(legs[3], legs[4])
           putCredit == SpreadCredit(legs[1], legs[2])
           callCredit == SpreadCredit(legs[3], legs[4])
<1>2. /\ SpreadCloseCost(putSpread, s.chain.puts) \subseteq {putCredit}
      /\ SpreadCloseCost(callSpread, s.chain.calls) \subseteq {callCredit}
  BY <1>1, CostOfListed DEF ChainListsOnce
<1> DEFINE entry == CondorEntry(legs, s.chain)
<1>3. /\ entry.entryCredit = putCredit + callCredit
      /\ entry.metadata.spreadKind = "IRON_CONDOR"
      /\ entry.metadata.putSpread = putSpread
      /\ entry.metadata.callSpread = callSpread
  BY DEF CondorEntry, Entry
<1> HIDE DEF entry, putSpread, callSpread, putCredit, callCredit
<1>4. MarkDebit(entry.metadata, s.chain)
        = IronCondorCloseCost(putSpread, callSpread, s.chain)
  BY <1>3 DEF MarkDebit
<1>. QED
  BY <1>2, <1>3, <1>4 DEF EntryAtCredit, entry, IronCondorCloseCost

LEMMA CallAtCredit ==
  ASSUME NEW s, ChainListsOnce(s), NEW call \in Listed(s.chain.calls),
         NEW entry, entry.entryCredit = call.premium,
         entry.metadata = [spreadKind |-> "COVERED_CALL",
                           callStrike |-> call.strike]
  PROVE  EntryAtCredit(s, entry)
<1>1. PremiumAt(call.strike, s.chain.calls) \subseteq {call.premium}
  BY PremiumOfListed DEF ChainListsOnce
<1>2. MarkDebit(entry.metadata, s.chain)
        = PremiumAt(call.strike, s.chain.calls)
  BY DEF MarkDebit
<1>. QED
  BY <1>1, <1>2 DEF EntryAtCredit

LEMMA EntriesAtCredit ==
  ASSUME NEW strategy \in BuiltInStrategies, NEW s, ChainListsOnce(s),
         NEW equity, NEW entry \in Entries(strategy, s, equity)
  PROVE  EntryAtCredit(s, entry)
<1>1. \A shorts, longs, quotes :
        shorts \subseteq Listed(quotes) /\ longs \subseteq Listed(quotes) =>
          PutSpreads(shorts, longs) \subseteq Listed(quotes) \X Listed(quotes)
  BY DEF PutSpreads
<1>2. CASE strategy = "bull-put-spread"
  <2>1. PutSpreads(FindByTargetDelta(s.chain.puts, ShortDelta),
                   FindByTargetDelta(s.chain.puts, LongDelta))
          \subseteq Listed(s.chain.puts) \X Listed(s.chain.puts)
    BY <1>1, FindReturnsListed
  <2>2. entry \in BullPutEntries(s.chain)
    BY <1>2 DEF Entries
  <2>. QED
    BY <2>1, <2>2, BullPutAtCredit DEF BullPutEntries
<1>3. CASE strategy = "bull-put-spread-v1"
  <2>1. PutSpreads(InRange(s.chain.puts, ShortDeltaRange),
                   InRange(s.chain.puts, LongDeltaRange))
          \subseteq Listed(s.chain.puts) \X Listed(s.chain.puts)
    BY <1>1, FindReturnsListed DEF InRange
  <2>2. entry \in BullPutV1Entries(s.chain, equity)
    BY <1>3 DEF Entries
  <2>3. PICK legs \in Listed(s.chain.puts) \X Listed(s.chain.puts) :
          LET unsized == BullPutEntry(legs, 0, s.chain)
          IN  entry = [unsized EXCEPT !.quantity = SizeFor(unsized, equity)]
    BY <2>1, <2>2 DEF BullPutV1Entries
  <2> DEFINE unsized == BullPutEntry(legs, 0, s.chain)
  <2>4. /\ entry.metadata = unsized.metadata
        /\ entry.entryCredit = unsized.entryCredit
    BY <2>3 DEF BullPutEntry, Entry
  <2>. QED
    BY <2>4, BullPutAtCredit DEF EntryAtCredit
<1>4. CASE strategy = "iron-condor"
  <2>1. \A d : /\ FindByTargetDelta(s.chain.puts, d) \subseteq Listed(s.chain.puts)
               /\ FindByTargetDelta(s.chain.calls, d)
                    \subseteq Listed(s.chain.calls)
    BY FindReturnsListed
  <2>2. Condors(s.chain)
          \subseteq Listed(s.chain.puts) \X Listed(s.chain.puts)
                    \X Listed(s.chain.calls) \X Listed(s.chain.calls)
    BY <2>1 DEF Condors
  <2>3. entry \in IronCondorEntries(s.chain)
    BY <1>4 DEF Entries
  <2>. QED
    BY <2>2, <2>3, CondorAtCredit DEF IronCondorEntries
<1>5. CASE strategy = "covered-call"
  <2>1. FindByTargetDelta(s.chain.calls, CallDelta) \subseteq Listed(s.chain.calls)
    BY FindReturnsListed
  <2>2. entry \in CoveredCallEntries(s.chain, s.price)
    BY <1>5 DEF Entries
  <2>3. PICK call \in Listed(s.chain.calls) :
          entry = Entry(call.premium,
                        AtLeastZero(call.strike - s.price - call.premium),
                        LotSize, s.chain,
                        [spreadKind |-> "COVERED_CALL",
                         callStrike |-> call.strike])
    BY <2>1, <2>2 DEF CoveredCallEntries
  <2>. QED
    BY <2>3, CallAtCredit DEF Entry
<1>. QED
  BY <1>2, <1>3, <1>4, <1>5 DEF BuiltInStrategies

NotDue(s, id) ==
  \A debit \in Debits(id, s) :
    /\ debit * 100 > openPositions[id].entryCredit * (100 - ProfitTargetPct)
    /\ debit < openPositions[id].entryCredit * StopLossMultiple

ExitInv ==
  BuiltIn /\ status # "failed" =>
    /\ steps = <<>> => \A s \in snapshot, id \in OpenSpreads : NotDue(s, id)
    /\ steps # <<>> =>
         \A s \in snapshot, entry \in strategyPosition : EntryAtCredit(s, entry)

(* The profit target is below the credit and the stop above it.            *)
ExitsApart == ProfitTargetPct > 0 /\ StopLossMultiple > 1

LEMMA CreditIsNotDue ==
  ASSUME ExitsApart, NEW credit \in Int, credit > 0
  PROVE  /\ credit * 100 > credit * (100 - ProfitTargetPct)
         /\ credit < credit * StopLossMultiple
<1>1. ProfitTargetPct \in Int /\ StopLossMultiple \in Int
  BY StrategyAssumption
<1>2. credit * ProfitTargetPct > 0
  BY <1>1 DEF ExitsApart
<1>3. credit * (100 - ProfitTargetPct) = credit * 100 - credit * ProfitTargetPct
  BY <1>1
<1>4. credit * ProfitTargetPct \in Int
  BY <1>1
<1>5. credit * 100 > credit * (100 - ProfitTargetPct)
  BY <1>2, <1>3, <1>4
<1>6. credit * (StopLossMultiple - 1) > 0
  BY <1>1 DEF ExitsApart
<1>7. credit * (StopLossMultiple - 1) = credit * StopLossMultiple - credit
  BY <1>1
<1>8. credit * StopLossMultiple \in Int
  BY <1>1
<1>. QED
  BY <1>5, <1>6, <1>7, <1>8

(* A spread that the strategy kept is not due: the strategy asked the      *)
(* price that the account would be charged.                                *)
LEMMA KeptIsNotDue ==
  ASSUME BacktestTypeOK, BuiltIn, NEW s \in MarketSnapshot,
         NEW id \in OpenSpreads, NEW entry \in strategyPosition,
         IsEntry(id, entry),
         ExitCosts(config.strategyName, entry, s) = {}
  PROVE  NotDue(s, id)
<1>1. /\ Debits(id, s) = MarkDebit(entry.metadata, s.chain)
      /\ openPositions[id].entryCredit = entry.entryCredit
  BY DEF IsEntry, Debits
<1>2. /\ entry.entryCredit \in Int
      /\ MarkDebit(entry.metadata, s.chain) \subseteq Int
  <2>1. entry \in StrategyPosition
    BY DEF BacktestTypeOK
  <2>2. /\ entry.metadata \in DefinedRiskMarkMetadata
        /\ entry.entryCredit \in Int
    BY <2>1 DEF StrategyPosition
  <2>. QED
    BY <2>2, MarkDebitIsInt DEF MarketSnapshot
<1>3. \A debit \in MarkDebit(entry.metadata, s.chain) :
        ~HitsTargetOrStop(entry, debit)
  BY DEF ExitCosts
<1>4. ASSUME NEW debit \in Int, ~HitsTargetOrStop(entry, debit)
      PROVE  /\ debit * 100 > entry.entryCredit * (100 - ProfitTargetPct)
             /\ debit < entry.entryCredit * StopLossMultiple
  <2>1. /\ ~(debit * 100 <= entry.entryCredit * (100 - ProfitTargetPct))
        /\ ~(debit >= entry.entryCredit * StopLossMultiple)
    BY <1>4 DEF HitsTargetOrStop
  <2>2. /\ entry.entryCredit * (100 - ProfitTargetPct) \in Int
        /\ entry.entryCredit * StopLossMultiple \in Int
        /\ debit * 100 \in Int
    BY <1>2, StrategyAssumption
  <2>. QED
    BY <2>1, <2>2
<1>. QED
  BY <1>1, <1>2, <1>3, <1>4 DEF NotDue

LEMMA ExitSignal ==
  ASSUME BacktestTypeOK, BuiltIn, Managed, NEW s \in MarketSnapshot,
         ChainListsOnce(s), ProcessSnapshot(s),
         UNCHANGED <<openPositions, positionMetadata, config>>
  PROVE  ExitInv'
<1>1. /\ snapshot' = {s} /\ GenerateSignal(s)
      /\ config.strategyName # CustomStrategy
      /\ config.strategyName \in BuiltInStrategies
  BY BacktestAssumption DEF ProcessSnapshot, BuiltIn
<1>2. PICK d \in Evaluate(config.strategyName, config.instrumentId,
                          strategyPosition, s, Equity) :
        strategyPosition' = d.position /\ steps' = d.steps
  BY <1>1 DEF GenerateSignal
<1>3. /\ OpenSpreads' = OpenSpreads
      /\ \A id : NotDue(s, id)' = NotDue(s, id)
  BY DEF OpenSpreads, NotDue, Debits
<1>4. ASSUME steps' = <<>>, \A id \in OpenSpreads : NotDue(s, id)
      PROVE  ExitInv'
  BY <1>1, <1>3, <1>4 DEF ExitInv
<1>5. ASSUME steps' # <<>>,
             \A entry \in strategyPosition' : EntryAtCredit(s, entry)
      PROVE  ExitInv'
  BY <1>1, <1>5 DEF ExitInv
<1>6. CASE /\ strategyPosition = {}
           /\ d \in EvaluateEntry(config.strategyName, s, Equity)
  <2>1. PICK entry \in Entries(config.strategyName, s, Equity) :
          d = Decision({entry},
                       OpenSteps(config.strategyName, entry, s.price))
    BY <1>6 DEF EvaluateEntry
  <2>2. strategyPosition' = {entry} /\ steps' # <<>>
    BY <1>2, <2>1 DEF Decision, OpenSteps
  <2>3. EntryAtCredit(s, entry)
    BY <1>1, EntriesAtCredit
  <2>. QED
    BY <1>5, <2>2, <2>3
<1>7. ASSUME NEW entry,
             d \in EvaluateOpenPosition(config.strategyName,
                                        config.instrumentId, entry, s)
      PROVE  ExitInv'
  <2>1. PICK cost : d = Decision({}, CloseSteps(config.strategyName,
                                                config.instrumentId, cost,
                                                s.price))
    BY <1>7 DEF EvaluateOpenPosition
  <2>2. strategyPosition' = {} /\ steps' # <<>>
    BY <1>2, <2>1 DEF Decision, CloseSteps
  <2>. QED
    BY <1>5, <2>2
<1>8. CASE /\ d = Decision(strategyPosition, <<>>)
           /\ \A entry \in strategyPosition :
                ExitCosts(config.strategyName, entry, s) = {}
  <2>1. steps' = <<>>
    BY <1>2, <1>8 DEF Decision
  <2>2. \A id \in OpenSpreads : NotDue(s, id)
    BY <1>8, KeptIsNotDue DEF Managed
  <2>. QED
    BY <1>4, <2>1, <2>2
<1>9. \/ /\ strategyPosition = {}
         /\ d \in EvaluateEntry(config.strategyName, s, Equity)
      \/ \E entry : d \in EvaluateOpenPosition(config.strategyName,
                                               config.instrumentId, entry, s)
      \/ /\ d = Decision(strategyPosition, <<>>)
         /\ \A entry \in strategyPosition :
              ExitCosts(config.strategyName, entry, s) = {}
  <2>1. CASE strategyPosition = {}
    BY <2>1 DEF Evaluate
  <2>2. CASE strategyPosition # {}
    <3> DEFINE exits(entry) == EvaluateOpenPosition(config.strategyName,
                                                    config.instrumentId,
                                                    entry, s)
               all == UNION {exits(entry) : entry \in strategyPosition}
    <3>1. d \in IF all = {} THEN {Decision(strategyPosition, <<>>)} ELSE all
      BY <2>2 DEF Evaluate
    <3>2. all = {} => \A entry \in strategyPosition : exits(entry) = {}
      OBVIOUS
    <3>3. \A entry : exits(entry) = {} =>
            ExitCosts(config.strategyName, entry, s) = {}
      BY DEF EvaluateOpenPosition
    <3> HIDE DEF exits
    <3>4. d \in all => \E entry : d \in exits(entry)
      OBVIOUS
    <3>. QED
      BY <3>1, <3>2, <3>3, <3>4 DEF exits
  <2>. QED
    BY <2>1, <2>2
<1>. QED
  BY <1>6, <1>7, <1>8, <1>9

LEMMA ExitEvent ==
  ASSUME StrikesIdentifyQuotes, BacktestTypeOK, ManagedInv, ExitInv,
         NEW time \in Int, NEW price, NEW chain,
         \/ price \in Prices /\ HandleMarket(time, price)
         \/ chain \in Chains /\ HandleOptionChain(time, chain)
  PROVE  ExitInv'
<1>1. /\ status = "waiting"
      /\ UNCHANGED <<openPositions, positionMetadata, config>>
  BY DEF HandleMarket, HandleOptionChain, Replays, portfolioVars, executionVars
<1> SUFFICES ASSUME BuiltIn PROVE ExitInv'
  BY <1>1 DEF ExitInv, BuiltIn
<1>2. Managed
  BY <1>1 DEF ManagedInv, Phases
<1>3. CASE UNCHANGED decisionVars
  BY <1>1, <1>3
  DEF decisionVars, ExitInv, OpenSpreads, NotDue, Debits, EntryAtCredit
<1>4. \A c \in Chains \cup {NoChain} :
        /\ c \in OptionChainSnapshot
        /\ ListedOnce(c.puts) /\ ListedOnce(c.calls)
  <2>1. NoChain \in OptionChainSnapshot
        /\ ListedOnce(NoChain.puts) /\ ListedOnce(NoChain.calls)
    BY DEF NoChain, OptionChainSnapshot, ListedOnce
  <2>2. ASSUME NEW c \in Chains
        PROVE  /\ c \in OptionChainSnapshot
               /\ ListedOnce(c.puts) /\ ListedOnce(c.calls)
    BY BacktestAssumption
    DEF OptionChainSnapshot, ListedOnce, StrikesIdentifyQuotes
  <2>. QED
    BY <2>1, <2>2
<1>5. ASSUME NEW market \in MarketEvent, NEW c \in Chains \cup {NoChain},
             ProcessSnapshot(Snapshot(market, c))
      PROVE  ExitInv'
  <2>1. Snapshot(market, c) \in MarketSnapshot
    BY <1>4 DEF Snapshot, MarketEvent, MarketSnapshot
  <2>2. ChainListsOnce(Snapshot(market, c))
    BY <1>4 DEF Snapshot, ChainListsOnce
  <2>. QED
    BY <1>1, <1>2, <1>5, <2>1, <2>2, ExitSignal
<1>6. CASE price \in Prices /\ HandleMarket(time, price)
  <2>1. [time |-> time, price |-> price] \in MarketEvent
    BY <1>6, BacktestAssumption DEF MarketEvent
  <2>. QED
    BY <1>3, <1>5, <1>6, <2>1 DEF HandleMarket
<1>7. CASE chain \in Chains /\ HandleOptionChain(time, chain)
  BY <1>3, <1>5, <1>7 DEF HandleOptionChain, BacktestTypeOK
<1>. QED
  BY <1>6, <1>7

(* Once the steps of a signal are through, what they opened is priced at   *)
(* its credit.                                                             *)
LEMMA ExitStep ==
  ASSUME ExitsApart, BacktestTypeOK', ManagedInv', ExitInv, ExecuteSignalStep
  PROVE  ExitInv'
<1>1. /\ status = "executing" /\ status' = "executing" /\ steps # <<>>
      /\ UNCHANGED <<config, snapshot, strategyPosition>>
  BY DEF ExecuteSignalStep, replayVars
<1> SUFFICES ASSUME BuiltIn PROVE ExitInv'
  BY <1>1 DEF ExitInv, BuiltIn
<1>2. \A s \in snapshot', entry \in strategyPosition' : EntryAtCredit(s, entry)
  BY <1>1 DEF ExitInv
<1>3. ASSUME steps' = <<>>, NEW s \in snapshot', NEW id \in OpenSpreads'
      PROVE  NotDue(s, id)'
  <2>1. Managed'
    BY <1>1, <1>3
    DEF ManagedInv, Phases, Opening, ClosingSpread, ClosingShares, BuiltIn
  <2>2. PICK entry \in strategyPosition' : IsEntry(id, entry)'
    BY <2>1 DEF Managed
  <2>3. /\ Debits(id, s)' = MarkDebit(entry.metadata, s.chain)
        /\ openPositions'[id].entryCredit = entry.entryCredit
    BY <2>2 DEF IsEntry, Debits
  <2>4. \A debit \in Debits(id, s)' : debit = entry.entryCredit
    BY <1>2, <2>3 DEF EntryAtCredit
  <2>5. entry.entryCredit \in Int /\ entry.entryCredit > 0
    <3>1. openPositions'[id] \in DefinedRiskPosition
      BY DEF OpenSpreads, BacktestTypeOK, PortfolioTypeOK, Position,
             EquityPosition
    <3>. QED
      BY <2>3, <3>1 DEF DefinedRiskPosition, Positive
  <2>6. /\ entry.entryCredit * 100 > entry.entryCredit * (100 - ProfitTargetPct)
        /\ entry.entryCredit < entry.entryCredit * StopLossMultiple
    BY <2>5, CreditIsNotDue
  <2>. QED
    BY <2>3, <2>4, <2>6 DEF NotDue
<1>. QED
  BY <1>2, <1>3 DEF ExitInv, EntryAtCredit

LEMMA ExitPoint ==
  ASSUME BacktestTypeOK, ExitInv, RecordEquityPoint
  PROVE  ExitInv'
<1>1. /\ status = "executing" /\ steps = <<>>
      /\ UNCHANGED <<config, snapshot, steps, strategyPosition,
                     positionMetadata>>
  BY DEF RecordEquityPoint, replayVars, executionVars
<1>2. \A s, id : id \in OpenSpreads /\ NotDue(s, id) => NotDue(s, id)'
  <2>1. ASSUME NEW s, NEW id \in OpenSpreads, NotDue(s, id)
        PROVE  NotDue(s, id)'
    <3>1. Debits(id, s)' = Debits(id, s)
      BY <1>1 DEF Debits
    <3>2. openPositions'[id].entryCredit = openPositions[id].entryCredit
      BY MarkedSpreads
    <3>. QED
      BY <2>1, <3>1, <3>2 DEF NotDue
  <2>. QED
    BY <2>1
<1>3. OpenSpreads' = OpenSpreads
  BY MarkedSpreads
<1>. QED
  BY <1>1, <1>2, <1>3 DEF ExitInv, BuiltIn

LEMMA ExitNext ==
  ASSUME StrikesIdentifyQuotes, ExitsApart
  PROVE  BacktestInv /\ ManagedInv /\ ManagedInv' /\ BacktestInv'
           /\ ExitInv /\ [Next]_vars => ExitInv'
<1> SUFFICES ASSUME BacktestInv, ManagedInv, ManagedInv', BacktestInv', ExitInv,
                    [Next]_vars
             PROVE  ExitInv'
  OBVIOUS
<1>1. BacktestTypeOK /\ BacktestTypeOK'
  BY DEF BacktestInv, ReplayedInv
<1>2. ASSUME NEW time \in Int, NEW price, NEW chain,
             \/ price \in Prices /\ HandleMarket(time, price)
             \/ chain \in Chains /\ HandleOptionChain(time, chain)
      PROVE  ExitInv'
  BY <1>1, <1>2, ExitEvent
<1>3. CASE ExecuteSignalStep
  BY <1>1, <1>3, ExitStep
<1>4. CASE FailSignalStep
  BY <1>4 DEF FailSignalStep, ExitInv
<1>5. CASE RecordEquityPoint
  BY <1>1, <1>5, ExitPoint
<1>6. CASE UNCHANGED vars
  <2>1. /\ UNCHANGED <<openPositions, positionMetadata, config, snapshot>>
        /\ UNCHANGED <<strategyPosition, steps, status>>
    BY <1>6 DEF vars, portfolioVars, executionVars, replayVars, decisionVars
  <2>. QED
    BY <2>1 DEF ExitInv, BuiltIn, OpenSpreads, NotDue, Debits, EntryAtCredit
<1>7. ASSUME NEW time \in 0..MaxTime, NEW price \in Prices,
             HandleMarket(time, price)
      PROVE  ExitInv'
  <2>1. time \in Int
    BY BacktestAssumption
  <2>. QED
    BY <1>2, <1>7, <2>1
<1>8. ASSUME NEW time \in 0..MaxTime, NEW chain \in Chains,
             HandleOptionChain(time, chain)
      PROVE  ExitInv'
  <2>1. time \in Int
    BY BacktestAssumption
  <2>. QED
    BY <1>2, <1>8, <2>1
<1>. QED
  BY <1>3, <1>4, <1>5, <1>6, <1>7, <1>8 DEF Next

LEMMA ExitInit == Init => ExitInv
BY DEF Init, ExitInv

(* Once an event has been processed, no spread of a built-in strategy is   *)
(* still open at a price at or beyond its profit target or its stop,       *)
(* whatever the strategy believes.  That a spread just opened is not due   *)
(* already needs chains that quote a strike once, and a target and a stop  *)
(* on either side of the credit, as in the default configurations.         *)
THEOREM DueExitsAreTaken ==
  ASSUME StrikesIdentifyQuotes, ExitsApart
  PROVE  Spec => []ExitsAreTaken
<1>1. Spec => [](BacktestInv /\ ManagedInv)
  BY ManagedInit, ManagedNext, BacktestInvAlways, PTL DEF Spec
<1>2. BacktestInv /\ ManagedInv /\ ManagedInv' /\ BacktestInv'
        /\ ExitInv /\ [Next]_vars => ExitInv'
  BY ExitNext
<1>3. ExitInv /\ ManagedInv => ExitsAreTaken
  <2> SUFFICES ASSUME ExitInv, ManagedInv PROVE ExitsAreTaken
    OBVIOUS
  <2>1. status = "waiting" /\ BuiltIn => steps = <<>>
    BY DEF ManagedInv, Phases
  <2>. QED
    BY <2>1 DEF ExitInv, NotDue, ExitsAreTaken
<1>4. Spec => []ExitInv
  BY <1>1, <1>2, ExitInit, PTL DEF Spec
<1>. QED
  BY <1>1, <1>3, <1>4, PTL

=============================================================================
