------------------------- MODULE PortfolioValuation -------------------------
(***************************************************************************)
(* Valuing a portfolio from the list of its trades, its open positions and *)
(* quotes: src/src/portfolio/valuation.  It is a second way to the figures *)
(* the portfolio engine keeps, and values the account of PortfolioAccount  *)
(* here.  What throws in the code is the empty set here, a value the set   *)
(* of it.  A field that may be missing is a set of at most one.            *)
(***************************************************************************)
EXTENDS PortfolioAccount, SequencesExt

-----------------------------------------------------------------------------
(* Quotes: [instrument, positionId, price], the position id optional.  A   *)
(* quote for a position is one for the instrument too, and of two quotes   *)
(* the later replaces the earlier.                                         *)

LastPrice(quotes, indices) == quotes[Max(indices)].price

InMemoryMarketPriceProvider(quotes) ==
  LET N == DOMAIN quotes
  IN  [byPositionId |->
         [id \in UNION {quotes[n].positionId : n \in N} |->
            LastPrice(quotes, {n \in N : id \in quotes[n].positionId})],
       byInstrumentId |->
         [i \in {quotes[n].instrument : n \in N} |->
            LastPrice(quotes, {n \in N : quotes[n].instrument = i})]]

(* Mutation: quotes of a position are not looked up. *)
GetInstrumentPrice(provider, instrument, positionId) ==
  {provider.byInstrumentId[i] :
     i \in {instrument} \cap DOMAIN provider.byInstrumentId}

GetPrice(provider, instrument, positionId) ==
  IF positionId \in DOMAIN provider.byPositionId
  THEN {provider.byPositionId[positionId]}
  ELSE {provider.byInstrumentId[i] :
          i \in {instrument} \cap DOMAIN provider.byInstrumentId}

-----------------------------------------------------------------------------
(* Cash and profit *)

Refused(trade) == trade.cashDelta = {} /\ trade.quantity <= 0

(* All types of instruments are paid for and sold alike. *)
ResolveCashDelta(trade) ==
  LET notional == trade.price * trade.quantity
  IN  IF trade.cashDelta # {} THEN CHOOSE delta \in trade.cashDelta : TRUE
      ELSE IF trade.side = "BUY" THEN -(notional + trade.totalFees)
      ELSE notional - trade.totalFees

CalculateCash(initialCash, trades) ==
  RunningTotal(initialCash,
               [n \in DOMAIN trades |-> ResolveCashDelta(trades[n])])

RealizedPnl(trade) ==
  IF trade.realizedPnl = {} THEN 0 ELSE CHOOSE pnl \in trade.realizedPnl : TRUE

CalculateRealizedPnl(trades) ==
  RunningTotal(0, [n \in DOMAIN trades |-> RealizedPnl(trades[n])])

(* entry is the average price, the entry credit or the entry price. *)
ValuePosition(position, markPrice) ==
  LET scale == IF position.kind = "DEFINED_RISK" THEN 1
               ELSE position.contractMultiplier
      gain  == IF position.kind = "DEFINED_RISK"
               THEN position.entry - markPrice
               ELSE markPrice - position.entry
  IN  [positionId    |-> position.id,
       markPrice     |-> markPrice,
       marketValue   |-> markPrice * position.quantity * scale,
       unrealizedPnl |-> gain * position.quantity * scale]

PricesOf(position, provider) ==
  GetPrice(provider, position.instrument, position.id)

CalculatePositionBreakdowns(positions, provider) ==
  [n \in DOMAIN positions |->
     ValuePosition(positions[n],
                   CHOOSE p \in PricesOf(positions[n], provider) : TRUE)]

Valuate(initialCash, trades, positions, provider) ==
  IF \/ initialCash < 0
     \/ \E n \in DOMAIN trades : Refused(trades[n])
     \/ \E n \in DOMAIN positions : PricesOf(positions[n], provider) = {}
  THEN {}
  ELSE LET cashBalance == CalculateCash(initialCash, trades)
           values      == CalculatePositionBreakdowns(positions, provider)
           unrealized  == RunningTotal(0, [n \in DOMAIN values |->
                                             values[n].unrealizedPnl])
       IN  {[cashBalance    |-> cashBalance,
             realizedPnl    |-> CalculateRealizedPnl(trades),
             unrealizedPnl  |-> unrealized,
             portfolioValue |-> cashBalance + unrealized]}

(* The drawdown is a fraction: what was lost, of the peak. *)
CreateEquitySnapshot(initialCash, trades, positions, provider, peakSoFar) ==
  {LET peak == Max({peakSoFar, value.portfolioValue})
   IN  [value    |-> value,
        drawdown |-> IF peak > 0
                     THEN [lost |-> peak - value.portfolioValue, of |-> peak]
                     ELSE [lost |-> 0, of |-> 1]] :
     value \in Valuate(initialCash, trades, positions, provider)}

-----------------------------------------------------------------------------
(* The account's ledger and positions as the valuation takes them.  A row  *)
(* names no fees: they are what separates its cash from its price.         *)

ValuationTrade(row) ==
  LET side == IF row.type \in {"EQUITY_BUY", "CREDIT_SPREAD_CLOSE"}
              THEN "BUY" ELSE "SELL"
      notional == row.price * row.quantity
  IN  [side |-> side, quantity |-> row.quantity, price |-> row.price,
       totalFees |-> IF side = "BUY" THEN -row.cashDelta - notional
                                     ELSE notional - row.cashDelta,
       cashDelta |-> {},
       realizedPnl |-> IF row.type \in {"EQUITY_SELL", "CREDIT_SPREAD_CLOSE"}
                       THEN {row.realizedPnl} ELSE {}]

ValuationPosition(id) ==
  LET held == openPositions[id]
  IN  [id |-> id, instrument |-> id[2], kind |-> held.kind,
       quantity |-> held.quantity, contractMultiplier |-> 1,
       entry |-> IF held.kind = "DEFINED_RISK" THEN held.entryCredit
                                               ELSE held.averagePrice]

(* A quote for each open position at its mark, in the order of ids. *)
Quotes(ids) ==
  [n \in DOMAIN ids |-> [instrument |-> ids[n][2], positionId |-> {ids[n]},
                         price |-> openPositions[ids[n]].markPrice]]

(* Quoted at its marks, in whatever order the quotes of an instrument's    *)
(* positions come, an account is worth to the valuation what it is worth   *)
(* to the engine: the same cash, though the one replays trades and the     *)
(* other moves a balance, and the same profits.  The snapshot of it shows  *)
(* what the account is worth less than its capital, if it is worth less.   *)
ValuationAgreesWithEngine ==
  LET trades    == [n \in DOMAIN ledger |-> ValuationTrade(ledger[n])]
      ids       == SetToSeq(DOMAIN openPositions)
      positions == [n \in DOMAIN ids |-> ValuationPosition(ids[n])]
  IN  \A order \in SetToSeqs(DOMAIN openPositions) :
        \E snapshot \in CreateEquitySnapshot(InitialCapital, trades, positions,
                          InMemoryMarketPriceProvider(Quotes(order)),
                          InitialCapital) :
          /\ snapshot.value =
               [cashBalance    |-> cash,
                realizedPnl    |-> RunningTotal(0, RealizedPnls),
                unrealizedPnl  |-> UnrealizedPnl,
                portfolioValue |-> Equity]
          /\ snapshot.drawdown.lost = Max({0, InitialCapital - Equity})

=============================================================================
