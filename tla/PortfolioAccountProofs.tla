----------------------- MODULE PortfolioAccountProofs -----------------------
(***************************************************************************)
(* Theorems about an account driven in any order, for every set of inputs. *)
(* The invariant is ReplayInv of PortfolioEngineProofs.                    *)
(***************************************************************************)
EXTENDS PortfolioValuation, PortfolioEngineProofs

LEMMA TypeInvariant ==
  PortfolioTypeOK /\ [Next]_portfolioVars => PortfolioTypeOK'
<1> SUFFICES ASSUME PortfolioTypeOK, [Next]_portfolioVars
             PROVE  PortfolioTypeOK'
  OBVIOUS
<1>1. CASE Trade
  BY <1>1, InputAssumption, OpenEquityType, CloseEquityType,
     OpenDefinedRiskType, CloseDefinedRiskType DEF Trade
<1>2. ASSUME NEW id \in PositionIds, NEW m \in Marks, MarkToMarket(id, m)
      PROVE  PortfolioTypeOK'
  BY <1>2, InputAssumption, MarkToMarketType
<1>3. CASE UNCHANGED portfolioVars
  BY <1>3 DEF portfolioVars, PortfolioTypeOK
<1>. QED
  BY <1>1, <1>2, <1>3 DEF Next

(* Every reachable account has well-formed positions, closed records and  *)
(* ledger rows: sizes, credits and maximum losses stay positive through   *)
(* averaging buys, partial sales and reopenings.                          *)
THEOREM TypeCorrect == Spec => []PortfolioTypeOK
<1>. QED
  BY InitType, TypeInvariant, PTL DEF Spec

-----------------------------------------------------------------------------
LEMMA TradeRow == PortfolioTypeOK /\ Trade => \E row : RowApplied(row)
BY InputAssumption, OpenEquityRow, CloseEquityRow, OpenDefinedRiskRow,
   CloseDefinedRiskRow DEF Trade

LEMMA ReplayInvariant == ReplayInv /\ [Next]_portfolioVars => ReplayInv'
<1> SUFFICES ASSUME ReplayInv, [Next]_portfolioVars PROVE ReplayInv'
  OBVIOUS
<1>1. CASE Trade
  <2>1. PortfolioTypeOK /\ PortfolioTypeOK'
    <3>1. PortfolioTypeOK
      BY DEF ReplayInv
    <3>. QED
      BY <3>1, TypeInvariant
  <2>2. PICK row : RowApplied(row)
    BY <1>1, <2>1, TradeRow
  <2>. QED
    BY <2>1, <2>2, ReplayStep
<1>2. CASE \E id \in PositionIds, m \in Marks : MarkToMarket(id, m)
  BY <1>2, InputAssumption, ReplayOfMark
<1>3. CASE UNCHANGED portfolioVars
  BY <1>3, ReplayOfStutter
<1>. QED
  BY <1>1, <1>2, <1>3 DEF Next

LEMMA ReplayAlways == Spec => []ReplayInv
<1>. QED
  BY ReplayOfInit, ReplayInvariant, PTL DEF Spec

(* The cash balance is what the ledger, replayed from the initial capital, *)
(* says it is, in every reachable state of an account of any size.         *)
THEOREM CashReplays == Spec => []LedgerReplaysCash
<1>. QED
  BY ReplayMeaning, ReplayAlways, PTL

(* Replaying a position's own rows gives the size and the margin held     *)
(* under its id, whatever was bought, sold, closed and reopened before.   *)
THEOREM PositionsReplay == Spec => []LedgerReplaysPositions
<1>. QED
  BY ReplayMeaning, ReplayAlways, PTL

(* Cash is never below zero by more than sales lost to their own fees.    *)
THEOREM OverdraftBounded == Spec => []OverdraftOnlyFromSaleFees
<1>. QED
  BY ReplayMeaning, ReplayAlways, PTL


-----------------------------------------------------------------------------
LEMMA TradeBooks ==
  PortfolioTypeOK /\ IsFiniteSet(DOMAIN openPositions) /\ Trade =>
    \E row : Balanced(row)
BY InputAssumption, OpenEquityBooks, CloseEquityBooks, OpenDefinedRiskBooks,
   CloseDefinedRiskBooks DEF Trade

LEMMA BooksInvariant == BooksInv /\ [Next]_portfolioVars => BooksInv'
<1> SUFFICES ASSUME BooksInv, [Next]_portfolioVars PROVE BooksInv'
  OBVIOUS
<1>1. PortfolioTypeOK /\ IsFiniteSet(DOMAIN openPositions)
  BY DEF BooksInv
<1>2. PortfolioTypeOK'
  BY <1>1, TypeInvariant
<1>3. CASE Trade
  <2>1. PICK row : Balanced(row)
    BY <1>1, <1>3, TradeBooks
  <2>. QED
    BY <1>2, <2>1, BooksStep
<1>4. CASE \E id \in PositionIds, m \in Marks : MarkToMarket(id, m)
  BY <1>2, <1>4, InputAssumption, BooksOfMark
<1>5. CASE UNCHANGED portfolioVars
  BY <1>5, BooksOfStutter
<1>. QED
  BY <1>3, <1>4, <1>5 DEF Next

LEMMA BooksInvAlways == Spec => []BooksInv
<1>. QED
  BY BooksOfInit, BooksInvariant, PTL DEF Spec

(* The account's books balance in every reachable state: cash is the       *)
(* initial capital plus realized profit, less what open positions cost and *)
(* the fees of buys, up to the rounding of averaged prices.                *)
THEOREM BooksAlwaysBalance == Spec => []BooksBalance
<1>. QED
  BY BooksMeaning, BooksInvAlways, PTL

-----------------------------------------------------------------------------
(* Totals of listed sums *)

(* Two running balances of the same rows end alike. *)
LEMMA BalanceIsUnique ==
  ASSUME NEW start, NEW deltas, Len(deltas) \in Nat,
         NEW g, IsBalance(g, start, deltas),
         NEW h, IsBalance(h, start, deltas)
  PROVE  g[Len(deltas)] = h[Len(deltas)]
<1> DEFINE N == Len(deltas)
           Differ == {n \in 0..N : g[n] # h[n]}
           T == {0..n : n \in Differ}
<1>1. \A n \in 0..N : /\ g[n] = IF n = 0 THEN start ELSE g[n - 1] + deltas[n]
                      /\ h[n] = IF n = 0 THEN start ELSE h[n - 1] + deltas[n]
  BY DEF IsBalance
<1> HIDE DEF N
<1>2. ASSUME Differ # {} PROVE FALSE
  <2>1. IsFiniteSet(0..N) /\ T \subseteq SUBSET (0..N) /\ T # {}
    <3>1. IsFiniteSet(0..N)
      BY FS_Interval DEF N
    <3>2. \A n \in 0..N : 0..n \subseteq 0..N
      BY DEF N
    <3>. QED
      BY <1>2, <3>1, <3>2
  <2>2. PICK U \in T : \A V \in T : V \subseteq U => V = U
    <3> DEFINE D == 0..N
    <3>1. IsFiniteSet(D) /\ T \subseteq SUBSET D /\ T # {}
      BY <2>1
    <3> HIDE DEF T, D
    <3>. QED
      BY <3>1, MinimalSubset
  <2>3. PICK n \in Differ : U = 0..n
    BY <2>2
  <2>4. n \in 0..N /\ g[n] # h[n] /\ n # 0
    BY <1>1, <2>3
  <2>5. n - 1 \in 0..N /\ 0..(n - 1) \subseteq 0..n /\ 0..(n - 1) # 0..n
    <3>1. n \in Nat /\ n - 1 \in 0..N
      BY <2>4 DEF N
    <3>2. n \in 0..n /\ n \notin 0..(n - 1)
      BY <3>1
    <3>. QED
      BY <3>1, <3>2
  <2>6. g[n - 1] = h[n - 1]
    BY <2>2, <2>3, <2>5
  <2>. QED
    BY <1>1, <2>4, <2>6
<1>3. N \in 0..N
  BY DEF N
<1>. QED
  BY <1>2, <1>3 DEF N

(* The sum over a finite set is the total of any list of its members.      *)
LEMMA ListedSum ==
  ASSUME NEW S, IsFiniteSet(S), NEW f, \A x \in S : f[x] \in Int,
         NEW N \in Nat, NEW s \in [1..N -> S],
         \A m, n \in 1..N : m # n => s[m] # s[n],
         \A x \in S : \E n \in 1..N : s[n] = x,
         NEW deltas, deltas = [n \in 1..N |-> f[s[n]]]
  PROVE  TotalIs(0, deltas, SetSum(f, S))
<1> DEFINE upTo(n) == {s[i] : i \in 1..n}
           h == [n \in 0..N |-> SetSum(f, upTo(n))]
<1>1. Len(deltas) = N /\ deltas \in Seq(Int)
  <2>1. deltas \in [1..N -> Int]
    OBVIOUS
  <2>. QED
    BY <2>1
<1>2. upTo(0) = {} /\ upTo(N) = S
  <2>1. 1..0 = {}
    OBVIOUS
  <2>2. upTo(0) = {}
    BY <2>1
  <2>. QED
    BY <2>2
<1>3. \A n \in 0..N : upTo(n) \subseteq S /\ IsFiniteSet(upTo(n))
  <2> SUFFICES ASSUME NEW n \in 0..N
               PROVE  upTo(n) \subseteq S /\ IsFiniteSet(upTo(n))
    OBVIOUS
  <2>1. \A i \in 1..n : i \in 1..N
    OBVIOUS
  <2>2. upTo(n) \subseteq S
    BY <2>1
  <2> HIDE DEF upTo
  <2>. QED
    BY <2>2, FS_Subset
<1>4. ASSUME NEW n \in 1..N
      PROVE  SetSum(f, upTo(n)) = SetSum(f, upTo(n - 1)) + deltas[n]
  <2>1. n \in 0..N /\ n - 1 \in 0..N /\ n \in 1..n
        /\ \A i \in 1..n : i \in 1..N /\ (i \in 1..(n - 1) <=> i # n)
        /\ \A k \in 1..(n - 1) : k \in 1..n
    OBVIOUS
  <2>2. s[n] \in upTo(n) /\ upTo(n) \ {s[n]} = upTo(n - 1)
    <3>1. \A i \in 1..n : s[i] = s[n] <=> i = n
      BY <2>1
    <3>. QED
      BY <2>1, <3>1
  <2>3. /\ IsFiniteSet(upTo(n)) /\ upTo(n) \subseteq S
        /\ IsFiniteSet(upTo(n - 1)) /\ upTo(n - 1) \subseteq S
    BY <1>3, <2>1
  <2>4. deltas[n] = f[s[n]] /\ f[s[n]] \in Int
    OBVIOUS
  <2> HIDE DEF upTo
  <2>5. SetSum(f, upTo(n)) = f[s[n]] + SetSum(f, upTo(n) \ {s[n]})
    BY <2>2, <2>3, SetSumRemove
  <2>6. SetSum(f, upTo(n - 1)) \in Int
    BY <2>3, SetSumType
  <2>7. SetSum(f, upTo(n)) = f[s[n]] + SetSum(f, upTo(n - 1))
    BY <2>2, <2>5, Zenon
  <2> HIDE DEF h
  <2>. QED
    BY <2>4, <2>6, <2>7
<1> HIDE DEF upTo
<1>5. IsBalance(h, 0, deltas)
  <2> DEFINE r == [n \in 0..N |-> IF n = 0 THEN 0 ELSE h[n - 1] + deltas[n]]
  <2>1. ASSUME NEW n \in 0..N PROVE h[n] = r[n]
    <3>1. CASE n = 0
      BY <1>2, <3>1, SetSumEmpty
    <3>2. CASE n # 0
      <4>1. n \in 1..N /\ n - 1 \in 0..N
        BY <3>2
      <4>2. h[n] = SetSum(f, upTo(n)) /\ h[n - 1] = SetSum(f, upTo(n - 1))
            /\ r[n] = h[n - 1] + deltas[n]
        BY <3>2, <4>1
      <4> HIDE DEF h, r
      <4>. QED
        BY <1>4, <4>1, <4>2
    <3>. QED
      BY <3>1, <3>2
  <2>2. h = r
    BY <2>1
  <2>. QED
    BY <1>1, <2>2 DEF IsBalance
<1>6. h[N] = SetSum(f, S)
  BY <1>2
<1> HIDE DEF h
<1>7. ASSUME NEW g, IsBalance(g, 0, deltas) PROVE g[N] = SetSum(f, S)
  BY <1>1, <1>5, <1>6, <1>7, BalanceIsUnique
<1>. QED
  BY <1>1, <1>5, <1>7 DEF TotalIs

-----------------------------------------------------------------------------
(* Lists of the open positions *)

(* s lists the members of S, each once. *)
Lists(s, S) ==
  /\ Cardinality(S) \in Nat
  /\ s \in [1..Cardinality(S) -> S]
  /\ \A m, n \in 1..Cardinality(S) : m # n => s[m] # s[n]
  /\ \A x \in S : \E n \in 1..Cardinality(S) : s[n] = x

LEMMA OrderLists ==
  ASSUME NEW S, IsFiniteSet(S), NEW s \in SetToSeqs(S)
  PROVE  Lists(s, S)
<1> DEFINE N == Cardinality(S)
<1>1. N \in Nat
  BY FS_CardinalityType
<1>2. s \in [1..N -> S] /\ \A m, n \in 1..N : m # n => s[m] # s[n]
  BY DEF SetToSeqs
<1>3. s \in Surjection(1..N, S)
  <2>1. s \in Injection(1..N, S)
    BY <1>2 DEF Injection, IsInjective
  <2>2. Cardinality(1..N) = N
    BY <1>1, FS_Interval
  <2>. QED
    BY <2>1, <2>2, FS_Injection
<1>. QED
  BY <1>1, <1>2, <1>3 DEF Lists, Surjection

LEMMA SequenceLists ==
  ASSUME NEW S, IsFiniteSet(S)
  PROVE  Lists(SetToSeq(S), S) /\ SetToSeq(S) \in SetToSeqs(S)
<1> DEFINE N == Cardinality(S)
           s == SetToSeq(S)
<1>1. N \in Nat /\ \E f : f \in Bijection(1..N, S)
  BY FS_CardinalityType DEF ExistsBijection
<1>2. PICK f \in [1..N -> S] : IsInjective(f)
  BY <1>1 DEF Bijection, Injection
<1>3. s \in [1..N -> S] /\ IsInjective(s)
  BY <1>2 DEF SetToSeq
<1> HIDE DEF s
<1>4. s \in SetToSeqs(S)
  BY <1>3 DEF SetToSeqs, IsInjective
<1>. QED
  BY <1>4, OrderLists DEF s

-----------------------------------------------------------------------------
(* What the valuation reads of the account *)

RealizesNothing(row) ==
  row.type \in {"EQUITY_BUY", "CREDIT_SPREAD_OPEN"} => row.realizedPnl = 0

(* Rows that open a position realize no profit. *)
OnlyClosesRealize == \A n \in DOMAIN ledger : RealizesNothing(ledger[n])

LEMMA TradeRealizes ==
  ASSUME Trade
  PROVE  \E row : ledger' = Append(ledger, row) /\ RealizesNothing(row)
<1>1. ASSUME NEW s \in Strategies, NEW i \in Instruments, NEW q \in Quantities,
             NEW p \in Prices, NEW f \in Fees, OpenEquityPosition(s, i, q, p, f)
      PROVE  \E row : ledger' = Append(ledger, row) /\ RealizesNothing(row)
  BY <1>1 DEF OpenEquityPosition, RecordLedgerEntry, RealizesNothing
<1>2. ASSUME NEW id \in PositionIds, NEW q \in Quantities, NEW p \in Prices,
             NEW f \in Fees, CloseEquityPosition(id, q, p, f)
      PROVE  \E row : ledger' = Append(ledger, row) /\ RealizesNothing(row)
  BY <1>2 DEF CloseEquityPosition, RecordLedgerEntry, RealizesNothing
<1>3. ASSUME NEW s \in Strategies, NEW i \in Instruments, NEW leg \in LegGroups,
             NEW q \in Quantities, NEW c \in Credits, NEW m \in MaxLosses,
             OpenDefinedRiskPosition(s, i, leg, q, c, m)
      PROVE  \E row : ledger' = Append(ledger, row) /\ RealizesNothing(row)
  BY <1>3 DEF OpenDefinedRiskPosition, RecordLedgerEntry, RealizesNothing
<1>4. ASSUME NEW id \in PositionIds, NEW c \in CloseCosts,
             CloseDefinedRiskPosition(id, c)
      PROVE  \E row : ledger' = Append(ledger, row) /\ RealizesNothing(row)
  BY <1>4 DEF CloseDefinedRiskPosition, RecordLedgerEntry, RealizesNothing
<1>. QED
  BY <1>1, <1>2, <1>3, <1>4 DEF Trade

LEMMA OnlyClosesRealizeNext ==
  PortfolioTypeOK /\ OnlyClosesRealize /\ [Next]_portfolioVars
    => OnlyClosesRealize'
<1> SUFFICES ASSUME PortfolioTypeOK, OnlyClosesRealize, [Next]_portfolioVars
             PROVE  OnlyClosesRealize'
  OBVIOUS
<1>1. CASE Trade
  <2>1. PICK row : ledger' = Append(ledger, row) /\ RealizesNothing(row)
    BY <1>1, TradeRealizes
  <2>2. ledger \in Seq(LedgerRow)
    BY DEF PortfolioTypeOK
  <2>3. /\ DOMAIN ledger' = 1..(Len(ledger) + 1) /\ Len(ledger) \in Nat
        /\ DOMAIN ledger = 1..Len(ledger)
        /\ ledger'[Len(ledger) + 1] = row
        /\ \A n \in DOMAIN ledger : ledger'[n] = ledger[n]
    BY <2>1, <2>2
  <2>. QED
    BY <2>1, <2>3 DEF OnlyClosesRealize
<1>2. CASE ledger' = ledger
  BY <1>2 DEF OnlyClosesRealize
<1>. QED
  BY <1>1, <1>2 DEF Next, MarkToMarket, portfolioVars

(* The trades cost and realize what the ledger shows. *)
LEMMA TradesAgree ==
  ASSUME ReplayInv, OnlyClosesRealize,
         NEW trades, trades = [n \in DOMAIN ledger |-> ValuationTrade(ledger[n])]
  PROVE  /\ CalculateCash(InitialCapital, trades) = cash
         /\ CalculateRealizedPnl(trades) = RunningTotal(0, RealizedPnls)
         /\ \A n \in DOMAIN trades : ~Refused(trades[n])
<1>1. \A n \in DOMAIN ledger : ledger[n] \in LedgerRow
  BY DEF ReplayInv, PortfolioTypeOK
<1>2. ASSUME NEW row \in LedgerRow
      PROVE  /\ ResolveCashDelta(ValuationTrade(row)) = row.cashDelta
             /\ RealizesNothing(row) =>
                  RealizedPnl(ValuationTrade(row)) = row.realizedPnl
             /\ ~Refused(ValuationTrade(row))
  <2> DEFINE trade == ValuationTrade(row)
             notional == row.price * row.quantity
  <2>1. /\ row.cashDelta \in Int /\ row.price \in Int /\ row.quantity \in Nat
        /\ row.quantity > 0
        /\ row.type \in {"EQUITY_BUY", "EQUITY_SELL",
                         "CREDIT_SPREAD_OPEN", "CREDIT_SPREAD_CLOSE"}
    BY DEF LedgerRow, Positive
  <2>2. notional \in Int
    BY <2>1
  <2>3. /\ trade.price * trade.quantity = notional /\ trade.cashDelta = {}
        /\ trade.quantity = row.quantity
        /\ trade.side = IF row.type \in {"EQUITY_BUY", "CREDIT_SPREAD_CLOSE"}
                        THEN "BUY" ELSE "SELL"
        /\ trade.totalFees = IF trade.side = "BUY"
                             THEN -row.cashDelta - notional
                             ELSE notional - row.cashDelta
        /\ trade.realizedPnl =
             IF row.type \in {"EQUITY_SELL", "CREDIT_SPREAD_CLOSE"}
             THEN {row.realizedPnl} ELSE {}
    BY DEF ValuationTrade
  <2>4. ResolveCashDelta(trade) =
          IF trade.side = "BUY" THEN -(notional + trade.totalFees)
          ELSE notional - trade.totalFees
    BY <2>3 DEF ResolveCashDelta
  <2>5. RealizedPnl(trade) = IF trade.realizedPnl = {} THEN 0
                             ELSE CHOOSE pnl \in trade.realizedPnl : TRUE
    BY DEF RealizedPnl
  <2> HIDE DEF trade, notional
  <2>6. ResolveCashDelta(trade) = row.cashDelta
    BY <2>1, <2>2, <2>3, <2>4
  <2>7. RealizesNothing(row) => RealizedPnl(trade) = row.realizedPnl
    BY <2>1, <2>3, <2>5 DEF RealizesNothing
  <2>8. ~Refused(trade)
    BY <2>1, <2>3 DEF Refused
  <2>. QED
    BY <2>6, <2>7, <2>8 DEF trade
<1>3. \A n \in DOMAIN ledger :
        /\ ResolveCashDelta(trades[n]) = ledger[n].cashDelta
        /\ RealizedPnl(trades[n]) = ledger[n].realizedPnl
        /\ ~Refused(trades[n])
  BY <1>1, <1>2 DEF OnlyClosesRealize
<1>4. DOMAIN trades = DOMAIN ledger
  OBVIOUS
<1>5. [n \in DOMAIN trades |-> ResolveCashDelta(trades[n])] = CashDeltas
  BY <1>3, <1>4 DEF CashDeltas
<1>6. [n \in DOMAIN trades |-> RealizedPnl(trades[n])] = RealizedPnls
  BY <1>3, <1>4 DEF RealizedPnls
<1>7. cash = RunningTotal(InitialCapital, CashDeltas)
  BY ReplayMeaning DEF LedgerReplaysCash
<1>. QED
  BY <1>3, <1>4, <1>5, <1>6, <1>7 DEF CalculateCash, CalculateRealizedPnl

LEMMA MaxOfOne == ASSUME NEW n \in Int PROVE Max({n}) = n
<1>1. \A y \in {n} : n >= y
  OBVIOUS
<1>. QED
  BY <1>1 DEF Max

LEMMA MaxOfTwo ==
  ASSUME NEW m \in Int, NEW n \in Int
  PROVE  Max({m, n}) = IF m >= n THEN m ELSE n
<1> DEFINE x == IF m >= n THEN m ELSE n
<1>1. x \in {m, n} /\ \A y \in {m, n} : x >= y
  OBVIOUS
<1>2. ASSUME NEW z \in {m, n}, \A y \in {m, n} : z >= y PROVE z = x
  BY <1>2
<1> HIDE DEF x
<1>3. Max({m, n}) = x
  BY <1>1, <1>2 DEF Max
<1>. QED
  BY <1>3 DEF x

(* A position quoted under its id is found at that quote. *)
LEMMA QuotesAreFound ==
  ASSUME NEW order, Lists(order, DOMAIN openPositions),
         NEW id \in DOMAIN openPositions, NEW instrument
  PROVE  GetPrice(InMemoryMarketPriceProvider(Quotes(order)), instrument, id)
           = {openPositions[id].markPrice}
<1> DEFINE quotes == Quotes(order)
           N == Cardinality(DOMAIN openPositions)
           byId == InMemoryMarketPriceProvider(quotes).byPositionId
           naming == {n \in DOMAIN quotes : id \in quotes[n].positionId}
<1>1. /\ DOMAIN quotes = 1..N
      /\ \A n \in 1..N : /\ quotes[n].positionId = {order[n]}
                         /\ quotes[n].price = openPositions[order[n]].markPrice
  BY DEF Lists, Quotes
<1>2. PICK n \in 1..N : order[n] = id
  BY DEF Lists
<1>3. n \in Int /\ naming = {n}
  BY <1>1, <1>2 DEF Lists
<1>4. byId = [x \in UNION {quotes[i].positionId : i \in DOMAIN quotes} |->
                LastPrice(quotes, {i \in DOMAIN quotes :
                                     x \in quotes[i].positionId})]
  BY DEF InMemoryMarketPriceProvider
<1> HIDE DEF quotes, byId
<1>5. id \in UNION {quotes[i].positionId : i \in DOMAIN quotes}
  BY <1>1, <1>2
<1>6. id \in DOMAIN byId /\ byId[id] = LastPrice(quotes, naming)
  BY <1>4, <1>5
<1>7. LastPrice(quotes, naming) = openPositions[id].markPrice
  <2>1. Max(naming) = n
    BY <1>3, MaxOfOne
  <2>. QED
    BY <1>1, <1>2, <2>1 DEF LastPrice
<1>. QED
  BY <1>6, <1>7 DEF GetPrice, byId, quotes

(* A position is worth to the valuation what it is worth to the engine.    *)
LEMMA ValuesAgree ==
  ASSUME PortfolioTypeOK, NEW id \in DOMAIN openPositions
  PROVE  ValuePosition(ValuationPosition(id), openPositions[id].markPrice)
           .unrealizedPnl = CalculatePositionUnrealizedPnl(openPositions[id])
<1> DEFINE held == openPositions[id]
           position == ValuationPosition(id)
           gain == IF held.kind = "DEFINED_RISK"
                   THEN held.entryCredit - held.markPrice
                   ELSE held.markPrice - held.averagePrice
<1>1. held \in Position
  BY DEF PortfolioTypeOK
<1>2. /\ held.quantity \in Int /\ gain \in Int
      /\ CalculatePositionUnrealizedPnl(held) = gain * held.quantity
  BY <1>1 DEF Position, EquityPosition, DefinedRiskPosition, Positive,
              CalculatePositionUnrealizedPnl
<1>3. /\ position.kind = held.kind /\ position.quantity = held.quantity
      /\ position.contractMultiplier = 1
      /\ position.entry = IF held.kind = "DEFINED_RISK" THEN held.entryCredit
                                                        ELSE held.averagePrice
  BY DEF ValuationPosition
<1>4. ValuePosition(position, held.markPrice).unrealizedPnl
        = gain * held.quantity * 1
  <2> HIDE DEF position, held
  <2>1. CASE held.kind = "DEFINED_RISK"
    BY <1>3, <2>1 DEF ValuePosition
  <2>2. CASE held.kind # "DEFINED_RISK"
    BY <1>3, <2>2 DEF ValuePosition
  <2>. QED
    BY <2>1, <2>2
<1> HIDE DEF gain, held, position
<1>5. gain * held.quantity \in Int /\ gain * held.quantity * 1 = gain * held.quantity
  BY <1>2
<1>. QED
  BY <1>2, <1>4, <1>5 DEF held, position

(* Every position has a price, and their profits add up to the engine's.   *)
LEMMA PositionsAgree ==
  ASSUME PortfolioTypeOK, IsFiniteSet(DOMAIN openPositions),
         NEW ids, Lists(ids, DOMAIN openPositions),
         NEW order, Lists(order, DOMAIN openPositions),
         NEW positions,
         positions = [n \in DOMAIN ids |-> ValuationPosition(ids[n])],
         NEW provider,
         provider = InMemoryMarketPriceProvider(Quotes(order)),
         NEW values,
         values = CalculatePositionBreakdowns(positions, provider)
  PROVE  /\ \A n \in DOMAIN positions : PricesOf(positions[n], provider) # {}
         /\ RunningTotal(0, [n \in DOMAIN values |-> values[n].unrealizedPnl])
              = UnrealizedPnl
<1> DEFINE N == Cardinality(DOMAIN openPositions)
           pnl == [id \in DOMAIN openPositions |->
                     CalculatePositionUnrealizedPnl(openPositions[id])]
           deltas == [n \in DOMAIN values |-> values[n].unrealizedPnl]
<1>1. N \in Nat /\ ids \in [1..N -> DOMAIN openPositions] /\ DOMAIN ids = 1..N
  BY DEF Lists
<1>2. ASSUME NEW n \in 1..N
      PROVE  PricesOf(positions[n], provider)
               = {openPositions[ids[n]].markPrice}
  <2>1. ids[n] \in DOMAIN openPositions
    BY <1>1
  <2>2. positions[n] = ValuationPosition(ids[n])
    BY <1>1
  <2>3. positions[n].id = ids[n]
    BY <2>2 DEF ValuationPosition
  <2>. QED
    BY <2>1, <2>3, QuotesAreFound DEF PricesOf
<1>3. DOMAIN positions = 1..N /\ DOMAIN values = 1..N
  BY <1>1 DEF CalculatePositionBreakdowns
<1>4. ASSUME NEW n \in 1..N
      PROVE  values[n].unrealizedPnl = pnl[ids[n]]
  <2> DEFINE mark == openPositions[ids[n]].markPrice
  <2>1. values[n] = ValuePosition(positions[n],
                      CHOOSE p \in PricesOf(positions[n], provider) : TRUE)
    BY <1>3 DEF CalculatePositionBreakdowns
  <2>2. (CHOOSE p \in {mark} : TRUE) = mark
    OBVIOUS
  <2>3. positions[n] = ValuationPosition(ids[n]) /\ ids[n] \in DOMAIN openPositions
    BY <1>1
  <2>4. values[n] = ValuePosition(ValuationPosition(ids[n]), mark)
    <3> HIDE DEF mark
    <3>1. PricesOf(positions[n], provider) = {mark}
      BY <1>2 DEF mark
    <3>. QED
      BY <2>1, <2>2, <2>3, <3>1, Zenon
  <2>. QED
    BY <2>3, <2>4, ValuesAgree
<1>5. deltas = [n \in 1..N |-> pnl[ids[n]]]
  BY <1>3, <1>4
<1>6. \A id \in DOMAIN openPositions : pnl[id] \in Int
  BY PnlIsInt DEF PortfolioTypeOK
<1>7. BookPnl(openPositions, DOMAIN openPositions)
        = SetSum(pnl, DOMAIN openPositions)
  BY PnlIsSum DEF PortfolioTypeOK
<1> HIDE DEF pnl, deltas
<1>8. TotalIs(0, deltas, SetSum(pnl, DOMAIN openPositions))
  BY <1>1, <1>5, <1>6, ListedSum DEF Lists
<1>9. RunningTotal(0, deltas) = UnrealizedPnl
  BY <1>7, <1>8, TotalIsRunningTotal, UnrealizedIsBookPnl
<1>. QED
  BY <1>2, <1>3, <1>9 DEF deltas

(* A valuation that can be made is the value in this shape.                *)
LEMMA ValuationMade ==
  ASSUME NEW trades, NEW positions, NEW provider, NEW values,
         values = CalculatePositionBreakdowns(positions, provider),
         \A n \in DOMAIN trades : ~Refused(trades[n]),
         \A n \in DOMAIN positions : PricesOf(positions[n], provider) # {},
         NEW balance, CalculateCash(InitialCapital, trades) = balance,
         NEW realized, CalculateRealizedPnl(trades) = realized,
         NEW unrealized,
         RunningTotal(0, [n \in DOMAIN values |-> values[n].unrealizedPnl])
           = unrealized
  PROVE  Valuate(InitialCapital, trades, positions, provider) =
           {[cashBalance    |-> balance,
             realizedPnl    |-> realized,
             unrealizedPnl  |-> unrealized,
             portfolioValue |-> balance + unrealized]}
<1>1. ~(InitialCapital < 0)
  BY CapitalAssumption
<1>. QED
  BY <1>1 DEF Valuate

(* A snapshot at the initial capital as its peak shows what is missing.    *)
LEMMA SnapshotShowsLoss ==
  ASSUME NEW trades, NEW positions, NEW provider, NEW value,
         Valuate(InitialCapital, trades, positions, provider) = {value},
         NEW worth \in Int, value.portfolioValue = worth
  PROVE  \E snapshot \in CreateEquitySnapshot(InitialCapital, trades,
                           positions, provider, InitialCapital) :
           /\ snapshot.value = value
           /\ snapshot.drawdown.lost = Max({0, InitialCapital - worth})
<1> DEFINE peak == Max({InitialCapital, value.portfolioValue})
           snapshot == [value    |-> value,
                        drawdown |-> IF peak > 0
                          THEN [lost |-> peak - value.portfolioValue,
                                of |-> peak]
                          ELSE [lost |-> 0, of |-> 1]]
<1>1. InitialCapital \in Int /\ InitialCapital > 0
  BY CapitalAssumption
<1>2. peak = IF InitialCapital >= worth THEN InitialCapital ELSE worth
  BY <1>1, MaxOfTwo
<1>3. Max({0, InitialCapital - worth}) =
        IF 0 >= InitialCapital - worth THEN 0 ELSE InitialCapital - worth
  BY <1>1, MaxOfTwo
<1>4. snapshot \in CreateEquitySnapshot(InitialCapital, trades, positions,
                                        provider, InitialCapital)
  BY DEF CreateEquitySnapshot
<1>5. /\ snapshot.value = value
      /\ snapshot.drawdown = IF peak > 0
                             THEN [lost |-> peak - worth, of |-> peak]
                             ELSE [lost |-> 0, of |-> 1]
  OBVIOUS
<1> HIDE DEF peak, snapshot
<1>6. peak > 0
  BY <1>1, <1>2
<1>7. snapshot.drawdown.lost = peak - worth
  BY <1>5, <1>6
<1>8. peak - worth = Max({0, InitialCapital - worth})
  BY <1>1, <1>2, <1>3
<1>. QED
  BY <1>4, <1>5, <1>7, <1>8

LEMMA ValuationMeaning ==
  ReplayInv /\ BooksInv /\ OnlyClosesRealize => ValuationAgreesWithEngine
<1> SUFFICES ASSUME ReplayInv, BooksInv, OnlyClosesRealize
             PROVE  ValuationAgreesWithEngine
  OBVIOUS
<1> DEFINE trades    == [n \in DOMAIN ledger |-> ValuationTrade(ledger[n])]
           ids       == SetToSeq(DOMAIN openPositions)
           positions == [n \in DOMAIN ids |-> ValuationPosition(ids[n])]
           value     == [cashBalance    |-> cash,
                         realizedPnl    |-> RunningTotal(0, RealizedPnls),
                         unrealizedPnl  |-> UnrealizedPnl,
                         portfolioValue |-> Equity]
<1>1. PortfolioTypeOK /\ IsFiniteSet(DOMAIN openPositions)
  BY DEF BooksInv
<1>2. Equity \in Int /\ Equity = cash + UnrealizedPnl
  BY <1>1, BookPnlType, UnrealizedIsBookPnl DEF PortfolioTypeOK, Equity
<1>3. /\ CalculateCash(InitialCapital, trades) = cash
      /\ CalculateRealizedPnl(trades) = RunningTotal(0, RealizedPnls)
      /\ \A n \in DOMAIN trades : ~Refused(trades[n])
  BY TradesAgree
<1>4. Lists(ids, DOMAIN openPositions)
  BY <1>1, SequenceLists
<1>5. ASSUME NEW order \in SetToSeqs(DOMAIN openPositions)
      PROVE  LET provider == InMemoryMarketPriceProvider(Quotes(order))
             IN  \E snapshot \in CreateEquitySnapshot(InitialCapital, trades,
                                   positions, provider, InitialCapital) :
                   /\ snapshot.value = value
                   /\ snapshot.drawdown.lost = Max({0, InitialCapital - Equity})
  <2> DEFINE provider == InMemoryMarketPriceProvider(Quotes(order))
             values == CalculatePositionBreakdowns(positions, provider)
  <2>1. Lists(order, DOMAIN openPositions)
    BY <1>1, OrderLists
  <2>2. /\ \A n \in DOMAIN positions : PricesOf(positions[n], provider) # {}
        /\ RunningTotal(0, [n \in DOMAIN values |-> values[n].unrealizedPnl])
             = UnrealizedPnl
    <3> HIDE DEF ids
    <3>. QED
      BY <1>1, <1>4, <2>1, PositionsAgree
  <2> HIDE DEF trades, ids, positions
  <2>3. Valuate(InitialCapital, trades, positions, provider) = {value}
    <3> HIDE DEF provider
    <3>. QED
      BY <1>2, <1>3, <2>2, ValuationMade
  <2>4. value.portfolioValue = Equity
    OBVIOUS
  <2> HIDE DEF value, provider
  <2>. QED
    BY <1>2, <2>3, <2>4, SnapshotShowsLoss DEF provider
<1>. QED
  BY <1>5 DEF ValuationAgreesWithEngine

LEMMA OnlyClosesRealizeInit == PortfolioInit => OnlyClosesRealize
BY DEF PortfolioInit, OnlyClosesRealize

LEMMA OnlyClosesRealizeAlways == Spec => []OnlyClosesRealize
<1>. QED
  BY OnlyClosesRealizeInit, OnlyClosesRealizeNext, TypeCorrect, PTL DEF Spec

(* Valuing the account from its trades, positions and marks gives the      *)
(* engine's own cash, profits and equity in every reachable state, in      *)
(* whatever order the quotes come, and the snapshot of it shows what the   *)
(* account is worth less than its capital.                                 *)
THEOREM ValuationAlwaysAgrees == Spec => []ValuationAgreesWithEngine
<1>. QED
  BY ValuationMeaning, ReplayAlways, BooksInvAlways, OnlyClosesRealizeAlways, PTL

=============================================================================
