# Zingmeric in TLA+

Models, model checks and proofs for the Zingmeric trading platform
(`src/src`, TypeScript). The project follows the money: the account that every
trade ends in, the simulated broker that trades it, the live brokers that talk
to an exchange, and step by step the engines that drive them.

Paths below are relative to `src/src` unless they start with `src/` or
`tests/` (the repository's test directory).

## 1. The system

| Part | State it keeps | Operations | Who calls it |
|---|---|---|---|
| Portfolio engine `portfolio/engine` | cash, open positions (a map), closed positions, ledger | openEquityPosition, closeEquityPosition, openDefinedRiskPosition, closeDefinedRiskPosition, markToMarket | paper broker, backtest execution |
| Paper broker `broker/paper` | orders, pending requests, fills, realized total, order counter | placeOrder, cancelOrder, markToMarket, processMarketQuotes | forward testing, users of the `Broker` interface |
| Live brokers `broker/zerodha`, `broker/upstox`, `broker/live` | orders, fills, position meta | placeOrder, cancelOrder, getPositions (all retried), recordFill | users of the `Broker` interface; the exchange's reports |
| Backtest execution `backtest/execution`, `risk/engine` | peak equity, mark metadata, trade ledger | executeSignal (one or several steps) | backtest session |
| Backtest session `backtest/engine` | pending market event, equity curve | handle(event), run | replay engine |
| Strategies `strategies` | the position each believes it has | evaluate(snapshot) | strategy engine |
| Event bus, replay `backtest/engine` | handler lists | subscribe, unsubscribe, publish, replay | backtest engine |
| Forward testing `forward-test` | sessions, feed cursor, metrics | startSession, runDaily | its clients |
| Equity curve `portfolio/service` | session peaks; snapshots in the database | recordSnapshot, recordSnapshotsBatch, clearSessionPeak | its clients |
| Market data import `market-data` | candles and chains in the database | importHistoricalCandles, importOptionChain, the job of many batches | jobs, scripts |
| Legacy backtests `backtest/simulation`, `backtest/portfolio`, `strategies/spreads/iron-condor-backtest.runner.ts` | cash, one position or spread, trades, equity curve | run, execute, openCreditSpread, closeCreditSpread | scripts, tests |
| Market data queries `market-data/service` | none | getNearestExpiryChain, getSpecificExpiryChain, getAtmStrikes, getByDeltaRange | its clients |
| Portfolio valuation `portfolio/valuation` | the quotes given to its provider | setPrice, valuate, createEquitySnapshot | its clients |
| Analytics, reports, API, observability, clients | none that decisions read | calculations, formatting, I/O | |

**How they interact.** Everything runs on one JavaScript event loop. A
synchronous method is atomic; the places where other work can run are the
`await`s. The portfolio engine and the paper broker have none, so what is hard
about them is long sequences of calls, methods that throw half-way through a
batch, and books that must agree with each other. The live brokers await the
exchange, so their calls interleave with each other and with reports of
executions, and an answer may be lost after it has taken effect. A backtest is
one synchronous run: the hard part is state kept twice, by the strategy and by
the account. Forward testing, the equity curve and the imports await a broker
or a database between reading a state and using it.

`PROJECT.json` lists each hazard at its line.

## 2. What is modelled

| Module | Models | State | Actions |
|---|---|---|---|
| `RunningTotals` | the total of a list of amounts from an opening balance | none | none |
| `PortfolioEngine` | `portfolio-engine.ts`, `margin-calculator.ts`, the position types | `cash`, `openPositions`, `closedPositions`, `ledger` | one operator per method |
| `PortfolioAccount` | callers that use the methods in any order | the engine's | `Trade`, `MarkToMarket` |
| `PortfolioValuation` | the services and the price provider of `portfolio/valuation`, over the account of `PortfolioAccount` | none | none |
| `OrderLifecycle` | the statuses every broker's orders go through (abstract) | `status`, `executions` | `Accept`, `Execute`, `Cancel` |
| `TradingCosts` | `trading-costs.ts` | none | none |
| `PaperBroker` | `paper-broker.ts`, `limit-order.matcher.ts`, over `PortfolioEngine` and `TradingCosts` | the engine's, the broker's maps and lists, and the loop of processMarketQuotes (`queue`, `quote`, `work`) | `PlaceLimitOrder`, `PlaceMarketOrder`, `RejectMarketOrder`, `CancelOrder`, `Mark`, `ProcessMarketQuotes`, `TakeQuote`, `FillPendingLimitOrder`, `SkipSettledOrder`, `AbortQuotes` |
| `LiveBroker` | `zerodha-broker.ts` (Upstox alike), `with-broker-retry.ts`, `live-broker.errors.ts`; the exchange, external | `call` (one record per call in flight), `orders`, `positionMeta`, `fills`, `exchange` | `StartPlaceOrder`, `RefuseOrder`, `StartCancelOrder`, `HandleError`, `Retry`, `RegisterOrder`, `MarkCancelled`, `RecordFill`, and the exchange's three |
| `RiskEngine` | `risk-engine.ts` | none | none |
| `OptionChains` | `option-chain.utils.ts` | none | none |
| `Strategies` | what the four strategies decide, over `OptionChains` | none | none |
| `BacktestExecution` | `backtest-execution.service.ts`, `backtest-trade-ledger.ts`, over `PortfolioEngine`, `TradingCosts`, `RiskEngine` | `peakEquity`, `positionMetadata`, `tradeLedger`, `riskConfig` | one operator per kind of step |
| `Backtest` | `backtest-session.handler.ts` under one sorted replay, over `BacktestExecution` and `Strategies` | `pendingMarket`, `strategyPosition`, the steps of the signal, `equityCurve`, `status` | `HandleMarket`, `HandleOptionChain`, `ExecuteSignalStep`, `FailSignalStep`, `RecordEquityPoint` |
| `EquityCurve` | `equity-curve.service.ts`, `prisma-equity-snapshot.repository.ts`, `calculateDrawdownSeries`; the database, external | `sessionPeaks`, `rows`, `call` (one record per call in flight) | `RecordSnapshot`, `RecordSnapshotsBatch`, `ResolvePeak`, `ResolveBatch`, `ClearSessionPeak`, the database's four, `Restart` |
| `EventBus` | `in-memory-event-bus.ts` | `typedHandlers`, `globalHandlers`, `entries`, `stack` (a frame per publish under way), `published` | `Subscribe`, `SubscribeAll`, `UnsubscribeTyped`, `UnsubscribeGlobal`, `Clear`, `Publish`, `CallTyped`, `CallGlobal`, `HandlerReturns`, `HandlerThrows`, `PublishReturns` |
| `ReplayEngine` | `replay-engine.ts`, `historical-data-loader.service.ts`, over `EventBus` | the bus's, with a frame per replay on the stack | `StartReplay`, `PublishNext`, `FinishReplay`, and the bus's calls as a replay meets them (`CallSubscriber`, `Returns`, `Throws`) |
| `ForwardTest` | `forward-test` (engine, execution service, feed, metrics), over an instance of `PaperBroker` and `Strategies` | the broker's, `series` and `cursor` of the feed, `strategyPosition`, `runs` (one record per call of runDaily), `metrics`, `results` | `StartRun`, `Skip`, `Decide`, `ExecuteNextStep`, `ProcessQuote`, `ApplyQuote`, `FailOnQuote`, `EndRun`, `PushMany`, `ResetFeed`, and other users' `PlaceClientOrder`, `CancelClientOrder` |
| `MarketDataImport` | `market-data.service.ts`, `option-chain.service.ts`, `option-chain-import.job.ts`, their validators and repositories; the database, external | `rows` of the database, `call` (one record per import), `reader` (one per query) | `StartImport`, `InstrumentNotFound`, `PrepareBatch`, `DatabaseFindsExisting`, `DatabaseCreatesMany`, `DatabaseFails`, `StartQuery`, `DatabaseFindsExpiry`, `DatabaseFindsRows` |
| `PerformanceMetrics` | the profit factor, win rate and counts of `performance-metrics.ts`, `backtest-performance-metrics.ts`, `trade-statistics.calculator.ts`, `backtest-analytics.service.ts` | none | none |
| `LegacyEvents` | `legacy-market-event.adapter.ts`, `convertLegacyEvents` of `unified-backtest.engine.ts`, sorting by time | none | none |
| `LegacyBacktest` | `candle-backtest.engine.ts` with `order-simulator.ts` and `portfolio-tracker.ts`; `iron-condor-backtest.runner.ts`; `portfolio-simulator.ts`; over `Strategies`, `TradingCosts`, `LegacyEvents`, `PerformanceMetrics` | the candles left, `cash`, `position`, `spread`, `openCredit`, `strategyPosition`, `trades`, `closedPositions`, `equityCurve` | `StartRun`, `ReplayCandle`, `ReplayCondorCandle`, `OpenCreditSpread`, `CloseCreditSpread` |

**Methods that throw.** An engine method checks everything before it changes
anything, so a call that throws is no step of the account. `...Allowed` is the
conjunction of a method's checks, and the callers that must know about the
exception use it: `RejectMarketOrder` and `AbortQuotes` are the two places
where the paper broker meets one, `FailSignalStep` the one where a backtest does.

**Numbers.** Prices, fees and cash are whole units instead of doubles. The one
division whose result is kept, the average price of a position, rounds down;
`BooksBalance` has a slack for it and nothing else does. Cost rates are whole
percents and each product is rounded down.

**Ids.** A position id is a triple instead of a string joined by colons, so two
different triples never collide; an order id is its number.

**The loop of processMarketQuotes** is cut into a step per quote and per order,
though nothing can run in between, to say what is left behind when a fill
throws. No other action is enabled until it ends.

**A backtest** is synchronous from end to end. It is cut into a step per event,
per execution step and per point of the equity curve because an execution step
may throw: the error ends the run with the steps before it in place and the
strategy's belief as it was when it gave the signal. What the replay yields is
any sorted sequence of market and chain events, with ties. `Strategies` keeps
optional values as sets of at most one element, so "no such quote" needs no
case of its own: an entry that lacks a leg is an empty set of entries. A fifth
strategy, `CustomStrategy`, stands for one a user passes to the engine; it
gives any of `CustomSignals` at any snapshot.

**The equity curve's awaits** separate four things that interleave with other
calls: reading the peak in memory, the database's reading of its own, raising
the peak in memory, and the statement that stores. Drawdowns are whole units of
the fourth decimal, rounded as the column rounds them. `origin`, `submitted`
and `orderly` are history: no action reads them but to carry them on.

**A forward test** awaits its feed and each order of a signal. `Decide` is what
lies between the answer of the feed and the first order: equity, signal and
order in one step, because nothing is awaited in between. The in-memory feed
answers at once and the paper broker too, so that few interleavings occur with
them; `MarketFeed` promises no such thing and the model allows them all. A run
in the phase `quoting` is in the middle of the synchronous call that ends it.
The records of its executions are the call's own, and an exception loses them
(`Failed`), whichever order of a composite signal it came from. `placed`, the
numbers of the orders a run has filled, is history: it tells the fills of a failed
run from those of others.

**The event bus** is synchronous too, but its handlers are anyone's code and may
call it: while they run, all its operations are enabled again. What is under way
is a stack of frames, one per publish and per replay, each with the position of
its loop. The loops run over arrays that handlers change: the array of global
handlers itself, which removals shift under the loop, and the array of the type
as it was found, which grows by subscriptions until an unsubscribe puts another
in its place. `Backtest` needs none of this: its one handler does not call
the bus, and all it takes from the replay is the order of the events, which
`ReplayedInOrder` gives.

**An import** is cut at its statements: a batch of the job is prepared in
memory, looked up in one or more statements and inserted in one or more, and
each may fail or be the last before the process ends. The payload not yet taken
into a batch, what is looked up and what is left to insert are fields of the
call's record. The database keeps the day of an expiry alone (a date column) and
a strike to two decimals (`ColumnStrike`, in units of `StrikeUnit`), while keys in
memory keep both as given. A filter is converted to a date for the expiry but
compares the strike as it is, so a lookup finds no row by a strike that the column
rounds (`KeepsStrike`). Bids and deltas, which no key holds, are whole units of their
columns. `origin`, and the `seen` of a call and of a query, are history. Queries
that find the nearest expiry first take two statements, the others one.

**Legacy backtests.** Three accounts that no run shares: `kind` picks one. A run
is cut per candle; the condor strategy's position survives a run, because the
strategy object is the caller's. The strategy of the candle run is any function
of the candles, so every signal is possible at every candle. Average prices are
in units of `1/AverageUnit` and the prices of the instance divide evenly.
`ConversionsAgree` looks at the conversions on every list a run is given.

**The exchange** gives out order numbers in order, executes or cancels an open
order once and for good and reports an execution once. It may turn a request
down or lose the answer, and then the client sees an error of either class.

## 3. What is checked

| Run | Instance | Shows |
|---|---|---|
| `account` | one strategy and instrument, a leg for shares or a spread and one for spreads, four ledger rows, boundary inputs, 202 thousand states | a ledger that replays cash, sizes and margins; overdraft by sale fees only; balanced books; the same worth to the valuation, whatever the order of quotes, as to the engine |
| `paper_broker` | seven request objects (limit and market, buys, sales, spreads, one unaffordable, one invalid), five batches of one or two quotes, four order numbers, 286 thousand states | statuses, pending requests, fills, ledger and realized total agree; a quote fills what it meets; the lifecycle is implemented |
| `live_broker` | two placements for one instrument by two strategies, one cancel, two attempts each, 1.1 million states | the map of orders follows the exchange through retries, lost answers and early reports; every call ends |
| `paper_crossed`, `live_not_found` | the instances above | two statements of the repository's tests that the program does not keep (section 6) |
| `backtest` | the four strategies and a user's, a permissive and a strict risk configuration, five chains (an entry, the profit target, the stop loss, an inverted spread, nothing), two prices, two timestamps, five events, 770 thousand states | reported trades are the account's; the peak of the risk check has seen every flat account; no open spread is lost by its strategy or held past an exit; the curve agrees with the account |
| `equity_curve` | three calls on two portfolios, four valid snapshots and an invalid one, three batches (out of order, a timestamp twice), a statement per row, 720 thousand states | drawdowns count every row stored when the recording began; recordings in order give the series analytics computes |
| `replay` | three subscriptions ever, calls four deep, two events of handlers and clients, an unsorted replay with a tie, one of a single candle and an empty one, 1.2 million states | whatever handlers do, each is called once and in order, and the ones still subscribed are; replays are complete, sorted, and leave nothing on the bus |
| `forward_test` | three calls of runDaily with each built-in strategy and a user's; feeds of an entry, the profit target and an inverted spread, which may be started over; a limit order of someone else that takes the cash of a later one; 772 thousand states | the executions of a run are the fills of its own orders, and what the metrics lack is the fills of runs that failed or are under way and of others; results add up; one-order strategies agree with the account, open calls stay covered; the variance is what sales cost |
| `market_data_import` | two imports of seven payloads (a chain of the job in batches of three with rows repeated within and across batches and an invalid one, three of the service with expiries on the day of the snapshot and with a time of day, and strikes of which the column makes one, an unknown instrument, two lists of candles), lookups and inserts of one row, one query of seven, 613 thousand states up to the symmetry of imports | what is counted as imported is what was stored; finished imports are complete; rows that no count shows were overtaken by another import, have a time of day or a finer strike than the column; queries miss nothing stored before them |
| `legacy_backtest` | all 512 lists of four candles (entry, profit, loss at the stop, no chain; a timestamp twice), every sequence of signals, two condor runs with one strategy, six trades of the simulator, 37 thousand states | cash, trades, holdings and the report's final capital agree; a run holds what its strategy manages; the calculators of report and analytics agree, but for a profit factor without losses (section 6); both conversions of events do |
| `backtest_naked_call` | the backtest with the covered call alone | a short call without shares (section 6) |

The bounds are enough for the interesting cases. Four ledger rows hold an open,
an averaging buy, a partial sale and the sale of the rest, and a spread opened
twice under one id; sales with fees above the proceeds and spread closes at
more than the cash occur. Four orders hold one refused in front of one that
could be filled, one object placed twice and an unaffordable one. Two placements
with two attempts give four numbers at the exchange, told or lost, with a
cancel of any of them or of an unknown number at any time. Five events are an
entry, a refused entry that the strategy believes in, an exit, a second entry
under the same id and its marking, with two chains on one candle, a chain
without a candle and candles without chains among them; a throwing step, a
drawdown block and an expiry are reached. Three recordings are enough for the
peak in memory to be overwritten by a lower one between two others and then be
read; batches of two and three rows with one row per statement are interrupted
everywhere. Four levels hold a replay inside a handler of another's event, or a
handler's publish inside a handler of a replayed event; three subscriptions
hold a removal in front of two others in the middle of a loop. Three runs hold
an entry, an exit and a second entry, in order or overlapping at any await,
with refused orders (an unaffordable one, a close at a negative cost, a close
of what is not open yet) among them. Two imports with one row per statement are
interrupted everywhere, overtake each other in the same rows and rerun what
another left half done; three is no new case, for a row is stored by one and
the others stand in the same relation to it. Four candles hold an entry and an
exit of a condor with one before or after, and two purchases with a partial
sale and the sale of the rest.

**Stopping.** The account, the paper broker and the bus always have a step, and
deadlock is checked there, and so does the equity curve. The other runs switch
it off because the system really ends: a finite number of live calls, imports
and queries, a replay that is over or failed, runs of a forward test, a bounded
number of legacy runs and trades.

**Fairness** is stated for `LiveBroker` only: each call is weakly fair in the
steps that continue it. The code after an await runs because the event loop
runs every continuation; `Retry` because the sleep is a timer; the exchange's
answer because an HTTP request ends with a response or an error. Nothing makes
a client call, an order execute or a fill be reported. `CallsEnd` needs no more
than that. The other components wait for a database or a broker once per step
and have no loop that could fail to end: their liveness would be that of the
database.

**A type invariant** is checked for the account (`PortfolioTypeOK`). The other
modules have none in their runs: a value of the wrong shape makes TLC stop with
an error in the properties that use it, and the type invariants of the paper and
live brokers, the backtest and the bus (`BrokerTypeOK`, `LiveTypeOK`,
`BacktestTypeOK`, `TypeOK`) are parts of the inductive invariants proved.

## 4. What is proved

Proofs are checked by TLAPS for every value of the constants that meets the
named assumptions (`LegAssumption`, `CapitalAssumption`, `InputAssumption`,
`RequestAssumption`, `IdentityAssumption`, `BrokerAssumption`,
`CostAssumption`, `CurveAssumption`, `CallAssumption`, `AttemptAssumption`,
`StrategyAssumption`, `BacktestAssumption`, `TypesAssumption`,
`ReplayAssumption`, `ImportAssumption`): any sets of strategies, instruments and
legs, any integer inputs, ledgers of any length; any calls, portfolios,
snapshots and batches; any strategy and chains; any types of events, inputs of
replays, and calls inside calls to any depth; any number of imports and queries,
of payloads of any length in batches of any size. Every bound of the runs is a
constant there, or a conjunct of a guard whose value no proof uses.

`PortfolioEngineProofs` first shows that the total of a list extended by an entry is
the old total plus the entry, without induction. The total is the last value of
a recursive function; `TotalIs(start, deltas, v)` says that such a function
exists and that every one ends at `v`. It holds for the empty list and `Append`
preserves it: a function for the longer list is built from one for the shorter
by one more value, and every function for the longer list restricts to one for
the shorter. A ledger grows by `Append` alone, so its invariant carries
`TotalIs` along. Sums over the set of open positions (`SetSum`) are treated the
same way: a sum exists for every finite set, is unique, and follows a set that
gains, loses or changes one member (`SetSumRemove`, `SetSumAgrees`).

It then has one lemma per method. The ledger properties are
not inductive alone: that a close cancels the margin of its open needs the
position's size and maximum loss to be those recorded, and that a row changes
the replay of one position only needs well-formed rows. The inductive
invariant `ReplayInv` is their conjunction with the type invariant; each
method is shown to append a row whose cash, size and margin are the changes it
makes (`RowApplied`), and `ReplayStep` does the rest for all methods at once.
`PortfolioAccountProofs` carries this to the specification.

`BooksBalance` bounds what rounding the average prices may have lost. Its
inductive form `BooksInv` says that the cash is the capital plus the profits
less the costs of open positions, the fees of what was bought and a slack, that
the slack is at most the square of the quantity ever bought, and that no position
holds more than was bought. A purchase then loses less than the size it rounds
over, which is at most what was bought before plus what is bought now, and that
is where the square comes from.

`ValuationAlwaysAgrees` compares two ways to value one account. The realized
cash and profit of the valuation are totals over its trades, those of the engine
totals over its ledger, and column by column the lists are the same; for the
profits because only closes realize one (`OnlyClosesRealize`, an invariant of its
own). The unrealized profit is a sum over positions in the order in which
they are listed; `ListedSum` says that every listing of a finite set has the
set's sum as its total. That the price asked for is the price marked, however
the quotes were ordered, is `QuotesAreFound`: a position's quote is found under
its id, though quotes of other positions overwrite the price of its instrument.

`PaperBrokerProofs` reuses the engine's lemmas through `TradeFor`. Its
invariants stand on each other: at most one fill per order needs statuses and
pending requests to agree, and that fills report the ledger needs both to grow
together. The refinement to `OrderLifecycle` maps a fresh number to `NEW`;
`FillPendingLimitOrder` and `PlaceMarketOrder` are `Execute`, and every step of
a quote that fills nothing is a stutter.

`QuotesFillWhatTheyMeet` is about the steps between the taking of a quote and
its last order. `QuoteInv` says that whatever is left of the work and still
pending is met by the quote, and that whatever is pending and met is in the work
or is passed over because an earlier order has the same request object. The code
goes through the pending orders as the Map lists them, in the order of their
numbers, so the proof needs that such a listing exists (`ByNumberLists`: elements
are ranked by how many are smaller) and that it holds every member. A request's
order is found by the identity of the object (`broker/paper/paper-broker.ts:142`),
which is why two requests with one `ref` must be one (`IdentityAssumption`).

`EquityCurveProofs` proves `DrawdownsSeeStoredRows`. The invariant `CurveInv`
says what each call in flight and each row knows: the peaks a call has read are
submitted values or zero, the one found covers every row that was stored when
the call began, and each record that waits to be stored is measured from a
covering peak. What they know only becomes weaker with time, because rows are
never changed and submitted values never forgotten (`Grow`), so `CallKept` and
`RowKept` serve every action that leaves a call alone. The peak in memory is
only known to be some submitted value, as concurrent calls overwrite it; that
is enough, for `PeakOf` takes the larger. That a finite set of integers has a
maximum is proved from the well-foundedness of strict inclusion.

`StoredDrawdownsAreTheSeries` is about recordings that do not overlap and come
in the order of their times. `OrderInv` says what order gives: at most one call
is in flight; what it has still to store is later than every row of its
portfolio and increasing; each drawdown, stored or waiting, is measured from the
highest value up to its own; and the peak in memory is zero or a value that is
stored or about to be. The drawdown series of analytics walks over the rows with
a running maximum, which then is that same value.

`LiveBrokerProofs` proves the three safety properties of the live brokers. Alone
they say nothing of calls in flight; `LiveInv` adds that a placement that was
answered holds the number the exchange gave to it, which no order has yet, that a
number the exchange told is registered or held by such a placement, and that a
cancel on its way names a registered order, which the exchange has cancelled
when the answer is good. The exchange executes or cancels an order for good, so
this stays true while an answer waits for its continuation.

`BacktestProofs` takes the engine's lemmas to a run of a backtest. `ReplayedInv`
joins the ledger's invariant with `TradesReportLedger` and
`PeakSeesFlatAccounts`: a step appends one row and the trade that reports it, or
throws and leaves both. A flat account can only come about by a step, and the
next step raises the peak before it does anything else. `BacktestInv` adds
`CurveAgreesWithAccount`, which relates the last point to an account that has
not moved since; it needs the sum over open positions.

`SpreadsAreManaged` relates the account to what the strategy believes.
They agree between events only, so `ManagedInv` says which phase the steps of
a signal are in: about to open the spread the strategy already believes in, about to
close the spread it has already forgotten, or about to close the shares after
the spread is gone; and that a built-in strategy never has more than one spread
open, the one of its own id. `DueExitsAreTaken` follows an open spread through
snapshots: at the one it was opened at, its price is its credit, which is due for
no exit, and at each later one the strategy has asked. It has two
hypotheses. `StrikesIdentifyQuotes`: a chain quotes a strike once on each side.
The unique key of stored quotes has underlying, time, expiry, strike and type
(`src/prisma/schema.prisma:167`); a chain that quoted a strike twice could be
entered at one price and marked at the other. `ExitsApart`: the profit target is
above zero percent and the stop above the credit, as in every default
configuration (`strategies/equity/covered-call.types.ts:9` and the like).
The run's chains and configuration satisfy both.

`ReplayEngineProofs` is about handlers that call the bus while it publishes, on a
stack of any depth. `BusInv` says, of the lists, that they are ordered by the
numbers of subscriptions; of each publish under way (`LoopOK`), that whatever it
has called comes before what is ahead of its position, and that whoever was
subscribed when it began has been called, is gone, is still ahead or may be
skipped; of each replay (`ReplayOK`), that its events are sorted and, between two
of them, that every subscriber has handled all so far, or, while one is
published, that a subscriber has handled it if and only if the publish above it
on the stack has called it; of replays together, that they share no
subscriptions (`Apart`) and that nothing on the bus is a replay's that is not
under way (`NoneLeft`). The operations that handlers call change the lists
under all loops at once: `HandlersMove` and `LoopMoves` say what may happen to a
list and to a loop over it, and `StackKept` that a stack to which no more
happens keeps its invariant, so that each operation only shows what it moves.
The operations of the loops change the top of the stack alone. `Without`
(a recursive function over the list) is shown to keep the order, to remove
exactly those gone and to leave ahead what was ahead, and `MergeAndSort` to
return a sorted list: its CHOOSE has a value because the elements can be ranked
by how many come before them. Both go by induction on sets, from the
well-foundedness of the order of the naturals (`NaturalsByStep`), which needs no
theorem with an operator as parameter.

`MarketDataImportProofs` proves all four properties of imports and queries.
`ImportOK` is the invariant of one import against what the database holds
(`stored`) and who stored it: every valid row of the request is stored, or still
ahead of the import (in the payload, among what is looked up, or among the
records to insert); `imported` is the number of rows stored in its name; each
row of the request is counted once or still pending, and where the counts fall
short some row was stored by another import after this one began (`Late`) or
some row has a key that its columns do not hold (`MisKeyed`), by an expiry with
a time of day or a strike with more decimals. That what is stored comes back as
it was stored takes both conversions to be idempotent (`DateOfType`,
`ColumnStrikeType`). Of a step of another import the proof uses only that it
stores new rows in its own name (`OthersStore`), so that an import's invariant
is shown once against its own steps and once against anyone else's. An insert is
shown to store each identity once, whichever rows of the batch share one
(`RowsInserted`). `ReadOK` is the invariant of a query: nothing that was stored
when it began is nearer than the expiry it has found, and what it returns
contains what was stored then, or has reached its limit.

Only model-checked:

- The five invariants of `ForwardTest` and `CashBalancesWithTrades`,
  `RunHoldsWhatStrategyManages` and `ConversionsAgree` of `LegacyBacktest`: not
  attempted. The first are compositions of modules proved above and need
  their lemmas once more for an instance of the broker among overlapping runs.
- `CalculatorsAgree`: it compares folds of the library over lists, of which no
  step-by-step fact can be stated without induction theorems that take an
  operator.
- `CallsEnd`, because liveness is out of this prover's reach.

## 5. What is not modelled

- Timestamps, text, metrics, tracing, logging and HTTP; the database and cache
  clients; the live broker factory, which picks a constructor.
- `getPositions` and `getPnlSummary` of the live brokers only read; mappers copy
  fields.
- CAGR, the ratios of Sharpe and Sortino, the figures of drawdown and of the
  equity curve's metrics: floating point over finished runs.
- Storing, loading and exporting reports; of the analytics services, and the
  routes above them, what parses, queries and formats.
- Of portfolio valuation, the checks of the portfolio id and the timestamp.
  Options, futures and the contract multiplier are in its operators, but the
  account that is valued holds none.
- The simulator's marks and the legacy signal engine only read.
- Of an imported row, bid and delta stand for the optional fields; the values a
  query returns are those stored, so a quote is the key of its row.

## 6. Where code and statements part

- `tests/broker/paper-broker.test.ts:117` says limit orders fill when quotes
  cross their limit; one order the account refuses stops every batch in front
  of the others (`paper_crossed`).
- `tests/broker/zerodha-broker.test.ts:198` says cancelling an unknown order is
  an `OrderNotFoundError`; with `502`, `503` or `429` in the id it is retried
  and becomes another error (`live_not_found`).
- `src/rules.md:143` forbids naked short calls; a covered call whose stock leg
  the risk engine turns down sells its call all the same
  (`backtest_naked_call`).

Known from reading, kept as the code has it, and not stated as properties:

- The covered call closes its shares under an id without a leg group, which no
  position has (`src/PROJECT_REVIEW.md:183`): the shares stay, and the next
  covered call averages into them.
- An open that the risk engine turns down leaves the strategy believing in a
  position (`src/PROJECT_REVIEW.md`, strategy state). `OpenSpreadIsManaged`
  states the other direction, which holds.
- Fees of spreads are reported in the trades and never leave the account, with
  the backtest (`TradeReportsRow`) and with the paper broker alike.
- The peak that drawdowns are measured from is refreshed only when a step is
  executed, so a peak passed on a day of `HOLD` is missed.
- At expiry the risk-based bull put spread closes at zero cost when the chain
  has lost its strikes.
- Recorded drawdowns are measured from the highest value of the portfolio at
  any time, later ones included, so a row recorded late differs from the
  drawdown series; `StoredDrawdownsMatchSeries` is about recordings in order.
  Below zero a higher peak even gives a smaller drawdown.
- A recording that fails to store its row has raised the peak in memory.
- A global handler that unsubscribes while the bus publishes moves the next one
  into its place, which the loop has passed: it misses the event.
  `SubscribedAreCalled` states exactly this exception; handlers of one type are
  never missed.
- An event that a handler publishes reaches the handlers that are still to be
  called for the outer event before the outer event does.
- In a forward test a strategy survives a refused order, as the runs do. A close
  at a negative cost (an inverted spread) is refused for good, the strategy
  forgets the spread, and its next entry is refused because the spread is still
  open. `BeliefIsTheAccounts` is therefore about runs whose orders were taken.
- Overlapping runs of a covered call: the second closes what the first has not
  opened yet and is refused, the first then opens a call that the strategy does
  not know of. It stays covered (`CallsStayCovered`).
- A forward test expects no profit from the shares of a covered call, because it
  looks them up under the id of `src/PROJECT_REVIEW.md:183`, while their sale,
  which names no position, succeeds; so all their profit shows as variance.
- `slippageCost` counts the slippage of a fill twice, by its price and by its
  own figure.
- A run of a forward test marks all shares of the account, of other instruments
  too, at its own snapshot, and one that awaited long at an older price
  (`forward-testing.engine.ts:145`).
- Equity is cash plus unrealized profit: the credit of a spread counts in both
  when it is open, the cost of shares in neither.
- A limit order of the paper broker fills at its limit plus slippage when costs
  are included, the default; `tests/broker/limit-order.matcher.test.ts:21` says
  "uses the limit price as the simulated fill price" of a function that no code
  calls. `FillsReportLedger` states that the fill at least says what was booked.
- A spread's mark metadata is removed when it closes; one that outlived its
  spread would price the next of that id by other strikes
  (`backtest-execution.service.ts:153`).
- A chain row whose expiry is the midnight of the snapshot's own day is rejected
  as expired (`option-chain.validator.ts:20`), though `findNearestExpiryDate`
  would take that day's chain.
- A row whose expiry has a time of day, or whose strike has more than two
  decimals, is never recognised as stored; the unique key drops it, and no count
  of the result shows it. Two such strikes of one chain may become one row.
- After a lost answer a placement is retried without an idempotency key, so the
  exchange may hold several orders for it. Two strategies in one instrument
  overwrite each other's entry in `positionMeta`, whose key has no strategy.
- `FilledForGood` holds because the exchange's answer to a cancel is final; the
  broker itself writes `CANCELLED` over whatever status it finds.
- A composite signal of a forward test whose later order is refused leaves the
  fills of the earlier ones in the account and in no record, metric or result;
  so does any run whose quote fills an order that is refused.
- A history without losses has the profit factor `Infinity` in the report and
  null in analytics (`src/PROJECT_REVIEW.md:749` warns of such drift);
  `CalculatorsAgree` states that they part there and nowhere else.
- Of rows with one key the last of a batch is kept, but the first of two
  batches: what is stored depends on where the batches are cut.
- `findBySymbol` takes any active instrument of a symbol, while symbols are
  unique per exchange only; the batches of one job may go to different ones.
- A chain that is imported half is visible to queries. The nearest chain may be
  answered without quotes where the other queries report an error.
- The adapter pairs a chain with the market event before it, whatever their
  times; two candles of one timestamp exchange their chains when the engine
  sorts them. `ConversionsAgree` is about lists without such a pair.
- A condor strategy object that is used for a second run brings its position
  along; the run holds nothing and skips the close
  (`RunHoldsWhatStrategyManages` states exactly this exception). Of candles with
  one timestamp the condor run evaluates the last one twice.
- Fees of purchases appear in no realized profit of the candle run, so the
  profits of a report add up to more than its final capital says.
- The equity of the condor run and of the simulator counts the credit of an open
  spread twice, in cash and as unrealized profit.

## 7. Plan

Done: every component that keeps state a decision reads, its composition with
the components it calls, and the theorems of section 4. Left are proofs, in
this order:

1. `ForwardTest`: `ExecutionsAreFills` and `CallsStayCovered`, over the lemmas of
   `PaperBrokerProofs`.
2. `LegacyBacktest`: `CashBalancesWithTrades` and `RunHoldsWhatStrategyManages`.
