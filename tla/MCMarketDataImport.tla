------------------------- MODULE MCMarketDataImport -------------------------
(***************************************************************************)
(* Days of 4 units; the snapshot is taken within the second day.  Imports  *)
(* overlap in rows, repeat rows within a batch and across batches of the   *)
(* job, hold invalid rows, expiries with and without a time of day, on the *)
(* day of the snapshot too, and strikes between two of the column's.       *)
(***************************************************************************)
EXTENDS MarketDataImport, TLC

Quote(expiryDate, strike, type, bid, delta) ==
  [snapshotAt |-> 5, expiryDate |-> expiryDate, strikePrice |-> strike,
   optionType |-> type, bid |-> {bid}, delta |-> {delta}]

Unpriced(expiryDate, strike, type) ==
  [snapshotAt |-> 5, expiryDate |-> expiryDate, strikePrice |-> strike,
   optionType |-> type, bid |-> {}, delta |-> {}]

Chain(by, symbol, quotes) ==
  [by |-> by, table |-> "option chains", of |-> symbol, rows |-> quotes]

DayOf(timestamp, low, close, high) ==
  [timestamp |-> timestamp, open |-> low, high |-> high, low |-> low,
   close |-> close]

SomePayloads ==
  { Chain("job", "NIFTY",
      << Quote(12, 110, "CE", 1, 30), Quote(12, 100, "CE", 2, 50),
         Quote(12, 110, "CE", 3, 40), Quote(12, 100, "CE", 4, 60),
         Unpriced(8, 90, "PE"), Quote(12, 90, "PE", -1, 20) >>),
    Chain("service", "NIFTY",
      << Quote(12, 110, "CE", 5, 30), Quote(4, 110, "CE", 6, 30),
         Quote(12, 120, "CE", 7, 20), Quote(12, 120, "CE", 8, 10) >>),
    Chain("service", "NIFTY",
      << Quote(14, 110, "CE", 9, 50), Quote(13, 110, "CE", 10, 60),
         Quote(6, 90, "PE", 11, 40) >>),
    Chain("service", "NIFTY",
      << Quote(12, 112, "CE", 12, 50), Quote(12, 105, "CE", 13, 40),
         Quote(12, 104, "CE", 14, 40) >>),
    Chain("job", "FINNIFTY", << Unpriced(12, 110, "CE") >>) }
  \cup
  { [by |-> "service", table |-> "1d", of |-> "nifty", rows |-> candles] :
      candles \in {<<DayOf(8, 1, 3, 2), DayOf(4, 1, 2, 3), DayOf(8, 0, 2, 4)>>,
                   <<DayOf(8, 1, 2, 4), DayOf(8, 1, 3, 4), DayOf(12, 1, 2, 3)>>} }

Query(kind, expiryDate, optionType, price, count) ==
  [kind |-> kind, of |-> "NIFTY", snapshotAt |-> 5,
   expiryDate |-> expiryDate, optionType |-> optionType, price |-> price,
   strikeCount |-> count, minDelta |-> 20, maxDelta |-> 50, limit |-> count]

SomeQueries ==
  { Query("nearest", {}, {}, 1, 1), Query("nearest", {}, {"CE"}, 1, 1),
    Query("specific", {12}, {}, 1, 1), Query("atm", {}, {}, 107, 0),
    Query("atm", {}, {"CE"}, 115, 2), Query("delta", {}, {}, 1, 2),
    Query("delta", {12}, {"CE"}, 1, 1) }

SomeInstruments ==
  { [id |-> "nifty", symbol |-> "NIFTY", isActive |-> TRUE],
    [id |-> "nifty-old", symbol |-> "NIFTY", isActive |-> FALSE],
    [id |-> "banknifty", symbol |-> "BANKNIFTY", isActive |-> TRUE] }

Symmetries == Permutations(Imports)

=============================================================================
