-------------------------- MODULE MarketDataImport --------------------------
(***************************************************************************)
(* The imports and queries of src/src/market-data: importHistoricalCandles,*)
(* importOptionChain, the job that imports a chain in batches, and the     *)
(* queries of stored chains.  An import looks up which rows are stored,    *)
(* then inserts the others; every lookup and every insert is a statement   *)
(* of its own, awaited, so imports and queries interleave between them,    *)
(* and an import that fails leaves what it has stored.                     *)
(*                                                                         *)
(* The database is external: a statement takes effect at once or fails, a  *)
(* unique key keeps the first row, the rows of a statement go in in order, *)
(* and a chain's columns do not hold all that a row may give: expiryDate   *)
(* the day alone, strikePrice two decimals (prisma/schema.prisma).         *)
(***************************************************************************)
EXTENDS Integers, FiniteSets, SequencesExt

CONSTANTS
  Imports,           \* calls of an import
  Readers,           \* calls of a query
  Payloads, Queries, \* what they are called with
  Instruments,       \* the table of instruments
  JobBatchSize, LookupBatchSize, ChainBatchSize, CandleBatchSize,
  Day,               \* in units of time
  StrikeUnit         \* of the strikePrice column, in units of strikes

(* Prices and deltas are given or not: sets of at most one. *)
Optional == {S \in SUBSET Int : Cardinality(S) <= 1}

ChainRow ==
  [snapshotAt : Nat, expiryDate : Nat, strikePrice : Int,
   optionType : {"CE", "PE"}, bid : Optional, delta : Optional]

Candle ==
  [timestamp : Nat, open : Int, high : Int, low : Int, close : Int]

(* of is the symbol of a chain's underlying, the instrument of candles; a  *)
(* chain is imported by the job, or by one call of the service.            *)
Payload ==
  [by : {"job", "service"}, table : {"option chains"}, of : STRING,
   rows : Seq(ChainRow)]
  \cup [by : {"service"}, table : {"1m", "1d"}, of : STRING,
        rows : Seq(Candle)]

(* What a query gives: an expiry and an option type or not; the fields that*)
(* its kind does not use are there all the same.                           *)
ChainQuery ==
  [kind : {"nearest", "specific", "atm", "delta"}, of : STRING,
   snapshotAt : Nat, expiryDate : Optional,
   optionType : SUBSET {"CE", "PE"}, price : Int, strikeCount : Int,
   minDelta : Int, maxDelta : Int, limit : Nat]

SupportedOptionUnderlyings == {"NIFTY", "BANKNIFTY", "FINNIFTY"}

ASSUME ImportAssumption ==
  /\ Payloads \subseteq Payload
  /\ Queries \subseteq ChainQuery
  /\ {JobBatchSize, LookupBatchSize, ChainBatchSize, CandleBatchSize, Day,
      StrikeUnit}
       \subseteq Nat \ {0}
  /\ \A i \in Instruments : DOMAIN i = {"id", "symbol", "isActive"}

VARIABLES
  rows,     \* [instrumentId, table, key] -> the row stored under that key
  call,     \* import -> its state
  reader,   \* query -> its state
  origin    \* of each row: the import that stored it

vars == <<rows, call, reader, origin>>

Unused == [phase |-> "unused"]

Init ==
  /\ rows = [key \in {} |-> {}]
  /\ call = [c \in Imports |-> Unused]
  /\ reader = [r \in Readers |-> Unused]
  /\ origin = [key \in {} |-> {}]

-----------------------------------------------------------------------------
(* Instruments *)

FindBySymbol(symbol) ==
  {i.id : i \in {i \in Instruments : i.symbol = symbol /\ i.isActive}}

FindById(id) == {i.id : i \in {i \in Instruments : i.id = id}}

FindInstrument(payload) ==
  IF payload.table = "option chains" THEN FindBySymbol(payload.of)
                                     ELSE FindById(payload.of)

-----------------------------------------------------------------------------
(* Validation and keys in memory *)

ValidateOptionChainRow(row) ==
  /\ row.expiryDate >= row.snapshotAt
  /\ row.strikePrice > 0
  /\ \A price \in row.bid : price >= 0

ValidateCandle(candle) ==
  /\ candle.open >= 0 /\ candle.close >= 0
  /\ candle.high >= 0 /\ candle.low >= 0
  /\ candle.high >= candle.low
  /\ candle.high >= candle.open /\ candle.high >= candle.close
  /\ candle.low <= candle.open /\ candle.low <= candle.close

IsChainRow(row) == "strikePrice" \in DOMAIN row

Valid(row) ==
  IF IsChainRow(row) THEN ValidateOptionChainRow(row) ELSE ValidateCandle(row)

OptionChainRowKey(row) ==
  <<row.snapshotAt, row.expiryDate, row.strikePrice, row.optionType>>

RowKey(row) ==
  IF IsChainRow(row) THEN OptionChainRowKey(row) ELSE <<row.timestamp>>

ValidIn(batch) == {n \in DOMAIN batch : Valid(batch[n])}

(* Of the valid rows with one key the last is kept. *)
Kept(batch) ==
  {batch[n] : n \in {n \in ValidIn(batch) :
     \A m \in ValidIn(batch) : m > n => RowKey(batch[m]) # RowKey(batch[n])}}

Sooner(row, other) ==
  IF ~IsChainRow(row) THEN row.timestamp < other.timestamp
  ELSE \/ row.snapshotAt < other.snapshotAt
       \/ /\ row.snapshotAt = other.snapshotAt
          /\ \/ row.expiryDate < other.expiryDate
             \/ /\ row.expiryDate = other.expiryDate
                /\ \/ row.strikePrice < other.strikePrice
                   \/ /\ row.strikePrice = other.strikePrice
                      /\ row.optionType = "CE" /\ other.optionType = "PE"

(* The rows of a set, in order. *)
InOrder(S) ==
  CHOOSE s \in [1..Cardinality(S) -> S] :
    \A m, n \in DOMAIN s : m < n => Sooner(s[m], s[n])

Deduplicate(batch) == InOrder(Kept(batch))

-----------------------------------------------------------------------------
(* Keys in the database *)

DateOf(time) == time - (time % Day)

(* The nearest strike of the column, from the half upwards. *)
ColumnStrike(strike) ==
  ((2 * strike + StrikeUnit) \div (2 * StrikeUnit)) * StrikeUnit

DatabaseKey(row) ==
  IF IsChainRow(row)
  THEN OptionChainRowKey([row EXCEPT !.expiryDate = DateOf(@),
                                     !.strikePrice = ColumnStrike(@)])
  ELSE RowKey(row)

Identity(instrumentId, payload, row) ==
  [instrumentId |-> instrumentId, table |-> payload.table,
   key |-> DatabaseKey(row)]

(* A filter is converted to a date for the expiry, and not at all for the  *)
(* strike: it finds no row by a strike that the column cannot hold.        *)
KeepsStrike(row) ==
  IsChainRow(row) => ColumnStrike(row.strikePrice) = row.strikePrice

Identities(c, records) ==
  {Identity(call[c].instrumentId, call[c].payload, records[n]) :
     n \in {n \in DOMAIN records : KeepsStrike(records[n])}}

-----------------------------------------------------------------------------
(* Imports.  A call's rest is the payload not yet taken into a batch; of a *)
(* batch, unique is what is not yet looked up, and existing what has been  *)
(* found; records is what is not yet inserted.                             *)

InFlight ==
  {c \in Imports : call[c].phase \in {"preparing", "looking up", "inserting"}}

StartImport(c, payload) ==
  /\ call[c] = Unused
  /\ payload.rows # <<>>
  /\ payload.table = "option chains" =>
       payload.of \in SupportedOptionUnderlyings
  /\ call' = [call EXCEPT ![c] =
       [phase |-> "preparing", payload |-> payload, rest |-> payload.rows,
        instrumentId |-> "", unique |-> <<>>, looked |-> 0, existing |-> {},
        records |-> <<>>, imported |-> 0, skippedDuplicates |-> 0,
        skippedInvalid |-> 0, seen |-> DOMAIN rows]]
  /\ UNCHANGED <<rows, reader, origin>>

AtMost(size, length) == IF size < length THEN size ELSE length

From(records, n) == SubSeq(records, n, Len(records))

BatchLength(import) ==
  IF import.payload.by = "job" THEN AtMost(JobBatchSize, Len(import.rest))
                               ELSE Len(import.rest)

LookupLength(import) ==
  LET left == Len(import.unique) - import.looked
  IN  IF import.payload.table = "option chains"
      THEN AtMost(LookupBatchSize, left) ELSE left

InsertLength(import) ==
  IF import.payload.table = "option chains"
  THEN AtMost(ChainBatchSize, Len(import.records))
  ELSE AtMost(CandleBatchSize, Len(import.records))

(* What is left of a batch when its last statement has returned: the next  *)
(* batch of the job, or the result.                                        *)
EndBatch(import) ==
  [import EXCEPT
     !.phase = IF import.rest = <<>> THEN "done" ELSE "preparing",
     !.unique = <<>>, !.looked = 0, !.existing = {}, !.records = <<>>]

(* The instrument is found, and the batch made ready to be looked up. *)
PrepareBatch(c) ==
  /\ call[c].phase = "preparing"
  /\ \E id \in FindInstrument(call[c].payload) :
       LET import == call[c]
           size   == BatchLength(import)
           batch  == SubSeq(import.rest, 1, size)
           valid  == Cardinality(ValidIn(batch))
           unique == Deduplicate(batch)
           prepared ==
             [import EXCEPT
                !.phase = "looking up", !.instrumentId = id,
                !.rest = From(@, size + 1), !.unique = unique,
                !.skippedInvalid = @ + Len(batch) - valid,
                !.skippedDuplicates = @ + valid - Len(unique)]
       IN  call' = [call EXCEPT ![c] =
             IF unique = <<>> THEN EndBatch(prepared) ELSE prepared]
  /\ UNCHANGED <<rows, reader, origin>>

InstrumentNotFound(c) ==
  /\ call[c].phase = "preparing"
  /\ FindInstrument(call[c].payload) = {}
  /\ call' = [call EXCEPT ![c].phase = "failed"]
  /\ UNCHANGED <<rows, reader, origin>>

(* Mutation: what an earlier lookup of the batch found is forgotten. *)
ExistingOfLastLookup(import, found) == {key.key : key \in found}

ExistingAfter(import, found) == import.existing \cup {key.key : key \in found}

(* Mutation: a chain that is stored in part is taken for stored. *)
RowsUnlessSomeExist(unique, existing) ==
  IF existing = {} THEN unique ELSE <<>>

(* The rows to insert.  A key found in the database has no time of day and *)
(* a strike of the column, so it never equals that of a row which has not. *)
RowsToInsert(unique, existing) ==
  InOrder({row \in Range(unique) : RowKey(row) \notin existing})

LookedUp(import, found) ==
  LET looked   == import.looked + LookupLength(import)
      existing == ExistingAfter(import, found)
      records  == RowsToInsert(import.unique, existing)
      prepared == [import EXCEPT !.phase = "inserting", !.records = records,
                     !.skippedDuplicates = @ + Len(import.unique) - Len(records)]
  IN  IF looked < Len(import.unique)
      THEN [import EXCEPT !.looked = looked, !.existing = existing]
      ELSE IF records = <<>> THEN EndBatch(prepared) ELSE prepared

DatabaseFindsExisting(c) ==
  /\ call[c].phase = "looking up"
  /\ LET import == call[c]
         batch  == SubSeq(import.unique, import.looked + 1,
                          import.looked + LookupLength(import))
         found  == Identities(c, batch) \cap DOMAIN rows
     IN  call' = [call EXCEPT ![c] = LookedUp(import, found)]
  /\ UNCHANGED <<rows, reader, origin>>

(* The records a statement stores: their keys are free, and of equal ones  *)
(* the first is stored.                                                    *)
Fresh(c, records) ==
  LET key(n) == Identity(call[c].instrumentId, call[c].payload, records[n])
  IN  {n \in DOMAIN records : /\ key(n) \notin DOMAIN rows
                              /\ \A m \in 1..(n - 1) : key(m) # key(n)}

Stores(c, records) ==
  LET import == call[c]
      fresh  == Fresh(c, records)
      key(n) == Identity(import.instrumentId, import.payload, records[n])
      keys   == {key(n) : n \in fresh}
      row(k) == records[CHOOSE n \in fresh : key(n) = k]
  IN  /\ rows' = [k \in DOMAIN rows \cup keys |->
                    IF k \in keys THEN row(k) ELSE rows[k]]
      /\ origin' = [k \in DOMAIN rows \cup keys |->
                      IF k \in keys THEN c ELSE origin[k]]

(* Mutation: the rows given to the database are counted. *)
GivenCount(c, records) == Len(records)

(* What the database reports: the rows it stored. *)
StoredCount(c, records) == Cardinality(Fresh(c, records))

DatabaseCreatesMany(c) ==
  /\ call[c].phase = "inserting"
  /\ LET import  == call[c]
         size    == InsertLength(import)
         batch   == SubSeq(import.records, 1, size)
         created == [import EXCEPT !.records = From(@, size + 1),
                                   !.imported = @ + StoredCount(c, batch)]
     IN  /\ Stores(c, batch)
         /\ call' = [call EXCEPT ![c] =
              IF created.records = <<>> THEN EndBatch(created) ELSE created]
  /\ UNCHANGED reader

(* A statement fails, or the process ends: what is stored stays. *)
DatabaseFails(c) ==
  /\ c \in InFlight
  /\ call' = [call EXCEPT ![c].phase = "failed"]
  /\ UNCHANGED <<rows, reader, origin>>

-----------------------------------------------------------------------------
(* Queries.  The nearest chain and the at-the-money strikes are read in    *)
(* two statements: the expiry, then its rows.                              *)

RefusedQuery(q) ==
  \/ q.kind = "atm" /\ q.price <= 0
  \/ q.kind = "delta" /\ q.minDelta > q.maxDelta

StartQuery(r, q) ==
  /\ reader[r] = Unused
  /\ ~RefusedQuery(q)
  /\ q.of \in SupportedOptionUnderlyings
  /\ \E id \in FindBySymbol(q.of) :
       reader' = [reader EXCEPT ![r] =
         [phase |-> IF q.kind \in {"nearest", "atm"} THEN "finding expiry"
                                                     ELSE "finding rows",
          query |-> q, instrumentId |-> id, expiryDate |-> q.expiryDate,
          quotes |-> {}, seen |-> DOMAIN rows]]
  /\ UNCHANGED <<rows, call, origin>>

SnapshotAt(key) == key.key[1]
ExpiryDate(key) == key.key[2]
StrikePrice(key) == key.key[3]
OptionType(key) == key.key[4]

(* The keys, of those in a set, of a query's underlying and snapshot. *)
SnapshotRows(keys, query, instrumentId) ==
  {key \in keys : /\ key.table = "option chains"
                  /\ key.instrumentId = instrumentId
                  /\ SnapshotAt(key) = query.snapshotAt}

(* Mutation: the order is descending. *)
FarthestExpiryDate(keys, query, instrumentId) ==
  LET expiries == {ExpiryDate(key) : key \in SnapshotRows(keys, query, instrumentId)}
  IN  {d \in expiries : \A e \in expiries : e <= d}

FindNearestExpiryDate(keys, query, instrumentId) ==
  LET expiries == {d \in {ExpiryDate(key) :
                            key \in SnapshotRows(keys, query, instrumentId)} :
                     d >= DateOf(query.snapshotAt)}
  IN  {d \in expiries : \A e \in expiries : d <= e}

DatabaseFindsExpiry(r) ==
  /\ reader[r].phase = "finding expiry"
  /\ LET nearest == FindNearestExpiryDate(DOMAIN rows, reader[r].query,
                                          reader[r].instrumentId)
     IN  reader' = [reader EXCEPT ![r] =
           IF nearest = {} THEN [@ EXCEPT !.phase = "not found"]
           ELSE [@ EXCEPT !.phase = "finding rows", !.expiryDate = nearest]]
  /\ UNCHANGED <<rows, call, origin>>

(* The expiry and the option type are given or not. *)
FindBySnapshotAndExpiry(keys, read) ==
  {key \in SnapshotRows(keys, read.query, read.instrumentId) :
     /\ \A d \in read.expiryDate : ExpiryDate(key) = DateOf(d)
     /\ \A t \in read.query.optionType : OptionType(key) = t}

Distance(strike, price) ==
  IF strike >= price THEN strike - price ELSE price - strike

(* Of strikes at one distance the lower one, met first, comes first. *)
NearestStrikes(strikes, price, count) ==
  LET before(t, s) == \/ Distance(t, price) < Distance(s, price)
                      \/ Distance(t, price) = Distance(s, price) /\ t < s
  IN  {s \in strikes :
         Cardinality({t \in strikes : before(t, s)}) < Max({count, 1})}

FindAtmStrikes(keys, read) ==
  LET chain   == FindBySnapshotAndExpiry(keys, read)
      strikes == {StrikePrice(key) : key \in chain}
  IN  {key \in chain :
         StrikePrice(key) \in NearestStrikes(strikes, read.query.price,
                                             read.query.strikeCount)}

InDeltaRange(keys, read) ==
  {key \in FindBySnapshotAndExpiry(keys, read) :
     \E d \in rows[key].delta : read.query.minDelta <= d /\ d <= read.query.maxDelta}

(* By delta, then strike; how rows alike in both are ordered is not said,  *)
(* so several answers may be right when the limit cuts.                    *)
FindByDeltaRange(keys, read) ==
  LET inRange   == InDeltaRange(keys, read)
      delta(k)  == CHOOSE d \in rows[k].delta : TRUE
      before(j, k) == \/ delta(j) < delta(k)
                      \/ delta(j) = delta(k) /\ StrikePrice(j) < StrikePrice(k)
  IN  {S \in SUBSET inRange :
         /\ Cardinality(S) = AtMost(read.query.limit, Cardinality(inRange))
         /\ \A k \in S, j \in inRange \ S : ~before(j, k)}

Answers(keys, read) ==
  IF read.query.kind = "delta" THEN FindByDeltaRange(keys, read)
  ELSE IF read.query.kind = "atm" THEN {FindAtmStrikes(keys, read)}
                                  ELSE {FindBySnapshotAndExpiry(keys, read)}

(* No rows are an error, but not of the nearest chain. *)
DatabaseFindsRows(r) ==
  /\ reader[r].phase = "finding rows"
  /\ \E answer \in Answers(DOMAIN rows, reader[r]) :
       reader' = [reader EXCEPT
         ![r].phase = IF answer = {} /\ reader[r].query.kind # "nearest"
                      THEN "not found" ELSE "answered",
         ![r].quotes = answer]
  /\ UNCHANGED <<rows, call, origin>>

-----------------------------------------------------------------------------

Next ==
  \/ \E c \in Imports :
       \/ \E payload \in Payloads : StartImport(c, payload)
       \/ PrepareBatch(c)
       \/ InstrumentNotFound(c)
       \/ DatabaseFindsExisting(c)
       \/ DatabaseCreatesMany(c)
       \/ DatabaseFails(c)
  \/ \E r \in Readers :
       \/ \E q \in Queries : StartQuery(r, q)
       \/ DatabaseFindsExpiry(r)
       \/ DatabaseFindsRows(r)

Spec == Init /\ [][Next]_vars

-----------------------------------------------------------------------------
(* Properties *)

Requested(c) == Len(call[c].payload.rows)

RequestedRows(c) ==
  {call[c].payload.rows[n] : n \in DOMAIN call[c].payload.rows}

IdentitiesOf(c, row) ==
  {Identity(id, call[c].payload, row) : id \in FindInstrument(call[c].payload)}

(* Whatever other imports do between the lookup and the insert, and        *)
(* wherever an import fails, what it counts as imported is the number of   *)
(* rows in the database that it stored and no other did.                   *)
ImportedIsWhatWasStored ==
  \A c \in Imports : call[c] # Unused =>
    call[c].imported = Cardinality({key \in DOMAIN rows : origin[key] = c})

(* An import that reports a result has every valid row of its request in   *)
(* the database, whichever import stored it, through all batches of the    *)
(* job, of the lookup and of the insert.                                   *)
FinishedImportsAreStored ==
  \A c \in Imports : call[c].phase = "done" =>
    \A row \in RequestedRows(c) :
      Valid(row) => IdentitiesOf(c, row) \cap DOMAIN rows # {}

(* The counts of a result add up to the request.  A row may go uncounted,  *)
(* never be counted twice, and only in three cases: another import stored  *)
(* a row of the request after this import began, or an expiry has a time   *)
(* of day or a strike more decimals than the column, so that the key read  *)
(* back is not the key in memory.                                          *)
UncountedRowsWereOvertaken ==
  \A c \in Imports : call[c].phase = "done" =>
    LET counted == call[c].imported + call[c].skippedDuplicates
                     + call[c].skippedInvalid
    IN  /\ counted <= Requested(c)
        /\ counted < Requested(c) =>
             \E row \in RequestedRows(c) :
               \/ DatabaseKey(row) # RowKey(row)
               \/ \E key \in IdentitiesOf(c, row) \cap DOMAIN rows :
                    origin[key] # c /\ key \notin call[c].seen

(* A query beside imports misses nothing that was stored when it began:    *)
(* no expiry nearer than the one it reports, and of that expiry no row,    *)
(* unless a limit cut it or a strike nearer to the money took its place.   *)
QueriesMissNothing ==
  \A r \in Readers : reader[r].phase \in {"answered", "not found"} =>
    LET read   == reader[r]
        stored == SnapshotRows(read.seen, read.query, read.instrumentId)
        wanted == FindBySnapshotAndExpiry(read.seen, read)
        strikes == {StrikePrice(key) : key \in read.quotes}
        price  == read.query.price
    IN  /\ read.query.kind \in {"nearest", "specific"} => wanted \subseteq read.quotes
        /\ read.query.kind = "nearest" =>
             \A key \in stored : ExpiryDate(key) >= DateOf(read.query.snapshotAt) =>
               \E d \in read.expiryDate : d <= ExpiryDate(key)
        /\ read.query.kind = "atm" =>
             \A key \in wanted \ read.quotes :
               /\ Cardinality(strikes) = Max({read.query.strikeCount, 1})
               /\ \A s \in strikes :
                    Distance(s, price) <= Distance(StrikePrice(key), price)
        /\ read.query.kind = "delta" =>
             \/ InDeltaRange(read.seen, read) \subseteq read.quotes
             \/ Cardinality(read.quotes) = read.query.limit

=============================================================================
