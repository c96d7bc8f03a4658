---------------------------- MODULE EquityCurve ----------------------------
(***************************************************************************)
(* equity-curve.service.ts and prisma-equity-snapshot.repository.ts of     *)
(* src/src/portfolio: snapshots of a portfolio's value are stored with     *)
(* their drawdown from a peak.  The peak comes from a map in memory and    *)
(* from the database, with an await between reading the one, reading the   *)
(* other and storing the row, so recordings interleave there.  A batch     *)
(* stores its rows in several statements.                                  *)
(*                                                                         *)
(* The database is external: it answers or fails, and one row is stored    *)
(* per portfolio and timestamp (prisma/schema.prisma).                     *)
(***************************************************************************)
EXTENDS Integers, FiniteSets, SequencesExt

CONSTANTS
  Calls,        \* calls of recordSnapshot or recordSnapshotsBatch
  Portfolios,
  Snapshots,    \* what recordSnapshot is called with
  Batches,      \* what recordSnapshotsBatch is called with: sequences
  BatchSize     \* EQUITY_SNAPSHOT_BATCH_SIZE

(* portfolioValue is given or not: a set of at most one. *)
Snapshot ==
  [timestamp : Nat \ {0}, cashBalance : Int, unrealizedPnl : Int,
   portfolioValue : {S \in SUBSET Int : Cardinality(S) <= 1}]

ASSUME CurveAssumption ==
  /\ Snapshots \subseteq Snapshot
  /\ Batches \subseteq Seq(Snapshot) \ {<<>>}
  /\ BatchSize \in Nat \ {0}

VARIABLES
  sessionPeaks,   \* portfolio -> peak, the Map of the service
  rows,           \* <<portfolio, timestamp>> -> [portfolioValue, drawdown]
  call,
  origin,         \* of each row: its call and the rows stored when that began
  submitted,      \* portfolio -> the values recordings were asked for
  orderly         \* one call at a time, each later than all rows, none failed

vars == <<sessionPeaks, rows, call, origin, submitted, orderly>>
history == <<origin, submitted, orderly>>

Unused == [phase |-> "unused"]
Ended == [phase |-> "ended"]

Init ==
  /\ sessionPeaks = [p \in {} |-> 0]
  /\ rows = [key \in {} |-> {}]
  /\ call = [c \in Calls |-> Unused]
  /\ origin = [key \in {} |-> {}]
  /\ submitted = [p \in Portfolios |-> {}]
  /\ orderly = TRUE

-----------------------------------------------------------------------------
(* Values, peaks and drawdowns *)

ValidRecordInput(s) == s.cashBalance >= 0

PortfolioValue(s) ==
  IF s.portfolioValue = {} THEN s.cashBalance + s.unrealizedPnl
                           ELSE CHOOSE v \in s.portfolioValue : TRUE

(* In units of the fourth decimal, as the column rounds it. *)
CalculateDrawdown(peak, portfolioValue) ==
  IF peak <= 0 \/ portfolioValue >= peak THEN 0
  ELSE (20000 * (peak - portfolioValue) + peak) \div (2 * peak)

Known(p, peaks) == IF p \in DOMAIN peaks THEN {peaks[p]} ELSE {}

RowsOf(p) == {key \in DOMAIN rows : key[1] = p}

FindPeakPortfolioValue(p) ==
  LET values == {rows[key].portfolioValue : key \in RowsOf(p)}
  IN  {v \in values : \A w \in values : v >= w}

(* Mutation: the peak in memory, when there is one, is trusted. *)
PeakOfSession(sessionPeak, persistedPeak, portfolioValue) ==
  Max({0, portfolioValue}
        \cup IF sessionPeak # {} THEN sessionPeak ELSE persistedPeak)

PeakOf(sessionPeak, persistedPeak, portfolioValue) ==
  Max({0} \cup {portfolioValue} \cup sessionPeak \cup persistedPeak)

(* The sort is stable, so there is one result: of equal timestamps the one *)
(* given first is first.                                                   *)
SortedInputs(inputs) ==
  LET N == DOMAIN inputs
      Before(m, n) == \/ inputs[m].timestamp < inputs[n].timestamp
                      \/ inputs[m].timestamp = inputs[n].timestamp /\ m < n
      orders == {f \in [N -> N] : \A m, n \in N : m < n => Before(f[m], f[n])}
  IN  {[n \in N |-> inputs[f[n]]] : f \in orders}

ValuesUpTo(inputs, n) == {PortfolioValue(inputs[i]) : i \in 1..n}

(* Mutation: the peak of a batch starts at zero. *)
RunningPeakFromZero(persistedPeak, inputs, n) ==
  Max({0} \cup ValuesUpTo(inputs, n))

(* The peak after the first n inputs of a batch. *)
RunningPeak(persistedPeak, inputs, n) ==
  Max({0} \cup persistedPeak \cup ValuesUpTo(inputs, n))

Record(s, peak) ==
  [timestamp |-> s.timestamp, portfolioValue |-> PortfolioValue(s),
   drawdown |-> CalculateDrawdown(peak, PortfolioValue(s))]

-----------------------------------------------------------------------------
(* What the properties remember of a call *)

InFlight == {c \in Calls : call[c].phase \notin {"unused", "ended"}}

Submits(p, inputs) ==
  /\ submitted' = [submitted EXCEPT ![p] = @ \cup ValuesUpTo(inputs, Len(inputs))]
  /\ orderly' =
       /\ orderly /\ InFlight = {}
       /\ \A key \in RowsOf(p) : key[2] < inputs[1].timestamp
       /\ \A m, n \in DOMAIN inputs :
            m < n => inputs[m].timestamp < inputs[n].timestamp
  /\ UNCHANGED origin

-----------------------------------------------------------------------------
(* Up to the first await.  Invalid inputs are refused with nothing done.   *)

RecordSnapshot(c, p, s) ==
  /\ call[c] = Unused
  /\ ValidRecordInput(s)
  /\ call' = [call EXCEPT ![c] =
       [phase |-> "finding", batch |-> FALSE, portfolioId |-> p,
        inputs |-> <<s>>, sessionPeak |-> Known(p, sessionPeaks),
        persistedPeak |-> {}, records |-> <<>>, seen |-> RowsOf(p)]]
  /\ Submits(p, <<s>>)
  /\ UNCHANGED <<sessionPeaks, rows>>

RecordSnapshotsBatch(c, p, batch) ==
  /\ call[c] = Unused
  /\ \A n \in DOMAIN batch : ValidRecordInput(batch[n])
  /\ \E inputs \in SortedInputs(batch) :
       /\ call' = [call EXCEPT ![c] =
            [phase |-> "finding", batch |-> TRUE, portfolioId |-> p,
             inputs |-> inputs, sessionPeak |-> {},
             persistedPeak |-> {}, records |-> <<>>, seen |-> RowsOf(p)]]
       /\ Submits(p, inputs)
  /\ UNCHANGED <<sessionPeaks, rows>>

ClearSessionPeak(p) ==
  /\ sessionPeaks' =
       [q \in DOMAIN sessionPeaks \ {p} |-> sessionPeaks[q]]
  /\ UNCHANGED <<rows, call, history>>

-----------------------------------------------------------------------------
(* The database finds the peak; then up to the next await.                 *)

DatabaseFindsPeak(c) ==
  /\ call[c].phase = "finding"
  /\ call' = [call EXCEPT
       ![c].phase = "found",
       ![c].persistedPeak = FindPeakPortfolioValue(call[c].portfolioId)]
  /\ UNCHANGED <<sessionPeaks, rows, history>>

WithPeak(p, peak) ==
  [q \in DOMAIN sessionPeaks \cup {p} |-> IF q = p THEN peak
                                                    ELSE sessionPeaks[q]]

ResolvePeak(c) ==
  /\ call[c].phase = "found" /\ ~call[c].batch
  /\ LET snapshot == call[c].inputs[1]
         peak == PeakOf(call[c].sessionPeak, call[c].persistedPeak,
                        PortfolioValue(snapshot))
     IN  /\ sessionPeaks' = WithPeak(call[c].portfolioId, peak)
         /\ call' = [call EXCEPT ![c].phase = "storing",
                                 ![c].records = <<Record(snapshot, peak)>>]
  /\ UNCHANGED <<rows, history>>

(* The session's peak is neither read nor kept if it is higher. *)
ResolveBatch(c) ==
  /\ call[c].phase = "found" /\ call[c].batch
  /\ LET inputs == call[c].inputs
         peak(n) == RunningPeak(call[c].persistedPeak, inputs, n)
     IN  /\ sessionPeaks' = WithPeak(call[c].portfolioId, peak(Len(inputs)))
         /\ call' = [call EXCEPT ![c].phase = "storing",
                                 ![c].records =
              [n \in DOMAIN inputs |-> Record(inputs[n], peak(n))]]
  /\ UNCHANGED <<rows, history>>

-----------------------------------------------------------------------------
(* The database stores rows; the last statement ends the call.             *)

(* The records whose keys are free; the first of equal ones is stored. *)
Fresh(p, records) ==
  { n \in DOMAIN records :
      /\ <<p, records[n].timestamp>> \notin DOMAIN rows
      /\ \A m \in 1..(n - 1) : records[m].timestamp # records[n].timestamp }

Stores(c, records) ==
  LET p      == call[c].portfolioId
      fresh  == Fresh(p, records)
      keys   == {<<p, records[n].timestamp>> : n \in fresh}
      row(key) == LET n == CHOOSE n \in fresh : records[n].timestamp = key[2]
                  IN  [portfolioValue |-> records[n].portfolioValue,
                       drawdown |-> records[n].drawdown]
  IN  /\ rows' = [key \in DOMAIN rows \cup keys |->
                    IF key \in keys THEN row(key) ELSE rows[key]]
      /\ origin' = [key \in DOMAIN rows \cup keys |->
                      IF key \in keys
                      THEN [call |-> c, seen |-> call[c].seen]
                      ELSE origin[key]]

(* create: a taken key is an error, and the session's peak stays raised. *)
DatabaseCreates(c) ==
  /\ call[c].phase = "storing" /\ ~call[c].batch
  /\ Stores(c, call[c].records)
  /\ call' = [call EXCEPT ![c] = Ended]
  /\ UNCHANGED <<sessionPeaks, submitted, orderly>>

(* createMany: one statement per BatchSize records, taken keys skipped. *)
DatabaseCreatesMany(c) ==
  LET records == call[c].records
      size    == IF BatchSize < Len(records) THEN BatchSize ELSE Len(records)
  IN  /\ call[c].phase = "storing" /\ call[c].batch
      /\ Stores(c, SubSeq(records, 1, size))
      /\ call' = [call EXCEPT ![c] =
           IF size = Len(records) THEN Ended
           ELSE [@ EXCEPT !.records = SubSeq(records, size + 1, Len(records))]]
      /\ UNCHANGED <<sessionPeaks, submitted, orderly>>

DatabaseFails(c) ==
  /\ call[c].phase \in {"finding", "storing"}
  /\ call' = [call EXCEPT ![c] = Ended]
  /\ orderly' = FALSE
  /\ UNCHANGED <<sessionPeaks, rows, origin, submitted>>

(* The process ends and another starts: memory and calls are gone. *)
Restart ==
  /\ sessionPeaks' = [p \in {} |-> 0]
  /\ call' = [c \in Calls |-> IF c \in InFlight THEN Ended ELSE call[c]]
  /\ UNCHANGED <<rows, history>>

Next ==
  \/ \E c \in Calls, p \in Portfolios :
       \/ \E s \in Snapshots : RecordSnapshot(c, p, s)
       \/ \E batch \in Batches : RecordSnapshotsBatch(c, p, batch)
  \/ \E c \in Calls :
       \/ DatabaseFindsPeak(c)
       \/ ResolvePeak(c)
       \/ ResolveBatch(c)
       \/ DatabaseCreates(c)
       \/ DatabaseCreatesMany(c)
       \/ DatabaseFails(c)
  \/ \E p \in Portfolios : ClearSessionPeak(p)
  \/ Restart

Spec == Init /\ [][Next]_vars

-----------------------------------------------------------------------------
(* Reading: getEquityCurve of a portfolio and calculateDrawdownSeries      *)

(* A portfolio has one row at a timestamp, so there is one order. *)
InTime(keys) ==
  CHOOSE s \in [1..Cardinality(keys) -> keys] :
    \A m, n \in DOMAIN s : m < n => s[m][2] < s[n][2]

EquityCurveOf(p) ==
  LET keys == InTime(RowsOf(p))
  IN  [n \in DOMAIN keys |-> rows[keys[n]]]

CalculateDrawdownSeries(curve) ==
  [n \in DOMAIN curve |->
     CalculateDrawdown(Max({curve[i].portfolioValue : i \in 1..n}),
                       curve[n].portfolioValue)]

-----------------------------------------------------------------------------
(* Properties *)

(* However recordings, batches, clears and restarts interleave, a stored   *)
(* drawdown is measured from a value submitted for the same portfolio (or  *)
(* zero) that is at least that of every row stored when its recording      *)
(* began, even where the peak in memory has been overwritten by a lower    *)
(* one.                                                                    *)
DrawdownsSeeStoredRows ==
  \A key \in DOMAIN rows :
    LET value == rows[key].portfolioValue
    IN  \E peak \in submitted[key[1]] \cup {0} :
          /\ rows[key].drawdown = CalculateDrawdown(peak, value)
          /\ \A other \in origin[key].seen : rows[other].portfolioValue <= peak

(* As long as recordings come one at a time and in time order and none     *)
(* fails, the stored drawdowns are the series that analytics computes from *)
(* the stored values, through clears and restarts too.                     *)
StoredDrawdownsMatchSeries ==
  orderly =>
    \A p \in Portfolios :
      LET curve == EquityCurveOf(p)
      IN  [n \in DOMAIN curve |-> curve[n].drawdown]
            = CalculateDrawdownSeries(curve)

=============================================================================
