------------------------- MODULE EquityCurveProofs -------------------------
(***************************************************************************)
(* Proof that stored drawdowns count every row stored before their         *)
(* recording began, and that recordings in order store the series that     *)
(* analytics computes, for any sets of calls, portfolios, snapshots and    *)
(* batches and any batch size.                                             *)
(*                                                                         *)
(* What a call in flight knows only becomes weaker with time: rows are     *)
(* never changed and submitted values never forgotten.  So each fact the   *)
(* invariant states of a call or a row is an operator of the rows R and    *)
(* the submitted values S, shown once to survive their growth.             *)
(***************************************************************************)
EXTENDS EquityCurve, FiniteSetTheorems, WellFoundedInduction, TLAPS

-----------------------------------------------------------------------------
(* The maximum of a finite set of integers *)

(* A non-empty collection of subsets of a finite set has a minimal one.    *)
LEMMA MinimalSubset ==
  ASSUME NEW S, IsFiniteSet(S), NEW T, T \subseteq SUBSET S, T # {}
  PROVE  \E U \in T : \A V \in T : V \subseteq U => V = U
<1>1. IsWellFoundedOn(StrictSubsetOrdering(S), SUBSET S)
  BY FS_StrictSubsetOrderingWellFounded, FS_FiniteSubsetsOfFinite
<1>2. \E U \in T : \A V \in T : ~(<<V, U>> \in StrictSubsetOrdering(S))
  <2> HIDE DEF StrictSubsetOrdering
  <2>. QED
    BY <1>1, WFMin
<1>. QED
  BY <1>2 DEF StrictSubsetOrdering

HasMaximum(S) == \E m \in S : \A x \in S : x <= m

LEMMA MaximumExists ==
  ASSUME NEW S, IsFiniteSet(S), S # {}
  PROVE  S \subseteq Int => HasMaximum(S)
<1> DEFINE T == {U \in SUBSET S : U # {} /\ ~HasMaximum(U)}
<1>1. T # {} => \E U \in T : \A V \in T : V \subseteq U => V = U
  <2>1. T \subseteq SUBSET S
    OBVIOUS
  <2> HIDE DEF T
  <2>. QED
    BY <2>1, MinimalSubset
<1>2. SUFFICES ASSUME S \subseteq Int, S \in T PROVE FALSE
  OBVIOUS
<1>3. PICK U \in T : \A V \in T : V \subseteq U => V = U
  BY <1>1, <1>2
<1>4. PICK x \in U : TRUE
  OBVIOUS
<1> DEFINE V == U \ {x}
<1>5. CASE V = {}
  BY <1>2, <1>4, <1>5 DEF HasMaximum
<1>6. CASE V # {}
  <2>1. HasMaximum(V)
    BY <1>3, <1>4, <1>6
  <2>2. PICK m \in V : \A y \in V : y <= m
    BY <2>1 DEF HasMaximum
  <2>3. m \in U /\ m \in Int /\ x \in Int /\ \A y \in U : y \in Int
    BY <1>2, <2>2
  <2>4. CASE x <= m
    BY <2>2, <2>3, <2>4 DEF HasMaximum
  <2>5. CASE m < x
    BY <1>4, <2>2, <2>3, <2>5 DEF HasMaximum
  <2>. QED
    BY <2>3, <2>4, <2>5
<1>. QED
  BY <1>5, <1>6

(* Max of a finite set is a member that no member exceeds. *)
LEMMA MaxIsMaximum ==
  ASSUME NEW S, S \subseteq Int, IsFiniteSet(S), S # {}
  PROVE  Max(S) \in S /\ \A x \in S : x <= Max(S)
<1>1. PICK m \in S : \A x \in S : m >= x
  BY MaximumExists DEF HasMaximum
<1>. QED
  BY <1>1 DEF Max

(* The values of a finite index set are finite. *)
LEMMA FiniteValues ==
  ASSUME NEW D, IsFiniteSet(D), NEW f
  PROVE  IsFiniteSet({f[d] : d \in D})
<1> DEFINE T == {f[d] : d \in D}
           g == [d \in D |-> f[d]]
<1>1. g \in Surjection(D, T)
  BY DEF Surjection
<1>. QED
  BY <1>1, FS_Surjection

-----------------------------------------------------------------------------
(* The inductive invariant *)

Key == Portfolios \X Nat

Entry == [timestamp : Nat, portfolioValue : Int, drawdown : Int]

CallRecord ==
  [phase : {"finding", "found", "storing"}, batch : BOOLEAN,
   portfolioId : Portfolios, inputs : Seq(Snapshot) \ {<<>>},
   sessionPeak : SUBSET Int, persistedPeak : SUBSET Int,
   records : Seq(Entry), seen : SUBSET Key]

Peaks(S, p) == S[p] \cup {0}

CoversSeen(R, seen, peak) == \A key \in seen : R[key].portfolioValue <= peak

(* The drawdown d of value v is from a covering peak. *)
FromCoveringPeak(R, S, p, seen, v, d) ==
  \E peak \in Peaks(S, p) :
    d = CalculateDrawdown(peak, v) /\ CoversSeen(R, seen, peak)

CallKnows(R, S, k) ==
  /\ \A n \in DOMAIN k.inputs : PortfolioValue(k.inputs[n]) \in S[k.portfolioId]
  /\ k.sessionPeak \subseteq Peaks(S, k.portfolioId)
  /\ IsFiniteSet(k.sessionPeak)
  /\ k.persistedPeak \subseteq Peaks(S, k.portfolioId)
  /\ IsFiniteSet(k.persistedPeak)
  /\ k.seen \subseteq DOMAIN R /\ \A key \in k.seen : key[1] = k.portfolioId
  /\ k.phase = "found" =>
       \A key \in k.seen : \E v \in k.persistedPeak : R[key].portfolioValue <= v
  /\ k.phase = "storing" =>
       \A n \in DOMAIN k.records :
         /\ k.records[n].portfolioValue \in S[k.portfolioId]
         /\ FromCoveringPeak(R, S, k.portfolioId, k.seen,
                             k.records[n].portfolioValue, k.records[n].drawdown)

RowKnows(R, O, S, key) ==
  /\ R[key].portfolioValue \in S[key[1]]
  /\ O[key].seen \subseteq DOMAIN R
  /\ FromCoveringPeak(R, S, key[1], O[key].seen,
                      R[key].portfolioValue, R[key].drawdown)

CallsInv ==
  /\ call \in [Calls -> {Unused, Ended} \cup CallRecord]
  /\ \A c \in InFlight : CallKnows(rows, submitted, call[c])

RowsInv ==
  /\ IsFiniteSet(DOMAIN rows) /\ DOMAIN rows \subseteq Key
  /\ DOMAIN origin = DOMAIN rows
  /\ \A key \in DOMAIN rows : RowKnows(rows, origin, submitted, key)

PeaksInv ==
  /\ submitted \in [Portfolios -> SUBSET Int]
  /\ DOMAIN sessionPeaks \subseteq Portfolios
  /\ \A p \in DOMAIN sessionPeaks : sessionPeaks[p] \in Peaks(submitted, p)

CurveInv == CallsInv /\ RowsInv /\ PeaksInv

-----------------------------------------------------------------------------
(* Rows and submitted values only grow *)

Grow(R, S, R2, S2) ==
  /\ DOMAIN R \subseteq DOMAIN R2
  /\ \A key \in DOMAIN R : R2[key] = R[key]
  /\ \A p \in Portfolios : S[p] \subseteq S2[p]

LEMMA CoveringPeakKept ==
  ASSUME NEW R, NEW S, NEW R2, NEW S2, Grow(R, S, R2, S2),
         NEW p \in Portfolios, NEW seen \in SUBSET DOMAIN R, NEW v, NEW d,
         FromCoveringPeak(R, S, p, seen, v, d)
  PROVE  FromCoveringPeak(R2, S2, p, seen, v, d)
BY DEF FromCoveringPeak, CoversSeen, Peaks, Grow

LEMMA CallKept ==
  ASSUME NEW R, NEW S, NEW R2, NEW S2, Grow(R, S, R2, S2),
         NEW k \in CallRecord, CallKnows(R, S, k)
  PROVE  CallKnows(R2, S2, k)
<1>1. k.portfolioId \in Portfolios /\ k.seen \in SUBSET DOMAIN R
  BY DEF CallRecord, CallKnows
<1>2. S[k.portfolioId] \subseteq S2[k.portfolioId]
  BY <1>1 DEF Grow
<1>3. k.seen \subseteq DOMAIN R2 /\ \A key \in k.seen : R2[key] = R[key]
  BY <1>1 DEF Grow
<1>4. ASSUME k.phase = "storing", NEW n \in DOMAIN k.records
      PROVE  /\ k.records[n].portfolioValue \in S2[k.portfolioId]
             /\ FromCoveringPeak(R2, S2, k.portfolioId, k.seen,
                  k.records[n].portfolioValue, k.records[n].drawdown)
  BY <1>1, <1>2, <1>4, CoveringPeakKept DEF CallKnows
<1>. QED
  BY <1>2, <1>3, <1>4 DEF CallKnows, Peaks

LEMMA RowKept ==
  ASSUME NEW R, NEW S, NEW O, NEW R2, NEW S2, NEW O2, Grow(R, S, R2, S2),
         NEW key \in DOMAIN R, key[1] \in Portfolios, O2[key] = O[key],
         RowKnows(R, O, S, key)
  PROVE  RowKnows(R2, O2, S2, key)
<1>1. FromCoveringPeak(R2, S2, key[1], O[key].seen,
                       R[key].portfolioValue, R[key].drawdown)
  BY CoveringPeakKept DEF RowKnows
<1>. QED
  BY <1>1 DEF RowKnows, Grow

-----------------------------------------------------------------------------
(* Values, peaks and records *)

LEMMA ValueIsInteger ==
  ASSUME NEW s \in Snapshot
  PROVE  PortfolioValue(s) \in Int
BY DEF Snapshot, PortfolioValue

LEMMA DrawdownIsInteger ==
  ASSUME NEW peak \in Int, NEW v \in Int
  PROVE  CalculateDrawdown(peak, v) \in Int
<1>1. CASE peak <= 0 \/ v >= peak
  BY <1>1 DEF CalculateDrawdown
<1>2. CASE ~(peak <= 0 \/ v >= peak)
  <2>1. 20000 * (peak - v) + peak \in Int /\ 2 * peak \in Int /\ 2 * peak > 0
    BY <1>2
  <2>. QED
    BY <1>2, <2>1 DEF CalculateDrawdown
<1>. QED
  BY <1>1, <1>2

(* Whatever the known peaks are, the maximum of them, zero and the values  *)
(* is one of them and covers what the persisted peak covers.               *)
LEMMA PeakCovers ==
  ASSUME NEW R, NEW S, NEW k \in CallRecord, CallKnows(R, S, k),
         k.phase = "found", S[k.portfolioId] \subseteq Int,
         NEW values, values \subseteq S[k.portfolioId], IsFiniteSet(values),
         NEW peak, NEW others, others \subseteq k.sessionPeak,
         peak = Max({0} \cup values \cup others \cup k.persistedPeak),
         \A key \in k.seen : R[key].portfolioValue \in Int
  PROVE  peak \in Peaks(S, k.portfolioId) /\ peak \in Int
         /\ CoversSeen(R, k.seen, peak)
<1> DEFINE all == {0} \cup values \cup others \cup k.persistedPeak
<1>1. all \subseteq Peaks(S, k.portfolioId) /\ all \subseteq Int /\ all # {}
  BY DEF CallKnows, Peaks
<1>2. IsFiniteSet(all)
  <2>1. IsFiniteSet(others)
    BY FS_Subset DEF CallKnows
  <2>2. IsFiniteSet({0})
    BY FS_Singleton
  <2>. QED
    BY <2>1, <2>2, FS_Union DEF CallKnows
<1>3. peak \in all /\ \A x \in all : x <= peak
  <2>1. peak = Max(all)
    OBVIOUS
  <2> HIDE DEF all
  <2>2. Max(all) \in all /\ \A x \in all : x <= Max(all)
    BY <1>1, <1>2, MaxIsMaximum
  <2>. QED
    BY <2>1, <2>2
<1>4. ASSUME NEW key \in k.seen PROVE R[key].portfolioValue <= peak
  <2>1. PICK v \in k.persistedPeak : R[key].portfolioValue <= v
    BY DEF CallKnows
  <2>2. v \in all
    BY <2>1
  <2>. QED
    BY <1>1, <1>3, <2>1, <2>2
<1>. QED
  BY <1>1, <1>3, <1>4 DEF CoversSeen

-----------------------------------------------------------------------------
(* Steps: what they leave alone, and what they do to one call *)

LEMMA InvInit == Init => CurveInv
<1>. SUFFICES ASSUME Init PROVE CurveInv
  OBVIOUS
<1>1. CallsInv
  BY DEF Init, CallsInv, InFlight, Unused
<1>2. RowsInv
  BY FS_EmptySet DEF Init, RowsInv
<1>3. PeaksInv
  BY DEF Init, PeaksInv
<1>. QED
  BY <1>1, <1>2, <1>3 DEF CurveInv

LEMMA OneCallChanges ==
  ASSUME CallsInv, Grow(rows, submitted, rows', submitted'),
         NEW c \in Calls, NEW k, call' = [call EXCEPT ![c] = k],
         \/ k \in {Unused, Ended}
         \/ k \in CallRecord /\ CallKnows(rows', submitted', k)
  PROVE  CallsInv'
<1>1. call' \in [Calls -> {Unused, Ended} \cup CallRecord]
  BY DEF CallsInv
<1>2. ASSUME NEW d \in Calls, call'[d].phase \notin {"unused", "ended"}
      PROVE  CallKnows(rows', submitted', call'[d])
  <2>1. CASE d = c
    BY <1>2, <2>1 DEF CallsInv, Unused, Ended
  <2>2. CASE d # c
    <3>1. call'[d] = call[d] /\ d \in InFlight
      BY <1>2, <2>2 DEF CallsInv, InFlight
    <3>2. call[d] \in CallRecord
      BY <3>1 DEF CallsInv, InFlight, Unused, Ended
    <3>. QED
      BY <3>1, <3>2, CallKept DEF CallsInv
  <2>. QED
    BY <2>1, <2>2
<1>. QED
  BY <1>1, <1>2 DEF CallsInv, InFlight

LEMMA CallInFlight ==
  ASSUME CallsInv, NEW c \in Calls, call[c].phase \notin {"unused", "ended"}
  PROVE  call[c] \in CallRecord /\ CallKnows(rows, submitted, call[c])
BY DEF CallsInv, InFlight, Unused, Ended

LEMMA RowsStay ==
  ASSUME RowsInv, Grow(rows, submitted, rows', submitted'),
         UNCHANGED <<rows, origin>>
  PROVE  RowsInv'
<1>1. ASSUME NEW key \in DOMAIN rows
      PROVE  RowKnows(rows', origin', submitted', key)
  <2>1. key[1] \in Portfolios
    BY DEF RowsInv, Key
  <2>. QED
    BY <2>1, RowKept DEF RowsInv
<1>. QED
  BY <1>1 DEF RowsInv

LEMMA NothingGrows ==
  ASSUME UNCHANGED <<rows, submitted>>
  PROVE  Grow(rows, submitted, rows', submitted')
BY DEF Grow

-----------------------------------------------------------------------------
(* Calls begin *)

LEMMA SubmittedGrows ==
  ASSUME PeaksInv, NEW p \in Portfolios, NEW inputs \in Seq(Snapshot),
         Submits(p, inputs), UNCHANGED <<sessionPeaks, rows>>
  PROVE  /\ PeaksInv' /\ Grow(rows, submitted, rows', submitted')
         /\ \A n \in DOMAIN inputs : PortfolioValue(inputs[n]) \in submitted'[p]
<1> DEFINE values == ValuesUpTo(inputs, Len(inputs))
<1>1. values \in SUBSET Int
  BY ValueIsInteger DEF ValuesUpTo
<1>2. submitted' = [submitted EXCEPT ![p] = submitted[p] \cup values]
  BY DEF Submits, PeaksInv
<1>3. \A n \in DOMAIN inputs : PortfolioValue(inputs[n]) \in values
  BY DEF ValuesUpTo
<1> HIDE DEF values
<1>4. submitted' \in [Portfolios -> SUBSET Int]
  BY <1>1, <1>2 DEF PeaksInv
<1>5. \A q \in Portfolios : submitted[q] \subseteq submitted'[q]
  BY <1>2 DEF PeaksInv
<1>6. PeaksInv'
  BY <1>4, <1>5 DEF PeaksInv, Peaks
<1>. QED
  BY <1>2, <1>3, <1>5, <1>6 DEF Grow, PeaksInv

(* What a call has done up to its first await. *)
Begun(p, inputs, batch, sessionPeak) ==
  [phase |-> "finding", batch |-> batch, portfolioId |-> p,
   inputs |-> inputs, sessionPeak |-> sessionPeak, persistedPeak |-> {},
   records |-> <<>>, seen |-> RowsOf(p)]

LEMMA CallBegins ==
  ASSUME CurveInv, NEW c \in Calls, NEW p \in Portfolios,
         NEW inputs \in Seq(Snapshot) \ {<<>>}, NEW b \in BOOLEAN,
         NEW peak, peak \subseteq Known(p, sessionPeaks),
         call' = [call EXCEPT ![c] = Begun(p, inputs, b, peak)],
         Submits(p, inputs), UNCHANGED <<sessionPeaks, rows>>
  PROVE  CurveInv'
<1>1. /\ PeaksInv' /\ Grow(rows, submitted, rows', submitted')
      /\ \A n \in DOMAIN inputs : PortfolioValue(inputs[n]) \in submitted'[p]
  BY SubmittedGrows DEF CurveInv
<1>2. RowsInv'
  BY <1>1, RowsStay DEF CurveInv, Submits
<1>3. ASSUME NEW k, k = Begun(p, inputs, b, peak)
      PROVE  k \in CallRecord /\ CallKnows(rows', submitted', k)
  <2>1. Known(p, sessionPeaks) \subseteq Peaks(submitted, p)
    BY DEF CurveInv, PeaksInv, Known
  <2>2. submitted[p] \subseteq submitted'[p] /\ submitted[p] \subseteq Int
    BY <1>1 DEF Grow, CurveInv, PeaksInv
  <2>3. peak \subseteq Peaks(submitted', p) /\ peak \in SUBSET Int
    BY <2>1, <2>2 DEF Peaks
  <2>4. RowsOf(p) \in SUBSET Key /\ RowsOf(p) \subseteq DOMAIN rows'
        /\ \A key \in RowsOf(p) : key[1] = p
    BY DEF RowsOf, CurveInv, RowsInv
  <2>5. IsFiniteSet(peak)
    <3>1. IsFiniteSet(Known(p, sessionPeaks))
      BY FS_Singleton, FS_EmptySet DEF Known
    <3>. QED
      BY <3>1, FS_Subset
  <2>6. k \in CallRecord
    BY <1>3, <2>3, <2>4 DEF CallRecord, Begun
  <2>. QED
    BY <1>1, <1>3, <2>3, <2>4, <2>5, <2>6, FS_EmptySet DEF CallKnows, Begun
<1>4. CallsInv'
  BY <1>1, <1>3, OneCallChanges DEF CurveInv
<1>. QED
  BY <1>1, <1>2, <1>4 DEF CurveInv

LEMMA SortedInputsType ==
  ASSUME NEW batch \in Seq(Snapshot) \ {<<>>}, NEW inputs \in SortedInputs(batch)
  PROVE  inputs \in Seq(Snapshot) \ {<<>>}
<1>1. PICK f \in [DOMAIN batch -> DOMAIN batch] :
        inputs = [n \in DOMAIN batch |-> batch[f[n]]]
  BY DEF SortedInputs
<1>2. DOMAIN batch = 1..Len(batch) /\ Len(batch) \in Nat /\ Len(batch) # 0
  OBVIOUS
<1>3. inputs \in [1..Len(batch) -> Snapshot]
  BY <1>1, <1>2
<1>. QED
  BY <1>2, <1>3

LEMMA BeginSteps ==
  ASSUME CurveInv, NEW c \in Calls, NEW p \in Portfolios,
         \/ \E s \in Snapshots : RecordSnapshot(c, p, s)
         \/ \E batch \in Batches : RecordSnapshotsBatch(c, p, batch)
  PROVE  CurveInv'
<1>1. ASSUME NEW s \in Snapshots, RecordSnapshot(c, p, s) PROVE CurveInv'
  <2>1. <<s>> \in Seq(Snapshot) \ {<<>>}
    BY CurveAssumption DEF CurveAssumption
  <2>2. /\ call' = [call EXCEPT ![c] =
               Begun(p, <<s>>, FALSE, Known(p, sessionPeaks))]
        /\ Submits(p, <<s>>) /\ UNCHANGED <<sessionPeaks, rows>>
    BY <1>1 DEF RecordSnapshot, Begun
  <2>. QED
    BY <2>1, <2>2, CallBegins
<1>2. ASSUME NEW batch \in Batches, RecordSnapshotsBatch(c, p, batch)
      PROVE  CurveInv'
  <2>1. batch \in Seq(Snapshot) \ {<<>>}
    BY CurveAssumption DEF CurveAssumption
  <2>2. ASSUME NEW inputs \in Seq(Snapshot) \ {<<>>}, Submits(p, inputs),
               NEW peak, peak = {}, NEW b \in BOOLEAN,
               call' = [call EXCEPT ![c] = Begun(p, inputs, b, peak)]
        PROVE  CurveInv'
    <3>1. UNCHANGED <<sessionPeaks, rows>> /\ peak \subseteq Known(p, sessionPeaks)
      BY <1>2, <2>2 DEF RecordSnapshotsBatch
    <3>. QED
      BY <2>2, <3>1, CallBegins
  <2>3. PICK inputs \in SortedInputs(batch) :
          /\ call' = [call EXCEPT ![c] = Begun(p, inputs, TRUE, {})]
          /\ Submits(p, inputs)
    BY <1>2 DEF RecordSnapshotsBatch, Begun
  <2>4. inputs \in Seq(Snapshot) \ {<<>>}
    BY <2>1, SortedInputsType
  <2>. QED
    BY <2>2, <2>3, <2>4
<1>. QED
  BY <1>1, <1>2

-----------------------------------------------------------------------------
(* The database finds the peak *)

LEMMA FoundPeak ==
  ASSUME RowsInv, PeaksInv, NEW p \in Portfolios
  PROVE  /\ IsFiniteSet(FindPeakPortfolioValue(p))
         /\ FindPeakPortfolioValue(p) \subseteq Peaks(submitted, p)
         /\ FindPeakPortfolioValue(p) \in SUBSET Int
         /\ \A key \in RowsOf(p) : \E v \in FindPeakPortfolioValue(p) :
              rows[key].portfolioValue <= v
<1> DEFINE value == [key \in RowsOf(p) |-> rows[key].portfolioValue]
           values == {value[key] : key \in RowsOf(p)}
<1>1. IsFiniteSet(values)
  <2>1. IsFiniteSet(RowsOf(p))
    BY FS_Subset DEF RowsInv, RowsOf
  <2> HIDE DEF value
  <2>. QED
    BY <2>1, FiniteValues
<1>2. FindPeakPortfolioValue(p) = {v \in values : \A w \in values : v >= w}
  BY DEF FindPeakPortfolioValue
<1>3. values \subseteq submitted[p] /\ values \in SUBSET Int
  BY DEF RowsInv, RowKnows, RowsOf, PeaksInv
<1>4. \A key \in RowsOf(p) : rows[key].portfolioValue \in values
  OBVIOUS
<1> HIDE DEF values
<1>5. IsFiniteSet(FindPeakPortfolioValue(p))
  <2>1. FindPeakPortfolioValue(p) \subseteq values
    BY <1>2
  <2>. QED
    BY <1>1, <2>1, FS_Subset
<1>6. ASSUME NEW key \in RowsOf(p)
      PROVE  \E v \in FindPeakPortfolioValue(p) : rows[key].portfolioValue <= v
  <2>1. HasMaximum(values)
    BY <1>1, <1>3, <1>4, MaximumExists
  <2>2. PICK m \in values : \A x \in values : x <= m
    BY <2>1 DEF HasMaximum
  <2>3. m \in FindPeakPortfolioValue(p)
    BY <1>2, <1>3, <2>2
  <2>. QED
    BY <1>4, <2>2, <2>3
<1>7. FindPeakPortfolioValue(p) \subseteq Peaks(submitted, p)
      /\ FindPeakPortfolioValue(p) \in SUBSET Int
  BY <1>2, <1>3 DEF Peaks
<1>. QED
  BY <1>5, <1>6, <1>7

LEMMA FindStep ==
  ASSUME CurveInv, NEW c \in Calls, DatabaseFindsPeak(c)
  PROVE  CurveInv'
<1> DEFINE k == call[c]
           found == FindPeakPortfolioValue(k.portfolioId)
           after == [k EXCEPT !.phase = "found", !.persistedPeak = found]
<1>1. k \in CallRecord /\ CallKnows(rows, submitted, k) /\ k.phase = "finding"
  BY CallInFlight DEF CurveInv, DatabaseFindsPeak
<1>2. Grow(rows, submitted, rows', submitted')
  BY NothingGrows DEF DatabaseFindsPeak, history
<1>3. k.portfolioId \in Portfolios
  BY <1>1 DEF CallRecord
<1>4. /\ IsFiniteSet(found) /\ found \in SUBSET Int
      /\ found \subseteq Peaks(submitted, k.portfolioId)
      /\ \A key \in k.seen : \E v \in found : rows[key].portfolioValue <= v
  <2>1. k.seen \subseteq RowsOf(k.portfolioId)
    BY <1>1 DEF CallKnows, RowsOf
  <2>. QED
    BY <1>3, <2>1, FoundPeak DEF CurveInv
<1>5. call' = [call EXCEPT ![c] = after] /\ UNCHANGED <<rows, submitted>>
  BY DEF DatabaseFindsPeak, history
<1> HIDE DEF found
<1>6. after \in CallRecord
  BY <1>1, <1>4 DEF CallRecord
<1>7. CallKnows(rows, submitted, after)
  BY <1>1, <1>4 DEF CallKnows, CallRecord
<1> HIDE DEF after
<1>8. CallsInv'
  BY <1>2, <1>5, <1>6, <1>7, OneCallChanges DEF CurveInv
<1>9. RowsInv' /\ PeaksInv'
  BY <1>2, RowsStay DEF CurveInv, DatabaseFindsPeak, history, PeaksInv
<1>. QED
  BY <1>8, <1>9 DEF CurveInv

-----------------------------------------------------------------------------
(* The peak is resolved *)

LEMMA PeakRaised ==
  ASSUME PeaksInv, NEW p \in Portfolios, NEW peak \in Peaks(submitted, p),
         sessionPeaks' = WithPeak(p, peak), UNCHANGED submitted
  PROVE  PeaksInv'
BY DEF PeaksInv, WithPeak

(* A call that resolves its peaks: record n is measured from peak(n). *)
LEMMA CallResolves ==
  ASSUME CurveInv, NEW c \in Calls, call[c].phase = "found",
         NEW records \in Seq(Entry), NEW peak \in Peaks(submitted, call[c].portfolioId),
         sessionPeaks' = WithPeak(call[c].portfolioId, peak),
         call' = [call EXCEPT ![c].phase = "storing", ![c].records = records],
         \A n \in DOMAIN records :
           /\ records[n].portfolioValue \in submitted[call[c].portfolioId]
           /\ FromCoveringPeak(rows, submitted, call[c].portfolioId, call[c].seen,
                records[n].portfolioValue, records[n].drawdown),
         UNCHANGED <<rows, history>>
  PROVE  CurveInv'
<1> DEFINE k == call[c]
           after == [k EXCEPT !.phase = "storing", !.records = records]
<1>1. k \in CallRecord /\ CallKnows(rows, submitted, k)
  BY CallInFlight DEF CurveInv
<1>2. Grow(rows, submitted, rows', submitted')
  BY NothingGrows DEF history
<1>3. k.portfolioId \in Portfolios
  BY <1>1 DEF CallRecord
<1>4. call' = [call EXCEPT ![c] = after]
  OBVIOUS
<1>5. after \in CallRecord
  BY <1>1 DEF CallRecord
<1>6. CallKnows(rows, submitted, after)
  BY <1>1 DEF CallKnows, CallRecord
<1> HIDE DEF after
<1>7. CallsInv'
  BY <1>2, <1>4, <1>5, <1>6, OneCallChanges DEF CurveInv, history
<1>8. RowsInv' /\ PeaksInv'
  BY <1>2, <1>3, RowsStay, PeakRaised DEF CurveInv, history
<1>. QED
  BY <1>7, <1>8 DEF CurveInv

(* What resolving needs to know of a call that found its peak. *)
LEMMA ResolvingCall ==
  ASSUME CurveInv, NEW c \in Calls, call[c].phase = "found"
  PROVE  /\ call[c] \in CallRecord /\ CallKnows(rows, submitted, call[c])
         /\ call[c].portfolioId \in Portfolios
         /\ submitted[call[c].portfolioId] \subseteq Int
         /\ \A key \in call[c].seen : rows[key].portfolioValue \in Int
         /\ call[c].inputs \in Seq(Snapshot) \ {<<>>}
         /\ IsFiniteSet({})
<1>1. call[c] \in CallRecord /\ CallKnows(rows, submitted, call[c])
  BY CallInFlight DEF CurveInv
<1>2. call[c].portfolioId \in Portfolios /\ call[c].inputs \in Seq(Snapshot) \ {<<>>}
  BY <1>1 DEF CallRecord
<1>3. \A p \in Portfolios : submitted[p] \subseteq Int
  BY DEF CurveInv, PeaksInv
<1>4. ASSUME NEW key \in call[c].seen PROVE rows[key].portfolioValue \in Int
  <2>1. key \in DOMAIN rows /\ key[1] = call[c].portfolioId
    BY <1>1 DEF CallKnows
  <2>2. rows[key].portfolioValue \in submitted[key[1]]
    BY <2>1 DEF CurveInv, RowsInv, RowKnows
  <2>. QED
    BY <1>2, <1>3, <2>1, <2>2
<1>. QED
  BY <1>1, <1>2, <1>3, <1>4, FS_EmptySet

LEMMA RecordIsCovered ==
  ASSUME NEW R, NEW S, NEW p, NEW seen, NEW s \in Snapshot,
         PortfolioValue(s) \in S[p],
         NEW peak \in Int, peak \in Peaks(S, p), CoversSeen(R, seen, peak)
  PROVE  /\ Record(s, peak) \in Entry
         /\ Record(s, peak).portfolioValue \in S[p]
         /\ FromCoveringPeak(R, S, p, seen, Record(s, peak).portfolioValue,
                             Record(s, peak).drawdown)
<1>1. PortfolioValue(s) \in Int /\ s.timestamp \in Nat
  BY ValueIsInteger DEF Snapshot
<1>2. CalculateDrawdown(peak, PortfolioValue(s)) \in Int
  BY <1>1, DrawdownIsInteger
<1>3. Record(s, peak) \in Entry
  BY <1>1, <1>2 DEF Record, Entry
<1>4. FromCoveringPeak(R, S, p, seen, PortfolioValue(s),
                       CalculateDrawdown(peak, PortfolioValue(s)))
  BY DEF FromCoveringPeak
<1>. QED
  BY <1>3, <1>4 DEF Record

LEMMA ResolveStep ==
  ASSUME CurveInv, NEW c \in Calls, ResolvePeak(c)
  PROVE  CurveInv'
<1> DEFINE k == call[c]
           s == k.inputs[1]
           value == PortfolioValue(s)
           peak == PeakOf(k.sessionPeak, k.persistedPeak, value)
<1>1. k.phase = "found"
  BY DEF ResolvePeak
<1>2. /\ k \in CallRecord /\ CallKnows(rows, submitted, k)
      /\ submitted[k.portfolioId] \subseteq Int
      /\ \A key \in k.seen : rows[key].portfolioValue \in Int
      /\ k.inputs \in Seq(Snapshot) \ {<<>>}
  BY <1>1, ResolvingCall
<1>3. s \in Snapshot /\ value \in submitted[k.portfolioId]
  BY <1>2 DEF CallKnows
<1>4. peak \in Peaks(submitted, k.portfolioId) /\ peak \in Int
      /\ CoversSeen(rows, k.seen, peak)
  <2>1. {value} \subseteq submitted[k.portfolioId] /\ IsFiniteSet({value})
    BY <1>3, FS_Singleton
  <2>2. peak = Max({0} \cup {value} \cup k.sessionPeak \cup k.persistedPeak)
    BY DEF PeakOf
  <2> HIDE DEF k, value, peak
  <2>. QED
    BY <1>1, <1>2, <2>1, <2>2, PeakCovers
<1>5. /\ sessionPeaks' = WithPeak(k.portfolioId, peak)
      /\ call' = [call EXCEPT ![c].phase = "storing",
                              ![c].records = <<Record(s, peak)>>]
      /\ UNCHANGED <<rows, history>>
  BY DEF ResolvePeak
<1>6. /\ Record(s, peak) \in Entry
      /\ Record(s, peak).portfolioValue \in submitted[k.portfolioId]
      /\ FromCoveringPeak(rows, submitted, k.portfolioId, k.seen,
           Record(s, peak).portfolioValue, Record(s, peak).drawdown)
  <2> HIDE DEF s, peak, k
  <2>. QED
    BY <1>3, <1>4, RecordIsCovered DEF value
<1> DEFINE records == <<Record(s, peak)>>
<1> HIDE DEF s, peak
<1>7. /\ records \in Seq(Entry) /\ DOMAIN records = {1}
      /\ records[1] = Record(s, peak)
  BY <1>6
<1>8. call' = [call EXCEPT ![c].phase = "storing", ![c].records = records]
  BY <1>5
<1> HIDE DEF records
<1>9. \A n \in DOMAIN records :
        /\ records[n].portfolioValue \in submitted[k.portfolioId]
        /\ FromCoveringPeak(rows, submitted, k.portfolioId, k.seen,
             records[n].portfolioValue, records[n].drawdown)
  BY <1>6, <1>7
<1>. QED
  BY <1>1, <1>4, <1>5, <1>7, <1>8, <1>9, CallResolves

LEMMA ResolveBatchStep ==
  ASSUME CurveInv, NEW c \in Calls, ResolveBatch(c)
  PROVE  CurveInv'
<1> DEFINE k == call[c]
           inputs == k.inputs
           peak == [n \in DOMAIN inputs |->
                      RunningPeak(k.persistedPeak, inputs, n)]
           records == [n \in DOMAIN inputs |-> Record(inputs[n], peak[n])]
<1>1. k.phase = "found"
  BY DEF ResolveBatch
<1>2. /\ k \in CallRecord /\ CallKnows(rows, submitted, k)
      /\ submitted[k.portfolioId] \subseteq Int
      /\ \A key \in k.seen : rows[key].portfolioValue \in Int
      /\ inputs \in Seq(Snapshot) \ {<<>>}
  BY <1>1, ResolvingCall
<1>3. \A n \in DOMAIN inputs :
        inputs[n] \in Snapshot /\ PortfolioValue(inputs[n]) \in submitted[k.portfolioId]
  BY <1>2 DEF CallKnows
<1>4. ASSUME NEW n \in DOMAIN inputs
      PROVE  peak[n] \in Peaks(submitted, k.portfolioId) /\ peak[n] \in Int
             /\ CoversSeen(rows, k.seen, peak[n])
  <2> DEFINE values == ValuesUpTo(inputs, n)
  <2>1. values \subseteq submitted[k.portfolioId]
    BY <1>2, <1>3 DEF ValuesUpTo
  <2>2. IsFiniteSet(values)
    <3> DEFINE f == [i \in 1..n |-> PortfolioValue(inputs[i])]
    <3>1. IsFiniteSet(1..n)
      BY <1>2, FS_Interval
    <3>2. values = {f[i] : i \in 1..n}
      BY DEF ValuesUpTo
    <3> HIDE DEF f, values
    <3>. QED
      BY <3>1, <3>2, FiniteValues
  <2>3. PICK none : none = {}
    OBVIOUS
  <2>4. {0} \cup k.persistedPeak \cup values
          = {0} \cup values \cup none \cup k.persistedPeak
    BY <2>3
  <2>5. peak[n] = Max({0} \cup values \cup none \cup k.persistedPeak)
    BY <2>4 DEF RunningPeak
  <2>6. none \subseteq k.sessionPeak
    BY <2>3
  <2> HIDE DEF k, values, peak
  <2>. QED
    BY <1>1, <1>2, <2>1, <2>2, <2>5, <2>6, PeakCovers
<1>5. Len(inputs) \in DOMAIN inputs
  BY <1>2
<1>6. /\ sessionPeaks' = WithPeak(k.portfolioId, peak[Len(inputs)])
      /\ call' = [call EXCEPT ![c].phase = "storing", ![c].records = records]
      /\ UNCHANGED <<rows, history>>
  BY <1>5 DEF ResolveBatch
<1>7. ASSUME NEW n \in DOMAIN inputs
      PROVE  /\ records[n] \in Entry
             /\ records[n].portfolioValue \in submitted[k.portfolioId]
             /\ FromCoveringPeak(rows, submitted, k.portfolioId, k.seen,
                  records[n].portfolioValue, records[n].drawdown)
  <2>1. records[n] = Record(inputs[n], peak[n])
    OBVIOUS
  <2> HIDE DEF inputs, peak, k, records
  <2>. QED
    BY <1>3, <1>4, <2>1, RecordIsCovered
<1>8. records \in Seq(Entry) /\ DOMAIN records = DOMAIN inputs
  <2>1. DOMAIN inputs = 1..Len(inputs) /\ Len(inputs) \in Nat
    BY <1>2
  <2>2. records \in [1..Len(inputs) -> Entry]
    BY <1>7, <2>1
  <2> HIDE DEF records
  <2>. QED
    BY <2>1, <2>2
<1> HIDE DEF records, peak
<1>. QED
  BY <1>1, <1>4, <1>5, <1>6, <1>7, <1>8, CallResolves

-----------------------------------------------------------------------------
(* Rows are stored *)

LEMMA RowsStored ==
  ASSUME CurveInv, NEW c \in Calls, call[c].phase = "storing",
         NEW records \in Seq(Entry),
         \A n \in DOMAIN records :
           /\ records[n].portfolioValue \in submitted[call[c].portfolioId]
           /\ FromCoveringPeak(rows, submitted, call[c].portfolioId, call[c].seen,
                records[n].portfolioValue, records[n].drawdown),
         Stores(c, records), UNCHANGED <<sessionPeaks, submitted>>
  PROVE  Grow(rows, submitted, rows', submitted') /\ RowsInv' /\ PeaksInv'
<1> DEFINE p     == call[c].portfolioId
           fresh == Fresh(p, records)
           keyOf == [n \in fresh |-> <<p, records[n].timestamp>>]
           keys  == {keyOf[n] : n \in fresh}
<1>1. /\ call[c] \in CallRecord /\ p \in Portfolios
      /\ call[c].seen \in SUBSET DOMAIN rows
  <2>1. call[c] \in CallRecord /\ CallKnows(rows, submitted, call[c])
    BY CallInFlight DEF CurveInv
  <2>. QED
    BY <2>1 DEF CallRecord, CallKnows
<1>2. fresh \subseteq DOMAIN records /\ \A n \in fresh : keyOf[n] \notin DOMAIN rows
  BY DEF Fresh
<1>3. IsFiniteSet(keys) /\ keys \subseteq Key
  <2>1. IsFiniteSet(fresh)
    <3>1. DOMAIN records = 1..Len(records) /\ Len(records) \in Nat
      OBVIOUS
    <3>2. IsFiniteSet(DOMAIN records)
      BY <3>1, FS_Interval
    <3> HIDE DEF fresh
    <3>. QED
      BY <1>2, <3>2, FS_Subset
  <2>2. keys \subseteq Key
    <3>1. \A n \in DOMAIN records : records[n].timestamp \in Nat
      <4>1. \A n \in DOMAIN records : records[n] \in Entry
        OBVIOUS
      <4>. QED
        BY ONLY <4>1 DEF Entry
    <3> HIDE DEF fresh
    <3>. QED
      BY <1>1, <1>2, <3>1 DEF Key
  <2> HIDE DEF keyOf
  <2>. QED
    BY <2>1, <2>2, FiniteValues
<1>4. /\ DOMAIN rows' = DOMAIN rows \cup keys
      /\ DOMAIN origin' = DOMAIN rows'
      /\ \A key \in DOMAIN rows : key \notin keys =>
           rows'[key] = rows[key] /\ origin'[key] = origin[key]
  BY DEF Stores
<1>5. ASSUME NEW key \in keys
      PROVE  \E n \in DOMAIN records :
               /\ key[1] = p
               /\ rows'[key].portfolioValue = records[n].portfolioValue
               /\ rows'[key].drawdown = records[n].drawdown
               /\ origin'[key].seen = call[c].seen
  <2> DEFINE n == CHOOSE n \in fresh : records[n].timestamp = key[2]
  <2>1. key[1] = p /\ \E m \in fresh : records[m].timestamp = key[2]
    OBVIOUS
  <2>2. n \in DOMAIN records
    BY <1>2, <2>1
  <2>3. /\ rows'[key] = [portfolioValue |-> records[n].portfolioValue,
                         drawdown |-> records[n].drawdown]
        /\ origin'[key] = [call |-> c, seen |-> call[c].seen]
    BY DEF Stores
  <2> HIDE DEF n
  <2>. QED
    BY <2>1, <2>2, <2>3
<1>6. \A key \in DOMAIN rows : key \notin keys
  BY <1>2
<1>7. Grow(rows, submitted, rows', submitted')
  BY <1>4, <1>6 DEF Grow
<1> HIDE DEF keys
<1>8. ASSUME NEW key \in keys PROVE RowKnows(rows', origin', submitted', key)
  <2>1. PICK n \in DOMAIN records :
               /\ key[1] = p
               /\ rows'[key].portfolioValue = records[n].portfolioValue
               /\ rows'[key].drawdown = records[n].drawdown
               /\ origin'[key].seen = call[c].seen
    BY <1>5
  <2>2. FromCoveringPeak(rows', submitted', p, call[c].seen,
          records[n].portfolioValue, records[n].drawdown)
    BY <1>1, <1>7, CoveringPeakKept
  <2>. QED
    BY <1>1, <1>4, <2>1, <2>2 DEF RowKnows
<1>9. ASSUME NEW key \in DOMAIN rows
      PROVE  RowKnows(rows', origin', submitted', key)
  <2>1. key[1] \in Portfolios /\ RowKnows(rows, origin, submitted, key)
    BY DEF CurveInv, RowsInv, Key
  <2>2. origin'[key] = origin[key]
    BY <1>4, <1>6
  <2>. QED
    BY <1>7, <2>1, <2>2, RowKept
<1>10. RowsInv'
  <2>1. IsFiniteSet(DOMAIN rows) /\ DOMAIN rows \subseteq Key
    BY DEF CurveInv, RowsInv
  <2>2. IsFiniteSet(DOMAIN rows \cup keys)
    BY ONLY <1>3, <2>1, FS_Union
  <2>3. DOMAIN rows' \subseteq Key
    BY <1>3, <1>4, <2>1
  <2>. QED
    BY <1>4, <1>8, <1>9, <2>2, <2>3 DEF RowsInv
<1>. QED
  BY <1>7, <1>10 DEF CurveInv, PeaksInv

LEMMA StoreStep ==
  ASSUME CurveInv, NEW c \in Calls, DatabaseCreates(c)
  PROVE  CurveInv'
<1> DEFINE k == call[c]
<1>1. k \in CallRecord /\ CallKnows(rows, submitted, k) /\ k.phase = "storing"
  BY CallInFlight DEF CurveInv, DatabaseCreates
<1>2. k.records \in Seq(Entry)
  BY <1>1 DEF CallRecord
<1>3. Grow(rows, submitted, rows', submitted') /\ RowsInv' /\ PeaksInv'
  BY <1>1, <1>2, RowsStored DEF DatabaseCreates, CallKnows
<1>4. CallsInv'
  <2>1. call' = [call EXCEPT ![c] = Ended]
    BY DEF DatabaseCreates
  <2>. QED
    BY <1>3, <2>1, OneCallChanges DEF CurveInv
<1>. QED
  BY <1>3, <1>4 DEF CurveInv

LEMMA StoreManyStep ==
  ASSUME CurveInv, NEW c \in Calls, DatabaseCreatesMany(c)
  PROVE  CurveInv'
<1> DEFINE k == call[c]
           all == k.records
           size == IF BatchSize < Len(all) THEN BatchSize ELSE Len(all)
           now == SubSeq(all, 1, size)
           later == SubSeq(all, size + 1, Len(all))
           after == [k EXCEPT !.records = later]
<1>1. k \in CallRecord /\ CallKnows(rows, submitted, k) /\ k.phase = "storing"
  BY CallInFlight DEF CurveInv, DatabaseCreatesMany
<1>2. all \in Seq(Entry)
  BY <1>1 DEF CallRecord
<1>3. size \in 0..Len(all) /\ Len(all) \in Nat
  BY <1>2, CurveAssumption DEF CurveAssumption
<1> HIDE DEF size
<1>4. /\ now \in Seq(Entry) /\ \A n \in DOMAIN now : n \in DOMAIN all /\ now[n] = all[n]
      /\ later \in Seq(Entry)
      /\ \A n \in DOMAIN later : size + n \in DOMAIN all /\ later[n] = all[size + n]
  BY <1>2, <1>3
<1> HIDE DEF now, later
<1>5. Grow(rows, submitted, rows', submitted') /\ RowsInv' /\ PeaksInv'
  <2>1. Stores(c, now) /\ UNCHANGED <<sessionPeaks, submitted>>
    BY DEF DatabaseCreatesMany, now, size
  <2>2. \A n \in DOMAIN now :
          /\ now[n].portfolioValue \in submitted[k.portfolioId]
          /\ FromCoveringPeak(rows, submitted, k.portfolioId, k.seen,
               now[n].portfolioValue, now[n].drawdown)
    BY <1>1, <1>4 DEF CallKnows
  <2>. QED
    BY <1>1, <1>4, <2>1, <2>2, RowsStored
<1>6. after \in CallRecord /\ CallKnows(rows, submitted, after)
  <2>1. after \in CallRecord
    BY <1>1, <1>4 DEF CallRecord
  <2>2. \A n \in DOMAIN later :
          /\ later[n].portfolioValue \in submitted[k.portfolioId]
          /\ FromCoveringPeak(rows, submitted, k.portfolioId, k.seen,
               later[n].portfolioValue, later[n].drawdown)
    BY <1>1, <1>4 DEF CallKnows
  <2>. QED
    BY <1>1, <2>1, <2>2 DEF CallKnows, CallRecord
<1>7. call' = [call EXCEPT ![c] = Ended] \/ call' = [call EXCEPT ![c] = after]
  BY <1>1 DEF DatabaseCreatesMany, size, later, CurveInv, CallsInv
<1> HIDE DEF after
<1>8. CallsInv'
  <2>1. CallKnows(rows', submitted', after)
    BY <1>5, <1>6, CallKept
  <2>. QED
    BY <1>5, <1>6, <1>7, <2>1, OneCallChanges DEF CurveInv
<1>. QED
  BY <1>5, <1>8 DEF CurveInv

-----------------------------------------------------------------------------
(* Calls, peaks and processes end *)

LEMMA FailStep ==
  ASSUME CurveInv, NEW c \in Calls, DatabaseFails(c)
  PROVE  CurveInv'
<1>1. Grow(rows, submitted, rows', submitted')
  BY NothingGrows DEF DatabaseFails
<1>2. CallsInv'
  <2>1. call' = [call EXCEPT ![c] = Ended]
    BY DEF DatabaseFails
  <2>. QED
    BY <1>1, <2>1, OneCallChanges DEF CurveInv
<1>3. RowsInv' /\ PeaksInv'
  BY <1>1, RowsStay DEF CurveInv, DatabaseFails, PeaksInv
<1>. QED
  BY <1>2, <1>3 DEF CurveInv

LEMMA ClearStep ==
  ASSUME CurveInv, NEW p \in Portfolios, ClearSessionPeak(p)
  PROVE  CurveInv'
BY DEF CurveInv, CallsInv, RowsInv, PeaksInv, InFlight, ClearSessionPeak, history

LEMMA RestartStep ==
  ASSUME CurveInv, Restart
  PROVE  CurveInv'
<1>1. UNCHANGED <<rows, submitted, origin>>
  BY DEF Restart, history
<1>2. CallsInv'
  <2>1. call' \in [Calls -> {Unused, Ended} \cup CallRecord]
    BY DEF Restart, CurveInv, CallsInv
  <2>2. InFlight' = {}
    BY DEF Restart, InFlight, Ended
  <2>. QED
    BY <2>1, <2>2 DEF CallsInv
<1>3. RowsInv' /\ PeaksInv'
  <2>1. sessionPeaks' = [p \in {} |-> 0]
    BY DEF Restart
  <2>. QED
    BY <1>1, <2>1 DEF CurveInv, RowsInv, PeaksInv
<1>. QED
  BY <1>2, <1>3 DEF CurveInv

LEMMA InvNext == CurveInv /\ [Next]_vars => CurveInv'
<1> SUFFICES ASSUME CurveInv, [Next]_vars PROVE CurveInv'
  OBVIOUS
<1>1. CASE UNCHANGED vars
  BY <1>1 DEF vars, CurveInv, CallsInv, RowsInv, PeaksInv, InFlight
<1>2. CASE Next
  <2>1. ASSUME NEW c \in Calls, NEW p \in Portfolios,
               \/ \E s \in Snapshots : RecordSnapshot(c, p, s)
               \/ \E batch \in Batches : RecordSnapshotsBatch(c, p, batch)
        PROVE  CurveInv'
    BY <2>1, BeginSteps
  <2>2. ASSUME NEW c \in Calls, DatabaseFindsPeak(c) PROVE CurveInv'
    BY <2>2, FindStep
  <2>3. ASSUME NEW c \in Calls, ResolvePeak(c) PROVE CurveInv'
    BY <2>3, ResolveStep
  <2>4. ASSUME NEW c \in Calls, ResolveBatch(c) PROVE CurveInv'
    BY <2>4, ResolveBatchStep
  <2>5. ASSUME NEW c \in Calls, DatabaseCreates(c) PROVE CurveInv'
    BY <2>5, StoreStep
  <2>6. ASSUME NEW c \in Calls, DatabaseCreatesMany(c) PROVE CurveInv'
    BY <2>6, StoreManyStep
  <2>7. ASSUME NEW c \in Calls, DatabaseFails(c) PROVE CurveInv'
    BY <2>7, FailStep
  <2>8. ASSUME NEW p \in Portfolios, ClearSessionPeak(p) PROVE CurveInv'
    BY <2>8, ClearStep
  <2>9. CASE Restart
    BY <2>9, RestartStep
  <2>. QED
    BY <1>2, <2>1, <2>2, <2>3, <2>4, <2>5, <2>6, <2>7, <2>8, <2>9 DEF Next
<1>. QED
  BY <1>1, <1>2

(* However recordings, batches, clears, failures and restarts interleave   *)
(* (equity-curve.service.ts), every stored drawdown is measured from a     *)
(* submitted value, or zero, that covers every row stored when its         *)
(* recording began.                                                        *)
THEOREM StoredDrawdownsSeeStoredRows == Spec => []DrawdownsSeeStoredRows
<1>1. CurveInv => DrawdownsSeeStoredRows
  BY DEF CurveInv, RowsInv, RowKnows, FromCoveringPeak, CoversSeen, Peaks,
         DrawdownsSeeStoredRows
<1>. QED
  BY <1>1, InvInit, InvNext, PTL DEF Spec

-----------------------------------------------------------------------------
(* Recordings in order *)

(* The second invariant: what holds as long as recordings come one at a    *)
(* time, in the order of time, and none fails.                             *)

ValuesOf(R, p) == {R[key].portfolioValue : key \in {k \in DOMAIN R : k[1] = p}}

(* A peak over the values V, and the drawdown d of the value v from one. *)
IsPeak(peak, V) ==
  /\ peak \in V \cup {0}
  /\ 0 <= peak
  /\ \A v \in V : v <= peak

DrawnFrom(V, v, d) ==
  \E peak \in V \cup {0} : IsPeak(peak, V) /\ d = CalculateDrawdown(peak, v)

(* What a call has still to store. *)
Waiting(k) == IF k.phase = "storing" THEN k.records ELSE k.inputs

Increasing(w) ==
  \A m, n \in DOMAIN w : m < n => w[m].timestamp < w[n].timestamp

LaterThanRows(R, p, w) ==
  \A key \in DOMAIN R : key[1] = p =>
    \A n \in DOMAIN w : key[2] < w[n].timestamp

CallInOrder(R, k) ==
  LET values == ValuesOf(R, k.portfolioId)
  IN  /\ Increasing(Waiting(k))
      /\ LaterThanRows(R, k.portfolioId, Waiting(k))
      /\ k.sessionPeak \subseteq values \cup {0}
      /\ k.phase = "found" =>
           /\ k.persistedPeak \subseteq values
           /\ \A v \in values : \E w \in k.persistedPeak : v <= w
      /\ k.phase = "storing" =>
           \A n \in DOMAIN k.records :
             DrawnFrom(values \cup {k.records[i].portfolioValue : i \in 1..n},
                       k.records[n].portfolioValue, k.records[n].drawdown)

UpTo(R, key) == {k \in DOMAIN R : k[1] = key[1] /\ k[2] <= key[2]}

RowInOrder(R, key) ==
  DrawnFrom({R[k].portfolioValue : k \in UpTo(R, key)},
            R[key].portfolioValue, R[key].drawdown)

(* The peak in memory is zero or that of a row or of one to be stored. *)
IsReached(R, calls, p, peak) ==
  \/ peak \in ValuesOf(R, p) \cup {0}
  \/ \E c \in Calls :
       /\ calls[c].phase = "storing" /\ calls[c].portfolioId = p
       /\ \E n \in DOMAIN calls[c].records :
            calls[c].records[n].portfolioValue = peak

OrderInv ==
  orderly =>
    /\ \A c, d \in InFlight : c = d
    /\ \A c \in InFlight : CallInOrder(rows, call[c])
    /\ \A key \in DOMAIN rows : RowInOrder(rows, key)
    /\ \A p \in DOMAIN sessionPeaks : IsReached(rows, call, p, sessionPeaks[p])

LEMMA RowValues ==
  ASSUME CurveInv, NEW key \in DOMAIN rows
  PROVE  /\ key[1] \in Portfolios /\ key[2] \in Nat /\ key = <<key[1], key[2]>>
         /\ rows[key].portfolioValue \in Int
<1>1. key \in Key
  BY DEF CurveInv, RowsInv
<1>2. key[1] \in Portfolios /\ key[2] \in Nat /\ key = <<key[1], key[2]>>
  BY <1>1 DEF Key
<1>3. rows[key].portfolioValue \in submitted[key[1]]
  BY DEF CurveInv, RowsInv, RowKnows
<1>. QED
  BY <1>2, <1>3 DEF CurveInv, PeaksInv

LEMMA ValuesAreIntegers ==
  ASSUME CurveInv, NEW p
  PROVE  ValuesOf(rows, p) \subseteq Int
BY RowValues DEF ValuesOf

(* The maximum of peaks and values that cover all values is a peak.        *)
LEMMA MaximumIsPeak ==
  ASSUME NEW V, V \subseteq Int, NEW all, all \subseteq V \cup {0}, 0 \in all,
         IsFiniteSet(all), \A v \in V : \E w \in all : v <= w,
         NEW peak, peak = Max(all)
  PROVE  IsPeak(peak, V) /\ peak \in Int
<1>1. all \subseteq Int /\ all # {}
  OBVIOUS
<1>2. peak \in all /\ \A x \in all : x <= peak
  BY <1>1, MaxIsMaximum
<1>3. ASSUME NEW v \in V PROVE v <= peak
  <2>1. PICK w \in all : v <= w
    OBVIOUS
  <2>. QED
    BY <1>1, <1>2, <2>1
<1>. QED
  BY <1>1, <1>2, <1>3 DEF IsPeak

(* A step of one call leaves that call the only one in flight.             *)
LEMMA OneCallMoves ==
  ASSUME CallsInv, \A d, e \in InFlight : d = e, NEW c \in InFlight,
         NEW k, call' = [call EXCEPT ![c] = k],
         k = Ended \/ CallInOrder(rows', k)
  PROVE  /\ \A d, e \in InFlight' : d = e
         /\ \A d \in InFlight' : CallInOrder(rows', call'[d])
<1>1. ASSUME NEW d \in InFlight' PROVE d = c
  <2>1. d \in Calls /\ call'[d].phase \notin {"unused", "ended"}
    BY DEF InFlight
  <2>2. CASE d # c
    <3>1. call'[d] = call[d]
      BY <2>1, <2>2 DEF CallsInv
    <3>. QED
      BY <2>1, <3>1 DEF InFlight
  <2>. QED
    BY <2>2
<1>2. ASSUME NEW d \in InFlight' PROVE CallInOrder(rows', call'[d])
  <2>1. d = c /\ d \in Calls /\ call'[d].phase \notin {"unused", "ended"}
    BY <1>1 DEF InFlight
  <2>2. call'[d] = k
    BY <2>1 DEF CallsInv
  <2>. QED
    BY <2>1, <2>2 DEF Ended
<1>. QED
  BY <1>1, <1>2

LEMMA OrderInit == Init => OrderInv
BY DEF Init, OrderInv, InFlight, Unused

LEMMA BeginsInOrder ==
  ASSUME CurveInv, OrderInv, NEW c \in Calls, NEW p \in Portfolios,
         NEW inputs \in Seq(Snapshot) \ {<<>>}, NEW b \in BOOLEAN,
         NEW peak, peak \subseteq Known(p, sessionPeaks), call[c] = Unused,
         call' = [call EXCEPT ![c] = Begun(p, inputs, b, peak)],
         Submits(p, inputs), UNCHANGED <<sessionPeaks, rows>>
  PROVE  OrderInv'
<1>1. SUFFICES ASSUME orderly' PROVE OrderInv'
  BY DEF OrderInv
<1>2. /\ orderly /\ InFlight = {}
      /\ \A key \in RowsOf(p) : key[2] < inputs[1].timestamp
      /\ \A m, n \in DOMAIN inputs :
           m < n => inputs[m].timestamp < inputs[n].timestamp
  BY <1>1 DEF Submits
<1>3. \A n \in DOMAIN inputs : n \in Nat /\ 1 <= n /\ inputs[n].timestamp \in Nat
                               /\ 1 \in DOMAIN inputs
  <2>1. DOMAIN inputs = 1..Len(inputs) /\ Len(inputs) \in Nat
        /\ \A n \in DOMAIN inputs : inputs[n] \in Snapshot
    OBVIOUS
  <2>. QED
    BY <2>1 DEF Snapshot
<1>4. LaterThanRows(rows, p, inputs)
  <2> SUFFICES ASSUME NEW key \in DOMAIN rows, key[1] = p,
                      NEW n \in DOMAIN inputs
               PROVE  key[2] < inputs[n].timestamp
    BY DEF LaterThanRows
  <2>1. key[2] \in Nat /\ key \in RowsOf(p)
    BY RowValues DEF RowsOf
  <2>2. key[2] < inputs[1].timestamp
    BY <1>2, <2>1
  <2>3. inputs[1].timestamp \in Nat /\ inputs[n].timestamp \in Nat
    BY <1>3
  <2>4. n = 1 \/ 1 < n
    BY <1>3
  <2>5. inputs[1].timestamp <= inputs[n].timestamp
    BY <1>2, <1>3, <2>3, <2>4
  <2>. QED
    BY <2>1, <2>2, <2>3, <2>5
<1>5. \A q \in DOMAIN sessionPeaks :
        sessionPeaks[q] \in ValuesOf(rows, q) \cup {0}
  <2>1. \A d \in Calls : call[d].phase # "storing"
    BY <1>2 DEF InFlight
  <2>. QED
    BY <1>2, <2>1 DEF OrderInv, IsReached
<1> DEFINE k == Begun(p, inputs, b, peak)
<1>6. CallInOrder(rows, k)
  <2>1. peak \subseteq ValuesOf(rows, p) \cup {0}
    BY <1>5 DEF Known
  <2>. QED
    BY <1>2, <1>4, <2>1 DEF CallInOrder, Begun, Waiting, Increasing
<1>7. InFlight' \subseteq {c} /\ call'[c] = k
  <2>1. call \in [Calls -> {Unused, Ended} \cup CallRecord]
    BY DEF CurveInv, CallsInv
  <2>2. \A d \in Calls : d # c => call'[d] = call[d]
    BY <2>1
  <2>. QED
    BY <1>2, <2>1, <2>2 DEF InFlight
<1> HIDE DEF k
<1>8. /\ \A d, e \in InFlight' : d = e
      /\ \A d \in InFlight' : CallInOrder(rows', call'[d])
  BY <1>6, <1>7
<1>9. \A q \in DOMAIN sessionPeaks' :
        IsReached(rows', call', q, sessionPeaks'[q])
  BY <1>5 DEF IsReached
<1>10. \A key \in DOMAIN rows' : RowInOrder(rows', key)
  BY <1>2 DEF OrderInv
<1>. QED
  BY <1>8, <1>9, <1>10 DEF OrderInv

LEMMA BeginStepsInOrder ==
  ASSUME CurveInv, OrderInv, NEW c \in Calls, NEW p \in Portfolios,
         \/ \E s \in Snapshots : RecordSnapshot(c, p, s)
         \/ \E batch \in Batches : RecordSnapshotsBatch(c, p, batch)
  PROVE  OrderInv'
<1>1. ASSUME NEW s \in Snapshots, RecordSnapshot(c, p, s) PROVE OrderInv'
  <2>1. <<s>> \in Seq(Snapshot) \ {<<>>}
    BY CurveAssumption DEF CurveAssumption
  <2>2. /\ call[c] = Unused
        /\ call' = [call EXCEPT ![c] =
               Begun(p, <<s>>, FALSE, Known(p, sessionPeaks))]
        /\ Submits(p, <<s>>) /\ UNCHANGED <<sessionPeaks, rows>>
    BY <1>1 DEF RecordSnapshot, Begun
  <2>. QED
    BY <2>1, <2>2, BeginsInOrder
<1>2. ASSUME NEW batch \in Batches, RecordSnapshotsBatch(c, p, batch)
      PROVE  OrderInv'
  <2>1. batch \in Seq(Snapshot) \ {<<>>}
    BY CurveAssumption DEF CurveAssumption
  <2>2. ASSUME NEW inputs \in Seq(Snapshot) \ {<<>>}, Submits(p, inputs),
               NEW peak, peak = {}, NEW b \in BOOLEAN,
               call' = [call EXCEPT ![c] = Begun(p, inputs, b, peak)]
        PROVE  OrderInv'
    <3>1. /\ UNCHANGED <<sessionPeaks, rows>> /\ call[c] = Unused
          /\ peak \subseteq Known(p, sessionPeaks)
      BY <1>2, <2>2 DEF RecordSnapshotsBatch
    <3>. QED
      BY <2>2, <3>1, BeginsInOrder
  <2>3. PICK inputs \in SortedInputs(batch) :
          /\ call' = [call EXCEPT ![c] = Begun(p, inputs, TRUE, {})]
          /\ Submits(p, inputs)
    BY <1>2 DEF RecordSnapshotsBatch, Begun
  <2>4. inputs \in Seq(Snapshot) \ {<<>>}
    BY <2>1, SortedInputsType
  <2>. QED
    BY <2>2, <2>3, <2>4
<1>. QED
  BY <1>1, <1>2

LEMMA FindInOrder ==
  ASSUME CurveInv, OrderInv, NEW c \in Calls, DatabaseFindsPeak(c)
  PROVE  OrderInv'
<1> DEFINE k == call[c]
           p == k.portfolioId
           found == FindPeakPortfolioValue(p)
           after == [k EXCEPT !.phase = "found", !.persistedPeak = found]
<1>1. SUFFICES ASSUME orderly' PROVE OrderInv'
  BY DEF OrderInv
<1>2. /\ orderly /\ c \in InFlight /\ k.phase = "finding"
      /\ call' = [call EXCEPT ![c] = after]
      /\ UNCHANGED <<rows, sessionPeaks>>
  BY <1>1 DEF DatabaseFindsPeak, history, InFlight
<1>3. k \in CallRecord /\ p \in Portfolios
  <2>1. k \in CallRecord
    BY <1>2, CallInFlight DEF CurveInv
  <2>. QED
    BY <2>1 DEF CallRecord
<1>4. /\ found \subseteq ValuesOf(rows, p)
      /\ \A v \in ValuesOf(rows, p) : \E w \in found : v <= w
  <2>1. found \subseteq ValuesOf(rows, p)
    BY DEF FindPeakPortfolioValue, RowsOf, ValuesOf
  <2>2. ASSUME NEW v \in ValuesOf(rows, p) PROVE \E w \in found : v <= w
    <3>1. PICK key \in RowsOf(p) : v = rows[key].portfolioValue
      BY DEF ValuesOf, RowsOf
    <3>. QED
      BY <1>3, <3>1, FoundPeak DEF CurveInv
  <2>. QED
    BY <2>1, <2>2
<1> HIDE DEF found
<1>5. CallInOrder(rows, after)
  <2>1. CallInOrder(rows, k)
    BY <1>2 DEF OrderInv
  <2>2. /\ after.phase = "found" /\ after.inputs = k.inputs
        /\ after.portfolioId = p /\ after.sessionPeak = k.sessionPeak
        /\ after.persistedPeak = found
    BY <1>3 DEF CallRecord
  <2> HIDE DEF after
  <2>. QED
    BY <1>2, <1>4, <2>1, <2>2 DEF CallInOrder, Waiting
<1> HIDE DEF after
<1>6. /\ \A d, e \in InFlight' : d = e
      /\ \A d \in InFlight' : CallInOrder(rows', call'[d])
  BY <1>2, <1>5, OneCallMoves DEF OrderInv, CurveInv
<1>7. ASSUME NEW q \in DOMAIN sessionPeaks
      PROVE  IsReached(rows, call', q, sessionPeaks[q])
  <2>1. \A d \in Calls : call[d].phase = "storing" => d # c /\ call'[d] = call[d]
    BY <1>2 DEF CurveInv, CallsInv
  <2>2. IsReached(rows, call, q, sessionPeaks[q])
    BY <1>2 DEF OrderInv
  <2>. QED
    BY <2>1, <2>2 DEF IsReached
<1>. QED
  BY <1>2, <1>6, <1>7 DEF OrderInv

(* A call that resolves its peaks: record n is measured from the peak over *)
(* the stored rows and the records up to n.                                *)
DrawnInOrder(values, records) ==
  \A n \in DOMAIN records :
    DrawnFrom(values \cup {records[i].portfolioValue : i \in 1..n},
              records[n].portfolioValue, records[n].drawdown)

LEMMA ResolvesInOrder ==
  ASSUME CurveInv, OrderInv, orderly, NEW c \in Calls, call[c].phase = "found",
         NEW records \in Seq(Entry),
         DOMAIN records \subseteq DOMAIN call[c].inputs,
         \A n \in DOMAIN records :
           records[n].timestamp = call[c].inputs[n].timestamp,
         DrawnInOrder(ValuesOf(rows, call[c].portfolioId), records),
         NEW peak,
         \/ peak \in ValuesOf(rows, call[c].portfolioId) \cup {0}
         \/ \E n \in DOMAIN records : records[n].portfolioValue = peak,
         sessionPeaks' = WithPeak(call[c].portfolioId, peak),
         call' = [call EXCEPT ![c].phase = "storing", ![c].records = records],
         UNCHANGED <<rows, history>>
  PROVE  OrderInv'
<1> DEFINE k == call[c]
           p == k.portfolioId
           after == [k EXCEPT !.phase = "storing", !.records = records]
<1>1. c \in InFlight /\ k \in CallRecord
  BY CallInFlight DEF InFlight, CurveInv
<1>2. /\ after.phase = "storing" /\ after.records = records
      /\ after.portfolioId = p /\ after.sessionPeak = k.sessionPeak
  BY <1>1 DEF CallRecord
<1>3. call' = [call EXCEPT ![c] = after]
  OBVIOUS
<1> HIDE DEF after
<1>4. CallInOrder(rows, after)
  <2>1. CallInOrder(rows, k)
    BY <1>1 DEF OrderInv
  <2>2. /\ Increasing(k.inputs) /\ LaterThanRows(rows, p, k.inputs)
        /\ k.sessionPeak \subseteq ValuesOf(rows, p) \cup {0}
    BY <2>1 DEF CallInOrder, Waiting
  <2>3. Increasing(records) /\ LaterThanRows(rows, p, records)
    BY <2>2 DEF Increasing, LaterThanRows
  <2>. QED
    BY <1>2, <2>2, <2>3 DEF CallInOrder, Waiting, DrawnInOrder
<1>5. /\ \A d, e \in InFlight' : d = e
      /\ \A d \in InFlight' : CallInOrder(rows', call'[d])
  BY <1>1, <1>3, <1>4, OneCallMoves DEF OrderInv, CurveInv
<1>6. call'[c] = after /\ \A d \in Calls : d # c => call'[d] = call[d]
  BY <1>3 DEF CurveInv, CallsInv
<1>7. ASSUME NEW q \in DOMAIN sessionPeaks'
      PROVE  IsReached(rows, call', q, sessionPeaks'[q])
  <2>1. CASE q = p
    <3>1. sessionPeaks'[q] = peak
      BY <2>1 DEF WithPeak
    <3>2. \/ peak \in ValuesOf(rows, p) \cup {0}
          \/ \E n \in DOMAIN records : records[n].portfolioValue = peak
      OBVIOUS
    <3>3. /\ call'[c].phase = "storing" /\ call'[c].portfolioId = p
          /\ call'[c].records = records
      BY <1>2, <1>6
    <3>4. IsReached(rows, call', p, peak)
      BY ONLY <3>2, <3>3, c \in Calls DEF IsReached
    <3>. QED
      BY <2>1, <3>1, <3>4
  <2>2. CASE q # p
    <3>1. q \in DOMAIN sessionPeaks /\ sessionPeaks'[q] = sessionPeaks[q]
      BY <2>2 DEF WithPeak
    <3>2. IsReached(rows, call, q, sessionPeaks[q])
      BY <3>1 DEF OrderInv
    <3>3. \A d \in Calls : call[d].phase = "storing" => call'[d] = call[d]
      BY <1>6
    <3>4. IsReached(rows, call', q, sessionPeaks[q])
      BY ONLY <3>2, <3>3 DEF IsReached
    <3>. QED
      BY <3>1, <3>4
  <2>. QED
    BY <2>1, <2>2
<1>8. orderly' /\ rows' = rows
  BY DEF history
<1>. QED
  BY <1>5, <1>7, <1>8 DEF OrderInv

LEMMA ResolveStepInOrder ==
  ASSUME CurveInv, OrderInv, NEW c \in Calls, ResolvePeak(c)
  PROVE  OrderInv'
<1> DEFINE k == call[c]
           p == k.portfolioId
           s == k.inputs[1]
           value == PortfolioValue(s)
           values == ValuesOf(rows, p)
           peak == PeakOf(k.sessionPeak, k.persistedPeak, value)
           records == <<Record(s, peak)>>
<1>1. SUFFICES ASSUME orderly' PROVE OrderInv'
  BY DEF OrderInv
<1>2. /\ orderly /\ k.phase = "found" /\ c \in InFlight
      /\ sessionPeaks' = WithPeak(p, peak)
      /\ call' = [call EXCEPT ![c].phase = "storing", ![c].records = records]
      /\ UNCHANGED <<rows, history>>
  BY <1>1 DEF ResolvePeak, history, InFlight
<1>3. k.inputs \in Seq(Snapshot) \ {<<>>} /\ k \in CallRecord
      /\ CallKnows(rows, submitted, k)
  BY <1>2, ResolvingCall
<1>4. s \in Snapshot /\ value \in Int /\ s.timestamp \in Nat
      /\ 1 \in DOMAIN k.inputs
  <2>1. s \in Snapshot /\ 1 \in DOMAIN k.inputs
    BY <1>3
  <2> HIDE DEF s
  <2>. QED
    BY <2>1, ValueIsInteger DEF Snapshot
<1>5. CallInOrder(rows, k)
  BY <1>2 DEF OrderInv
<1>6. IsPeak(peak, values \cup {value}) /\ peak \in Int
  <2> DEFINE all == {0} \cup {value} \cup k.sessionPeak \cup k.persistedPeak
  <2>1. values \cup {value} \subseteq Int
    BY <1>4, ValuesAreIntegers
  <2>2. all \subseteq (values \cup {value}) \cup {0} /\ 0 \in all
    BY <1>2, <1>5 DEF CallInOrder
  <2>3. IsFiniteSet(all)
    BY <1>3, FS_Singleton, FS_Union DEF CallKnows
  <2>4. \A v \in values \cup {value} : \E w \in all : v <= w
    <3>1. \A v \in values : \E w \in k.persistedPeak : v <= w
      BY <1>2, <1>5 DEF CallInOrder
    <3>2. value \in all /\ value <= value /\ k.persistedPeak \subseteq all
      BY <1>4
    <3> HIDE DEF all, values, value
    <3>. QED
      BY <3>1, <3>2
  <2>5. peak = Max(all)
    BY DEF PeakOf
  <2> HIDE DEF all, peak, values, value
  <2>. QED
    BY <2>1, <2>2, <2>3, <2>4, <2>5, MaximumIsPeak
<1>7. Record(s, peak) = [timestamp |-> s.timestamp, portfolioValue |-> value,
                         drawdown |-> CalculateDrawdown(peak, value)]
  BY DEF Record
<1>8. CalculateDrawdown(peak, value) \in Int
  BY <1>4, <1>6, DrawdownIsInteger
<1> HIDE DEF peak, value, values, s, k
<1>9. /\ records \in Seq(Entry) /\ DOMAIN records = {1}
      /\ records[1].timestamp = s.timestamp
      /\ records[1].portfolioValue = value
      /\ records[1].drawdown = CalculateDrawdown(peak, value)
  BY <1>4, <1>7, <1>8 DEF Entry
<1> HIDE DEF records
<1>10. DrawnInOrder(values, records)
  <2>1. {records[i].portfolioValue : i \in 1..1} = {value}
    BY <1>9
  <2>. QED
    BY <1>6, <1>9, <2>1 DEF DrawnInOrder, DrawnFrom, IsPeak
<1>11. \/ peak \in values \cup {0}
       \/ \E n \in DOMAIN records : records[n].portfolioValue = peak
  BY <1>6, <1>9 DEF IsPeak
<1>12. DOMAIN records \subseteq DOMAIN k.inputs
  BY <1>4, <1>9
<1>. QED
  BY <1>2, <1>9, <1>10, <1>11, <1>12, ResolvesInOrder DEF k, s, values

LEMMA ResolveBatchInOrder ==
  ASSUME CurveInv, OrderInv, NEW c \in Calls, ResolveBatch(c)
  PROVE  OrderInv'
<1> DEFINE k == call[c]
           p == k.portfolioId
           inputs == k.inputs
           values == ValuesOf(rows, p)
           peak == [n \in DOMAIN inputs |->
                      RunningPeak(k.persistedPeak, inputs, n)]
           records == [n \in DOMAIN inputs |-> Record(inputs[n], peak[n])]
<1>1. SUFFICES ASSUME orderly' PROVE OrderInv'
  BY DEF OrderInv
<1>2. k.phase = "found" /\ orderly /\ c \in InFlight
  BY <1>1 DEF ResolveBatch, history, InFlight
<1>3. inputs \in Seq(Snapshot) \ {<<>>} /\ k \in CallRecord
      /\ CallKnows(rows, submitted, k)
  BY <1>2, ResolvingCall
<1>4. /\ DOMAIN inputs = 1..Len(inputs) /\ Len(inputs) \in DOMAIN inputs
      /\ \A n \in DOMAIN inputs : n \in Nat /\ inputs[n] \in Snapshot
                                  /\ \A i \in 1..n : i \in DOMAIN inputs
  BY <1>3
<1>5. /\ sessionPeaks' = WithPeak(p, peak[Len(inputs)])
      /\ call' = [call EXCEPT ![c].phase = "storing", ![c].records = records]
      /\ UNCHANGED <<rows, history>>
  BY <1>4 DEF ResolveBatch
<1>6. CallInOrder(rows, k)
  BY <1>2 DEF OrderInv
<1> HIDE DEF k
<1>7. \A n \in DOMAIN inputs :
        PortfolioValue(inputs[n]) \in Int /\ inputs[n].timestamp \in Nat
  <2> SUFFICES ASSUME NEW n \in DOMAIN inputs
               PROVE  PortfolioValue(inputs[n]) \in Int
                      /\ inputs[n].timestamp \in Nat
    OBVIOUS
  <2>1. inputs[n] \in Snapshot
    BY <1>4
  <2> HIDE DEF inputs
  <2>. QED
    BY <2>1, ValueIsInteger DEF Snapshot
<1>8. ASSUME NEW n \in DOMAIN inputs
      PROVE  /\ peak[n] \in Int
             /\ IsPeak(peak[n], values \cup ValuesUpTo(inputs, n))
  <2> DEFINE given == ValuesUpTo(inputs, n)
             all == {0} \cup k.persistedPeak \cup given
  <2>1. values \cup given \subseteq Int
    BY <1>4, <1>7, ValuesAreIntegers DEF ValuesUpTo
  <2>2. IsFiniteSet(given)
    <3> DEFINE f == [i \in 1..n |-> PortfolioValue(inputs[i])]
    <3>1. n \in Nat
      BY <1>4
    <3>2. IsFiniteSet(1..n)
      BY ONLY <3>1, FS_Interval
    <3>3. given = {f[i] : i \in 1..n}
      BY DEF ValuesUpTo
    <3> HIDE DEF f, given
    <3>. QED
      BY <3>2, <3>3, FiniteValues
  <2>3. peak[n] = Max(all)
    BY DEF RunningPeak
  <2> HIDE DEF given, peak
  <2>4. IsFiniteSet(all)
    BY <1>3, <2>2, FS_Singleton, FS_Union DEF CallKnows
  <2>5. /\ k.persistedPeak \subseteq values
        /\ \A v \in values : \E w \in k.persistedPeak : v <= w
    BY <1>2, <1>6 DEF CallInOrder
  <2>6. all \subseteq (values \cup given) \cup {0} /\ 0 \in all
    BY <2>5
  <2>7. \A v \in values \cup given : \E w \in all : v <= w
    <3>1. given \subseteq all /\ k.persistedPeak \subseteq all
          /\ \A v \in given : v <= v
      BY <2>1
    <3> HIDE DEF all, values
    <3>. QED
      BY <2>5, <3>1
  <2> HIDE DEF all, values
  <2>. QED
    BY <2>1, <2>3, <2>4, <2>6, <2>7, MaximumIsPeak DEF given
<1> HIDE DEF peak
<1>9. DOMAIN records = DOMAIN inputs /\
      \A n \in DOMAIN inputs :
        /\ records[n].timestamp = inputs[n].timestamp
        /\ records[n].portfolioValue = PortfolioValue(inputs[n])
        /\ records[n].drawdown
             = CalculateDrawdown(peak[n], PortfolioValue(inputs[n]))
        /\ records[n] \in Entry
  <2> SUFFICES ASSUME NEW n \in DOMAIN inputs
               PROVE  /\ records[n].timestamp = inputs[n].timestamp
                      /\ records[n].portfolioValue = PortfolioValue(inputs[n])
                      /\ records[n].drawdown
                           = CalculateDrawdown(peak[n], PortfolioValue(inputs[n]))
                      /\ records[n] \in Entry
    OBVIOUS
  <2>1. records[n] = Record(inputs[n], peak[n])
    OBVIOUS
  <2>2. CalculateDrawdown(peak[n], PortfolioValue(inputs[n])) \in Int
    BY <1>7, <1>8, DrawdownIsInteger
  <2> HIDE DEF records, inputs
  <2>. QED
    BY <1>7, <2>1, <2>2 DEF Record, Entry
<1>10. records \in Seq(Entry)
  <2>1. records \in [1..Len(inputs) -> Entry] /\ Len(inputs) \in Nat
    <3> HIDE DEF records
    <3>. QED
      BY <1>3, <1>4, <1>9 DEF records
  <2> HIDE DEF records
  <2>. QED
    BY <2>1
<1> HIDE DEF records
<1>11. ASSUME NEW n \in DOMAIN inputs
       PROVE  ValuesUpTo(inputs, n) = {records[i].portfolioValue : i \in 1..n}
  BY <1>4, <1>9 DEF ValuesUpTo
<1>12. DrawnInOrder(values, records)
  <2> SUFFICES ASSUME NEW n \in DOMAIN records
               PROVE  DrawnFrom(
                        values \cup {records[i].portfolioValue : i \in 1..n},
                        records[n].portfolioValue, records[n].drawdown)
    BY DEF DrawnInOrder
  <2> DEFINE V == values \cup {records[i].portfolioValue : i \in 1..n}
  <2>1. IsPeak(peak[n], V)
    BY <1>8, <1>9, <1>11
  <2> HIDE DEF V
  <2>2. DrawnFrom(V, records[n].portfolioValue, records[n].drawdown)
    BY <1>9, <2>1 DEF DrawnFrom, IsPeak
  <2>. QED
    BY <2>2 DEF V
<1>13. \/ peak[Len(inputs)] \in values \cup {0}
       \/ \E n \in DOMAIN records :
            records[n].portfolioValue = peak[Len(inputs)]
  <2> DEFINE n == Len(inputs)
  <2>1. peak[n] \in (values \cup {records[i].portfolioValue : i \in 1..n}) \cup {0}
    BY <1>4, <1>8, <1>11 DEF IsPeak
  <2>. QED
    BY <1>4, <1>9, <2>1
<1>. QED
  BY <1>2, <1>5, <1>9, <1>10, <1>12, <1>13, ResolvesInOrder DEF k

-----------------------------------------------------------------------------
(* Rows are stored in order *)

(* The rows R2 are those of R and, for p, the first m of the waiting w.    *)
IsStored(R, R2, p, w, m) ==
  /\ DOMAIN R2 = DOMAIN R \cup {<<p, w[n].timestamp>> : n \in 1..m}
  /\ \A key \in DOMAIN R : R2[key] = R[key]
  /\ \A n \in 1..m :
       LET row == R2[<<p, w[n].timestamp>>]
       IN  /\ row.portfolioValue = w[n].portfolioValue
           /\ row.drawdown = w[n].drawdown

(* Rows that come later than all others are all stored.                    *)
LEMMA StoredInOrder ==
  ASSUME NEW c, NEW w \in Seq(Entry), NEW m \in 0..Len(w), NEW now,
         DOMAIN now = 1..m, \A n \in 1..m : now[n] = w[n],
         Increasing(w), LaterThanRows(rows, call[c].portfolioId, w),
         \A key \in DOMAIN rows : key[2] \in Nat, Stores(c, now)
  PROVE  IsStored(rows, rows', call[c].portfolioId, w, m)
<1> DEFINE p == call[c].portfolioId
           keyOf(n) == <<p, now[n].timestamp>>
<1>1. \A n \in 1..m : n \in Nat /\ n \in DOMAIN w /\ w[n].timestamp \in Nat
                      /\ now[n] = w[n]
  <2> SUFFICES ASSUME NEW n \in 1..m
               PROVE  n \in Nat /\ n \in DOMAIN w /\ w[n].timestamp \in Nat
                      /\ now[n] = w[n]
    OBVIOUS
  <2>1. n \in Nat /\ n \in DOMAIN w /\ now[n] = w[n]
    OBVIOUS
  <2>2. w[n] \in Entry
    BY <2>1
  <2>. QED
    BY <2>1, <2>2 DEF Entry
<1>2. \A n \in 1..m : keyOf(n) \notin DOMAIN rows
  <2> SUFFICES ASSUME NEW n \in 1..m, keyOf(n) \in DOMAIN rows PROVE FALSE
    OBVIOUS
  <2>1. keyOf(n)[1] = p /\ keyOf(n)[2] = w[n].timestamp
    BY <1>1
  <2> HIDE DEF keyOf
  <2>2. w[n].timestamp < w[n].timestamp
    BY <1>1, <2>1 DEF LaterThanRows
  <2>. QED
    BY <1>1, <2>2
<1>3. \A i, n \in 1..m : now[i].timestamp = now[n].timestamp => i = n
  <2> SUFFICES ASSUME NEW i \in 1..m, NEW n \in 1..m,
                      w[i].timestamp = w[n].timestamp, i # n
               PROVE  FALSE
    BY <1>1
  <2>1. i < n \/ n < i
    BY <1>1
  <2>2. w[i].timestamp < w[n].timestamp \/ w[n].timestamp < w[i].timestamp
    BY <1>1, <2>1 DEF Increasing
  <2>. QED
    BY <1>1, <2>2
<1>4. Fresh(p, now) = 1..m
  <2>1. \A n \in 1..m : \A i \in 1..(n - 1) :
          i \in 1..m /\ now[i].timestamp # now[n].timestamp
    <3>1. \A n \in 1..m : \A i \in 1..(n - 1) : i \in 1..m /\ i # n
      BY <1>1
    <3>. QED
      BY <1>3, <3>1
  <2>. QED
    BY <1>2, <2>1 DEF Fresh
<1> DEFINE keys == {keyOf(n) : n \in 1..m}
           at(key) == CHOOSE n \in 1..m : now[n].timestamp = key[2]
<1>5. rows' = [key \in DOMAIN rows \cup keys |->
                 IF key \in keys
                 THEN [portfolioValue |-> now[at(key)].portfolioValue,
                       drawdown |-> now[at(key)].drawdown]
                 ELSE rows[key]]
  BY <1>4 DEF Stores
<1>6. \A n \in 1..m : at(keyOf(n)) = n
  <2> SUFFICES ASSUME NEW n \in 1..m PROVE at(keyOf(n)) = n
    OBVIOUS
  <2>1. keyOf(n)[2] = now[n].timestamp
    OBVIOUS
  <2>. QED
    BY <1>3, <2>1
<1>7. keys = {<<p, w[n].timestamp>> : n \in 1..m}
  BY <1>1
<1>8. \A key \in DOMAIN rows : rows'[key] = rows[key]
  BY <1>2, <1>5
<1>9. ASSUME NEW n \in 1..m
      PROVE  LET row == rows'[<<p, w[n].timestamp>>]
             IN  /\ row.portfolioValue = w[n].portfolioValue
                 /\ row.drawdown = w[n].drawdown
  <2>1. keyOf(n) = <<p, w[n].timestamp>> /\ keyOf(n) \in keys
    BY <1>1
  <2>2. rows'[keyOf(n)] = [portfolioValue |-> now[n].portfolioValue,
                           drawdown |-> now[n].drawdown]
    <3> HIDE DEF at
    <3>. QED
      BY <1>5, <1>6, <2>1
  <2> HIDE DEF keyOf
  <2>. QED
    BY <1>1, <2>1, <2>2
<1>. QED
  BY <1>5, <1>7, <1>8, <1>9 DEF IsStored

LEMMA ValuesAfterStoring ==
  ASSUME NEW R, NEW R2, NEW p, NEW w, NEW m, IsStored(R, R2, p, w, m)
  PROVE  /\ ValuesOf(R2, p)
              = ValuesOf(R, p) \cup {w[i].portfolioValue : i \in 1..m}
         /\ \A q : q # p => ValuesOf(R2, q) = ValuesOf(R, q)
<1> DEFINE new == {<<p, w[n].timestamp>> : n \in 1..m}
<1>1. /\ \A key \in new : key[1] = p
      /\ DOMAIN R2 = DOMAIN R \cup new
      /\ \A key \in DOMAIN R : R2[key] = R[key]
  BY DEF IsStored
<1>2. \A n \in 1..m : /\ <<p, w[n].timestamp>> \in new
                      /\ R2[<<p, w[n].timestamp>>].portfolioValue
                           = w[n].portfolioValue
  BY DEF IsStored
<1>3. \A key \in new : \E n \in 1..m :
        R2[key].portfolioValue = w[n].portfolioValue
  BY <1>2
<1> HIDE DEF new
<1>4. ASSUME NEW v \in ValuesOf(R2, p)
      PROVE  v \in ValuesOf(R, p) \cup {w[i].portfolioValue : i \in 1..m}
  BY <1>1, <1>3 DEF ValuesOf
<1>5. ASSUME NEW v \in ValuesOf(R, p) \cup {w[i].portfolioValue : i \in 1..m}
      PROVE  v \in ValuesOf(R2, p)
  <2>1. CASE v \in ValuesOf(R, p)
    BY <1>1, <2>1 DEF ValuesOf
  <2>2. ASSUME NEW i \in 1..m, v = w[i].portfolioValue
        PROVE  v \in ValuesOf(R2, p)
    <3> DEFINE key == <<p, w[i].timestamp>>
    <3>1. key \in DOMAIN R2 /\ key[1] = p /\ R2[key].portfolioValue = v
      BY <1>1, <1>2, <2>2
    <3> HIDE DEF key
    <3>. QED
      BY <3>1 DEF ValuesOf
  <2>. QED
    BY <2>1, <2>2
<1>6. \A q : q # p => ValuesOf(R2, q) = ValuesOf(R, q)
  BY <1>1 DEF ValuesOf
<1>. QED
  BY <1>4, <1>5, <1>6

LEMMA RowsStayInOrder ==
  ASSUME NEW R, NEW R2, NEW p, NEW w \in Seq(Entry), NEW m \in 0..Len(w),
         IsStored(R, R2, p, w, m), Increasing(w), LaterThanRows(R, p, w),
         \A key \in DOMAIN R : key[2] \in Nat,
         \A key \in DOMAIN R : RowInOrder(R, key),
         DrawnInOrder(ValuesOf(R, p), w)
  PROVE  \A key \in DOMAIN R2 : RowInOrder(R2, key)
<1> DEFINE new(n) == <<p, w[n].timestamp>>
<1>1. \A n \in 1..m : n \in Nat /\ n \in DOMAIN w /\ w[n].timestamp \in Nat
                      /\ new(n)[1] = p /\ new(n)[2] = w[n].timestamp
  <2>1. DOMAIN w = 1..Len(w) /\ Len(w) \in Nat
        /\ \A n \in DOMAIN w : w[n] \in Entry
    OBVIOUS
  <2>2. \A n \in 1..m : n \in Nat /\ n \in DOMAIN w
    BY <2>1
  <2>3. \A n \in DOMAIN w : w[n].timestamp \in Nat
    BY <2>1 DEF Entry
  <2>. QED
    BY <2>2, <2>3
<1>2. /\ DOMAIN R2 = DOMAIN R \cup {new(n) : n \in 1..m}
      /\ \A key \in DOMAIN R : R2[key] = R[key]
      /\ \A n \in 1..m : /\ R2[new(n)].portfolioValue = w[n].portfolioValue
                         /\ R2[new(n)].drawdown = w[n].drawdown
  BY DEF IsStored
<1> HIDE DEF new
<1>3. ASSUME NEW key \in DOMAIN R PROVE RowInOrder(R2, key)
  <2>1. \A n \in 1..m : ~(new(n)[1] = key[1] /\ new(n)[2] <= key[2])
    <3> SUFFICES ASSUME NEW n \in 1..m, p = key[1], w[n].timestamp <= key[2]
                 PROVE  FALSE
      BY <1>1
    <3>1. key[2] < w[n].timestamp
      BY <1>1 DEF LaterThanRows
    <3>. QED
      BY <1>1, <3>1
  <2>2. UpTo(R2, key) = UpTo(R, key)
    BY <1>2, <2>1 DEF UpTo
  <2>3. UpTo(R, key) \subseteq DOMAIN R
    BY DEF UpTo
  <2>4. {R2[k].portfolioValue : k \in UpTo(R2, key)}
          = {R[k].portfolioValue : k \in UpTo(R, key)}
    BY <1>2, <2>2, <2>3
  <2>5. RowInOrder(R, key) /\ R2[key] = R[key]
    BY <1>2
  <2>. QED
    BY <2>4, <2>5 DEF RowInOrder
<1>4. ASSUME NEW n \in 1..m PROVE RowInOrder(R2, new(n))
  <2> DEFINE upTo == {R2[k].portfolioValue : k \in UpTo(R2, new(n))}
             V == ValuesOf(R, p) \cup {w[i].portfolioValue : i \in 1..n}
  <2>1. \A k \in DOMAIN R : k[1] = p => k[2] <= w[n].timestamp
    <3> SUFFICES ASSUME NEW k \in DOMAIN R, k[1] = p
                 PROVE  k[2] <= w[n].timestamp
      OBVIOUS
    <3>1. k[2] < w[n].timestamp
      BY <1>1 DEF LaterThanRows
    <3>. QED
      BY <1>1, <3>1
  <2>2. \A i \in 1..m : w[i].timestamp <= w[n].timestamp <=> i <= n
    <3> SUFFICES ASSUME NEW i \in 1..m
                 PROVE  w[i].timestamp <= w[n].timestamp <=> i <= n
      OBVIOUS
    <3>1. i < n \/ i = n \/ n < i
      BY <1>1
    <3>2. /\ i < n => w[i].timestamp < w[n].timestamp
          /\ n < i => w[n].timestamp < w[i].timestamp
      BY <1>1 DEF Increasing
    <3>3. i \in Nat /\ n \in Nat /\ w[i].timestamp \in Nat
          /\ w[n].timestamp \in Nat
      BY <1>1
    <3>. QED
      BY <3>1, <3>2, <3>3
  <2>3. \A i \in 1..n : i \in 1..m /\ i <= n
    BY <1>1
  <2>4. \A i \in 1..m : i <= n => i \in 1..n
    BY <1>1
  <2>5. ASSUME NEW v \in upTo PROVE v \in V
    <3>1. PICK k \in UpTo(R2, new(n)) : v = R2[k].portfolioValue
      OBVIOUS
    <3>2. k[1] = p /\ k[2] <= w[n].timestamp /\ k \in DOMAIN R2
      BY <1>1, <3>1 DEF UpTo
    <3>3. CASE k \in DOMAIN R
      BY <1>2, <3>1, <3>2, <3>3 DEF ValuesOf
    <3>4. CASE k \notin DOMAIN R
      <4>1. PICK i \in 1..m : k = new(i)
        BY <1>2, <3>2, <3>4
      <4>2. i \in 1..n
        BY <1>1, <2>2, <2>4, <3>2, <4>1
      <4>. QED
        BY <1>2, <3>1, <4>1, <4>2
    <3>. QED
      BY <3>3, <3>4
  <2>6. ASSUME NEW v \in V PROVE v \in upTo
    <3>1. CASE v \in ValuesOf(R, p)
      <4>1. PICK k \in DOMAIN R : k[1] = p /\ v = R[k].portfolioValue
        BY <3>1 DEF ValuesOf
      <4>2. k \in UpTo(R2, new(n))
        BY <1>1, <1>2, <2>1, <4>1 DEF UpTo
      <4>. QED
        BY <1>2, <4>1, <4>2
    <3>2. ASSUME NEW i \in 1..n, v = w[i].portfolioValue PROVE v \in upTo
      <4>1. i \in 1..m /\ i <= n
        BY <2>3
      <4>2. new(i) \in UpTo(R2, new(n))
        BY <1>1, <1>2, <2>2, <4>1 DEF UpTo
      <4>. QED
        BY <1>2, <3>2, <4>1, <4>2
    <3>. QED
      BY <3>1, <3>2
  <2> HIDE DEF upTo
  <2>7. upTo = V
    BY <2>5, <2>6
  <2>8. DrawnFrom(V, w[n].portfolioValue, w[n].drawdown)
    BY <1>1 DEF DrawnInOrder
  <2> HIDE DEF V
  <2>9. DrawnFrom(upTo, R2[new(n)].portfolioValue, R2[new(n)].drawdown)
    BY <1>2, <2>7, <2>8
  <2>. QED
    BY <2>9 DEF RowInOrder, upTo
<1>. QED
  BY <1>2, <1>3, <1>4

(* What is left of a call that stored its first m records.                 *)
IsLeft(k, k2, m) ==
  /\ k2.phase = "storing" /\ k2.portfolioId = k.portfolioId
  /\ k2.sessionPeak = k.sessionPeak
  /\ DOMAIN k2.records = 1..(Len(k.records) - m)
  /\ \A n \in 1..(Len(k.records) - m) : k2.records[n] = k.records[m + n]

LEMMA StoresInOrder ==
  ASSUME CurveInv, OrderInv, orderly, NEW c \in Calls, call[c].phase = "storing",
         NEW m \in 0..Len(call[c].records), NEW now, DOMAIN now = 1..m,
         \A n \in 1..m : now[n] = call[c].records[n], Stores(c, now),
         UNCHANGED <<sessionPeaks, orderly>>,
         NEW k2, call' = [call EXCEPT ![c] = k2],
         \/ k2 = Ended /\ m = Len(call[c].records)
         \/ IsLeft(call[c], k2, m)
  PROVE  OrderInv'
<1> DEFINE k == call[c]
           p == k.portfolioId
           w == k.records
<1>1. c \in InFlight /\ k \in CallRecord
  BY CallInFlight DEF InFlight, CurveInv
<1>2. w \in Seq(Entry)
  BY <1>1 DEF CallRecord
<1>3. /\ Increasing(w) /\ LaterThanRows(rows, p, w)
      /\ k.sessionPeak \subseteq ValuesOf(rows, p) \cup {0}
      /\ DrawnInOrder(ValuesOf(rows, p), w)
  <2>1. CallInOrder(rows, k)
    BY <1>1 DEF OrderInv
  <2>. QED
    BY <2>1 DEF CallInOrder, Waiting, DrawnInOrder
<1>4. \A key \in DOMAIN rows : key[2] \in Nat
  BY RowValues
<1>5. IsStored(rows, rows', p, w, m)
  <2> HIDE DEF k
  <2>. QED
    BY <1>2, <1>3, <1>4, StoredInOrder DEF k
<1>6. \A key \in DOMAIN rows' : RowInOrder(rows', key)
  <2>1. \A key \in DOMAIN rows : RowInOrder(rows, key)
    BY DEF OrderInv
  <2> HIDE DEF k
  <2>2. m \in 0..Len(w)
    BY DEF k
  <2>. QED
    BY <1>2, <1>3, <1>4, <1>5, <2>1, <2>2, RowsStayInOrder
<1>7. /\ ValuesOf(rows', p)
           = ValuesOf(rows, p) \cup {w[i].portfolioValue : i \in 1..m}
      /\ \A q : q # p => ValuesOf(rows', q) = ValuesOf(rows, q)
  BY <1>5, ValuesAfterStoring
<1>8. /\ DOMAIN w = 1..Len(w) /\ Len(w) \in Nat /\ m \in Nat /\ m <= Len(w)
      /\ \A n \in DOMAIN w : w[n].timestamp \in Nat
  <2>1. \A n \in DOMAIN w : w[n] \in Entry
    BY <1>2
  <2>. QED
    BY <1>2, <2>1 DEF Entry
<1>9. ASSUME IsLeft(k, k2, m) PROVE CallInOrder(rows', k2)
  <2> DEFINE later == k2.records
  <2>1. /\ DOMAIN later = 1..(Len(w) - m)
        /\ \A n \in DOMAIN later : /\ n \in Nat /\ 1 <= n /\ m + n \in DOMAIN w
                                   /\ later[n] = w[m + n]
    BY <1>8, <1>9 DEF IsLeft
  <2> HIDE DEF k
  <2>2. Increasing(later)
    <3> SUFFICES ASSUME NEW i \in DOMAIN later, NEW j \in DOMAIN later, i < j
                 PROVE  later[i].timestamp < later[j].timestamp
      BY DEF Increasing
    <3>1. m + i < m + j /\ m + i \in DOMAIN w /\ m + j \in DOMAIN w
      BY <1>8, <2>1
    <3>. QED
      BY <1>3, <2>1, <3>1 DEF Increasing
  <2>3. LaterThanRows(rows', p, later)
    <3> SUFFICES ASSUME NEW key \in DOMAIN rows', key[1] = p,
                        NEW n \in DOMAIN later
                 PROVE  key[2] < later[n].timestamp
      BY DEF LaterThanRows
    <3>1. CASE key \in DOMAIN rows
      BY <1>3, <2>1, <3>1 DEF LaterThanRows
    <3>2. ASSUME NEW i \in 1..m, key = <<p, w[i].timestamp>>
          PROVE  key[2] < later[n].timestamp
      <4>1. i \in DOMAIN w /\ m + n \in DOMAIN w /\ i < m + n
        BY <1>8, <2>1
      <4>. QED
        BY <1>3, <2>1, <3>2, <4>1 DEF Increasing
    <3>. QED
      BY <1>5, <3>1, <3>2 DEF IsStored
  <2>4. ASSUME NEW n \in DOMAIN later
        PROVE  DrawnFrom(ValuesOf(rows', p)
                           \cup {later[i].portfolioValue : i \in 1..n},
                         later[n].portfolioValue, later[n].drawdown)
    <3> DEFINE V == ValuesOf(rows, p)
                      \cup {w[i].portfolioValue : i \in 1..(m + n)}
               V2 == ValuesOf(rows', p)
                       \cup {later[i].portfolioValue : i \in 1..n}
    <3>1. \A i \in 1..n : i \in DOMAIN later /\ later[i] = w[m + i]
                          /\ m + i \in 1..(m + n)
      BY <1>8, <2>1
    <3>2. \A i \in 1..(m + n) : i \in 1..m \/ (i - m \in 1..n /\ m + (i - m) = i)
      BY <1>8, <2>1
    <3>3. \A i \in 1..m : i \in 1..(m + n)
      BY <1>8, <2>1
    <3>4. ASSUME NEW v \in V PROVE v \in V2
      <4>1. ASSUME NEW i \in 1..(m + n), v = w[i].portfolioValue
            PROVE  v \in V2
        <5>1. CASE i \in 1..m
          BY <1>7, <4>1, <5>1
        <5>2. CASE i - m \in 1..n /\ m + (i - m) = i
          BY <3>1, <4>1, <5>2
        <5>. QED
          BY <3>2, <5>1, <5>2
      <4>. QED
        BY <1>7, <4>1
    <3>5. V2 \subseteq V
      BY <1>7, <3>1, <3>3
    <3> HIDE DEF V2
    <3>6. V2 = V
      BY <3>4, <3>5
    <3>7. DrawnFrom(V, w[m + n].portfolioValue, w[m + n].drawdown)
      BY <1>3, <2>1 DEF DrawnInOrder
    <3> HIDE DEF V
    <3>8. DrawnFrom(V2, later[n].portfolioValue, later[n].drawdown)
      BY <2>1, <3>6, <3>7
    <3>. QED
      BY <3>8 DEF V2
  <2>5. k2.sessionPeak \subseteq ValuesOf(rows', p) \cup {0}
    BY <1>3, <1>7, <1>9 DEF IsLeft
  <2>6. k2.phase = "storing" /\ k2.portfolioId = p
    BY <1>9 DEF IsLeft
  <2>. QED
    BY <2>2, <2>3, <2>4, <2>5, <2>6 DEF CallInOrder, Waiting
<1>10. /\ \A d, e \in InFlight' : d = e
       /\ \A d \in InFlight' : CallInOrder(rows', call'[d])
  BY <1>1, <1>9, OneCallMoves DEF OrderInv, CurveInv
<1>11. ASSUME NEW q \in DOMAIN sessionPeaks
       PROVE  IsReached(rows', call', q, sessionPeaks[q])
  <2> DEFINE peak == sessionPeaks[q]
  <2>1. IsReached(rows, call, q, peak)
    BY DEF OrderInv
  <2>2. CASE peak \in ValuesOf(rows, q) \cup {0}
    BY <1>7, <2>2 DEF IsReached
  <2>3. ASSUME NEW d \in Calls, call[d].phase = "storing",
               call[d].portfolioId = q, NEW n \in DOMAIN call[d].records,
               call[d].records[n].portfolioValue = peak
        PROVE  IsReached(rows', call', q, peak)
    <3>1. d = c
      BY <1>1, <2>3 DEF OrderInv, InFlight
    <3>2. q = p /\ n \in DOMAIN w /\ w[n].portfolioValue = peak
      BY <2>3, <3>1
    <3> HIDE DEF peak
    <3>3. CASE n \in 1..m
      BY <1>7, <3>2, <3>3 DEF IsReached
    <3>4. CASE n \notin 1..m
      <4>1. n - m \in 1..(Len(w) - m) /\ m + (n - m) = n
        BY <1>8, <3>2, <3>4
      <4>2. IsLeft(k, k2, m)
        BY <1>8, <3>2, <3>4
      <4>3. call'[c] = k2
        BY DEF CurveInv, CallsInv
      <4>4. /\ n - m \in DOMAIN k2.records
            /\ k2.records[n - m].portfolioValue = peak
            /\ k2.phase = "storing" /\ k2.portfolioId = q
        BY <3>2, <4>1, <4>2 DEF IsLeft
      <4>. QED
        BY ONLY c \in Calls, <4>3, <4>4 DEF IsReached
    <3>. QED
      BY <3>3, <3>4
  <2>. QED
    BY <2>1, <2>2, <2>3 DEF IsReached
<1>. QED
  BY <1>6, <1>10, <1>11 DEF OrderInv

LEMMA StoreStepInOrder ==
  ASSUME CurveInv, OrderInv, NEW c \in Calls, DatabaseCreates(c)
  PROVE  OrderInv'
<1>1. SUFFICES ASSUME orderly' PROVE OrderInv'
  BY DEF OrderInv
<1>2. /\ call[c].phase = "storing" /\ orderly /\ Stores(c, call[c].records)
      /\ call' = [call EXCEPT ![c] = Ended]
      /\ UNCHANGED <<sessionPeaks, orderly>>
  BY <1>1 DEF DatabaseCreates
<1>3. call[c].records \in Seq(Entry)
  <2>1. call[c] \in CallRecord
    BY <1>2, CallInFlight DEF CurveInv
  <2>. QED
    BY <2>1 DEF CallRecord
<1> DEFINE m == Len(call[c].records)
           now == call[c].records
<1>4. m \in 0..Len(call[c].records) /\ DOMAIN now = 1..m
  BY <1>3
<1>5. \A n \in 1..m : now[n] = call[c].records[n]
  OBVIOUS
<1>6. m = Len(call[c].records) /\ Stores(c, now)
  BY <1>2
<1> HIDE DEF m, now
<1>. QED
  BY <1>2, <1>4, <1>5, <1>6, StoresInOrder

LEMMA StoreManyInOrder ==
  ASSUME CurveInv, OrderInv, NEW c \in Calls, DatabaseCreatesMany(c)
  PROVE  OrderInv'
<1> DEFINE k == call[c]
           all == k.records
           size == IF BatchSize < Len(all) THEN BatchSize ELSE Len(all)
           now == SubSeq(all, 1, size)
           later == SubSeq(all, size + 1, Len(all))
           after == [k EXCEPT !.records = later]
<1>1. SUFFICES ASSUME orderly' PROVE OrderInv'
  BY DEF OrderInv
<1>2. /\ k.phase = "storing" /\ orderly /\ Stores(c, now)
      /\ call' = [call EXCEPT ![c] = IF size = Len(all) THEN Ended ELSE after]
      /\ UNCHANGED <<sessionPeaks, orderly>>
  BY <1>1 DEF DatabaseCreatesMany, CurveInv, CallsInv
<1>3. k \in CallRecord
  BY <1>2, CallInFlight DEF CurveInv
<1>4. all \in Seq(Entry)
  BY <1>3 DEF CallRecord
<1>5. size \in 0..Len(all)
  BY <1>4, CurveAssumption DEF CurveAssumption
<1> HIDE DEF size
<1>6. /\ DOMAIN now = 1..size /\ \A n \in 1..size : now[n] = all[n]
      /\ DOMAIN later = 1..(Len(all) - size)
      /\ \A n \in 1..(Len(all) - size) : later[n] = all[size + n]
  BY <1>4, <1>5
<1> HIDE DEF now, later
<1>7. IsLeft(k, after, size)
  <2>1. /\ after.records = later /\ after.phase = "storing"
        /\ after.portfolioId = k.portfolioId
        /\ after.sessionPeak = k.sessionPeak
    BY <1>2, <1>3 DEF CallRecord
  <2>. QED
    BY <1>6, <2>1 DEF IsLeft
<1> DEFINE k2 == IF size = Len(all) THEN Ended ELSE after
<1>8. \/ k2 = Ended /\ size = Len(all)
      \/ IsLeft(k, k2, size)
  BY <1>7
<1>9. call' = [call EXCEPT ![c] = k2]
  BY <1>2
<1> HIDE DEF k2, after
<1>. QED
  BY <1>2, <1>5, <1>6, <1>8, <1>9, StoresInOrder

LEMMA ClearInOrder ==
  ASSUME OrderInv, NEW p \in Portfolios, ClearSessionPeak(p)
  PROVE  OrderInv'
<1>1. UNCHANGED <<rows, call, orderly>>
  BY DEF ClearSessionPeak, history
<1>2. \A q \in DOMAIN sessionPeaks' :
        q \in DOMAIN sessionPeaks /\ sessionPeaks'[q] = sessionPeaks[q]
  BY DEF ClearSessionPeak
<1>. QED
  BY <1>1, <1>2 DEF OrderInv, InFlight

LEMMA RestartInOrder ==
  ASSUME OrderInv, Restart
  PROVE  OrderInv'
<1>1. UNCHANGED <<rows, orderly>> /\ InFlight' = {} /\ DOMAIN sessionPeaks' = {}
  BY DEF Restart, history, InFlight, Ended
<1>. QED
  BY <1>1 DEF OrderInv

LEMMA OrderNext == CurveInv /\ OrderInv /\ [Next]_vars => OrderInv'
<1> SUFFICES ASSUME CurveInv, OrderInv, [Next]_vars PROVE OrderInv'
  OBVIOUS
<1>1. CASE UNCHANGED vars
  BY <1>1 DEF vars, OrderInv, InFlight
<1>2. CASE Next
  <2>1. ASSUME NEW c \in Calls, NEW p \in Portfolios,
               \/ \E s \in Snapshots : RecordSnapshot(c, p, s)
               \/ \E batch \in Batches : RecordSnapshotsBatch(c, p, batch)
        PROVE  OrderInv'
    BY <2>1, BeginStepsInOrder
  <2>2. ASSUME NEW c \in Calls, DatabaseFindsPeak(c) PROVE OrderInv'
    BY <2>2, FindInOrder
  <2>3. ASSUME NEW c \in Calls, ResolvePeak(c) PROVE OrderInv'
    BY <2>3, ResolveStepInOrder
  <2>4. ASSUME NEW c \in Calls, ResolveBatch(c) PROVE OrderInv'
    BY <2>4, ResolveBatchInOrder
  <2>5. ASSUME NEW c \in Calls, DatabaseCreates(c) PROVE OrderInv'
    BY <2>5, StoreStepInOrder
  <2>6. ASSUME NEW c \in Calls, DatabaseCreatesMany(c) PROVE OrderInv'
    BY <2>6, StoreManyInOrder
  <2>7. ASSUME NEW c \in Calls, DatabaseFails(c) PROVE OrderInv'
    BY <2>7 DEF DatabaseFails, OrderInv
  <2>8. ASSUME NEW p \in Portfolios, ClearSessionPeak(p) PROVE OrderInv'
    BY <2>8, ClearInOrder
  <2>9. CASE Restart
    BY <2>9, RestartInOrder
  <2>. QED
    BY <1>2, <2>1, <2>2, <2>3, <2>4, <2>5, <2>6, <2>7, <2>8, <2>9 DEF Next
<1>. QED
  BY <1>1, <1>2

-----------------------------------------------------------------------------
(* Reading the curve *)

(* The keys of a finite set with distinct times can be listed in time.     *)
LEMMA InTimeLists ==
  ASSUME NEW S, IsFiniteSet(S), \A key \in S : key[2] \in Nat,
         \A key, other \in S : key # other => key[2] # other[2]
  PROVE  /\ Cardinality(S) \in Nat
         /\ InTime(S) \in [1..Cardinality(S) -> S]
         /\ \A m, n \in 1..Cardinality(S) :
              m < n => InTime(S)[m][2] < InTime(S)[n][2]
         /\ \A key \in S : \E n \in 1..Cardinality(S) : InTime(S)[n] = key
<1> DEFINE N == Cardinality(S)
           earlier(key) == {other \in S : other[2] < key[2]}
           rank == [key \in S |-> Cardinality(earlier(key)) + 1]
<1>1. N \in Nat
  BY FS_CardinalityType
<1>2. ASSUME NEW key \in S
      PROVE  /\ IsFiniteSet(earlier(key)) /\ Cardinality(earlier(key)) \in Nat
             /\ Cardinality(earlier(key)) <= N - 1
  <2>1. earlier(key) \in SUBSET (S \ {key})
    OBVIOUS
  <2>2. IsFiniteSet(S \ {key}) /\ Cardinality(S \ {key}) = N - 1
    BY FS_RemoveElement
  <2> HIDE DEF earlier, N
  <2>. QED
    BY <2>1, <2>2, FS_Subset, FS_CardinalityType
<1>3. ASSUME NEW key \in S, NEW other \in S, key[2] < other[2]
      PROVE  rank[key] < rank[other]
  <2>1. earlier(key) \subseteq earlier(other)
    BY <1>3
  <2>2. key \in earlier(other) /\ key \notin earlier(key)
    BY <1>3
  <2>3. earlier(key) # earlier(other)
    BY <2>2
  <2>4. rank[key] = Cardinality(earlier(key)) + 1
        /\ rank[other] = Cardinality(earlier(other)) + 1
    OBVIOUS
  <2>5. IsFiniteSet(earlier(other)) /\ Cardinality(earlier(other)) \in Nat
        /\ Cardinality(earlier(key)) \in Nat
    BY <1>2
  <2> HIDE DEF earlier, rank
  <2>6. Cardinality(earlier(key)) <= Cardinality(earlier(other))
        /\ Cardinality(earlier(key)) # Cardinality(earlier(other))
    BY <2>1, <2>3, <2>5, FS_Subset
  <2>. QED
    BY <2>4, <2>5, <2>6
<1>4. rank \in [S -> 1..N] /\ \A key \in S : rank[key] \in Nat
  <2>1. ASSUME NEW key \in S PROVE Cardinality(earlier(key)) + 1 \in 1..N
    <3> HIDE DEF earlier, N
    <3>. QED
      BY <1>1, <1>2
  <2>. QED
    BY <1>1, <1>2, <2>1
<1> HIDE DEF rank, N
<1>5. \A key, other \in S : key # other => rank[key] # rank[other]
  <2> SUFFICES ASSUME NEW key \in S, NEW other \in S, key # other
               PROVE  rank[key] # rank[other]
    OBVIOUS
  <2>1. key[2] < other[2] \/ other[2] < key[2]
    OBVIOUS
  <2>2. rank[key] < rank[other] \/ rank[other] < rank[key]
    BY <1>3, <2>1
  <2>. QED
    BY <1>4, <2>2
<1>6. \A n \in 1..N : \E key \in S : rank[key] = n
  <2>1. IsFiniteSet(1..N) /\ Cardinality(1..N) = N
    BY <1>1, FS_Interval
  <2>2. rank \in Injection(S, 1..N)
    BY <1>4, <1>5 DEF Injection, IsInjective
  <2>3. rank \in Surjection(S, 1..N)
    BY <2>1, <2>2, FS_Injection DEF N
  <2>. QED
    BY <2>3 DEF Surjection
<1> DEFINE InOrder(s) == \A m, n \in DOMAIN s : m < n => s[m][2] < s[n][2]
           g == [n \in 1..N |-> CHOOSE key \in S : rank[key] = n]
           s == InTime(S)
<1>7. g \in [1..N -> S] /\ InOrder(g)
  <2>1. \A n \in 1..N : g[n] \in S /\ rank[g[n]] = n
    BY <1>6
  <2>2. DOMAIN g = 1..N /\ g \in [1..N -> S]
    BY <2>1
  <2> HIDE DEF g
  <2>3. ASSUME NEW m \in 1..N, NEW n \in 1..N, m < n PROVE g[m][2] < g[n][2]
    <3>1. g[m] \in S /\ g[n] \in S /\ rank[g[m]] = m /\ rank[g[n]] = n
      BY <2>1
    <3>2. ~(g[n][2] < g[m][2]) /\ g[m] # g[n]
      BY <1>1, <1>3, <2>3, <3>1
    <3>. QED
      BY <3>1, <3>2
  <2>. QED
    BY <2>2, <2>3
<1>8. s \in [1..N -> S] /\ InOrder(s)
  <2>1. s = CHOOSE f \in [1..N -> S] : InOrder(f)
    BY DEF InTime, N
  <2> HIDE DEF g, s, InOrder
  <2>. QED
    BY <1>7, <2>1
<1> HIDE DEF g, s
<1>9. \A m, n \in 1..N : m < n => s[m][2] < s[n][2]
  BY <1>8
<1>10. \A m, n \in 1..N : m # n => s[m] # s[n]
  <2> SUFFICES ASSUME NEW m \in 1..N, NEW n \in 1..N, m # n, s[m] = s[n]
               PROVE  FALSE
    OBVIOUS
  <2>1. m < n \/ n < m
    BY <1>1
  <2>2. s[m] \in S /\ s[m][2] \in Nat
    BY <1>8
  <2>. QED
    BY <1>9, <2>1, <2>2
<1>11. \A key \in S : \E n \in 1..N : s[n] = key
  <2>1. IsFiniteSet(1..N) /\ Cardinality(1..N) = N
    BY <1>1, FS_Interval
  <2>2. s \in Injection(1..N, S)
    BY <1>8, <1>10 DEF Injection, IsInjective
  <2>3. s \in Surjection(1..N, S)
    BY <2>1, <2>2, FS_Injection DEF N
  <2>. QED
    BY <2>3 DEF Surjection
<1>. QED
  BY <1>1, <1>8, <1>9, <1>11 DEF N, s

(* The maximum of the values up to a row gives the drawdown the row has.   *)
LEMMA SameDrawdown ==
  ASSUME NEW V, V \subseteq Int, IsFiniteSet(V), NEW v \in V, NEW d,
         DrawnFrom(V, v, d)
  PROVE  d = CalculateDrawdown(Max(V), v)
<1>1. PICK peak \in V \cup {0} : IsPeak(peak, V) /\ d = CalculateDrawdown(peak, v)
  BY DEF DrawnFrom
<1>2. Max(V) \in V /\ \A x \in V : x <= Max(V)
  BY MaxIsMaximum
<1>3. CASE peak \in V
  <2>1. Max(V) <= peak /\ peak <= Max(V) /\ peak \in Int /\ Max(V) \in Int
    BY <1>1, <1>2, <1>3 DEF IsPeak
  <2>2. Max(V) = peak
    BY <2>1
  <2>. QED
    BY <1>1, <2>2
<1>4. CASE peak = 0
  <2>1. Max(V) <= 0
    BY <1>1, <1>2, <1>4 DEF IsPeak
  <2>2. CalculateDrawdown(Max(V), v) = 0 /\ CalculateDrawdown(0, v) = 0
    BY <2>1 DEF CalculateDrawdown
  <2>. QED
    BY <1>1, <1>4, <2>2
<1>. QED
  BY <1>1, <1>3, <1>4

LEMMA CurveMatchesSeries ==
  ASSUME CurveInv, OrderInv, orderly, NEW p \in Portfolios
  PROVE  LET curve == EquityCurveOf(p)
         IN  [n \in DOMAIN curve |-> curve[n].drawdown]
               = CalculateDrawdownSeries(curve)
<1> DEFINE S == RowsOf(p)
           N == Cardinality(S)
           keys == InTime(S)
           curve == EquityCurveOf(p)
           V(n) == {curve[i].portfolioValue : i \in 1..n}
<1>1. /\ S \subseteq DOMAIN rows /\ IsFiniteSet(S)
      /\ \A key \in S : key[1] = p /\ key[2] \in Nat
      /\ \A key, other \in S : key # other => key[2] # other[2]
  <2>1. S \subseteq DOMAIN rows /\ IsFiniteSet(S) /\ \A key \in S : key[1] = p
    BY FS_Subset DEF RowsOf, CurveInv, RowsInv
  <2>2. \A key \in S : key = <<key[1], key[2]>> /\ key[2] \in Nat
    BY <2>1, RowValues
  <2> HIDE DEF S
  <2>3. \A key, other \in S : key # other => key[2] # other[2]
    BY <2>1, <2>2
  <2>. QED
    BY <2>1, <2>2, <2>3
<1> HIDE DEF S
<1>2. /\ N \in Nat /\ keys \in [1..N -> S]
      /\ \A m, n \in 1..N : m < n => keys[m][2] < keys[n][2]
      /\ \A key \in S : \E n \in 1..N : keys[n] = key
  BY <1>1, InTimeLists
<1>3. curve = [n \in DOMAIN keys |-> rows[keys[n]]]
  BY DEF EquityCurveOf, S
<1> HIDE DEF keys, N, curve
<1>4. DOMAIN curve = 1..N /\ \A n \in 1..N :
        /\ curve[n] = rows[keys[n]] /\ keys[n] \in S /\ n \in Nat
        /\ rows[keys[n]].portfolioValue \in Int
        /\ n \in 1..n /\ \A i \in 1..n : i \in 1..N /\ i <= n
  <2>1. DOMAIN curve = 1..N /\ \A n \in 1..N :
          curve[n] = rows[keys[n]] /\ keys[n] \in S
    BY <1>2, <1>3
  <2>2. \A n \in 1..N : rows[keys[n]].portfolioValue \in Int
    BY <1>1, <2>1, RowValues
  <2>3. \A n \in 1..N :
          n \in Nat /\ n \in 1..n /\ \A i \in 1..n : i \in 1..N /\ i <= n
    BY <1>2
  <2>. QED
    BY <2>1, <2>2, <2>3
<1>5. ASSUME NEW n \in 1..N
      PROVE  {rows[key].portfolioValue : key \in UpTo(rows, keys[n])} = V(n)
  <2>1. \A i \in 1..N : keys[i][2] <= keys[n][2] <=> i <= n
    <3> SUFFICES ASSUME NEW i \in 1..N
                 PROVE  keys[i][2] <= keys[n][2] <=> i <= n
      OBVIOUS
    <3>1. i \in Nat /\ n \in Nat /\ keys[i][2] \in Nat /\ keys[n][2] \in Nat
      BY <1>1, <1>4
    <3>2. (i < n => keys[i][2] < keys[n][2]) /\ (n < i => keys[n][2] < keys[i][2])
      BY <1>2
    <3>3. i < n \/ i = n \/ n < i
      BY <3>1
    <3>. QED
      BY <3>1, <3>2, <3>3
  <2>2. \A i \in 1..N : i <= n => i \in 1..n
    BY <1>2
  <2>3. ASSUME NEW key \in UpTo(rows, keys[n])
        PROVE  rows[key].portfolioValue \in V(n)
    <3>1. key \in S /\ key[2] <= keys[n][2]
      BY <1>1, <1>4 DEF UpTo, S, RowsOf
    <3>2. PICK i \in 1..N : keys[i] = key
      BY <1>2, <3>1
    <3>3. i \in 1..n
      BY <2>1, <2>2, <3>1, <3>2
    <3>. QED
      BY <1>4, <3>2, <3>3
  <2>4. ASSUME NEW i \in 1..n
        PROVE  \E key \in UpTo(rows, keys[n]) :
                 curve[i].portfolioValue = rows[key].portfolioValue
    <3>1. i \in 1..N /\ i <= n
      BY <1>4
    <3>2. keys[i] \in UpTo(rows, keys[n])
      BY <1>1, <1>4, <2>1, <3>1 DEF UpTo
    <3>. QED
      BY <1>4, <3>1, <3>2
  <2>. QED
    BY <2>3, <2>4
<1>6. ASSUME NEW n \in 1..N
      PROVE  curve[n].drawdown
               = CalculateDrawdown(Max(V(n)), curve[n].portfolioValue)
  <2>1. RowInOrder(rows, keys[n])
    BY <1>1, <1>4 DEF OrderInv
  <2>2. DrawnFrom(V(n), curve[n].portfolioValue, curve[n].drawdown)
    BY <1>4, <1>5, <2>1 DEF RowInOrder
  <2>3. V(n) \subseteq Int /\ curve[n].portfolioValue \in V(n)
    BY <1>4
  <2>4. IsFiniteSet(V(n))
    <3> DEFINE f == [i \in 1..n |-> curve[i].portfolioValue]
    <3>1. IsFiniteSet(1..n)
      BY <1>4, FS_Interval
    <3>2. V(n) = {f[i] : i \in 1..n}
      OBVIOUS
    <3> HIDE DEF f, V
    <3>. QED
      BY <3>1, <3>2, FiniteValues
  <2> HIDE DEF V
  <2>. QED
    BY <2>2, <2>3, <2>4, SameDrawdown
<1>7. CalculateDrawdownSeries(curve)
        = [n \in DOMAIN curve |->
             CalculateDrawdown(Max(V(n)), curve[n].portfolioValue)]
  BY DEF CalculateDrawdownSeries
<1> HIDE DEF V
<1>8. [n \in DOMAIN curve |-> curve[n].drawdown] = CalculateDrawdownSeries(curve)
  BY <1>4, <1>6, <1>7
<1>. QED
  BY <1>8 DEF curve

(* As long as recordings come one at a time, in the order of time, and     *)
(* none fails, the drawdowns equity-curve.service.ts has stored are those  *)
(* calculateDrawdownSeries of analytics computes again from the stored     *)
(* values, whatever clears and restarts come between: the peak in memory   *)
(* and the one in the database never disagree with the series.             *)
THEOREM StoredDrawdownsAreTheSeries == Spec => []StoredDrawdownsMatchSeries
<1>1. CurveInv /\ OrderInv => StoredDrawdownsMatchSeries
  BY CurveMatchesSeries DEF StoredDrawdownsMatchSeries
<1>. QED
  BY <1>1, InvInit, InvNext, OrderInit, OrderNext, PTL DEF Spec

=============================================================================
