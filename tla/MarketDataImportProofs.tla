----------------------- MODULE MarketDataImportProofs -----------------------
(***************************************************************************)
(* What holds of imports and queries for any calls, payloads, instruments  *)
(* and batch sizes, however their statements interleave and wherever an    *)
(* import fails.                                                           *)
(*                                                                         *)
(* The invariant is about one import and what the database holds: stored   *)
(* is the set of identities in it, of says which import stored each.  Of a *)
(* step of another import the proofs use only that it stores what is new,  *)
(* and in its own name (OthersStore).                                      *)
(***************************************************************************)
EXTENDS MarketDataImport, FiniteSetTheorems, WellFoundedInduction, TLAPS

-----------------------------------------------------------------------------
(* Orders of finite sets *)

(* R orders S strictly and totally. *)
Orders(R, S) ==
  /\ \A x \in S : <<x, x>> \notin R
  /\ \A x, y \in S : x # y => <<x, y>> \in R \/ <<y, x>> \in R
  /\ \A x, y, z \in S : <<x, y>> \in R /\ <<y, z>> \in R => <<x, z>> \in R

Before(R, S, x) == {y \in S : <<y, x>> \in R}

Rank(R, S) == [x \in S |-> Cardinality(Before(R, S, x)) + 1]

(* Counting from the least up numbers the members from 1. *)
LEMMA Ranked ==
  ASSUME NEW S, IsFiniteSet(S), NEW R, Orders(R, S)
  PROVE  /\ Cardinality(S) \in Nat
         /\ Rank(R, S) \in [S -> 1..Cardinality(S)]
         /\ \A x, y \in S : <<x, y>> \in R <=> Rank(R, S)[x] < Rank(R, S)[y]
         /\ \A x, y \in S : x # y => Rank(R, S)[x] # Rank(R, S)[y]
         /\ \A n \in 1..Cardinality(S) : \E x \in S : Rank(R, S)[x] = n
<1> DEFINE N == Cardinality(S)
           rank == Rank(R, S)
<1>1. N \in Nat
  BY FS_CardinalityType
<1>2. \A x \in S : /\ Before(R, S, x) \in SUBSET (S \ {x})
                   /\ IsFiniteSet(Before(R, S, x))
                   /\ Cardinality(Before(R, S, x)) \in Nat
  <2> SUFFICES ASSUME NEW x \in S
               PROVE  /\ Before(R, S, x) \in SUBSET (S \ {x})
                      /\ IsFiniteSet(Before(R, S, x))
                      /\ Cardinality(Before(R, S, x)) \in Nat
    OBVIOUS
  <2>1. Before(R, S, x) \in SUBSET (S \ {x})
    BY DEF Before, Orders
  <2>2. Before(R, S, x) \in SUBSET S
    BY <2>1
  <2>. QED
    BY <2>1, <2>2, FS_Subset, FS_CardinalityType
<1>3. \A x \in S : rank[x] = Cardinality(Before(R, S, x)) + 1
  BY DEF Rank
<1>4. \A x, y \in S : <<x, y>> \in R => rank[x] < rank[y]
  <2> SUFFICES ASSUME NEW x \in S, NEW y \in S, <<x, y>> \in R
               PROVE  rank[x] < rank[y]
    OBVIOUS
  <2>1. Before(R, S, x) \in SUBSET Before(R, S, y)
    BY DEF Orders, Before
  <2>2. Before(R, S, x) # Before(R, S, y)
    BY DEF Orders, Before
  <2>3. /\ Cardinality(Before(R, S, x)) <= Cardinality(Before(R, S, y))
        /\ Cardinality(Before(R, S, x)) # Cardinality(Before(R, S, y))
    BY <1>2, <2>1, <2>2, FS_Subset
  <2> HIDE DEF rank
  <2>. QED
    BY <1>2, <1>3, <2>3
<1>5. rank \in [S -> 1..N]
  <2>1. ASSUME NEW x \in S PROVE Cardinality(Before(R, S, x)) + 1 \in 1..N
    <3>1. IsFiniteSet(S \ {x}) /\ Cardinality(S \ {x}) = N - 1
      BY FS_RemoveElement
    <3>2. Cardinality(Before(R, S, x)) <= N - 1
      BY <1>2, <3>1, FS_Subset
    <3> HIDE DEF N
    <3>. QED
      BY <1>1, <1>2, <3>2
  <2>. QED
    BY <2>1 DEF Rank
<1> HIDE DEF rank
<1>6. \A x \in S : rank[x] \in Nat
  <2> HIDE DEF N
  <2>. QED
    BY <1>5, <1>1
<1>7. \A x, y \in S : x # y => rank[x] # rank[y]
  <2> SUFFICES ASSUME NEW x \in S, NEW y \in S, x # y
               PROVE  rank[x] # rank[y]
    OBVIOUS
  <2>1. <<x, y>> \in R \/ <<y, x>> \in R
    BY DEF Orders
  <2>2. rank[x] < rank[y] \/ rank[y] < rank[x]
    BY <1>4, <2>1
  <2>3. rank[x] \in Nat /\ rank[y] \in Nat
    BY <1>6
  <2>. QED
    BY <2>2, <2>3
<1>8. \A x, y \in S : rank[x] < rank[y] => <<x, y>> \in R
  <2> SUFFICES ASSUME NEW x \in S, NEW y \in S, rank[x] < rank[y]
               PROVE  <<x, y>> \in R
    OBVIOUS
  <2>1. rank[x] \in Nat /\ rank[y] \in Nat
    BY <1>6
  <2>2. x # y /\ ~(rank[y] < rank[x])
    BY <2>1
  <2>. QED
    BY <1>4, <2>2 DEF Orders
<1>9. rank \in Surjection(S, 1..N)
  <2>1. IsFiniteSet(1..N) /\ Cardinality(1..N) = N
    BY <1>1, FS_Interval
  <2>2. rank \in Injection(S, 1..N)
    BY <1>5, <1>7 DEF Injection, IsInjective
  <2>. QED
    BY <2>1, <2>2, FS_Injection
<1>10. \A n \in 1..N : \E x \in S : rank[x] = n
  BY <1>9 DEF Surjection
<1>. QED
  BY <1>1, <1>4, <1>5, <1>7, <1>8, <1>10 DEF rank

-----------------------------------------------------------------------------
(* Keys *)

OneKind(S) == S \subseteq ChainRow \/ S \subseteq Candle

LEMMA DateOfType ==
  ASSUME NEW t \in Nat
  PROVE  DateOf(t) \in Nat /\ DateOf(t) <= t /\ DateOf(DateOf(t)) = DateOf(t)
<1>1. Day \in Nat \ {0}
  BY ImportAssumption
<1> DEFINE d == t \div Day
           r == t % Day
<1>2. d \in Nat /\ r \in 0..(Day - 1) /\ t = Day * d + r
  BY <1>1
<1>3. Day * d \in Nat /\ r \in Nat
  BY <1>1, <1>2
<1>4. (Day * d) % Day = 0
  BY <1>1, <1>2
<1>5. DateOf(t) = t - r
  BY Zenon DEF DateOf
<1> HIDE DEF d, r
<1>6. DateOf(t) = Day * d /\ DateOf(t) <= t
  BY <1>2, <1>3, <1>5
<1>7. DateOf(Day * d) = Day * d
  <2> DEFINE x == Day * d
  <2>1. x \in Nat /\ x % Day = 0
    BY <1>3, <1>4
  <2> HIDE DEF x
  <2>2. DateOf(x) = x
    BY <2>1 DEF DateOf
  <2>. QED
    BY <2>2 DEF x
<1>. QED
  BY <1>3, <1>6, <1>7

LEMMA DatesInOrder ==
  ASSUME NEW s \in Nat, NEW t \in Nat, t >= s
  PROVE  DateOf(t) >= DateOf(s)
<1> DEFINE d == Day
           a == s \div d
           b == t \div d
           m == s % d
           n == t % d
<1>1. d \in Nat \ {0}
  BY ImportAssumption
<1>2. /\ a \in Int /\ b \in Int /\ m \in 0..(d - 1) /\ n \in 0..(d - 1)
      /\ s = d * a + m /\ t = d * b + n
  BY <1>1
<1>3. DateOf(s) = s - m /\ DateOf(t) = t - n
  BY DEF DateOf
<1> HIDE DEF d, a, b, m, n
<1>4. b >= a
  <2> SUFFICES ASSUME b <= a - 1 PROVE FALSE
    BY <1>2
  <2>1. d * b <= d * (a - 1)
    BY <1>1, <1>2
  <2>2. d * (a - 1) = d * a - d
    BY <1>1, <1>2
  <2>. QED
    BY <1>1, <1>2, <2>1, <2>2
<1>5. d * b >= d * a
  BY <1>1, <1>2, <1>4
<1>. QED
  BY <1>1, <1>2, <1>3, <1>5

LEMMA QuotientIs ==
  ASSUME NEW d \in Nat \ {0}, NEW q \in Int, NEW r \in 0..(d - 1)
  PROVE  (d * q + r) \div d = q
<1> DEFINE x == d * q + r
           a == x \div d
           m == x % d
<1>1. x \in Int
  OBVIOUS
<1>2. a \in Int /\ m \in 0..(d - 1) /\ x = d * a + m
  BY <1>1
<1>3. x = d * q + r
  OBVIOUS
<1> HIDE DEF x, a, m
<1>4. ~(a <= q - 1)
  <2> SUFFICES ASSUME a <= q - 1 PROVE FALSE
    OBVIOUS
  <2>1. d * a <= d * (q - 1)
    BY <1>2
  <2>2. d * (q - 1) = d * q - d
    OBVIOUS
  <2>. QED
    BY <1>2, <1>3, <2>1, <2>2
<1>5. ~(q <= a - 1)
  <2> SUFFICES ASSUME q <= a - 1 PROVE FALSE
    OBVIOUS
  <2>1. d * q <= d * (a - 1)
    BY <1>2
  <2>2. d * (a - 1) = d * a - d
    BY <1>2
  <2>. QED
    BY <1>2, <1>3, <2>1, <2>2
<1>6. a = q
  BY <1>2, <1>4, <1>5
<1>. QED
  BY <1>6 DEF a, x

(* A strike of the column is its own nearest. *)
LEMMA ColumnStrikeType ==
  ASSUME NEW strike \in Int
  PROVE  /\ ColumnStrike(strike) \in Int
         /\ ColumnStrike(ColumnStrike(strike)) = ColumnStrike(strike)
<1> DEFINE u == StrikeUnit
           d == 2 * u
           q == (2 * strike + u) \div d
<1>1. u \in Nat \ {0}
  BY ImportAssumption
<1>2. d \in Nat \ {0} /\ u \in 0..(d - 1)
  <2> HIDE DEF u
  <2>. QED
    BY <1>1
<1>3. q \in Int
  <2> HIDE DEF u, d
  <2>. QED
    BY <1>1, <1>2
<1>4. ColumnStrike(strike) = q * u
  BY DEF ColumnStrike
<1>5. ColumnStrike(q * u) = ((2 * (q * u) + u) \div d) * u
  BY DEF ColumnStrike
<1>6. 2 * (q * u) = d * q
  <2> HIDE DEF u, q
  <2>. QED
    BY <1>1, <1>3
<1>7. (d * q + u) \div d = q
  <2> HIDE DEF d, q, u
  <2>. QED
    BY <1>2, <1>3, QuotientIs
<1>8. q * u \in Int
  <2> HIDE DEF q, u
  <2>. QED
    BY <1>1, <1>3
<1> HIDE DEF q, d, u
<1>. QED
  BY <1>4, <1>5, <1>6, <1>7, <1>8

LEMMA ChainKeys ==
  ASSUME NEW row \in ChainRow
  PROVE  /\ IsChainRow(row)
         /\ RowKey(row) = <<row.snapshotAt, row.expiryDate, row.strikePrice, row.optionType>>
         /\ DatabaseKey(row) = <<row.snapshotAt, DateOf(row.expiryDate),
                                 ColumnStrike(row.strikePrice), row.optionType>>
<1>1. IsChainRow(row)
  BY DEF ChainRow, IsChainRow
<1>2. RowKey(row) = <<row.snapshotAt, row.expiryDate, row.strikePrice, row.optionType>>
  BY <1>1 DEF RowKey, OptionChainRowKey
<1> DEFINE column == [row EXCEPT !.expiryDate = DateOf(@),
                                !.strikePrice = ColumnStrike(@)]
<1>3. /\ column.snapshotAt = row.snapshotAt
      /\ column.expiryDate = DateOf(row.expiryDate)
      /\ column.strikePrice = ColumnStrike(row.strikePrice)
      /\ column.optionType = row.optionType
  BY DEF ChainRow
<1>4. DatabaseKey(row) = OptionChainRowKey(column)
  BY <1>1 DEF DatabaseKey
<1> HIDE DEF column
<1>. QED
  BY <1>1, <1>2, <1>3, <1>4 DEF OptionChainRowKey

LEMMA CandleKeys ==
  ASSUME NEW row \in Candle
  PROVE  /\ ~IsChainRow(row)
         /\ RowKey(row) = <<row.timestamp>>
         /\ DatabaseKey(row) = <<row.timestamp>>
<1>1. ~IsChainRow(row)
  BY DEF Candle, IsChainRow
<1>. QED
  BY <1>1 DEF RowKey, DatabaseKey

(* A row found under its own key is one that a filter finds. *)
LEMMA KeptStrikes ==
  ASSUME NEW S, OneKind(S), NEW row \in S, DatabaseKey(row) = RowKey(row)
  PROVE  KeepsStrike(row)
<1>1. CASE row \in ChainRow
  BY <1>1, ChainKeys DEF KeepsStrike
<1>2. CASE row \in Candle
  BY <1>2, CandleKeys DEF KeepsStrike
<1>. QED
  BY <1>1, <1>2 DEF OneKind

(* Rows alike in memory are alike in the database, and a key found in the  *)
(* database is that of any row that has it in memory.                      *)
LEMMA KeysAgree ==
  ASSUME NEW S, OneKind(S), NEW x \in S, NEW y \in S
  PROVE  /\ RowKey(x) = RowKey(y) => DatabaseKey(x) = DatabaseKey(y)
         /\ RowKey(x) = DatabaseKey(y) => DatabaseKey(x) = DatabaseKey(y)
<1>1. CASE x \in ChainRow /\ y \in ChainRow
  <2>1. y.expiryDate \in Nat /\ y.strikePrice \in Int
    BY <1>1 DEF ChainRow
  <2>2. /\ DateOf(DateOf(y.expiryDate)) = DateOf(y.expiryDate)
        /\ ColumnStrike(ColumnStrike(y.strikePrice)) = ColumnStrike(y.strikePrice)
    BY <2>1, DateOfType, ColumnStrikeType
  <2>3. /\ RowKey(x) = <<x.snapshotAt, x.expiryDate, x.strikePrice, x.optionType>>
        /\ RowKey(y) = <<y.snapshotAt, y.expiryDate, y.strikePrice, y.optionType>>
        /\ DatabaseKey(x) = <<x.snapshotAt, DateOf(x.expiryDate),
                              ColumnStrike(x.strikePrice), x.optionType>>
        /\ DatabaseKey(y) = <<y.snapshotAt, DateOf(y.expiryDate),
                              ColumnStrike(y.strikePrice), y.optionType>>
    BY <1>1, ChainKeys
  <2>4. ASSUME RowKey(x) = RowKey(y) PROVE DatabaseKey(x) = DatabaseKey(y)
    <3>1. /\ x.snapshotAt = y.snapshotAt /\ x.expiryDate = y.expiryDate
          /\ x.strikePrice = y.strikePrice /\ x.optionType = y.optionType
      BY <2>3, <2>4
    <3>. QED
      BY <2>3, <3>1
  <2>5. ASSUME RowKey(x) = DatabaseKey(y) PROVE DatabaseKey(x) = DatabaseKey(y)
    <3>1. /\ x.snapshotAt = y.snapshotAt /\ x.expiryDate = DateOf(y.expiryDate)
          /\ x.strikePrice = ColumnStrike(y.strikePrice)
          /\ x.optionType = y.optionType
      BY <2>3, <2>5
    <3>. QED
      BY <2>2, <2>3, <3>1
  <2>. QED
    BY <2>4, <2>5
<1>2. CASE x \in Candle /\ y \in Candle
  <2>1. RowKey(x) = DatabaseKey(x) /\ RowKey(y) = DatabaseKey(y)
    BY <1>2, CandleKeys
  <2>. QED
    BY <2>1
<1>. QED
  BY <1>1, <1>2 DEF OneKind

DistinctKeys(S) == \A x, y \in S : x # y => RowKey(x) # RowKey(y)

SoonerIn(S) == {p \in S \X S : Sooner(p[1], p[2])}

LEMMA SoonerOrders ==
  ASSUME NEW S, OneKind(S), DistinctKeys(S)
  PROVE  Orders(SoonerIn(S), S)
<1>1. CASE S \subseteq Candle
  <2>1. \A x \in S : /\ ~IsChainRow(x) /\ x.timestamp \in Nat
                     /\ RowKey(x) = <<x.timestamp>>
    BY <1>1, CandleKeys DEF Candle
  <2>2. \A x, y \in S : <<x, y>> \in SoonerIn(S) <=> x.timestamp < y.timestamp
    BY <2>1 DEF SoonerIn, Sooner
  <2>3. \A x, y \in S : x # y => x.timestamp # y.timestamp
    BY <2>1 DEF DistinctKeys
  <2>. QED
    BY <2>1, <2>2, <2>3 DEF Orders
<1>2. CASE S \subseteq ChainRow
  <2>1. \A x \in S : /\ IsChainRow(x)
                     /\ x.snapshotAt \in Nat /\ x.expiryDate \in Nat
                     /\ x.strikePrice \in Int /\ x.optionType \in {"CE", "PE"}
                     /\ RowKey(x) = <<x.snapshotAt, x.expiryDate,
                                      x.strikePrice, x.optionType>>
    BY <1>2, ChainKeys DEF ChainRow
  <2> DEFINE Less(x, y) ==
        \/ x.snapshotAt < y.snapshotAt
        \/ /\ x.snapshotAt = y.snapshotAt
           /\ \/ x.expiryDate < y.expiryDate
              \/ /\ x.expiryDate = y.expiryDate
                 /\ \/ x.strikePrice < y.strikePrice
                    \/ /\ x.strikePrice = y.strikePrice
                       /\ x.optionType = "CE" /\ y.optionType = "PE"
  <2>2. \A x, y \in S : <<x, y>> \in SoonerIn(S) <=> Less(x, y)
    BY <2>1 DEF SoonerIn, Sooner
  <2>3. \A x, y \in S : x # y =>
          \/ x.snapshotAt # y.snapshotAt \/ x.expiryDate # y.expiryDate
          \/ x.strikePrice # y.strikePrice \/ x.optionType # y.optionType
    BY <2>1 DEF DistinctKeys
  <2>4. \A x \in S : ~Less(x, x)
    BY <2>1
  <2>5. \A x, y \in S : x # y => Less(x, y) \/ Less(y, x)
    BY <2>1, <2>3
  <2>6. \A x, y, z \in S : Less(x, y) /\ Less(y, z) => Less(x, z)
    BY <2>1
  <2> HIDE DEF Less
  <2>. QED
    BY <2>2, <2>4, <2>5, <2>6 DEF Orders
<1>. QED
  BY <1>1, <1>2 DEF OneKind

(* The rows of a set in order are those of the set, each once. *)
LEMMA InOrderLists ==
  ASSUME NEW S, IsFiniteSet(S), OneKind(S), DistinctKeys(S)
  PROVE  /\ InOrder(S) \in Seq(S)
         /\ Len(InOrder(S)) = Cardinality(S)
         /\ \A m, n \in DOMAIN InOrder(S) :
              m # n => RowKey(InOrder(S)[m]) # RowKey(InOrder(S)[n])
         /\ \A row \in S : \E n \in DOMAIN InOrder(S) : InOrder(S)[n] = row
<1> DEFINE N == Cardinality(S)
           R == SoonerIn(S)
           rank == Rank(R, S)
<1>1. Orders(R, S)
  BY SoonerOrders
<1>2. /\ N \in Nat
      /\ rank \in [S -> 1..N]
      /\ \A x, y \in S : <<x, y>> \in R <=> rank[x] < rank[y]
      /\ \A x, y \in S : x # y => rank[x] # rank[y]
      /\ \A n \in 1..N : \E x \in S : rank[x] = n
  <2> HIDE DEF R
  <2>. QED
    BY <1>1, Ranked
<1> HIDE DEF rank, N, R
<1> DEFINE Sorted(s) == \A m, n \in DOMAIN s : m < n => Sooner(s[m], s[n])
           g == [n \in 1..N |-> CHOOSE x \in S : rank[x] = n]
<1>3. \A n \in 1..N : g[n] \in S /\ rank[g[n]] = n
  BY <1>2
<1>4. g \in [1..N -> S] /\ DOMAIN g = 1..N
  BY <1>3
<1>5. Sorted(g)
  <2>1. ASSUME NEW m \in 1..N, NEW n \in 1..N, m < n
        PROVE  Sooner(g[m], g[n])
    <3>1. <<g[m], g[n]>> \in R
      BY <1>2, <1>3, <2>1
    <3>. QED
      BY <3>1 DEF R, SoonerIn
  <2> HIDE DEF g
  <2>. QED
    BY <1>4, <2>1
<1> DEFINE s == InOrder(S)
<1>6. s \in [1..N -> S] /\ Sorted(s)
  <2>1. s = CHOOSE f \in [1..N -> S] : Sorted(f)
    BY DEF InOrder, N
  <2> HIDE DEF s, g, Sorted
  <2>. QED
    BY <1>4, <1>5, <2>1
<1> HIDE DEF s, g
<1>7. \A m, n \in 1..N : m < n => rank[s[m]] < rank[s[n]]
  <2> SUFFICES ASSUME NEW m \in 1..N, NEW n \in 1..N, m < n
               PROVE  rank[s[m]] < rank[s[n]]
    OBVIOUS
  <2>1. Sooner(s[m], s[n]) /\ s[m] \in S /\ s[n] \in S
    BY <1>6
  <2>2. <<s[m], s[n]>> \in R
    BY <2>1 DEF R, SoonerIn
  <2>. QED
    BY <1>2, <2>1, <2>2
<1>8. \A m, n \in 1..N : m # n => s[m] # s[n]
  <2> SUFFICES ASSUME NEW m \in 1..N, NEW n \in 1..N, m # n
               PROVE  s[m] # s[n]
    OBVIOUS
  <2>1. m < n \/ n < m
    BY <1>2
  <2>2. rank[s[m]] < rank[s[n]] \/ rank[s[n]] < rank[s[m]]
    BY <1>7, <2>1
  <2>3. rank[s[m]] \in Nat /\ rank[s[n]] \in Nat
    <3>1. s[m] \in S /\ s[n] \in S
      BY <1>6
    <3>2. rank[s[m]] \in 1..N /\ rank[s[n]] \in 1..N
      BY <1>2, <3>1
    <3>. QED
      BY <1>2, <3>2
  <2>. QED
    BY <2>2, <2>3
<1>9. s \in Surjection(1..N, S)
  <2>1. IsFiniteSet(1..N) /\ Cardinality(1..N) = N
    BY <1>2, FS_Interval
  <2>2. s \in Injection(1..N, S)
    BY <1>6, <1>8 DEF Injection, IsInjective
  <2>. QED
    BY <2>1, <2>2, FS_Injection DEF N
<1>10. \A row \in S : \E n \in 1..N : s[n] = row
  BY <1>9 DEF Surjection
<1>11. \A m, n \in 1..N : m # n => RowKey(s[m]) # RowKey(s[n])
  BY <1>6, <1>8 DEF DistinctKeys
<1>12. s \in Seq(S) /\ Len(s) = N /\ DOMAIN s = 1..N
  BY <1>2, <1>6
<1>. QED
  BY <1>10, <1>11, <1>12 DEF s, N

-----------------------------------------------------------------------------
(* The invariant *)

RowsOf(payload) == {payload.rows[n] : n \in DOMAIN payload.rows}

ImportFields ==
  {"phase", "payload", "rest", "instrumentId", "unique", "looked", "existing",
   "records", "imported", "skippedDuplicates", "skippedInvalid", "seen"}

ImportType(i) ==
  /\ DOMAIN i = ImportFields
  /\ i.phase \in {"preparing", "looking up", "inserting", "done", "failed"}
  /\ i.payload \in Payloads
  /\ i.rest \in Seq(RowsOf(i.payload))
  /\ i.unique \in Seq(RowsOf(i.payload))
  /\ i.records \in Seq(RowsOf(i.payload))
  /\ i.looked \in Nat
  /\ i.imported \in Nat
  /\ i.skippedDuplicates \in Int
  /\ i.skippedInvalid \in Int

IdentityOf(i, row) == Identity(i.instrumentId, i.payload, row)

KeysDiffer(s) == \A m, n \in DOMAIN s : m # n => RowKey(s[m]) # RowKey(s[n])

AllValid(s) == \A n \in DOMAIN s : Valid(s[n])

(* The batch in memory: valid rows of the request, of different keys. *)
BatchOK(i) ==
  /\ KeysDiffer(i.unique) /\ AllValid(i.unique)
  /\ KeysDiffer(i.records) /\ AllValid(i.records)
  /\ i.phase \in {"looking up", "inserting"} =>
       i.instrumentId \in FindInstrument(i.payload)
  /\ i.phase = "looking up" => i.looked <= Len(i.unique)
  /\ i.phase = "preparing" => i.looked = 0 /\ i.existing = {}
  /\ i.phase = "done" => i.rest = <<>>

(* No row is lost: each is still to be taken, in the batch or stored. *)
Ahead(i, row) ==
  \/ \E n \in DOMAIN i.rest : i.rest[n] = row
  \/ /\ i.phase = "looking up"
     /\ \E n \in DOMAIN i.unique : RowKey(i.unique[n]) = RowKey(row)
  \/ /\ i.phase = "inserting"
     /\ \E n \in DOMAIN i.records : RowKey(i.records[n]) = RowKey(row)

StoredBy(i, row, stored) ==
  \E id \in FindInstrument(i.payload) : Identity(id, i.payload, row) \in stored

NoneLost(i, stored) ==
  \A row \in RowsOf(i.payload) :
    Valid(row) => Ahead(i, row) \/ StoredBy(i, row, stored)

(* What a lookup has found is in the database. *)
FoundOK(i, stored) ==
  \A k \in i.existing : \E row \in RowsOf(i.payload) :
    k = DatabaseKey(row) /\ IdentityOf(i, row) \in stored

(* A row that a lookup did not find was stored later, by another import,   *)
(* unless a column does not hold an expiry or a strike as it was given.    *)
MisKeyed(i) == \E row \in RowsOf(i.payload) : DatabaseKey(row) # RowKey(row)

Late(c, i, key, of) == of[key] # c /\ key \notin i.seen

NotStoredBefore(c, i, row, stored, of) ==
  IdentityOf(i, row) \in stored => Late(c, i, IdentityOf(i, row), of)

LookupsOK(c, i, stored, of) ==
  \/ MisKeyed(i)
  \/ /\ i.phase = "looking up" =>
          \A n \in 1..i.looked : RowKey(i.unique[n]) \notin i.existing =>
            NotStoredBefore(c, i, i.unique[n], stored, of)
     /\ i.phase = "inserting" =>
          \A n \in DOMAIN i.records :
            NotStoredBefore(c, i, i.records[n], stored, of)

(* Every row of the request is counted once, or still ahead. *)
Pending(i) ==
  Len(i.rest) + IF i.phase = "looking up" THEN Len(i.unique)
                ELSE IF i.phase = "inserting" THEN Len(i.records) ELSE 0

Accounted(i) ==
  i.imported + i.skippedDuplicates + i.skippedInvalid + Pending(i)

WasOvertaken(c, i, stored, of) ==
  \/ MisKeyed(i)
  \/ \E row \in RowsOf(i.payload) : \E id \in FindInstrument(i.payload) :
       /\ Identity(id, i.payload, row) \in stored
       /\ Late(c, i, Identity(id, i.payload, row), of)

CountsOK(c, i, stored, of) ==
  /\ Accounted(i) <= Len(i.payload.rows)
  /\ Accounted(i) < Len(i.payload.rows) => WasOvertaken(c, i, stored, of)

StoredFor(c, stored, of) == {key \in stored : of[key] = c}

ImportOK(c, i, stored, of) ==
  /\ ImportType(i)
  /\ BatchOK(i)
  /\ i.seen \subseteq stored
  /\ i.imported = Cardinality(StoredFor(c, stored, of))
  /\ i.phase = "looking up" => FoundOK(i, stored)
  /\ i.phase # "failed" =>
       /\ NoneLost(i, stored)
       /\ LookupsOK(c, i, stored, of)
       /\ CountsOK(c, i, stored, of)

(* What the database holds: rows of chains come from valid rows. *)
KeyOK(key) ==
  key.table = "option chains" =>
    \E payload \in Payloads :
      /\ payload.table = "option chains"
      /\ \E row \in RowsOf(payload) : Valid(row) /\ key.key = DatabaseKey(row)

DatabaseOK ==
  /\ IsFiniteSet(DOMAIN rows)
  /\ DOMAIN origin = DOMAIN rows
  /\ \A key \in DOMAIN rows : KeyOK(key)

CallsOK ==
  /\ DOMAIN call = Imports
  /\ \A c \in Imports :
       IF call[c] = Unused THEN StoredFor(c, DOMAIN rows, origin) = {}
       ELSE ImportOK(c, call[c], DOMAIN rows, origin)

ImportInv == DatabaseOK /\ CallsOK

-----------------------------------------------------------------------------
ReadFields ==
  {"phase", "query", "instrumentId", "expiryDate", "quotes", "seen"}

(* Of the snapshot when the query began, no expiry is nearer than what it  *)
(* has found.                                                              *)
NoneNearer(read) ==
  \A key \in SnapshotRows(read.seen, read.query, read.instrumentId) :
    \E d \in read.expiryDate : d <= ExpiryDate(key)

(* Strikes that a query of the strikes at the money leaves out have as     *)
(* many as were asked for before them.                                     *)
AtmComplete(read) ==
  LET strikes == {StrikePrice(key) : key \in read.quotes}
      price   == read.query.price
  IN  \A key \in FindBySnapshotAndExpiry(read.seen, read) \ read.quotes :
        /\ Cardinality(strikes) = Max({read.query.strikeCount, 1})
        /\ \A s \in strikes :
             Distance(s, price) <= Distance(StrikePrice(key), price)

(* InDeltaRange, of the rows in a table. *)
DeltaRows(keys, read, table) ==
  {key \in FindBySnapshotAndExpiry(keys, read) :
     \E d \in table[key].delta :
       read.query.minDelta <= d /\ d <= read.query.maxDelta}

(* What the query has answered misses nothing. *)
Complete(read, table) ==
  /\ read.query.kind \in {"nearest", "specific"} =>
       FindBySnapshotAndExpiry(read.seen, read) \subseteq read.quotes
  /\ read.query.kind = "nearest" => NoneNearer(read)
  /\ read.query.kind = "atm" => AtmComplete(read)
  /\ read.query.kind = "delta" =>
       \/ DeltaRows(read.seen, read, table) \subseteq read.quotes
       \/ Cardinality(read.quotes) = read.query.limit

ReadOK(read, table) ==
  /\ DOMAIN read = ReadFields
  /\ read.phase \in {"finding expiry", "finding rows", "answered", "not found"}
  /\ read.query \in Queries
  /\ read.seen \subseteq DOMAIN table
  /\ read.phase = "finding rows" /\ read.query.kind = "nearest" => NoneNearer(read)
  /\ read.phase = "finding expiry" => read.quotes = {} /\ read.query.kind \in {"nearest", "atm"}
  /\ read.phase \in {"answered", "not found"} => Complete(read, table)

ReadsOK ==
  /\ DOMAIN reader = Readers
  /\ \A r \in Readers : reader[r] = Unused \/ ReadOK(reader[r], rows)

QueryInv == ImportInv /\ ReadsOK

-----------------------------------------------------------------------------
(* Batches *)

LEMMA LeastOf ==
  ASSUME NEW T, T \subseteq Nat, T # {}
  PROVE  \E n \in T : \A m \in T : n <= m
<1>1. PICK n \in T : \A m \in T : ~(<<m, n>> \in OpToRel(<, Nat))
  BY NatLessThanWellFounded, WFMin
<1>2. \A m \in T : ~(m < n)
  BY <1>1 DEF OpToRel
<1>. QED
  BY <1>2

LEMMA LastOf ==
  ASSUME NEW N \in Nat, NEW T, T \subseteq 1..N, T # {}
  PROVE  \E n \in T : \A m \in T : m <= n
<1> DEFINE U == {N - m : m \in T}
<1>1. U \subseteq Nat
  <2>1. \A m \in T : N - m \in Nat
    OBVIOUS
  <2>. QED
    BY <2>1
<1>2. U # {}
  <2>1. PICK m \in T : TRUE
    OBVIOUS
  <2>2. N - m \in U
    OBVIOUS
  <2>. QED
    BY <2>2
<1> HIDE DEF U
<1>3. PICK k \in U : \A j \in U : k <= j
  BY <1>1, <1>2, LeastOf
<1>4. PICK n \in T : k = N - n
  BY DEF U
<1>5. ASSUME NEW m \in T PROVE m <= n
  <2>1. N - n <= N - m
    BY <1>3, <1>4 DEF U
  <2>2. m \in Nat /\ n \in Nat
    OBVIOUS
  <2>. QED
    BY <2>1, <2>2
<1>. QED
  BY <1>5

LEMMA PayloadRows ==
  ASSUME NEW payload \in Payloads
  PROVE  /\ OneKind(RowsOf(payload))
         /\ payload.rows \in Seq(RowsOf(payload))
         /\ payload.table = "option chains" => RowsOf(payload) \subseteq ChainRow
<1>1. payload \in Payload
  BY ImportAssumption
<1>2. CASE payload.table = "option chains"
  <2>1. payload.rows \in Seq(ChainRow)
    BY <1>1, <1>2 DEF Payload
  <2>2. RowsOf(payload) \subseteq ChainRow
    BY <2>1 DEF RowsOf
  <2>3. payload.rows \in Seq(RowsOf(payload))
    BY <2>1 DEF RowsOf
  <2>. QED
    BY <2>2, <2>3 DEF OneKind
<1>3. CASE payload.table # "option chains"
  <2>1. payload.rows \in Seq(Candle)
    BY <1>1, <1>3 DEF Payload
  <2>2. RowsOf(payload) \subseteq Candle
    BY <2>1 DEF RowsOf
  <2>3. payload.rows \in Seq(RowsOf(payload))
    BY <2>1 DEF RowsOf
  <2>. QED
    BY <1>3, <2>2, <2>3 DEF OneKind
<1>. QED
  BY <1>2, <1>3

LEMMA EmptyList ==
  ASSUME NEW S
  PROVE  <<>> \in Seq(S) /\ Len(<<>>) = 0 /\ DOMAIN <<>> = {}
OBVIOUS

LEMMA LengthType ==
  ASSUME NEW S, NEW s \in Seq(S)
  PROVE  Len(s) \in Nat /\ DOMAIN s = 1..Len(s)
OBVIOUS

LEMMA FirstElements ==
  ASSUME NEW S, NEW s \in Seq(S), NEW last \in Nat, last <= Len(s)
  PROVE  \A n \in 1..last : n \in DOMAIN s /\ s[n] \in S
OBVIOUS

LEMMA IntervalSplit ==
  ASSUME NEW m \in Nat, NEW last \in Nat
  PROVE  /\ \A n \in (m + 1)..last : n \in 1..last
         /\ \A n \in 1..last : n \notin 1..m => n \in (m + 1)..last
OBVIOUS

LEMMA PendingIs ==
  ASSUME NEW i, ImportType(i)
  PROVE  /\ Len(i.rest) \in Nat /\ Len(i.unique) \in Nat /\ Len(i.records) \in Nat
         /\ i.phase = "looking up" => Pending(i) = Len(i.rest) + Len(i.unique)
         /\ i.phase = "inserting" => Pending(i) = Len(i.rest) + Len(i.records)
         /\ i.phase \notin {"looking up", "inserting"} => Pending(i) = Len(i.rest)
<1>1. Len(i.rest) \in Nat /\ Len(i.unique) \in Nat /\ Len(i.records) \in Nat
  BY LengthType DEF ImportType
<1>2. i.phase = "looking up" => Pending(i) = Len(i.rest) + Len(i.unique)
  BY DEF Pending
<1>3. ASSUME i.phase # "looking up"
      PROVE  Pending(i) = Len(i.rest) + IF i.phase = "inserting"
                                        THEN Len(i.records) ELSE 0
  BY <1>3 DEF Pending
<1>4. i.phase = "inserting" => Pending(i) = Len(i.rest) + Len(i.records)
  BY <1>3
<1>5. ASSUME i.phase # "looking up", i.phase # "inserting"
      PROVE  Pending(i) = Len(i.rest)
  <2>1. Pending(i) = Len(i.rest) + 0
    BY <1>3, <1>5
  <2>. QED
    BY <1>1, <2>1
<1>. QED
  BY <1>1, <1>2, <1>4, <1>5

(* s is split into its first rows, a, and the others, b. *)
IsSplit(S, s, size, a, b) ==
  /\ a \in Seq(S) /\ Len(a) = size
  /\ \A n \in 1..size : n \in DOMAIN a /\ a[n] = s[n]
  /\ b \in Seq(S) /\ Len(b) = Len(s) - size
  /\ \A n \in DOMAIN b : n + size \in DOMAIN s /\ b[n] = s[n + size]
  /\ \A n \in DOMAIN s :
       n \in 1..size \/ (n - size \in DOMAIN b /\ b[n - size] = s[n])

LEMMA Split ==
  ASSUME NEW S, NEW s \in Seq(S), NEW size \in 0..Len(s)
  PROVE  IsSplit(S, s, size, SubSeq(s, 1, size), From(s, size + 1))
<1> DEFINE a == SubSeq(s, 1, size)
           b == SubSeq(s, size + 1, Len(s))
<1>1. size \in Nat /\ Len(s) \in Nat /\ size <= Len(s) /\ DOMAIN s = 1..Len(s)
  OBVIOUS
<1>2. /\ a \in Seq(S) /\ Len(a) = size
      /\ \A n \in 1..size : n \in DOMAIN a /\ a[n] = s[n]
  <2>1. /\ a \in Seq(S) /\ Len(a) = size
        /\ \A n \in 1..size : a[n] = s[n]
    BY <1>1
  <2>2. DOMAIN a = 1..size
    BY <2>1
  <2>. QED
    BY <2>1, <2>2
<1>3. /\ b \in Seq(S) /\ Len(b) = Len(s) - size /\ DOMAIN b = 1..Len(b)
      /\ \A n \in 1..Len(b) : b[n] = s[n + size]
  <2>1. b \in Seq(S) /\ Len(b) = Len(s) - size
    BY ONLY s \in Seq(S), size \in 0..Len(s)
  <2>2. ASSUME NEW n \in 1..(Len(s) - size) PROVE b[n] = s[n + size]
    <3>1. size + 1 + n - 1 = n + size /\ n \in 1..(Len(s) - (size + 1) + 1)
      BY <1>1
    <3>2. b[n] = s[size + 1 + n - 1]
      BY <1>1, <3>1
    <3>. QED
      BY <3>1, <3>2
  <2> HIDE DEF b
  <2>. QED
    BY <2>1, <2>2
<1> HIDE DEF a, b
<1>4. \A n \in DOMAIN b : n + size \in DOMAIN s
  BY <1>1, <1>3
<1>5. \A n \in DOMAIN s :
        \/ n \in 1..size
        \/ n - size \in DOMAIN b /\ (n - size) + size = n
  BY <1>1, <1>3
<1>6. IsSplit(S, s, size, a, b)
  BY <1>2, <1>3, <1>4, <1>5 DEF IsSplit
<1>. QED
  BY <1>6 DEF From, a, b

(* Of the valid rows of a batch, one for each key is kept. *)
LEMMA KeptRows ==
  ASSUME NEW S, OneKind(S), NEW batch \in Seq(S)
  PROVE  /\ Kept(batch) \subseteq S
         /\ IsFiniteSet(Kept(batch))
         /\ DistinctKeys(Kept(batch))
         /\ \A row \in Kept(batch) : Valid(row)
         /\ \A n \in DOMAIN batch : Valid(batch[n]) =>
              \E row \in Kept(batch) : RowKey(row) = RowKey(batch[n])
<1> DEFINE V == ValidIn(batch)
           IsLast(n) == \A m \in V : m > n => RowKey(batch[m]) # RowKey(batch[n])
           L == {n \in V : IsLast(n)}
           K == Kept(batch)
<1>1. V \subseteq DOMAIN batch /\ \A n \in V : Valid(batch[n])
  BY DEF ValidIn
<1>2. K = {batch[n] : n \in L}
  BY DEF Kept
<1>3. IsFiniteSet(DOMAIN batch) /\ \A n \in DOMAIN batch : n \in Nat /\ batch[n] \in S
  <2>1. Len(batch) \in Nat /\ DOMAIN batch = 1..Len(batch)
    OBVIOUS
  <2>2. IsFiniteSet(1..Len(batch))
    BY <2>1, FS_Interval
  <2>. QED
    BY <2>1, <2>2
<1> HIDE DEF V, K
<1>4. K \subseteq S /\ \A row \in K : Valid(row)
  BY <1>1, <1>2, <1>3
<1>5. IsFiniteSet(K)
  <2>1. IsFiniteSet(L)
    <3>1. L \in SUBSET DOMAIN batch
      BY <1>1
    <3> HIDE DEF L
    <3>. QED
      BY <1>3, <3>1, FS_Subset
  <2> HIDE DEF L
  <2> DEFINE g == [n \in L |-> batch[n]]
  <2>2. g \in Surjection(L, K)
    BY <1>2 DEF Surjection
  <2>. QED
    BY <2>1, <2>2, FS_Surjection
<1>6. DistinctKeys(K)
  <2> SUFFICES ASSUME NEW x \in K, NEW y \in K, RowKey(x) = RowKey(y)
               PROVE  x = y
    BY DEF DistinctKeys
  <2>1. PICK m \in L : x = batch[m]
    BY <1>2
  <2>2. PICK n \in L : y = batch[n]
    BY <1>2
  <2>3. m \in V /\ n \in V /\ m \in Nat /\ n \in Nat
    BY <1>1, <1>3
  <2>4. ~(m > n) /\ ~(n > m)
    BY <2>1, <2>2, <2>3
  <2>5. m = n
    BY <2>3, <2>4
  <2>. QED
    BY <2>1, <2>2, <2>5
<1>7. ASSUME NEW n \in DOMAIN batch, Valid(batch[n])
      PROVE  \E row \in K : RowKey(row) = RowKey(batch[n])
  <2> DEFINE T == {m \in V : RowKey(batch[m]) = RowKey(batch[n])}
  <2>1. n \in T
    BY <1>7 DEF V, ValidIn
  <2>2. T \subseteq 1..Len(batch) /\ Len(batch) \in Nat
    BY <1>1
  <2>3. PICK m \in T : \A k \in T : k <= m
    <3> HIDE DEF T
    <3>. QED
      BY <2>1, <2>2, LastOf
  <2>4. m \in L
    <3> SUFFICES ASSUME NEW k \in V, k > m, RowKey(batch[k]) = RowKey(batch[m])
                 PROVE  FALSE
      OBVIOUS
    <3>1. k \in T /\ k \in Nat /\ m \in Nat
      BY <1>1, <1>3
    <3>2. k <= m
      BY <2>3, <3>1
    <3>. QED
      BY <3>1, <3>2
  <2>5. batch[m] \in K
    BY <1>2, <2>4
  <2>. QED
    BY <2>5
<1>. QED
  BY <1>4, <1>5, <1>6, <1>7 DEF K

LEMMA Deduplicated ==
  ASSUME NEW S, OneKind(S), NEW batch \in Seq(S)
  PROVE  /\ Deduplicate(batch) \in Seq(S)
         /\ KeysDiffer(Deduplicate(batch))
         /\ AllValid(Deduplicate(batch))
         /\ \A n \in DOMAIN batch : Valid(batch[n]) =>
              \E m \in DOMAIN Deduplicate(batch) :
                RowKey(Deduplicate(batch)[m]) = RowKey(batch[n])
<1> DEFINE K == Kept(batch)
           s == InOrder(K)
<1>1. /\ K \subseteq S /\ IsFiniteSet(K) /\ DistinctKeys(K)
      /\ \A row \in K : Valid(row)
      /\ \A n \in DOMAIN batch : Valid(batch[n]) =>
           \E row \in K : RowKey(row) = RowKey(batch[n])
  BY KeptRows
<1>2. OneKind(K)
  BY <1>1 DEF OneKind
<1> HIDE DEF K
<1>3. /\ s \in Seq(K)
      /\ \A m, n \in DOMAIN s : m # n => RowKey(s[m]) # RowKey(s[n])
      /\ \A row \in K : \E n \in DOMAIN s : s[n] = row
  BY <1>1, <1>2, InOrderLists
<1>4. Deduplicate(batch) = s
  BY DEF Deduplicate, K
<1> HIDE DEF s
<1>5. s \in Seq(S) /\ \A n \in DOMAIN s : Valid(s[n])
  BY <1>1, <1>3
<1>6. \A n \in DOMAIN batch : Valid(batch[n]) =>
        \E m \in DOMAIN s : RowKey(s[m]) = RowKey(batch[n])
  BY <1>1, <1>3
<1>. QED
  BY <1>3, <1>4, <1>5, <1>6 DEF KeysDiffer, AllValid

(* The rows to insert are those of the batch that were not found. *)
AreLeft(S, unique, existing, records) ==
  /\ records \in Seq(S) /\ KeysDiffer(records) /\ AllValid(records)
  /\ \A n \in DOMAIN unique : RowKey(unique[n]) \notin existing =>
       \E m \in DOMAIN records : records[m] = unique[n]
  /\ \A m \in DOMAIN records : \E n \in DOMAIN unique :
       records[m] = unique[n] /\ RowKey(unique[n]) \notin existing

LEMMA RowsLeft ==
  ASSUME NEW S, OneKind(S), NEW unique \in Seq(S), NEW existing,
         KeysDiffer(unique), AllValid(unique)
  PROVE  AreLeft(S, unique, existing, RowsToInsert(unique, existing))
<1> DEFINE K == {row \in Range(unique) : RowKey(row) \notin existing}
           s == InOrder(K)
<1>1. Range(unique) = {unique[n] : n \in DOMAIN unique}
  BY DEF Range
<1>2. K \subseteq S /\ OneKind(K)
  BY <1>1 DEF OneKind
<1>3. \A row \in K : Valid(row)
  BY <1>1 DEF AllValid
<1>4. DistinctKeys(K)
  BY <1>1 DEF DistinctKeys, KeysDiffer
<1>5. IsFiniteSet(K)
  <2>1. Len(unique) \in Nat /\ DOMAIN unique = 1..Len(unique)
    OBVIOUS
  <2>2. IsFiniteSet(1..Len(unique))
    BY <2>1, FS_Interval
  <2>3. unique \in Surjection(DOMAIN unique, Range(unique))
    BY <1>1 DEF Surjection
  <2>4. IsFiniteSet(Range(unique))
    BY <2>1, <2>2, <2>3, FS_Surjection
  <2>. QED
    BY <2>4, FS_Subset
<1>6. \A row \in K : RowKey(row) \notin existing /\ \E n \in DOMAIN unique : row = unique[n]
  BY <1>1
<1>7. \A n \in DOMAIN unique : RowKey(unique[n]) \notin existing => unique[n] \in K
  BY <1>1
<1> HIDE DEF K
<1>8. /\ s \in Seq(K)
      /\ \A m, n \in DOMAIN s : m # n => RowKey(s[m]) # RowKey(s[n])
      /\ \A row \in K : \E n \in DOMAIN s : s[n] = row
  BY <1>2, <1>4, <1>5, InOrderLists
<1>9. RowsToInsert(unique, existing) = s
  BY DEF RowsToInsert, K
<1> HIDE DEF s
<1>10. \A n \in DOMAIN s : s[n] \in K
  BY <1>8
<1>11. s \in Seq(S)
  BY <1>2, <1>8
<1>12. \A n \in DOMAIN s : Valid(s[n])
  BY <1>3, <1>10
<1>13. \A m \in DOMAIN s : \E n \in DOMAIN unique :
         s[m] = unique[n] /\ RowKey(unique[n]) \notin existing
  BY <1>6, <1>10
<1>14. \A n \in DOMAIN unique : RowKey(unique[n]) \notin existing =>
         \E m \in DOMAIN s : s[m] = unique[n]
  BY <1>7, <1>8
<1>. QED
  BY <1>8, <1>9, <1>11, <1>12, <1>13, <1>14 DEF AreLeft, KeysDiffer, AllValid

-----------------------------------------------------------------------------
(* Imports *)

(* The database only grows, and what it holds stays its importer's. *)
Grows(stored, of, stored2, of2) ==
  /\ stored \subseteq stored2
  /\ \A key \in stored : of2[key] = of[key]

LEMMA GrowthKeeps ==
  ASSUME NEW c, NEW i, NEW stored, NEW of, NEW stored2, NEW of2,
         Grows(stored, of, stored2, of2)
  PROVE  /\ \A row : StoredBy(i, row, stored) => StoredBy(i, row, stored2)
         /\ NoneLost(i, stored) => NoneLost(i, stored2)
         /\ FoundOK(i, stored) => FoundOK(i, stored2)
         /\ WasOvertaken(c, i, stored, of) => WasOvertaken(c, i, stored2, of2)
<1>1. \A row : StoredBy(i, row, stored) => StoredBy(i, row, stored2)
  BY DEF StoredBy, Grows
<1>2. NoneLost(i, stored) => NoneLost(i, stored2)
  BY <1>1 DEF NoneLost
<1>3. FoundOK(i, stored) => FoundOK(i, stored2)
  BY DEF FoundOK, Grows
<1>4. WasOvertaken(c, i, stored, of) => WasOvertaken(c, i, stored2, of2)
  BY DEF WasOvertaken, Late, Grows
<1>. QED
  BY <1>1, <1>2, <1>3, <1>4

(* What others store disturbs no import. *)
LEMMA OthersStore ==
  ASSUME NEW c, NEW i, NEW stored, NEW of, NEW stored2, NEW of2,
         Grows(stored, of, stored2, of2),
         \A key \in stored2 \ stored : of2[key] # c,
         ImportOK(c, i, stored, of)
  PROVE  ImportOK(c, i, stored2, of2)
<1>1. StoredFor(c, stored2, of2) = StoredFor(c, stored, of)
  BY DEF StoredFor, Grows
<1>2. i.seen \subseteq stored2
  BY DEF ImportOK, Grows
<1>3. \A row : NotStoredBefore(c, i, row, stored, of)
                 => NotStoredBefore(c, i, row, stored2, of2)
  BY DEF NotStoredBefore, Late, ImportOK, Grows
<1>4. LookupsOK(c, i, stored, of) => LookupsOK(c, i, stored2, of2)
  BY <1>3 DEF LookupsOK
<1>5. CountsOK(c, i, stored, of) => CountsOK(c, i, stored2, of2)
  BY GrowthKeeps DEF CountsOK
<1>. QED
  BY <1>1, <1>2, <1>4, <1>5, GrowthKeeps DEF ImportOK

(* An import whose batch has nothing left goes on to the next, or is done. *)
LEMMA BatchEnds ==
  ASSUME NEW c, NEW i, NEW stored, NEW of, ImportOK(c, i, stored, of),
         \/ i.phase = "looking up" /\ i.unique = <<>>
         \/ i.phase = "inserting" /\ i.records = <<>>
  PROVE  ImportOK(c, EndBatch(i), stored, of)
<1> DEFINE j == EndBatch(i)
<1>1. ImportType(i) /\ DOMAIN i = ImportFields
  BY DEF ImportOK, ImportType
<1>2. /\ DOMAIN j = ImportFields
      /\ j.phase = IF i.rest = <<>> THEN "done" ELSE "preparing"
      /\ j.payload = i.payload /\ j.rest = i.rest
      /\ j.unique = <<>> /\ j.looked = 0 /\ j.existing = {} /\ j.records = <<>>
      /\ j.imported = i.imported /\ j.skippedDuplicates = i.skippedDuplicates
      /\ j.skippedInvalid = i.skippedInvalid /\ j.seen = i.seen
  BY <1>1 DEF EndBatch, ImportFields
<1> HIDE DEF j
<1>3. ImportType(j)
  <2>1. <<>> \in Seq(RowsOf(i.payload)) /\ 0 \in Nat
    BY EmptyList
  <2>2. j.phase \in {"preparing", "looking up", "inserting", "done", "failed"}
    BY <1>2
  <2>. QED
    BY <1>1, <1>2, <2>1, <2>2 DEF ImportType
<1>4. BatchOK(j)
  <2>1. KeysDiffer(<<>>) /\ AllValid(<<>>)
    BY EmptyList DEF KeysDiffer, AllValid
  <2>2. j.phase \notin {"looking up", "inserting"}
    BY <1>2
  <2>. QED
    BY <1>2, <2>1, <2>2 DEF BatchOK
<1>5. NoneLost(j, stored)
  <2>1. NoneLost(i, stored)
    BY DEF ImportOK
  <2>2. \A row : Ahead(i, row) => Ahead(j, row)
    <3>1. \A row : Ahead(i, row) => \E n \in DOMAIN i.rest : i.rest[n] = row
      <4>1. DOMAIN <<>> = {}
        BY EmptyList
      <4>2. CASE i.phase = "looking up" /\ i.unique = <<>>
        BY <4>1, <4>2 DEF Ahead
      <4>3. CASE i.phase = "inserting" /\ i.records = <<>>
        BY <4>1, <4>3 DEF Ahead
      <4>. QED
        BY <4>2, <4>3
    <3>. QED
      BY <1>2, <3>1 DEF Ahead
  <2>3. \A row : StoredBy(i, row, stored) => StoredBy(j, row, stored)
    BY <1>2 DEF StoredBy
  <2>. QED
    BY <1>2, <2>1, <2>2, <2>3 DEF NoneLost
<1>6. LookupsOK(c, j, stored, of)
  BY <1>2 DEF LookupsOK
<1>7. CountsOK(c, j, stored, of)
  <2>1. CountsOK(c, i, stored, of)
    BY DEF ImportOK
  <2>2. Pending(i) = Len(i.rest) /\ Pending(j) = Len(j.rest)
    <3>1. Len(<<>>) = 0 /\ Len(i.rest) \in Nat
      BY <1>1, EmptyList, PendingIs
    <3>2. Pending(j) = Len(j.rest)
      BY <1>2, <1>3, PendingIs
    <3>3. CASE i.phase = "looking up" /\ i.unique = <<>>
      <4>1. Pending(i) = Len(i.rest) + Len(i.unique)
        BY <1>1, <3>3, PendingIs
      <4>2. Len(i.unique) = 0
        BY <3>1, <3>3, Zenon
      <4>. QED
        BY ONLY <3>1, <3>2, <4>1, <4>2
    <3>4. CASE i.phase = "inserting" /\ i.records = <<>>
      <4>1. Pending(i) = Len(i.rest) + Len(i.records)
        BY <1>1, <3>4, PendingIs
      <4>2. Len(i.records) = 0
        BY <3>1, <3>4, Zenon
      <4>. QED
        BY ONLY <3>1, <3>2, <4>1, <4>2
    <3>. QED
      BY <3>3, <3>4
  <2>3. Accounted(j) = Accounted(i)
    BY <1>2, <2>2 DEF Accounted
  <2>4. WasOvertaken(c, i, stored, of) => WasOvertaken(c, j, stored, of)
    BY <1>2 DEF WasOvertaken, MisKeyed, Late
  <2>. QED
    BY <1>2, <2>1, <2>3, <2>4 DEF CountsOK
<1>. QED
  BY <1>2, <1>3, <1>4, <1>5, <1>6, <1>7 DEF ImportOK, j

LEMMA AtMostType ==
  ASSUME NEW size \in Nat, NEW length \in Nat
  PROVE  AtMost(size, length) \in 0..length
BY DEF AtMost

LEMMA BatchLengthType ==
  ASSUME NEW i, ImportType(i)
  PROVE  /\ BatchLength(i) \in 0..Len(i.rest)
         /\ InsertLength(i) \in 0..Len(i.records)
         /\ i.looked <= Len(i.unique) =>
              LookupLength(i) \in 0..(Len(i.unique) - i.looked)
<1>1. /\ Len(i.rest) \in Nat /\ Len(i.unique) \in Nat /\ Len(i.records) \in Nat
      /\ i.looked \in Nat
  BY PendingIs DEF ImportType
<1>2. /\ JobBatchSize \in Nat /\ LookupBatchSize \in Nat
      /\ ChainBatchSize \in Nat /\ CandleBatchSize \in Nat
  BY ImportAssumption
<1>3. /\ AtMost(JobBatchSize, Len(i.rest)) \in 0..Len(i.rest)
      /\ AtMost(ChainBatchSize, Len(i.records)) \in 0..Len(i.records)
      /\ AtMost(CandleBatchSize, Len(i.records)) \in 0..Len(i.records)
  BY <1>1, <1>2, AtMostType
<1>4. BatchLength(i) \in 0..Len(i.rest)
  BY <1>1, <1>3 DEF BatchLength
<1>5. InsertLength(i) \in 0..Len(i.records)
  BY <1>1, <1>3 DEF InsertLength
<1>6. ASSUME i.looked <= Len(i.unique)
      PROVE  LookupLength(i) \in 0..(Len(i.unique) - i.looked)
  <2>1. Len(i.unique) - i.looked \in Nat
    BY <1>1, <1>6
  <2>2. AtMost(LookupBatchSize, Len(i.unique) - i.looked)
          \in 0..(Len(i.unique) - i.looked)
    BY <1>2, <2>1, AtMostType
  <2>3. \/ LookupLength(i) = AtMost(LookupBatchSize, Len(i.unique) - i.looked)
        \/ LookupLength(i) = Len(i.unique) - i.looked
    BY DEF LookupLength
  <2>4. Len(i.unique) - i.looked \in 0..(Len(i.unique) - i.looked)
    BY <2>1
  <2>. QED
    BY <2>2, <2>3, <2>4
<1>. QED
  BY <1>4, <1>5, <1>6

(* A batch is taken from the request and made ready to be looked up. *)
TakenBatch(i) == SubSeq(i.rest, 1, BatchLength(i))

TakesBatch(i, id, j) ==
  /\ DOMAIN j = ImportFields
  /\ j.phase = "looking up" /\ j.payload = i.payload /\ j.instrumentId = id
  /\ j.rest = From(i.rest, BatchLength(i) + 1)
  /\ j.unique = Deduplicate(TakenBatch(i))
  /\ j.looked = i.looked /\ j.existing = i.existing /\ j.records = i.records
  /\ j.imported = i.imported /\ j.seen = i.seen
  /\ j.skippedInvalid = i.skippedInvalid + Len(TakenBatch(i))
                          - Cardinality(ValidIn(TakenBatch(i)))
  /\ j.skippedDuplicates = i.skippedDuplicates
                             + Cardinality(ValidIn(TakenBatch(i))) - Len(j.unique)

LEMMA BatchPrepared ==
  ASSUME NEW c, NEW i, NEW stored, NEW of, ImportOK(c, i, stored, of),
         i.phase = "preparing", NEW id \in FindInstrument(i.payload),
         NEW j, TakesBatch(i, id, j)
  PROVE  ImportOK(c, j, stored, of)
<1> DEFINE S == RowsOf(i.payload)
           size == BatchLength(i)
           batch == TakenBatch(i)
           valid == Cardinality(ValidIn(batch))
<1>0. /\ DOMAIN j = ImportFields /\ j.phase = "looking up"
      /\ j.payload = i.payload /\ j.instrumentId = id
      /\ j.looked = i.looked /\ j.existing = i.existing
      /\ j.records = i.records /\ j.imported = i.imported /\ j.seen = i.seen
  BY DEF TakesBatch
<1>1. ImportType(i)
  BY DEF ImportOK
<1>2. OneKind(S)
  BY <1>1, PayloadRows DEF ImportType
<1>3. i.rest \in Seq(S) /\ size \in 0..Len(i.rest) /\ Len(i.rest) \in Nat
  BY <1>1, BatchLengthType, PendingIs DEF ImportType
<1>4. /\ batch \in Seq(S) /\ Len(batch) = size
      /\ \A n \in 1..size : batch[n] = i.rest[n]
      /\ j.rest \in Seq(S) /\ Len(j.rest) = Len(i.rest) - size
      /\ \A n \in DOMAIN i.rest :
           \/ n \in 1..size
           \/ n - size \in DOMAIN j.rest /\ j.rest[n - size] = i.rest[n]
  <2> HIDE DEF S, size
  <2>1. /\ batch = SubSeq(i.rest, 1, size)
        /\ j.rest = From(i.rest, size + 1)
    BY DEF size, TakesBatch, TakenBatch
  <2> HIDE DEF batch
  <2>2. IsSplit(S, i.rest, size, SubSeq(i.rest, 1, size), From(i.rest, size + 1))
    BY <1>3, Split
  <2>3. IsSplit(S, i.rest, size, batch, j.rest)
    BY <2>1, <2>2
  <2>. QED
    BY <2>3 DEF IsSplit
<1>5. /\ j.unique \in Seq(S) /\ KeysDiffer(j.unique) /\ AllValid(j.unique)
      /\ \A n \in DOMAIN batch : Valid(batch[n]) =>
           \E m \in DOMAIN j.unique : RowKey(j.unique[m]) = RowKey(batch[n])
  <2>1. j.unique = Deduplicate(batch)
    BY DEF TakesBatch
  <2> HIDE DEF S, batch
  <2>. QED
    BY <1>2, <1>4, <2>1, Deduplicated
<1> HIDE DEF batch
<1>6. valid \in Nat
  <2>1. DOMAIN batch = 1..Len(batch) /\ Len(batch) \in Nat
    BY <1>4, LengthType
  <2>2. IsFiniteSet(DOMAIN batch)
    <3>1. IsFiniteSet(1..Len(batch))
      BY <2>1, FS_Interval
    <3>. QED
      BY <2>1, <3>1
  <2>3. ValidIn(batch) \in SUBSET DOMAIN batch
    BY DEF ValidIn
  <2>. QED
    BY <2>2, <2>3, FS_Subset, FS_CardinalityType
<1>7. Len(j.unique) \in Nat
  BY <1>5, LengthType
<1>19. DOMAIN batch = 1..size
  BY <1>4, LengthType
<1> HIDE DEF S, size, valid
<1>8. /\ j.skippedInvalid = i.skippedInvalid + size - valid
      /\ j.skippedDuplicates = i.skippedDuplicates + valid - Len(j.unique)
  BY <1>4 DEF valid, batch, TakesBatch
<1>17. /\ i.skippedInvalid \in Int /\ i.skippedDuplicates \in Int
       /\ i.imported \in Nat /\ size \in Nat
  <2>1. /\ i.skippedInvalid \in Int /\ i.skippedDuplicates \in Int
        /\ i.imported \in Nat
    BY <1>1 DEF ImportType
  <2>. QED
    BY <1>3, <2>1
<1>18. j.skippedInvalid \in Int /\ j.skippedDuplicates \in Int
  BY ONLY <1>6, <1>7, <1>8, <1>17
<1>9. ImportType(j)
  <2>1. /\ i.payload \in Payloads /\ i.records \in Seq(S) /\ i.looked \in Nat
        /\ i.imported \in Nat
    BY <1>1 DEF ImportType, S
  <2>. QED
    BY <1>0, <1>4, <1>5, <1>18, <2>1 DEF ImportType, S
<1>10. i.looked = 0 /\ i.existing = {} /\ KeysDiffer(i.records) /\ AllValid(i.records)
  BY DEF ImportOK, BatchOK
<1>11. BatchOK(j)
  <2>1. KeysDiffer(j.records) /\ AllValid(j.records)
    BY <1>0, <1>10
  <2>2. j.looked <= Len(j.unique)
    <3>1. j.looked = 0
      BY <1>0, <1>10
    <3>2. 0 <= Len(j.unique)
      BY ONLY <1>7
    <3>. QED
      BY ONLY <3>1, <3>2
  <2>3. j.instrumentId \in FindInstrument(j.payload)
    BY <1>0
  <2>. QED
    BY <1>0, <1>5, <2>1, <2>2, <2>3 DEF BatchOK
<1>12. NoneLost(j, stored)
  <2> SUFFICES ASSUME NEW row \in S, Valid(row)
               PROVE  Ahead(j, row) \/ StoredBy(j, row, stored)
    BY <1>0 DEF NoneLost, S
  <2>1. Ahead(i, row) \/ StoredBy(i, row, stored)
    BY DEF ImportOK, NoneLost, S
  <2>2. CASE StoredBy(i, row, stored)
    BY <1>0, <2>2 DEF StoredBy
  <2>3. CASE Ahead(i, row)
    <3>1. PICK n \in DOMAIN i.rest : i.rest[n] = row
      BY <2>3 DEF Ahead
    <3>2. CASE n \in 1..size
      <4>1. batch[n] = row /\ n \in DOMAIN batch
        BY <1>4, <1>19, <3>1, <3>2
      <4>2. PICK m \in DOMAIN j.unique : RowKey(j.unique[m]) = RowKey(row)
        BY <1>5, <4>1
      <4>. QED
        BY <1>0, <4>2 DEF Ahead
    <3>3. CASE n \notin 1..size
      <4>1. n - size \in DOMAIN j.rest /\ j.rest[n - size] = row
        BY <1>4, <3>1, <3>3
      <4>. QED
        BY <4>1 DEF Ahead
    <3>. QED
      BY <3>2, <3>3
  <2>. QED
    BY <2>1, <2>2, <2>3
<1>13. LookupsOK(c, j, stored, of)
  <2>1. 1..j.looked = {}
    <3>1. j.looked = 0
      BY <1>0, <1>10
    <3>2. 1..0 = {}
      OBVIOUS
    <3>. QED
      BY <3>1, <3>2
  <2>. QED
    BY <1>0, <2>1 DEF LookupsOK
<1>14. FoundOK(j, stored)
  BY <1>0, <1>10 DEF FoundOK
<1>15. CountsOK(c, j, stored, of)
  <2>1. CountsOK(c, i, stored, of)
    BY DEF ImportOK
  <2>2. Pending(i) = Len(i.rest)
    BY <1>1, PendingIs
  <2>3. Pending(j) = (Len(i.rest) - size) + Len(j.unique)
    BY <1>0, <1>4, <1>9, PendingIs
  <2>4. /\ Accounted(i) = i.imported + i.skippedDuplicates + i.skippedInvalid + Len(i.rest)
        /\ Accounted(j) = i.imported + j.skippedDuplicates + j.skippedInvalid
                            + ((Len(i.rest) - size) + Len(j.unique))
    BY <1>0, <2>2, <2>3 DEF Accounted
  <2>5. Len(i.rest) \in Nat
    BY <1>3
  <2>7. Accounted(j) = Accounted(i)
    <3> DEFINE imported == i.imported
               duplicates == i.skippedDuplicates
               invalid == i.skippedInvalid
               rest == Len(i.rest)
               unique == Len(j.unique)
    <3>1. /\ imported \in Nat /\ duplicates \in Int /\ invalid \in Int
          /\ rest \in Nat /\ unique \in Nat /\ size \in Nat /\ valid \in Nat
      BY <1>6, <1>7, <1>17, <2>5
    <3>2. /\ Accounted(i) = imported + duplicates + invalid + rest
          /\ Accounted(j) = imported + (duplicates + valid - unique)
                              + (invalid + size - valid) + ((rest - size) + unique)
      BY <1>8, <2>4
    <3> HIDE DEF imported, duplicates, invalid, rest, unique
    <3>. QED
      BY ONLY <3>1, <3>2
  <2>8. WasOvertaken(c, i, stored, of) => WasOvertaken(c, j, stored, of)
    BY <1>0 DEF WasOvertaken, MisKeyed, Late
  <2>. QED
    BY <1>0, <2>1, <2>7, <2>8 DEF CountsOK
<1>16. /\ j.seen \subseteq stored
       /\ j.imported = Cardinality(StoredFor(c, stored, of))
  BY <1>0 DEF ImportOK
<1>. QED
  BY <1>0, <1>9, <1>11, <1>12, <1>13, <1>14, <1>15, <1>16 DEF ImportOK

(* What a lookup finds of the rows it looks up is what is stored of them.  *)
LookedAt(i) == i.looked + LookupLength(i)

Found(i, stored) ==
  {IdentityOf(i, i.unique[n]) :
     n \in {n \in (i.looked + 1)..LookedAt(i) : KeepsStrike(i.unique[n])}}
  \cap stored

Existing(i, stored) == ExistingAfter(i, Found(i, stored))

LEMMA LookupFinds ==
  ASSUME NEW c, NEW i, NEW stored, NEW of, ImportOK(c, i, stored, of),
         i.phase = "looking up"
  PROVE  /\ i.looked \in Nat /\ Len(i.unique) \in Nat
         /\ LookedAt(i) \in Nat /\ LookedAt(i) <= Len(i.unique)
         /\ \A k \in Existing(i, stored) : \E row \in RowsOf(i.payload) :
              k = DatabaseKey(row) /\ IdentityOf(i, row) \in stored
         /\ \/ MisKeyed(i)
            \/ \A n \in 1..LookedAt(i) :
                 RowKey(i.unique[n]) \notin Existing(i, stored) =>
                   NotStoredBefore(c, i, i.unique[n], stored, of)
<1> DEFINE S == RowsOf(i.payload)
           e == Existing(i, stored)
           last == LookedAt(i)
<1>1. ImportType(i)
  BY DEF ImportOK
<1>2. i.looked <= Len(i.unique)
  BY DEF ImportOK, BatchOK
<1>3. i.looked \in Nat /\ Len(i.unique) \in Nat
  BY <1>1, PendingIs DEF ImportType
<1>4. LookupLength(i) \in 0..(Len(i.unique) - i.looked)
  BY <1>1, <1>2, BatchLengthType
<1>5. last \in Nat /\ last <= Len(i.unique)
  <2> DEFINE L == LookupLength(i)
             looked == i.looked
             all == Len(i.unique)
  <2>1. L \in 0..(all - looked) /\ looked \in Nat /\ all \in Nat /\ last = looked + L
    BY <1>3, <1>4 DEF LookedAt
  <2> HIDE DEF L, looked, all, last
  <2>2. last \in Nat /\ last <= all
    BY ONLY <2>1
  <2>. QED
    BY <2>2 DEF all
<1>6. \A n \in 1..last : i.unique[n] \in S
  <2>1. i.unique \in Seq(S)
    BY <1>1 DEF ImportType
  <2> HIDE DEF S, last
  <2>. QED
    BY <1>5, <2>1, FirstElements
<1>7. e = i.existing \cup {key.key : key \in Found(i, stored)}
  BY DEF Existing, ExistingAfter
<1>8. \A row : IdentityOf(i, row).key = DatabaseKey(row)
  BY DEF IdentityOf, Identity
<1>9. \A n \in (i.looked + 1)..last : n \in 1..last
  <2> HIDE DEF last
  <2>. QED
    BY <1>3, <1>5, IntervalSplit
<1>10. ASSUME NEW k \in e
       PROVE  \E row \in S : k = DatabaseKey(row) /\ IdentityOf(i, row) \in stored
  <2>1. CASE k \in i.existing
    BY <2>1 DEF ImportOK, FoundOK
  <2>2. CASE k \notin i.existing
    <3>1. PICK key \in Found(i, stored) : k = key.key
      BY <1>7, <2>2
    <3>2. PICK n \in (i.looked + 1)..last : key = IdentityOf(i, i.unique[n])
      BY <3>1 DEF Found
    <3>3. key \in stored
      BY <3>1 DEF Found
    <3>4. i.unique[n] \in S
      BY <1>6, <1>9, <3>2
    <3>. QED
      BY <1>8, <3>1, <3>2, <3>3, <3>4
  <2>. QED
    BY <2>1, <2>2
<1>11. \A n \in (i.looked + 1)..last :
         KeepsStrike(i.unique[n]) /\ IdentityOf(i, i.unique[n]) \in stored =>
           DatabaseKey(i.unique[n]) \in e
  <2> SUFFICES ASSUME NEW n \in (i.looked + 1)..last,
                      KeepsStrike(i.unique[n]),
                      IdentityOf(i, i.unique[n]) \in stored
               PROVE  DatabaseKey(i.unique[n]) \in e
    OBVIOUS
  <2>1. IdentityOf(i, i.unique[n]) \in Found(i, stored)
    BY DEF Found
  <2>. QED
    BY <1>7, <1>8, <2>1
<1>12. ASSUME ~MisKeyed(i), NEW n \in 1..last, RowKey(i.unique[n]) \notin e
       PROVE  NotStoredBefore(c, i, i.unique[n], stored, of)
  <2>1. CASE n \in 1..i.looked
    <3>1. RowKey(i.unique[n]) \notin i.existing
      BY <1>7, <1>12
    <3>. QED
      BY <1>12, <2>1, <3>1 DEF ImportOK, LookupsOK
  <2>2. CASE n \notin 1..i.looked
    <3>1. n \in (i.looked + 1)..last
      <4> HIDE DEF last
      <4>. QED
        BY <1>3, <1>5, <1>12, <2>2, IntervalSplit
    <3>2. DatabaseKey(i.unique[n]) = RowKey(i.unique[n])
      BY <1>6, <1>12 DEF MisKeyed
    <3>3. KeepsStrike(i.unique[n])
      <4>1. OneKind(S)
        BY <1>1, PayloadRows DEF ImportType
      <4> HIDE DEF S
      <4>. QED
        BY <1>6, <1>12, <3>2, <4>1, KeptStrikes
    <3>4. IdentityOf(i, i.unique[n]) \notin stored
      BY <1>11, <1>12, <3>1, <3>2, <3>3
    <3>. QED
      BY <3>4 DEF NotStoredBefore
  <2>. QED
    BY <2>1, <2>2
<1>. QED
  BY <1>3, <1>5, <1>10, <1>12

(* More of the batch is left to be looked up. *)
LEMMA LookupContinues ==
  ASSUME NEW c, NEW i, NEW stored, NEW of, ImportOK(c, i, stored, of),
         i.phase = "looking up", LookedAt(i) < Len(i.unique)
  PROVE  ImportOK(c, [i EXCEPT !.looked = LookedAt(i),
                               !.existing = Existing(i, stored)], stored, of)
<1> DEFINE e == Existing(i, stored)
           last == LookedAt(i)
           j == [i EXCEPT !.looked = last, !.existing = e]
<1>1. ImportType(i) /\ DOMAIN i = ImportFields
  BY DEF ImportOK, ImportType
<1>2. /\ DOMAIN j = ImportFields /\ j.looked = last /\ j.existing = e
      /\ j.phase = i.phase /\ j.payload = i.payload /\ j.rest = i.rest
      /\ j.unique = i.unique /\ j.records = i.records
      /\ j.instrumentId = i.instrumentId
      /\ j.imported = i.imported /\ j.skippedDuplicates = i.skippedDuplicates
      /\ j.skippedInvalid = i.skippedInvalid /\ j.seen = i.seen
  BY <1>1 DEF ImportFields
<1> HIDE DEF j
<1>3. last \in Nat /\ last <= Len(i.unique)
  BY LookupFinds
<1>4. ImportType(j)
  BY <1>1, <1>2, <1>3 DEF ImportType
<1>5. BatchOK(j)
  <2>1. BatchOK(i)
    BY DEF ImportOK
  <2>2. j.looked <= Len(j.unique)
    BY <1>2, <1>3
  <2>. QED
    BY <1>2, <2>1, <2>2 DEF BatchOK
<1>6. FoundOK(j, stored)
  <2>1. \A k \in e : \E row \in RowsOf(i.payload) :
          k = DatabaseKey(row) /\ IdentityOf(i, row) \in stored
    BY LookupFinds
  <2>2. \A row : IdentityOf(j, row) = IdentityOf(i, row)
    BY <1>2 DEF IdentityOf
  <2> HIDE DEF e
  <2>. QED
    BY <1>2, <2>1, <2>2 DEF FoundOK
<1>7. LookupsOK(c, j, stored, of)
  <2>1. \/ MisKeyed(i)
        \/ \A n \in 1..last : RowKey(i.unique[n]) \notin e =>
             NotStoredBefore(c, i, i.unique[n], stored, of)
    BY LookupFinds
  <2>2. MisKeyed(j) <=> MisKeyed(i)
    BY <1>2 DEF MisKeyed
  <2>3. \A row : NotStoredBefore(c, j, row, stored, of)
                   <=> NotStoredBefore(c, i, row, stored, of)
    BY <1>2 DEF NotStoredBefore, Late, IdentityOf
  <2> HIDE DEF e, last
  <2>. QED
    BY <1>2, <2>1, <2>2, <2>3 DEF LookupsOK
<1>8. NoneLost(j, stored)
  <2>1. NoneLost(i, stored)
    BY DEF ImportOK
  <2>. QED
    BY <1>2, <2>1 DEF NoneLost, Ahead, StoredBy
<1>9. CountsOK(c, j, stored, of)
  <2>1. CountsOK(c, i, stored, of)
    BY DEF ImportOK
  <2>2. Accounted(j) = Accounted(i)
    BY <1>2 DEF Accounted, Pending
  <2>. QED
    BY <1>2, <2>1, <2>2 DEF CountsOK, WasOvertaken, MisKeyed, Late
<1>10. /\ j.seen \subseteq stored
       /\ j.imported = Cardinality(StoredFor(c, stored, of))
  BY <1>2 DEF ImportOK
<1>. QED
  BY <1>2, <1>4, <1>5, <1>6, <1>7, <1>8, <1>9, <1>10 DEF ImportOK, j

(* The batch is looked up: what was not found is to be inserted. *)
EndsLookup(i, stored, j) ==
  /\ DOMAIN j = ImportFields
  /\ j.phase = "inserting" /\ j.payload = i.payload /\ j.rest = i.rest
  /\ j.instrumentId = i.instrumentId /\ j.unique = i.unique
  /\ j.looked = i.looked
  /\ j.records = RowsToInsert(i.unique, Existing(i, stored))
  /\ j.imported = i.imported /\ j.skippedInvalid = i.skippedInvalid
  /\ j.seen = i.seen
  /\ j.skippedDuplicates = i.skippedDuplicates + Len(i.unique) - Len(j.records)

LEMMA LookupEnds ==
  ASSUME NEW c, NEW i, NEW stored, NEW of, ImportOK(c, i, stored, of),
         i.phase = "looking up", ~(LookedAt(i) < Len(i.unique)),
         NEW j, EndsLookup(i, stored, j)
  PROVE  ImportOK(c, j, stored, of)
<1> DEFINE S == RowsOf(i.payload)
           e == Existing(i, stored)
           last == LookedAt(i)
<1>0. /\ DOMAIN j = ImportFields
      /\ j.phase = "inserting" /\ j.payload = i.payload /\ j.rest = i.rest
      /\ j.instrumentId = i.instrumentId /\ j.unique = i.unique
      /\ j.looked = i.looked
      /\ j.imported = i.imported /\ j.skippedInvalid = i.skippedInvalid
      /\ j.seen = i.seen
  BY DEF EndsLookup
<1>1. j.records = RowsToInsert(i.unique, e)
  BY DEF EndsLookup
<1>2. j.skippedDuplicates = i.skippedDuplicates + Len(i.unique) - Len(j.records)
  BY DEF EndsLookup
<1>3. ImportType(i) /\ BatchOK(i)
  BY DEF ImportOK
<1>4. /\ i.payload \in Payloads /\ OneKind(S)
      /\ i.rest \in Seq(S) /\ i.unique \in Seq(S)
  BY <1>3, PayloadRows DEF ImportType
<1>5. /\ last \in Nat /\ Len(i.unique) \in Nat /\ last = Len(i.unique)
      /\ DOMAIN i.unique = 1..last
  <2>1. last \in Nat /\ Len(i.unique) \in Nat /\ last <= Len(i.unique)
    BY LookupFinds
  <2>2. last = Len(i.unique)
    <3> DEFINE length == Len(i.unique)
    <3>1. length \in Nat /\ last \in Nat /\ last <= length /\ ~(last < length)
      BY <2>1
    <3> HIDE DEF length, last
    <3>2. last = length
      BY ONLY <3>1
    <3>. QED
      BY <3>2 DEF length
  <2>3. DOMAIN i.unique = 1..Len(i.unique)
    BY <1>4, LengthType
  <2>. QED
    BY <2>1, <2>2, <2>3
<1>6. /\ \A k \in e : \E row \in S :
           k = DatabaseKey(row) /\ IdentityOf(i, row) \in stored
      /\ \/ MisKeyed(i)
         \/ \A n \in 1..last : RowKey(i.unique[n]) \notin e =>
              NotStoredBefore(c, i, i.unique[n], stored, of)
  BY LookupFinds
<1>7. /\ j.records \in Seq(S) /\ KeysDiffer(j.records) /\ AllValid(j.records)
      /\ \A n \in DOMAIN i.unique : RowKey(i.unique[n]) \notin e =>
           \E m \in DOMAIN j.records : j.records[m] = i.unique[n]
      /\ \A m \in DOMAIN j.records : \E n \in DOMAIN i.unique :
           j.records[m] = i.unique[n] /\ RowKey(i.unique[n]) \notin e
  <2>1. KeysDiffer(i.unique) /\ AllValid(i.unique)
    BY <1>3 DEF BatchOK
  <2> HIDE DEF S, e
  <2>2. AreLeft(S, i.unique, e, RowsToInsert(i.unique, e))
    BY <1>4, <2>1, RowsLeft
  <2>3. AreLeft(S, i.unique, e, j.records)
    BY <1>1, <2>2
  <2>. QED
    BY <2>3 DEF AreLeft
<1> HIDE DEF S, e, last
<1>8. /\ i.skippedDuplicates \in Int /\ i.skippedInvalid \in Int
      /\ i.imported \in Nat /\ Len(i.rest) \in Nat
  BY <1>3, PendingIs DEF ImportType
<1>9. Len(j.records) \in Nat
  BY <1>7, LengthType
<1> DEFINE duplicates == i.skippedDuplicates
           invalid == i.skippedInvalid
           imported == i.imported
           rest == Len(i.rest)
           unique == Len(i.unique)
           records == Len(j.records)
<1>10. /\ duplicates \in Int /\ invalid \in Int /\ imported \in Nat
       /\ rest \in Nat /\ unique \in Nat /\ records \in Nat
  BY <1>5, <1>8, <1>9
<1>11. j.skippedDuplicates = duplicates + unique - records
  BY <1>2
<1>12. j.skippedDuplicates \in Int
  <2> HIDE DEF duplicates, unique, records
  <2>. QED
    BY ONLY <1>10, <1>11
<1>13. ImportType(j)
  <2>1. i.looked \in Nat
    BY <1>3 DEF ImportType
  <2>. QED
    BY <1>0, <1>4, <1>7, <1>8, <1>12, <2>1 DEF ImportType, S
<1>14. BatchOK(j)
  BY <1>0, <1>3, <1>7 DEF BatchOK
<1>15. NoneLost(j, stored)
  <2> SUFFICES ASSUME NEW row \in S, Valid(row)
               PROVE  Ahead(j, row) \/ StoredBy(j, row, stored)
    BY <1>0 DEF NoneLost, S
  <2>1. Ahead(i, row) \/ StoredBy(i, row, stored)
    BY DEF ImportOK, NoneLost, S
  <2>2. CASE StoredBy(i, row, stored)
    BY <1>0, <2>2 DEF StoredBy
  <2>3. CASE \E n \in DOMAIN i.rest : i.rest[n] = row
    BY <1>0, <2>3 DEF Ahead
  <2>4. CASE \E n \in DOMAIN i.unique : RowKey(i.unique[n]) = RowKey(row)
    <3>1. PICK n \in DOMAIN i.unique : RowKey(i.unique[n]) = RowKey(row)
      BY <2>4
    <3>2. CASE RowKey(i.unique[n]) \notin e
      <4>1. PICK m \in DOMAIN j.records : j.records[m] = i.unique[n]
        BY <1>7, <3>2
      <4>. QED
        BY <1>0, <3>1, <4>1 DEF Ahead
    <3>3. CASE RowKey(i.unique[n]) \in e
      <4>1. PICK x \in S : /\ RowKey(row) = DatabaseKey(x)
                           /\ IdentityOf(i, x) \in stored
        BY <1>6, <3>1, <3>3
      <4>2. DatabaseKey(row) = DatabaseKey(x)
        BY <1>4, <4>1, KeysAgree
      <4>3. Identity(i.instrumentId, i.payload, row) \in stored
        BY <4>1, <4>2 DEF IdentityOf, Identity
      <4>4. i.instrumentId \in FindInstrument(i.payload)
        BY <1>3 DEF BatchOK
      <4>. QED
        BY <1>0, <4>3, <4>4 DEF StoredBy
    <3>. QED
      BY <3>2, <3>3
  <2>. QED
    BY <2>1, <2>2, <2>3, <2>4 DEF Ahead
<1>16. LookupsOK(c, j, stored, of)
  <2>1. MisKeyed(j) <=> MisKeyed(i)
    BY <1>0 DEF MisKeyed
  <2>2. \A row : NotStoredBefore(c, j, row, stored, of)
                   <=> NotStoredBefore(c, i, row, stored, of)
    BY <1>0 DEF NotStoredBefore, Late, IdentityOf
  <2>3. ASSUME ~MisKeyed(i), NEW m \in DOMAIN j.records
        PROVE  NotStoredBefore(c, i, j.records[m], stored, of)
    <3>1. PICK n \in DOMAIN i.unique :
            j.records[m] = i.unique[n] /\ RowKey(i.unique[n]) \notin e
      BY <1>7
    <3>. QED
      BY <1>5, <1>6, <2>3, <3>1
  <2>. QED
    BY <1>0, <2>1, <2>2, <2>3 DEF LookupsOK
<1>17. CountsOK(c, j, stored, of)
  <2>1. CountsOK(c, i, stored, of)
    BY DEF ImportOK
  <2>2. Accounted(i) = imported + duplicates + invalid + (rest + unique)
    <3>1. Pending(i) = rest + unique
      BY <1>3, PendingIs
    <3>. QED
      BY <3>1 DEF Accounted
  <2>3. Accounted(j) = imported + (duplicates + unique - records) + invalid + (rest + records)
    <3>1. Pending(j) = rest + records
      BY <1>0, <1>13, PendingIs
    <3>. QED
      BY <1>0, <1>11, <3>1 DEF Accounted
  <2> HIDE DEF imported, duplicates, invalid, rest, unique, records
  <2>4. Accounted(j) = Accounted(i)
    BY ONLY <1>10, <2>2, <2>3
  <2>. QED
    BY <1>0, <2>1, <2>4 DEF CountsOK, WasOvertaken, MisKeyed, Late
<1>18. /\ j.seen \subseteq stored
       /\ j.imported = Cardinality(StoredFor(c, stored, of))
  BY <1>0 DEF ImportOK
<1>. QED
  BY <1>0, <1>13, <1>14, <1>15, <1>16, <1>17, <1>18 DEF ImportOK

(* A statement stores, of its rows, those whose keys are free, once each.  *)
FreshOf(i, batch, stored) ==
  {n \in DOMAIN batch :
     /\ IdentityOf(i, batch[n]) \notin stored
     /\ \A m \in 1..(n - 1) : IdentityOf(i, batch[m]) # IdentityOf(i, batch[n])}

NewKeys(i, batch, stored) ==
  {IdentityOf(i, batch[n]) : n \in FreshOf(i, batch, stored)}

(* F are the rows stored of a batch, under the keys K. *)
AreStoredOnce(i, batch, stored, F, K) ==
  /\ F \subseteq 1..Len(batch)
  /\ Cardinality(F) \in Nat
  /\ Cardinality(F) <= Len(batch)
  /\ Cardinality(F) < Len(batch) => \E n \in 1..Len(batch) : n \notin F
  /\ IsFiniteSet(K)
  /\ Cardinality(K) = Cardinality(F)
  /\ K \cap stored = {}
  /\ \A n \in 1..Len(batch) : IdentityOf(i, batch[n]) \in stored \cup K

LEMMA StoredOnce ==
  ASSUME NEW i, NEW S, NEW batch \in Seq(S), NEW stored
  PROVE  AreStoredOnce(i, batch, stored, FreshOf(i, batch, stored),
                       NewKeys(i, batch, stored))
<1> DEFINE F == FreshOf(i, batch, stored)
           K == NewKeys(i, batch, stored)
           N == Len(batch)
           id(n) == IdentityOf(i, batch[n])
<1>1. N \in Nat /\ DOMAIN batch = 1..N
  BY LengthType
<1>2. IsFiniteSet(1..N) /\ Cardinality(1..N) = N
  <2> HIDE DEF N
  <2>. QED
    BY <1>1, FS_Interval
<1>3. F \in SUBSET (1..N)
  BY <1>1 DEF FreshOf
<1>4. \A n \in 1..N : n \in F <=> id(n) \notin stored /\ \A m \in 1..(n - 1) : id(m) # id(n)
  BY <1>1 DEF FreshOf
<1>5. K = {id(n) : n \in F}
  BY DEF NewKeys
<1> HIDE DEF F, K, N, id
<1>6. IsFiniteSet(F) /\ Cardinality(F) \in Nat /\ Cardinality(F) <= N
  <2>1. IsFiniteSet(F) /\ Cardinality(F) <= Cardinality(1..N)
    BY <1>2, <1>3, FS_Subset
  <2>2. Cardinality(F) \in Nat
    BY <2>1, FS_CardinalityType
  <2>. QED
    BY <1>2, <2>1, <2>2
<1>7. ASSUME Cardinality(F) < N PROVE \E n \in 1..N : n \notin F
  <2>1. Cardinality(F) # N
    BY <1>1, <1>6, <1>7
  <2>2. F # 1..N
    BY <1>2, <2>1
  <2>. QED
    BY <1>3, <2>2
<1>8. \A m, n \in F : m # n => id(m) # id(n)
  <2> SUFFICES ASSUME NEW m \in F, NEW n \in F, m # n
               PROVE  id(m) # id(n)
    OBVIOUS
  <2>1. m \in 1..N /\ n \in 1..N /\ m \in Nat /\ n \in Nat
    BY <1>1, <1>3
  <2>2. CASE m < n
    <3>1. m \in 1..(n - 1)
      BY <2>1, <2>2
    <3>. QED
      BY <1>4, <2>1, <3>1
  <2>3. CASE n < m
    <3>1. n \in 1..(m - 1)
      BY <2>1, <2>3
    <3>. QED
      BY <1>4, <2>1, <3>1
  <2>. QED
    BY <2>1, <2>2, <2>3
<1>9. IsFiniteSet(K) /\ Cardinality(K) = Cardinality(F)
  <2> DEFINE g == [n \in F |-> id(n)]
  <2>1. g \in [F -> K] /\ \A n \in F : g[n] = id(n)
    BY <1>5
  <2>2. \A k \in K : \E n \in F : g[n] = k
    BY <1>5, <2>1
  <2> HIDE DEF g
  <2>3. g \in Surjection(F, K)
    BY <2>1, <2>2 DEF Surjection
  <2>4. g \in Injection(F, K)
    BY <1>8, <2>1 DEF Injection, IsInjective
  <2>. QED
    BY <1>6, <2>3, <2>4, FS_Surjection
<1>10. K \cap stored = {}
  BY <1>3, <1>4, <1>5
<1>11. ASSUME NEW n \in 1..N PROVE id(n) \in stored \cup K
  <2> DEFINE T == {m \in 1..N : id(m) = id(n)}
  <2>1. T \subseteq Nat /\ T # {}
    BY <1>1
  <2>2. PICK m \in T : \A k \in T : m <= k
    <3> HIDE DEF T
    <3>. QED
      BY <2>1, LeastOf
  <2>3. m \in 1..N /\ id(m) = id(n)
    OBVIOUS
  <2>4. ASSUME NEW k \in 1..(m - 1) PROVE id(k) # id(m)
    <3>1. k \in Nat /\ m \in Nat /\ k < m /\ k \in 1..N
      BY <1>1, <2>3
    <3>2. ~(m <= k)
      BY <3>1
    <3>. QED
      BY <2>2, <2>3, <3>1, <3>2
  <2>. QED
    BY <1>4, <1>5, <2>3, <2>4
<1>12. AreStoredOnce(i, batch, stored, F, K)
  BY <1>3, <1>6, <1>7, <1>9, <1>10, <1>11 DEF N, id, AreStoredOnce
<1>. QED
  BY <1>12 DEF F, K

GivenBatch(i) == SubSeq(i.records, 1, InsertLength(i))

(* An import inserts the next rows, and counts those that were stored. *)
Inserts(c, i, stored, of, j, stored2, of2) ==
  /\ DOMAIN j = ImportFields
  /\ j.phase = "inserting" /\ j.payload = i.payload /\ j.rest = i.rest
  /\ j.instrumentId = i.instrumentId /\ j.unique = i.unique
  /\ j.looked = i.looked
  /\ j.records = From(i.records, InsertLength(i) + 1)
  /\ j.imported = i.imported + Cardinality(FreshOf(i, GivenBatch(i), stored))
  /\ j.skippedInvalid = i.skippedInvalid
  /\ j.skippedDuplicates = i.skippedDuplicates /\ j.seen = i.seen
  /\ stored2 = stored \cup NewKeys(i, GivenBatch(i), stored)
  /\ of2 = [key \in stored2 |-> IF key \in NewKeys(i, GivenBatch(i), stored)
                                THEN c ELSE of[key]]

LEMMA RowsInserted ==
  ASSUME NEW c, NEW i, NEW stored, NEW of, ImportOK(c, i, stored, of),
         i.phase = "inserting", IsFiniteSet(stored),
         NEW j, NEW stored2, NEW of2, Inserts(c, i, stored, of, j, stored2, of2)
  PROVE  ImportOK(c, j, stored2, of2)
<1> DEFINE S == RowsOf(i.payload)
           size == InsertLength(i)
           batch == GivenBatch(i)
           new == NewKeys(i, batch, stored)
           count == Cardinality(FreshOf(i, batch, stored))
<1>0. /\ DOMAIN j = ImportFields
      /\ j.phase = "inserting" /\ j.payload = i.payload /\ j.rest = i.rest
      /\ j.instrumentId = i.instrumentId /\ j.unique = i.unique
      /\ j.looked = i.looked /\ j.skippedInvalid = i.skippedInvalid
      /\ j.skippedDuplicates = i.skippedDuplicates /\ j.seen = i.seen
  BY DEF Inserts
<1>1. /\ j.records = From(i.records, size + 1)
      /\ j.imported = i.imported + count
  BY DEF Inserts
<1>2. /\ stored2 = stored \cup new
      /\ \A key \in stored2 : of2[key] = IF key \in new THEN c ELSE of[key]
  BY DEF Inserts
<1>3. ImportType(i) /\ BatchOK(i)
  BY DEF ImportOK
<1>4. /\ i.payload \in Payloads /\ i.rest \in Seq(S) /\ i.unique \in Seq(S)
      /\ i.records \in Seq(S) /\ i.looked \in Nat
      /\ i.imported \in Nat /\ i.skippedDuplicates \in Int /\ i.skippedInvalid \in Int
  BY <1>3 DEF ImportType
<1>5. Len(i.records) \in Nat /\ size \in 0..Len(i.records) /\ size \in Nat
  <2>1. Len(i.records) \in Nat /\ size \in 0..Len(i.records)
    BY <1>3, PendingIs, BatchLengthType
  <2>. QED
    BY <2>1
<1>6. IsSplit(S, i.records, size, batch, j.records)
  <2>1. batch = SubSeq(i.records, 1, size)
    BY DEF GivenBatch
  <2> HIDE DEF batch, size, S
  <2>2. IsSplit(S, i.records, size, SubSeq(i.records, 1, size), From(i.records, size + 1))
    BY <1>4, <1>5, Split
  <2>. QED
    BY <1>1, <2>1, <2>2
<1> HIDE DEF batch, size, S
<1>7. /\ batch \in Seq(S) /\ Len(batch) = size
      /\ j.records \in Seq(S) /\ Len(j.records) = Len(i.records) - size
  BY <1>6 DEF IsSplit
<1>8. \A n \in 1..size : n \in DOMAIN batch /\ batch[n] = i.records[n]
  BY <1>6 DEF IsSplit
<1>9. \A n \in DOMAIN j.records :
        n + size \in DOMAIN i.records /\ j.records[n] = i.records[n + size]
  BY <1>6 DEF IsSplit
<1>10. \A n \in DOMAIN i.records :
         n \in 1..size \/ (n - size \in DOMAIN j.records /\ j.records[n - size] = i.records[n])
  BY <1>6 DEF IsSplit
<1>10a. AreStoredOnce(i, batch, stored, FreshOf(i, batch, stored), new)
  BY <1>7, StoredOnce
<1>11. /\ count \in Nat /\ count <= size
       /\ count < size => \E n \in 1..size : n \notin FreshOf(i, batch, stored)
  BY <1>7, <1>10a DEF AreStoredOnce
<1>12. /\ IsFiniteSet(new) /\ Cardinality(new) = count /\ new \cap stored = {}
       /\ \A n \in 1..size : IdentityOf(i, batch[n]) \in stored \cup new
  <2> HIDE DEF new
  <2>. QED
    BY <1>7, <1>10a DEF AreStoredOnce
<1>13. \A key \in new : \E n \in 1..size : key = IdentityOf(i, i.records[n])
  <2>1. FreshOf(i, batch, stored) \subseteq 1..size
    BY <1>7, <1>10a DEF AreStoredOnce
  <2>. QED
    BY <1>8, <2>1 DEF NewKeys
<1>14. Grows(stored, of, stored2, of2)
  BY <1>2, <1>12 DEF Grows
<1> HIDE DEF new
<1>15. DOMAIN i.records = 1..Len(i.records) /\ \A n \in DOMAIN i.records : i.records[n] \in S
  <2>1. DOMAIN i.records = 1..Len(i.records)
    BY <1>4, LengthType
  <2>2. \A n \in 1..Len(i.records) : n \in DOMAIN i.records /\ i.records[n] \in S
    <3>1. Len(i.records) <= Len(i.records)
      BY <1>5
    <3>. QED
      BY <1>4, <1>5, <3>1, FirstElements
  <2>. QED
    BY <2>1, <2>2
<1>16. \A n \in 1..size : n \in DOMAIN i.records
  <2> DEFINE length == Len(i.records)
  <2>1. length \in Nat /\ size \in 0..length /\ DOMAIN i.records = 1..length
    BY <1>5, <1>15
  <2> HIDE DEF length
  <2>2. 1..size \subseteq 1..length
    BY ONLY <2>1
  <2>. QED
    BY <2>1, <2>2
<1>17. \A row : IdentityOf(j, row) = IdentityOf(i, row)
  BY <1>0 DEF IdentityOf
<1>18. j.imported \in Nat
  BY <1>1, <1>4, <1>11
<1>19. ImportType(j)
  BY <1>0, <1>4, <1>7, <1>18 DEF ImportType, S
<1>20. BatchOK(j)
  <2>1. KeysDiffer(i.records) /\ AllValid(i.records)
    BY <1>3 DEF BatchOK
  <2>2. AllValid(j.records)
    BY <1>9, <2>1 DEF AllValid
  <2>3. KeysDiffer(j.records)
    <3> SUFFICES ASSUME NEW m \in DOMAIN j.records, NEW n \in DOMAIN j.records, m # n
                 PROVE  RowKey(j.records[m]) # RowKey(j.records[n])
      BY DEF KeysDiffer
    <3>1. /\ m + size \in DOMAIN i.records /\ j.records[m] = i.records[m + size]
          /\ n + size \in DOMAIN i.records /\ j.records[n] = i.records[n + size]
      BY <1>9
    <3>2. m + size # n + size
      <4>1. m \in Nat /\ n \in Nat
        BY <1>7, LengthType
      <4>. QED
        BY ONLY <1>5, <4>1, m # n
    <3>. QED
      BY <2>1, <3>1, <3>2 DEF KeysDiffer
  <2>. QED
    BY <1>0, <1>3, <2>2, <2>3 DEF BatchOK
<1>21. NoneLost(j, stored2)
  <2> SUFFICES ASSUME NEW row \in S, Valid(row)
               PROVE  Ahead(j, row) \/ StoredBy(j, row, stored2)
    BY <1>0 DEF NoneLost, S
  <2>1. Ahead(i, row) \/ StoredBy(i, row, stored2)
    BY <1>14, GrowthKeeps DEF ImportOK, NoneLost, S
  <2>2. CASE StoredBy(i, row, stored2)
    BY <1>0, <2>2 DEF StoredBy
  <2>3. CASE \E n \in DOMAIN i.rest : i.rest[n] = row
    BY <1>0, <2>3 DEF Ahead
  <2>4. CASE \E n \in DOMAIN i.records : RowKey(i.records[n]) = RowKey(row)
    <3>1. PICK n \in DOMAIN i.records : RowKey(i.records[n]) = RowKey(row)
      BY <2>4
    <3>2. CASE n \in 1..size
      <4>1. IdentityOf(i, i.records[n]) \in stored2
        BY <1>2, <1>8, <1>12, <3>2
      <4>2. OneKind(S) /\ i.records[n] \in S
        BY <1>4, <1>15, PayloadRows DEF S
      <4>3. DatabaseKey(i.records[n]) = DatabaseKey(row)
        BY <3>1, <4>2, KeysAgree
      <4>4. Identity(i.instrumentId, i.payload, row) \in stored2
        BY <4>1, <4>3 DEF IdentityOf, Identity
      <4>5. i.instrumentId \in FindInstrument(i.payload)
        BY <1>3 DEF BatchOK
      <4>. QED
        BY <1>0, <4>4, <4>5 DEF StoredBy
    <3>3. CASE n \notin 1..size
      <4>1. n - size \in DOMAIN j.records /\ j.records[n - size] = i.records[n]
        BY <1>10, <3>3
      <4>. QED
        BY <1>0, <3>1, <4>1 DEF Ahead
    <3>. QED
      BY <3>2, <3>3
  <2>. QED
    BY <2>1, <2>2, <2>3, <2>4 DEF Ahead
<1>22. LookupsOK(c, j, stored2, of2)
  <2>1. ASSUME ~MisKeyed(i), NEW n \in DOMAIN j.records
        PROVE  NotStoredBefore(c, j, j.records[n], stored2, of2)
    <3> DEFINE row == i.records[n + size]
               id == IdentityOf(i, row)
    <3>1. n + size \in DOMAIN i.records /\ j.records[n] = row
      BY <1>9, <2>1
    <3>2. NotStoredBefore(c, i, row, stored, of)
      BY <2>1, <3>1 DEF ImportOK, LookupsOK
    <3>3. id \notin new
      <4> SUFFICES ASSUME id \in new PROVE FALSE
        OBVIOUS
      <4>1. PICK m \in 1..size : id = IdentityOf(i, i.records[m])
        BY <1>13
      <4>2. m \in DOMAIN i.records
        BY <1>16
      <4>3. m # n + size
        <5>1. n \in 1..Len(j.records) /\ Len(j.records) \in Nat
          BY <1>7, LengthType
        <5>. QED
          BY ONLY <1>5, <4>1, <5>1
      <4>4. RowKey(i.records[m]) # RowKey(row)
        BY <1>3, <3>1, <4>2, <4>3 DEF BatchOK, KeysDiffer
      <4>5. DatabaseKey(i.records[m]) = RowKey(i.records[m]) /\ DatabaseKey(row) = RowKey(row)
        BY <1>15, <2>1, <3>1, <4>2 DEF MisKeyed, S
      <4>6. DatabaseKey(i.records[m]) = DatabaseKey(row)
        <5>1. \A x : IdentityOf(i, x).key = DatabaseKey(x)
          BY DEF IdentityOf, Identity
        <5>. QED
          BY <4>1, <5>1
      <4>. QED
        BY <4>4, <4>5, <4>6
    <3> HIDE DEF row, id
    <3>4. id \in stored2 => id \in stored /\ of2[id] = of[id]
      BY <1>2, <3>3
    <3>. QED
      BY <1>0, <1>17, <3>1, <3>2, <3>4 DEF NotStoredBefore, Late, id
  <2>2. MisKeyed(j) <=> MisKeyed(i)
    BY <1>0 DEF MisKeyed
  <2>. QED
    BY <1>0, <2>1, <2>2 DEF LookupsOK
<1>23. ASSUME count < size PROVE WasOvertaken(c, j, stored2, of2)
  <2>1. ASSUME ~MisKeyed(i) PROVE WasOvertaken(c, i, stored, of)
    <3>1. PICK n \in 1..size : n \notin FreshOf(i, batch, stored)
      BY <1>11, <1>23
    <3>2. /\ n \in DOMAIN batch /\ batch[n] = i.records[n]
          /\ n \in DOMAIN i.records /\ i.records[n] \in S
      BY <1>8, <1>15, <1>16
    <3>3. \A m \in 1..(n - 1) : IdentityOf(i, batch[m]) # IdentityOf(i, batch[n])
      <4> SUFFICES ASSUME NEW m \in 1..(n - 1),
                          IdentityOf(i, batch[m]) = IdentityOf(i, batch[n])
                   PROVE  FALSE
        OBVIOUS
      <4>1. m \in 1..size /\ m # n
        BY ONLY <1>5, n \in 1..size, m \in 1..(n - 1)
      <4>2. batch[m] = i.records[m] /\ m \in DOMAIN i.records /\ i.records[m] \in S
        BY <1>8, <1>15, <1>16, <4>1
      <4>3. RowKey(i.records[m]) # RowKey(i.records[n])
        BY <1>3, <3>2, <4>1, <4>2 DEF BatchOK, KeysDiffer
      <4>4. /\ DatabaseKey(i.records[m]) = RowKey(i.records[m])
            /\ DatabaseKey(i.records[n]) = RowKey(i.records[n])
        BY <2>1, <3>2, <4>2 DEF MisKeyed, S
      <4>5. \A x : IdentityOf(i, x).key = DatabaseKey(x)
        BY DEF IdentityOf, Identity
      <4>. QED
        BY <3>2, <4>2, <4>3, <4>4, <4>5
    <3>4. IdentityOf(i, i.records[n]) \in stored
      BY <3>1, <3>2, <3>3 DEF FreshOf
    <3>5. Late(c, i, IdentityOf(i, i.records[n]), of)
      BY <2>1, <3>2, <3>4 DEF ImportOK, LookupsOK, NotStoredBefore
    <3>6. i.instrumentId \in FindInstrument(i.payload)
      BY <1>3 DEF BatchOK
    <3>. QED
      BY <3>2, <3>4, <3>5, <3>6 DEF WasOvertaken, IdentityOf, S
  <2>2. WasOvertaken(c, i, stored, of)
    BY <2>1 DEF WasOvertaken
  <2>3. WasOvertaken(c, i, stored2, of2)
    BY <1>14, <2>2, GrowthKeeps
  <2>. QED
    BY <1>0, <2>3 DEF WasOvertaken, MisKeyed, Late
<1>24. CountsOK(c, j, stored2, of2)
  <2> DEFINE imported == i.imported
             duplicates == i.skippedDuplicates
             invalid == i.skippedInvalid
             rest == Len(i.rest)
             records == Len(i.records)
             requested == Len(i.payload.rows)
             before == Accounted(i)
             after == Accounted(j)
  <2>1. before <= requested /\ (before < requested => WasOvertaken(c, i, stored, of))
    BY DEF ImportOK, CountsOK
  <2>2. WasOvertaken(c, i, stored, of) => WasOvertaken(c, j, stored2, of2)
    <3>1. WasOvertaken(c, i, stored, of) => WasOvertaken(c, i, stored2, of2)
      BY <1>14, GrowthKeeps
    <3>. QED
      BY <1>0, <3>1 DEF WasOvertaken, MisKeyed, Late
  <2>3. before = imported + duplicates + invalid + (rest + records)
    <3>1. Pending(i) = rest + records
      BY <1>3, PendingIs
    <3>. QED
      BY <3>1 DEF Accounted
  <2>4. after = (imported + count) + duplicates + invalid + (rest + (records - size))
    <3>1. Pending(j) = rest + (records - size)
      BY <1>0, <1>7, <1>19, PendingIs
    <3>. QED
      BY <1>0, <1>1, <3>1 DEF Accounted
  <2>5. /\ imported \in Nat /\ duplicates \in Int /\ invalid \in Int
        /\ rest \in Nat /\ records \in Nat /\ size \in Nat
        /\ count \in Nat /\ count <= size /\ requested \in Nat
    <3>1. requested \in Nat
      <4>1. i.payload.rows \in Seq(RowsOf(i.payload))
        BY <1>4, PayloadRows
      <4>. QED
        BY <4>1, LengthType
    <3>2. rest \in Nat
      BY <1>3, PendingIs
    <3>. QED
      BY <1>4, <1>5, <1>11, <3>1, <3>2
  <2> HIDE DEF imported, duplicates, invalid, rest, records, requested, before, after, count
  <2>6. after <= before /\ (count = size => after = before) /\ before \in Int /\ after \in Int
    BY ONLY <2>3, <2>4, <2>5
  <2>7. after <= requested
    BY ONLY <2>1, <2>5, <2>6
  <2>8. ASSUME after < requested PROVE WasOvertaken(c, j, stored2, of2)
    <3>1. CASE count = size
      BY <2>1, <2>2, <2>6, <2>8, <3>1
    <3>2. CASE count < size
      BY <1>23, <3>2
    <3>3. count = size \/ count < size
      BY ONLY <2>5
    <3>. QED
      BY <3>1, <3>2, <3>3
  <2>. QED
    BY <1>0, <2>7, <2>8 DEF CountsOK, after, requested
<1>25. j.imported = Cardinality(StoredFor(c, stored2, of2))
  <2>1. StoredFor(c, stored2, of2) = StoredFor(c, stored, of) \cup new
    BY <1>2, <1>12 DEF StoredFor
  <2>2. /\ IsFiniteSet(StoredFor(c, stored, of))
        /\ Cardinality(StoredFor(c, stored, of)) = i.imported
    <3>1. StoredFor(c, stored, of) \in SUBSET stored
      BY DEF StoredFor
    <3>. QED
      BY <3>1, FS_Subset DEF ImportOK
  <2>3. StoredFor(c, stored, of) \cap new = {}
    BY <1>12 DEF StoredFor
  <2>4. Cardinality(StoredFor(c, stored, of) \cup new) = i.imported + count - 0
    BY <1>12, <2>2, <2>3, FS_Union, FS_EmptySet
  <2>. QED
    BY <1>1, <1>4, <1>11, <2>1, <2>4
<1>26. j.seen \subseteq stored2
  BY <1>0, <1>2 DEF ImportOK
<1>. QED
  BY <1>0, <1>19, <1>20, <1>21, <1>22, <1>24, <1>25, <1>26 DEF ImportOK

-----------------------------------------------------------------------------
(* Every step keeps the invariant. *)

FirstState(payload, stored) ==
  [phase |-> "preparing", payload |-> payload, rest |-> payload.rows,
   instrumentId |-> "", unique |-> <<>>, looked |-> 0, existing |-> {},
   records |-> <<>>, imported |-> 0, skippedDuplicates |-> 0,
   skippedInvalid |-> 0, seen |-> stored]

LEMMA ImportStarts ==
  ASSUME NEW c, NEW payload \in Payloads, NEW stored, NEW of,
         StoredFor(c, stored, of) = {}
  PROVE  ImportOK(c, FirstState(payload, stored), stored, of)
<1> DEFINE S == RowsOf(payload)
           j == FirstState(payload, stored)
<1>1. /\ DOMAIN j = ImportFields
      /\ j.phase = "preparing" /\ j.payload = payload /\ j.rest = payload.rows
      /\ j.unique = <<>> /\ j.looked = 0 /\ j.existing = {} /\ j.records = <<>>
      /\ j.imported = 0 /\ j.skippedDuplicates = 0 /\ j.skippedInvalid = 0
      /\ j.seen = stored
  BY DEF FirstState, ImportFields
<1> HIDE DEF j
<1>2. payload.rows \in Seq(S)
  BY PayloadRows
<1>3. ImportType(j)
  BY <1>1, <1>2, EmptyList DEF ImportType
<1>4. BatchOK(j)
  <2>1. KeysDiffer(<<>>) /\ AllValid(<<>>)
    BY EmptyList DEF KeysDiffer, AllValid
  <2>. QED
    BY <1>1, <2>1 DEF BatchOK
<1>5. NoneLost(j, stored)
  BY <1>1 DEF NoneLost, Ahead, RowsOf
<1>6. LookupsOK(c, j, stored, of)
  BY <1>1 DEF LookupsOK
<1>7. CountsOK(c, j, stored, of)
  <2>1. Pending(j) = Len(payload.rows) /\ Len(payload.rows) \in Nat
    BY <1>1, <1>3, PendingIs
  <2> DEFINE requested == Len(payload.rows)
             after == Accounted(j)
  <2>2. after = 0 + 0 + 0 + requested /\ requested \in Nat
    BY <1>1, <2>1 DEF Accounted
  <2> HIDE DEF after, requested
  <2>3. after <= requested /\ ~(after < requested)
    BY ONLY <2>2
  <2>. QED
    BY <1>1, <2>3 DEF CountsOK, after, requested
<1>8. 0 = Cardinality(StoredFor(c, stored, of))
  BY FS_EmptySet
<1>. QED
  BY <1>1, <1>3, <1>4, <1>5, <1>6, <1>7, <1>8 DEF ImportOK, j

(* An import that fails leaves what it has stored. *)
LEMMA ImportFails ==
  ASSUME NEW c, NEW i, NEW stored, NEW of, ImportOK(c, i, stored, of)
  PROVE  ImportOK(c, [i EXCEPT !.phase = "failed"], stored, of)
<1> DEFINE j == [i EXCEPT !.phase = "failed"]
<1>1. ImportType(i) /\ BatchOK(i) /\ DOMAIN i = ImportFields
  BY DEF ImportOK, ImportType
<1>2. /\ DOMAIN j = ImportFields /\ j.phase = "failed"
      /\ j.payload = i.payload /\ j.rest = i.rest /\ j.unique = i.unique
      /\ j.looked = i.looked /\ j.records = i.records
      /\ j.imported = i.imported /\ j.skippedDuplicates = i.skippedDuplicates
      /\ j.skippedInvalid = i.skippedInvalid /\ j.seen = i.seen
  BY <1>1 DEF ImportFields
<1> HIDE DEF j
<1>3. ImportType(j)
  BY <1>1, <1>2 DEF ImportType
<1>4. BatchOK(j)
  BY <1>1, <1>2 DEF BatchOK
<1>. QED
  BY <1>2, <1>3, <1>4 DEF ImportOK, j

LEMMA UnusedIsNone ==
  ASSUME NEW i, i.phase # "unused"
  PROVE  i # Unused
BY DEF Unused

LEMMA ImportIsUsed ==
  ASSUME NEW c, NEW i, NEW stored, NEW of, ImportOK(c, i, stored, of)
  PROVE  i # Unused
BY UnusedIsNone DEF ImportOK, ImportType

(* An import moves on and the database stays as it is. *)
LEMMA ImportMoves ==
  ASSUME ImportInv, NEW c \in Imports, NEW j,
         call' = [call EXCEPT ![c] = j], UNCHANGED <<rows, origin>>,
         ImportOK(c, j, DOMAIN rows, origin)
  PROVE  ImportInv'
<1>1. DatabaseOK'
  BY DEF ImportInv, DatabaseOK
<1>2. DOMAIN call' = Imports
  BY DEF ImportInv, CallsOK
<1>3. ASSUME NEW d \in Imports
      PROVE  IF call'[d] = Unused THEN StoredFor(d, DOMAIN rows, origin) = {}
             ELSE ImportOK(d, call'[d], DOMAIN rows, origin)
  <2>1. CASE d = c
    <3>1. call'[d] = j
      BY <2>1 DEF ImportInv, CallsOK
    <3>. QED
      BY <2>1, <3>1, ImportIsUsed
  <2>2. CASE d # c
    <3>1. call'[d] = call[d]
      BY <2>2 DEF ImportInv, CallsOK
    <3>. QED
      BY <3>1 DEF ImportInv, CallsOK
  <2>. QED
    BY <2>1, <2>2
<1>. QED
  BY <1>1, <1>2, <1>3 DEF ImportInv, CallsOK

LEMMA StartKeepsInv ==
  ASSUME ImportInv, NEW c \in Imports, NEW payload \in Payloads,
         StartImport(c, payload)
  PROVE  ImportInv'
<1>1. call[c] = Unused /\ UNCHANGED <<rows, origin>>
  BY DEF StartImport
<1>2. call' = [call EXCEPT ![c] = FirstState(payload, DOMAIN rows)]
  BY DEF StartImport, FirstState
<1>3. StoredFor(c, DOMAIN rows, origin) = {}
  BY <1>1 DEF ImportInv, CallsOK
<1>4. ImportOK(c, FirstState(payload, DOMAIN rows), DOMAIN rows, origin)
  BY <1>3, ImportStarts
<1>. QED
  BY <1>1, <1>2, <1>4, ImportMoves

LEMMA UsedImportIsOK ==
  ASSUME ImportInv, NEW c \in Imports, call[c].phase # "unused"
  PROVE  ImportOK(c, call[c], DOMAIN rows, origin)
BY UnusedIsNone DEF ImportInv, CallsOK

LEMMA FailureKeepsInv ==
  ASSUME ImportInv, NEW c \in Imports, InstrumentNotFound(c) \/ DatabaseFails(c)
  PROVE  ImportInv'
<1> DEFINE i == call[c]
           j == [i EXCEPT !.phase = "failed"]
<1>1. call[c].phase # "unused" /\ UNCHANGED <<rows, origin>>
  BY DEF InstrumentNotFound, DatabaseFails, InFlight
<1>2. call' = [call EXCEPT ![c] = j]
  BY DEF InstrumentNotFound, DatabaseFails
<1>3. ImportOK(c, i, DOMAIN rows, origin)
  BY <1>1, UsedImportIsOK
<1> HIDE DEF i
<1>4. ImportOK(c, j, DOMAIN rows, origin)
  BY <1>3, ImportFails
<1> HIDE DEF j
<1>. QED
  BY <1>1, <1>2, <1>4, ImportMoves

Prepared(i, id) ==
  LET batch  == TakenBatch(i)
      valid  == Cardinality(ValidIn(batch))
      unique == Deduplicate(batch)
  IN  [i EXCEPT
         !.phase = "looking up", !.instrumentId = id,
         !.rest = From(@, BatchLength(i) + 1), !.unique = unique,
         !.skippedInvalid = @ + Len(batch) - valid,
         !.skippedDuplicates = @ + valid - Len(unique)]

LEMMA PreparedIs ==
  ASSUME NEW i, DOMAIN i = ImportFields, NEW id
  PROVE  TakesBatch(i, id, Prepared(i, id))
<1> DEFINE j == Prepared(i, id)
           batch == TakenBatch(i)
           valid == Cardinality(ValidIn(batch))
           unique == Deduplicate(batch)
           rest == From(i.rest, BatchLength(i) + 1)
           invalid == i.skippedInvalid + Len(batch) - valid
           duplicates == i.skippedDuplicates + valid - Len(unique)
<1>1. j = [i EXCEPT !.phase = "looking up", !.instrumentId = id, !.rest = rest,
                    !.unique = unique, !.skippedInvalid = invalid,
                    !.skippedDuplicates = duplicates]
  BY DEF Prepared
<1> HIDE DEF j, rest, unique, invalid, duplicates
<1>2. /\ DOMAIN j = ImportFields /\ j.phase = "looking up" /\ j.instrumentId = id
      /\ j.payload = i.payload /\ j.rest = rest /\ j.unique = unique
      /\ j.looked = i.looked /\ j.existing = i.existing /\ j.records = i.records
      /\ j.imported = i.imported /\ j.seen = i.seen
      /\ j.skippedInvalid = invalid /\ j.skippedDuplicates = duplicates
  BY <1>1 DEF ImportFields
<1>. QED
  BY <1>2 DEF TakesBatch, j, rest, unique, invalid, duplicates

LEMMA PrepareKeepsInv ==
  ASSUME ImportInv, NEW c \in Imports, PrepareBatch(c)
  PROVE  ImportInv'
<1> DEFINE i == call[c]
<1>1. i.phase = "preparing" /\ UNCHANGED <<rows, origin>>
  BY DEF PrepareBatch
<1>2. PICK id \in FindInstrument(i.payload) :
        call' = [call EXCEPT ![c] =
          IF Deduplicate(TakenBatch(i)) = <<>> THEN EndBatch(Prepared(i, id))
          ELSE Prepared(i, id)]
  BY DEF PrepareBatch, Prepared, TakenBatch
<1>3. ImportOK(c, i, DOMAIN rows, origin)
  BY <1>1, UsedImportIsOK
<1> HIDE DEF i
<1> DEFINE j == Prepared(i, id)
<1>4. TakesBatch(i, id, j)
  BY <1>3, PreparedIs DEF ImportOK, ImportType
<1> HIDE DEF j
<1>5. ImportOK(c, j, DOMAIN rows, origin)
  BY <1>1, <1>3, <1>4, BatchPrepared
<1>6. j.phase = "looking up" /\ j.unique = Deduplicate(TakenBatch(i))
  BY <1>4 DEF TakesBatch
<1>7. CASE Deduplicate(TakenBatch(i)) = <<>>
  <2>1. call' = [call EXCEPT ![c] = EndBatch(j)]
    BY <1>2, <1>7 DEF j
  <2>2. ImportOK(c, EndBatch(j), DOMAIN rows, origin)
    <3>1. j.unique = <<>>
      BY <1>6, <1>7, Zenon
    <3>. QED
      BY <1>5, <1>6, <3>1, BatchEnds, Zenon
  <2>. QED
    BY <1>1, <2>1, <2>2, ImportMoves
<1>8. CASE Deduplicate(TakenBatch(i)) # <<>>
  <2>1. call' = [call EXCEPT ![c] = j]
    BY <1>2, <1>8 DEF j
  <2>. QED
    BY <1>1, <1>5, <2>1, ImportMoves
<1>. QED
  BY <1>7, <1>8

IsMiddle(s, first, last, t) ==
  /\ \A n \in DOMAIN t : first + n \in (first + 1)..last /\ t[n] = s[first + n]
  /\ \A n \in (first + 1)..last : n - first \in DOMAIN t /\ t[n - first] = s[n]

LEMMA Middle ==
  ASSUME NEW S, NEW s \in Seq(S), NEW first \in Nat, NEW last \in Nat,
         first <= last, last <= Len(s)
  PROVE  IsMiddle(s, first, last, SubSeq(s, first + 1, last))
<1> DEFINE t == SubSeq(s, first + 1, last)
<1>1. DOMAIN t = 1..(last - first)
  OBVIOUS
<1>2. \A n \in 1..(last - first) : t[n] = s[first + n]
  OBVIOUS
<1> HIDE DEF t
<1>3. \A n \in 1..(last - first) : first + n \in (first + 1)..last
  OBVIOUS
<1>4. \A n \in (first + 1)..last :
        n - first \in 1..(last - first) /\ first + (n - first) = n
  OBVIOUS
<1>. QED
  BY <1>1, <1>2, <1>3, <1>4 DEF IsMiddle, t

LEMMA FoundAre ==
  ASSUME ImportInv, NEW c \in Imports, call[c].phase = "looking up"
  PROVE  Identities(c, SubSeq(call[c].unique, call[c].looked + 1,
                              LookedAt(call[c]))) \cap DOMAIN rows
           = Found(call[c], DOMAIN rows)
<1> DEFINE i == call[c]
           s == i.unique
           first == i.looked
           last == LookedAt(i)
           t == SubSeq(s, first + 1, last)
<1>1. ImportOK(c, i, DOMAIN rows, origin)
  BY UsedImportIsOK
<1>2. s \in Seq(RowsOf(i.payload)) /\ first \in Nat
  BY <1>1 DEF ImportOK, ImportType
<1>3. last \in Nat /\ last <= Len(s)
  BY <1>1, LookupFinds
<1>4. first <= last
  <2>1. LookupLength(i) \in 0..(Len(s) - first)
    BY <1>1, BatchLengthType DEF ImportOK, BatchOK
  <2> DEFINE length == LookupLength(i)
             left == Len(s) - first
  <2>2. length \in 0..left /\ last = first + length
    BY <2>1 DEF LookedAt
  <2> HIDE DEF length, left, last, first
  <2>. QED
    BY ONLY <1>2, <2>2
<1> HIDE DEF t, first, last, s
<1>5. IsMiddle(s, first, last, t)
  <2>1. IsMiddle(s, first, last, SubSeq(s, first + 1, last))
    BY <1>2, <1>3, <1>4, Middle
  <2>. QED
    BY <2>1 DEF t
<1>6. \A n \in DOMAIN t : first + n \in (first + 1)..last /\ t[n] = s[first + n]
  BY <1>5 DEF IsMiddle
<1>7. \A n \in (first + 1)..last : n - first \in DOMAIN t /\ t[n - first] = s[n]
  BY <1>5 DEF IsMiddle
<1> DEFINE M == {n \in DOMAIN t : KeepsStrike(t[n])}
           N == {n \in (first + 1)..last : KeepsStrike(s[n])}
           A == {IdentityOf(i, t[n]) : n \in M}
           B == {IdentityOf(i, s[n]) : n \in N}
<1>8. A = B
  <2>1. \A n \in M : IdentityOf(i, t[n]) \in B
    BY <1>6
  <2>2. \A n \in N : IdentityOf(i, s[n]) \in A
    BY <1>7
  <2>3. A \subseteq B
    BY <2>1
  <2>4. B \subseteq A
    BY <2>2
  <2> HIDE DEF A, B
  <2>. QED
    BY <2>3, <2>4
<1>9. Identities(c, t) = A
  BY DEF Identities, IdentityOf
<1>10. Found(i, DOMAIN rows) = B \cap DOMAIN rows
  BY DEF Found, s, first, last
<1> HIDE DEF A, B
<1>11. Identities(c, t) \cap DOMAIN rows = Found(i, DOMAIN rows)
  BY <1>8, <1>9, <1>10
<1>. QED
  BY <1>11 DEF t, s, first, last

LookupEnded(i, stored) ==
  LET records == RowsToInsert(i.unique, Existing(i, stored))
  IN  [i EXCEPT !.phase = "inserting", !.records = records,
         !.skippedDuplicates = @ + Len(i.unique) - Len(records)]

LEMMA LookupEndedIs ==
  ASSUME NEW i, DOMAIN i = ImportFields, NEW stored
  PROVE  EndsLookup(i, stored, LookupEnded(i, stored))
<1> DEFINE j == LookupEnded(i, stored)
           records == RowsToInsert(i.unique, Existing(i, stored))
           duplicates == i.skippedDuplicates + Len(i.unique) - Len(records)
<1>1. j = [i EXCEPT !.phase = "inserting", !.records = records,
                    !.skippedDuplicates = duplicates]
  BY DEF LookupEnded
<1> HIDE DEF j, records, duplicates
<1>2. /\ DOMAIN j = ImportFields
      /\ j.phase = "inserting" /\ j.payload = i.payload /\ j.rest = i.rest
      /\ j.instrumentId = i.instrumentId /\ j.unique = i.unique
      /\ j.looked = i.looked /\ j.records = records
      /\ j.imported = i.imported /\ j.skippedInvalid = i.skippedInvalid
      /\ j.seen = i.seen /\ j.skippedDuplicates = duplicates
  BY <1>1 DEF ImportFields
<1>. QED
  BY <1>2 DEF EndsLookup, j, records, duplicates

LEMMA LookupKeepsInv ==
  ASSUME ImportInv, NEW c \in Imports, DatabaseFindsExisting(c)
  PROVE  ImportInv'
<1> DEFINE i == call[c]
           stored == DOMAIN rows
           last == LookedAt(i)
           batch == SubSeq(i.unique, i.looked + 1, last)
<1>1. i.phase = "looking up" /\ UNCHANGED <<rows, origin>>
  BY DEF DatabaseFindsExisting
<1>2. call' = [call EXCEPT ![c] = LookedUp(i, Identities(c, batch) \cap stored)]
  BY DEF DatabaseFindsExisting, LookedAt
<1>3. Identities(c, batch) \cap stored = Found(i, stored)
  BY <1>1, FoundAre
<1>4. call' = [call EXCEPT ![c] = LookedUp(i, Found(i, stored))]
  BY <1>2, <1>3
<1>5. ImportOK(c, i, stored, origin)
  BY <1>1, UsedImportIsOK
<1> HIDE DEF i, stored, batch
<1> DEFINE j == LookupEnded(i, stored)
           more == [i EXCEPT !.looked = last, !.existing = Existing(i, stored)]
<1>6. LookedUp(i, Found(i, stored)) =
        IF last < Len(i.unique) THEN more
        ELSE IF RowsToInsert(i.unique, Existing(i, stored)) = <<>>
             THEN EndBatch(j) ELSE j
  BY DEF LookedUp, LookedAt, Existing, LookupEnded
<1>7. EndsLookup(i, stored, j)
  BY <1>5, LookupEndedIs DEF ImportOK, ImportType
<1> HIDE DEF j
<1>8. CASE last < Len(i.unique)
  <2>1. call' = [call EXCEPT ![c] = more]
    BY <1>4, <1>6, <1>8
  <2>2. ImportOK(c, more, stored, origin)
    BY <1>1, <1>5, <1>8, LookupContinues
  <2> HIDE DEF more
  <2>. QED
    BY <1>1, <2>1, <2>2, ImportMoves DEF stored
<1> HIDE DEF more, last
<1>9. CASE ~(last < Len(i.unique))
  <2>1. ImportOK(c, j, stored, origin)
    BY <1>1, <1>5, <1>7, <1>9, LookupEnds DEF last
  <2>2. j.phase = "inserting" /\ j.records = RowsToInsert(i.unique, Existing(i, stored))
    BY <1>7 DEF EndsLookup
  <2>3. CASE RowsToInsert(i.unique, Existing(i, stored)) = <<>>
    <3>1. call' = [call EXCEPT ![c] = EndBatch(j)]
      BY <1>4, <1>6, <1>9, <2>3, Zenon
    <3>2. j.records = <<>>
      BY <2>2, <2>3, Zenon
    <3>3. ImportOK(c, EndBatch(j), stored, origin)
      BY <2>1, <2>2, <3>2, BatchEnds, Zenon
    <3>. QED
      BY <1>1, <3>1, <3>3, ImportMoves DEF stored
  <2>4. CASE RowsToInsert(i.unique, Existing(i, stored)) # <<>>
    <3>1. call' = [call EXCEPT ![c] = j]
      BY <1>4, <1>6, <1>9, <2>4, Zenon
    <3>. QED
      BY <1>1, <2>1, <3>1, ImportMoves DEF stored
  <2>. QED
    BY <2>3, <2>4
<1>. QED
  BY <1>8, <1>9

Created(i, stored) ==
  [i EXCEPT !.records = From(@, InsertLength(i) + 1),
            !.imported = @ + Cardinality(FreshOf(i, GivenBatch(i), stored))]

LEMMA CreatedIs ==
  ASSUME NEW c, NEW i, DOMAIN i = ImportFields, i.phase = "inserting",
         NEW stored, NEW of, NEW stored2, NEW of2,
         stored2 = stored \cup NewKeys(i, GivenBatch(i), stored),
         of2 = [key \in stored2 |-> IF key \in NewKeys(i, GivenBatch(i), stored)
                                    THEN c ELSE of[key]]
  PROVE  Inserts(c, i, stored, of, Created(i, stored), stored2, of2)
<1> DEFINE j == Created(i, stored)
           records == From(i.records, InsertLength(i) + 1)
           imported == i.imported + Cardinality(FreshOf(i, GivenBatch(i), stored))
<1>1. j = [i EXCEPT !.records = records, !.imported = imported]
  BY DEF Created
<1> HIDE DEF j, records, imported
<1>2. /\ DOMAIN j = ImportFields
      /\ j.phase = "inserting" /\ j.payload = i.payload /\ j.rest = i.rest
      /\ j.instrumentId = i.instrumentId /\ j.unique = i.unique
      /\ j.looked = i.looked /\ j.records = records /\ j.imported = imported
      /\ j.skippedInvalid = i.skippedInvalid
      /\ j.skippedDuplicates = i.skippedDuplicates /\ j.seen = i.seen
  BY <1>1 DEF ImportFields
<1>. QED
  BY <1>2 DEF Inserts, j, records, imported

(* The rows a statement stores come from valid rows of the request. *)
LEMMA NewKeysAreOK ==
  ASSUME NEW i, ImportType(i), BatchOK(i), NEW stored
  PROVE  /\ IsFiniteSet(NewKeys(i, GivenBatch(i), stored))
         /\ \A key \in NewKeys(i, GivenBatch(i), stored) : KeyOK(key)
<1> DEFINE S == RowsOf(i.payload)
           size == InsertLength(i)
           batch == GivenBatch(i)
           new == NewKeys(i, batch, stored)
<1>1. i.payload \in Payloads /\ i.records \in Seq(S)
  BY DEF ImportType
<1>2. Len(i.records) \in Nat /\ size \in 0..Len(i.records)
  BY PendingIs, BatchLengthType
<1>3. size \in Nat /\ size <= Len(i.records)
  BY <1>2
<1>4. IsSplit(S, i.records, size, SubSeq(i.records, 1, size), From(i.records, size + 1))
  BY <1>1, <1>2, Split
<1>5. batch = SubSeq(i.records, 1, size)
  BY DEF GivenBatch
<1> HIDE DEF batch, size
<1>6. /\ batch \in Seq(S) /\ Len(batch) = size
      /\ \A n \in 1..size : batch[n] = i.records[n]
  BY <1>4, <1>5 DEF IsSplit
<1>7. AreStoredOnce(i, batch, stored, FreshOf(i, batch, stored), NewKeys(i, batch, stored))
  BY <1>6, StoredOnce
<1>8. IsFiniteSet(NewKeys(i, batch, stored)) /\ FreshOf(i, batch, stored) \subseteq 1..size
  BY <1>6, <1>7 DEF AreStoredOnce
<1>9. \A n \in 1..size : n \in DOMAIN i.records /\ i.records[n] \in S
  <2> HIDE DEF S
  <2>. QED
    BY <1>1, <1>3, FirstElements
<1>10. \A n \in 1..size : batch[n] \in S /\ Valid(batch[n])
  BY <1>6, <1>9 DEF BatchOK, AllValid
<1>11. ASSUME NEW key \in NewKeys(i, batch, stored) PROVE KeyOK(key)
  <2>1. PICK n \in 1..size : key = IdentityOf(i, batch[n])
    BY <1>8 DEF NewKeys
  <2>2. key.table = i.payload.table /\ key.key = DatabaseKey(batch[n])
    BY <2>1 DEF IdentityOf, Identity
  <2>. QED
    BY <1>1, <1>10, <2>1, <2>2 DEF KeyOK
<1>. QED
  BY <1>8, <1>11 DEF batch

LEMMA InsertKeepsInv ==
  ASSUME ImportInv, NEW c \in Imports, DatabaseCreatesMany(c)
  PROVE  ImportInv'
<1> DEFINE i == call[c]
           stored == DOMAIN rows
           batch == GivenBatch(i)
           new == NewKeys(i, batch, stored)
           stored2 == DOMAIN rows'
<1>1. i.phase = "inserting" /\ Stores(c, batch)
  BY DEF DatabaseCreatesMany, GivenBatch
<1>2. ImportOK(c, i, stored, origin)
  BY <1>1, UsedImportIsOK
<1>3. Fresh(c, batch) = FreshOf(i, batch, stored)
  BY DEF Fresh, FreshOf, IdentityOf
<1>4. {Identity(i.instrumentId, i.payload, batch[n]) : n \in Fresh(c, batch)} = new
  BY <1>3 DEF NewKeys, IdentityOf
<1>5. /\ DOMAIN rows' = stored \cup new
      /\ origin' = [key \in stored \cup new |-> IF key \in new THEN c ELSE origin[key]]
  <2> DEFINE keys == {Identity(i.instrumentId, i.payload, batch[n]) : n \in Fresh(c, batch)}
  <2>1. /\ DOMAIN rows' = stored \cup keys
        /\ origin' = [key \in stored \cup keys |-> IF key \in keys THEN c ELSE origin[key]]
    <3> HIDE DEF batch
    <3>. QED
      BY <1>1 DEF Stores
  <2>. QED
    BY <1>4, <2>1
<1>6. call' = [call EXCEPT ![c] =
        IF Created(i, stored).records = <<>> THEN EndBatch(Created(i, stored))
        ELSE Created(i, stored)]
  <2>1. StoredCount(c, batch) = Cardinality(FreshOf(i, batch, stored))
    BY <1>3 DEF StoredCount
  <2>2. Created(i, stored) =
          [i EXCEPT !.records = From(@, InsertLength(i) + 1),
                    !.imported = @ + StoredCount(c, batch)]
    BY <2>1 DEF Created
  <2>. QED
    BY <2>2 DEF DatabaseCreatesMany, GivenBatch
<1> DEFINE j == Created(i, stored)
<1>7. Inserts(c, i, stored, origin, j, stored2, origin')
  BY <1>1, <1>2, <1>5, CreatedIs DEF ImportOK, ImportType
<1>8. /\ IsFiniteSet(stored) /\ DOMAIN origin = stored
      /\ \A key \in stored : KeyOK(key)
      /\ DOMAIN call = Imports
  BY DEF ImportInv, DatabaseOK, CallsOK
<1>9. IsFiniteSet(new) /\ \A key \in new : KeyOK(key)
  BY <1>2, NewKeysAreOK DEF ImportOK
<1> HIDE DEF i, j, batch
<1>10. ImportOK(c, j, stored2, origin')
  BY <1>1, <1>2, <1>7, <1>8, RowsInserted
<1>11. new \cap stored = {}
  BY DEF NewKeys, FreshOf
<1> HIDE DEF new
<1>12. /\ Grows(stored, origin, stored2, origin')
       /\ \A key \in stored2 \ stored : origin'[key] = c
  BY <1>5, <1>11 DEF Grows
<1>13. DatabaseOK'
  <2>1. IsFiniteSet(stored \cup new)
    BY <1>8, <1>9, FS_Union
  <2>2. IsFiniteSet(DOMAIN rows') /\ DOMAIN origin' = DOMAIN rows'
    BY <1>5, <2>1
  <2>3. \A key \in DOMAIN rows' : KeyOK(key)
    BY <1>5, <1>8, <1>9
  <2>. QED
    BY <2>2, <2>3 DEF DatabaseOK, KeyOK
<1>14. PICK k : call' = [call EXCEPT ![c] = k] /\ ImportOK(c, k, stored2, origin')
  <2>1. CASE j.records = <<>>
    <3>1. j.phase = "inserting"
      BY <1>7 DEF Inserts
    <3>2. ImportOK(c, EndBatch(j), stored2, origin')
      BY <1>10, <2>1, <3>1, BatchEnds, Zenon
    <3>. QED
      BY <1>6, <2>1, <3>2, Zenon DEF j
  <2>2. CASE j.records # <<>>
    BY <1>6, <1>10, <2>2, Zenon DEF j
  <2>. QED
    BY <2>1, <2>2
<1>15. DOMAIN call' = Imports
  BY <1>8, <1>14
<1>16. ASSUME NEW d \in Imports
       PROVE  IF call'[d] = Unused THEN StoredFor(d, stored2, origin') = {}
              ELSE ImportOK(d, call'[d], stored2, origin')
  <2>1. CASE d = c
    <3>1. call'[d] = k
      BY <1>8, <1>14, <2>1
    <3>. QED
      BY <1>14, <2>1, <3>1, ImportIsUsed
  <2>2. CASE d # c
    <3>1. call'[d] = call[d]
      BY <1>8, <1>14, <2>2
    <3>2. \A key \in stored2 \ stored : origin'[key] # d
      BY <1>12, <2>2
    <3>3. CASE call[d] = Unused
      <4>1. StoredFor(d, stored, origin) = {}
        BY <3>3 DEF ImportInv, CallsOK, stored
      <4>2. StoredFor(d, stored2, origin') = {}
        BY <1>12, <3>2, <4>1 DEF StoredFor, Grows
      <4>. QED
        BY <3>1, <3>3, <4>2
    <3>4. CASE call[d] # Unused
      <4>1. ImportOK(d, call[d], stored, origin)
        BY <3>4 DEF ImportInv, CallsOK, stored
      <4>2. ImportOK(d, call[d], stored2, origin')
        BY <1>12, <3>2, <4>1, OthersStore
      <4>. QED
        BY <3>1, <3>4, <4>2
    <3>. QED
      BY <3>3, <3>4
  <2>. QED
    BY <2>1, <2>2
<1>. QED
  BY <1>13, <1>15, <1>16 DEF ImportInv, CallsOK

LEMMA InitImports == Init => ImportInv
<1> SUFFICES ASSUME Init PROVE ImportInv
  OBVIOUS
<1>1. DOMAIN rows = {} /\ DOMAIN origin = {} /\ DOMAIN call = Imports
  BY DEF Init
<1>2. DatabaseOK
  BY <1>1, FS_EmptySet DEF DatabaseOK
<1>3. \A c \in Imports : call[c] = Unused /\ StoredFor(c, DOMAIN rows, origin) = {}
  BY <1>1 DEF Init, StoredFor
<1>. QED
  BY <1>1, <1>2, <1>3 DEF ImportInv, CallsOK

LEMMA ReadersKeepImports ==
  ASSUME ImportInv, UNCHANGED <<rows, call, origin>>
  PROVE  ImportInv'
BY DEF ImportInv, DatabaseOK, CallsOK, KeyOK

LEMMA NextKeepsImports == ImportInv /\ [Next]_vars => ImportInv'
<1> SUFFICES ASSUME ImportInv, [Next]_vars PROVE ImportInv'
  OBVIOUS
<1>1. ASSUME NEW c \in Imports, NEW payload \in Payloads, StartImport(c, payload)
      PROVE  ImportInv'
  BY <1>1, StartKeepsInv
<1>2. ASSUME NEW c \in Imports, PrepareBatch(c) PROVE ImportInv'
  BY <1>2, PrepareKeepsInv
<1>3. ASSUME NEW c \in Imports, InstrumentNotFound(c) PROVE ImportInv'
  BY <1>3, FailureKeepsInv
<1>4. ASSUME NEW c \in Imports, DatabaseFindsExisting(c) PROVE ImportInv'
  BY <1>4, LookupKeepsInv
<1>5. ASSUME NEW c \in Imports, DatabaseCreatesMany(c) PROVE ImportInv'
  BY <1>5, InsertKeepsInv
<1>6. ASSUME NEW c \in Imports, DatabaseFails(c) PROVE ImportInv'
  BY <1>6, FailureKeepsInv
<1>7. ASSUME NEW r \in Readers,
             \/ \E q \in Queries : StartQuery(r, q)
             \/ DatabaseFindsExpiry(r) \/ DatabaseFindsRows(r)
      PROVE  ImportInv'
  <2>1. UNCHANGED <<rows, call, origin>>
    BY <1>7 DEF StartQuery, DatabaseFindsExpiry, DatabaseFindsRows
  <2>. QED
    BY <2>1, ReadersKeepImports
<1>8. CASE UNCHANGED vars
  BY <1>8, ReadersKeepImports DEF vars
<1>. QED
  BY <1>1, <1>2, <1>3, <1>4, <1>5, <1>6, <1>7, <1>8 DEF Next

(* The invariant holds of every import and of the database, whatever else *)
(* runs.                                                                   *)
LEMMA ImportsAreOK == Spec => []ImportInv
BY InitImports, NextKeepsImports, PTL DEF Spec

(* Whatever other imports do between the lookup and the insert, and        *)
(* wherever an import fails, importOptionChain and                         *)
(* importHistoricalCandles count as imported the number of rows in the     *)
(* database that the call stored and no other did.                         *)
THEOREM ImportsCountWhatTheyStore == Spec => []ImportedIsWhatWasStored
<1>1. ImportInv => ImportedIsWhatWasStored
  BY DEF ImportInv, CallsOK, ImportOK, StoredFor, ImportedIsWhatWasStored
<1>. QED
  BY <1>1, ImportsAreOK, PTL

(* An import that reports a result has every valid row of its request in   *)
(* the database, through the batches of importOptionChainInBatches, of the *)
(* lookup and of the insert, whichever import stored it.                   *)
THEOREM ResultsAreStored == Spec => []FinishedImportsAreStored
<1>1. ASSUME ImportInv, NEW c \in Imports, call[c].phase = "done",
             NEW row \in RequestedRows(c), Valid(row)
      PROVE  IdentitiesOf(c, row) \cap DOMAIN rows # {}
  <2> DEFINE i == call[c]
  <2>1. ImportOK(c, i, DOMAIN rows, origin)
    BY <1>1, UsedImportIsOK
  <2>2. i.rest = <<>>
    BY <1>1, <2>1 DEF ImportOK, BatchOK
  <2>3. DOMAIN i.rest = {}
    BY <2>2, EmptyList, Zenon
  <2>4. ~Ahead(i, row)
    BY <1>1, <2>3 DEF Ahead
  <2>5. StoredBy(i, row, DOMAIN rows)
    BY <1>1, <2>1, <2>4 DEF ImportOK, NoneLost, RequestedRows, RowsOf
  <2>. QED
    BY <2>5 DEF StoredBy, IdentitiesOf
<1>2. ImportInv => FinishedImportsAreStored
  BY <1>1 DEF FinishedImportsAreStored
<1>. QED
  BY <1>2, ImportsAreOK, PTL

(* The counts of a result add up to the request: no row is counted twice,  *)
(* and one goes uncounted only when another import has stored a row of the *)
(* request since this one began, or an expiry has a time of day or a       *)
(* strike more decimals than its column holds.                             *)
THEOREM CountsAddUp == Spec => []UncountedRowsWereOvertaken
<1>1. ASSUME ImportInv, NEW c \in Imports, call[c].phase = "done"
      PROVE  LET counted == call[c].imported + call[c].skippedDuplicates
                              + call[c].skippedInvalid
             IN  /\ counted <= Requested(c)
                 /\ counted < Requested(c) =>
                      \E row \in RequestedRows(c) :
                        \/ DatabaseKey(row) # RowKey(row)
                        \/ \E key \in IdentitiesOf(c, row) \cap DOMAIN rows :
                             origin[key] # c /\ key \notin call[c].seen
  <2> DEFINE i == call[c]
             counted == i.imported + i.skippedDuplicates + i.skippedInvalid
  <2>1. ImportOK(c, i, DOMAIN rows, origin)
    BY <1>1, UsedImportIsOK
  <2>2. i.rest = <<>>
    BY <1>1, <2>1 DEF ImportOK, BatchOK
  <2>3. Len(i.rest) = 0
    BY <2>2, EmptyList, Zenon
  <2>4. Pending(i) = 0
    <3>1. Pending(i) = Len(i.rest)
      BY <1>1, <2>1, PendingIs DEF ImportOK
    <3>. QED
      BY <2>3, <3>1
  <2>5. counted \in Int
    <3>1. /\ i.imported \in Nat /\ i.skippedDuplicates \in Int
          /\ i.skippedInvalid \in Int
      BY <2>1 DEF ImportOK, ImportType
    <3> HIDE DEF i
    <3>. QED
      BY <3>1
  <2>6. Accounted(i) = counted
    <3>1. Accounted(i) = counted + 0
      BY <2>4 DEF Accounted
    <3> HIDE DEF counted
    <3>. QED
      BY <2>5, <3>1
  <2>7. CountsOK(c, i, DOMAIN rows, origin)
    BY <1>1, <2>1 DEF ImportOK
  <2> HIDE DEF counted
  <2>8. /\ counted <= Requested(c)
        /\ counted < Requested(c) => WasOvertaken(c, i, DOMAIN rows, origin)
    BY <2>6, <2>7 DEF CountsOK, Requested
  <2>9. WasOvertaken(c, i, DOMAIN rows, origin) =>
          \E row \in RequestedRows(c) :
            \/ DatabaseKey(row) # RowKey(row)
            \/ \E key \in IdentitiesOf(c, row) \cap DOMAIN rows :
                 origin[key] # c /\ key \notin i.seen
    BY DEF WasOvertaken, MisKeyed, Late, RequestedRows, RowsOf, IdentitiesOf
  <2>. QED
    BY <2>8, <2>9 DEF counted
<1>2. ImportInv => UncountedRowsWereOvertaken
  BY <1>1 DEF UncountedRowsWereOvertaken
<1>. QED
  BY <1>2, ImportsAreOK, PTL

-----------------------------------------------------------------------------
(* Queries *)

(* Rows are never changed or removed. *)
RowsStay ==
  /\ DOMAIN rows \subseteq DOMAIN rows'
  /\ \A key \in DOMAIN rows : rows'[key] = rows[key]

LEMMA StoredRowsStay ==
  ASSUME ImportInv, [Next]_vars
  PROVE  RowsStay
<1>1. ASSUME UNCHANGED rows PROVE RowsStay
  BY <1>1 DEF RowsStay
<1>2. ASSUME NEW c \in Imports, NEW batch, Stores(c, batch) PROVE RowsStay
  <2> DEFINE key(n) == Identity(call[c].instrumentId, call[c].payload, batch[n])
             keys == {key(n) : n \in Fresh(c, batch)}
             row(k) == batch[CHOOSE n \in Fresh(c, batch) : key(n) = k]
  <2>1. rows' = [k \in DOMAIN rows \cup keys |-> IF k \in keys THEN row(k) ELSE rows[k]]
    BY <1>2 DEF Stores
  <2>2. keys \cap DOMAIN rows = {}
    BY DEF Fresh
  <2> HIDE DEF keys, row, key
  <2>. QED
    BY <2>1, <2>2 DEF RowsStay
<1>3. ASSUME NEW c \in Imports, DatabaseCreatesMany(c) PROVE RowsStay
  BY <1>2, <1>3 DEF DatabaseCreatesMany
<1>4. ASSUME NEW c \in Imports, NEW payload \in Payloads, StartImport(c, payload)
      PROVE  RowsStay
  BY <1>1, <1>4 DEF StartImport
<1>5. ASSUME NEW c \in Imports,
             \/ PrepareBatch(c) \/ InstrumentNotFound(c)
             \/ DatabaseFindsExisting(c) \/ DatabaseFails(c)
      PROVE  RowsStay
  BY <1>1, <1>5 DEF PrepareBatch, InstrumentNotFound, DatabaseFindsExisting, DatabaseFails
<1>6. ASSUME NEW r \in Readers,
             \/ \E q \in Queries : StartQuery(r, q)
             \/ DatabaseFindsExpiry(r) \/ DatabaseFindsRows(r)
      PROVE  RowsStay
  BY <1>1, <1>6 DEF StartQuery, DatabaseFindsExpiry, DatabaseFindsRows
<1>7. CASE UNCHANGED vars
  BY <1>1, <1>7 DEF vars
<1>. QED
  BY <1>3, <1>4, <1>5, <1>6, <1>7 DEF Next

(* Of a chain every stored key has a strike, and an expiry of the day of   *)
(* its snapshot or later.                                                  *)
LEMMA StoredChainKeys ==
  ASSUME DatabaseOK, NEW query \in Queries, NEW id,
         NEW key \in SnapshotRows(DOMAIN rows, query, id)
  PROVE  /\ StrikePrice(key) \in Int
         /\ ExpiryDate(key) \in Nat
         /\ ExpiryDate(key) >= DateOf(query.snapshotAt)
<1>1. key \in DOMAIN rows /\ key.table = "option chains"
      /\ SnapshotAt(key) = query.snapshotAt
  BY DEF SnapshotRows
<1>2. PICK payload \in Payloads :
        /\ payload.table = "option chains"
        /\ \E row \in RowsOf(payload) : Valid(row) /\ key.key = DatabaseKey(row)
  BY <1>1 DEF DatabaseOK, KeyOK
<1>3. PICK row \in RowsOf(payload) : Valid(row) /\ key.key = DatabaseKey(row)
  BY <1>2
<1>4. row \in ChainRow
  BY <1>2, <1>3, PayloadRows
<1>5. /\ IsChainRow(row)
      /\ key.key = <<row.snapshotAt, DateOf(row.expiryDate),
                     ColumnStrike(row.strikePrice), row.optionType>>
  BY <1>3, <1>4, ChainKeys
<1>6. /\ SnapshotAt(key) = row.snapshotAt /\ ExpiryDate(key) = DateOf(row.expiryDate)
      /\ StrikePrice(key) = ColumnStrike(row.strikePrice)
  BY <1>5 DEF SnapshotAt, ExpiryDate, StrikePrice
<1>7. row.expiryDate >= row.snapshotAt
  BY <1>3, <1>5 DEF Valid, ValidateOptionChainRow
<1>8. row.expiryDate \in Nat /\ row.snapshotAt \in Nat /\ row.strikePrice \in Int
  BY <1>4 DEF ChainRow
<1>9. DateOf(row.expiryDate) >= DateOf(row.snapshotAt)
  BY <1>7, <1>8, DatesInOrder
<1>. QED
  BY <1>1, <1>6, <1>8, <1>9, DateOfType, ColumnStrikeType

(* What was stored when the query began is stored still. *)
LEMMA MoreIsStored ==
  ASSUME NEW keys, NEW stored, keys \subseteq stored, NEW read
  PROVE  /\ \A query, id : SnapshotRows(keys, query, id) \subseteq SnapshotRows(stored, query, id)
         /\ FindBySnapshotAndExpiry(keys, read) \subseteq FindBySnapshotAndExpiry(stored, read)
         /\ InDeltaRange(keys, read) \subseteq InDeltaRange(stored, read)
         /\ FindBySnapshotAndExpiry(keys, read)
              \subseteq SnapshotRows(keys, read.query, read.instrumentId)
         /\ InDeltaRange(keys, read) \subseteq keys
<1>1. \A query, id : /\ SnapshotRows(keys, query, id) \subseteq SnapshotRows(stored, query, id)
                     /\ SnapshotRows(keys, query, id) \subseteq keys
  BY DEF SnapshotRows
<1>2. /\ FindBySnapshotAndExpiry(keys, read) \subseteq FindBySnapshotAndExpiry(stored, read)
      /\ FindBySnapshotAndExpiry(keys, read)
           \subseteq SnapshotRows(keys, read.query, read.instrumentId)
  BY <1>1 DEF FindBySnapshotAndExpiry
<1>3. /\ InDeltaRange(keys, read) \subseteq InDeltaRange(stored, read)
      /\ InDeltaRange(keys, read) \subseteq FindBySnapshotAndExpiry(keys, read)
  BY <1>2 DEF InDeltaRange
<1>. QED
  BY <1>1, <1>2, <1>3

LEMMA ReadStays ==
  ASSUME RowsStay, NEW read, ReadOK(read, rows)
  PROVE  ReadOK(read, rows')
<1>1. read.seen \subseteq DOMAIN rows /\ read.seen \subseteq DOMAIN rows'
  BY DEF ReadOK, RowsStay
<1>2. DeltaRows(read.seen, read, rows') = DeltaRows(read.seen, read, rows)
  <2> DEFINE keys == FindBySnapshotAndExpiry(read.seen, read)
  <2>1. \A key \in keys : rows'[key] = rows[key]
    BY <1>1 DEF FindBySnapshotAndExpiry, SnapshotRows, RowsStay
  <2> HIDE DEF keys
  <2>. QED
    BY <2>1 DEF DeltaRows, keys
<1>3. Complete(read, rows) => Complete(read, rows')
  BY <1>2 DEF Complete
<1>. QED
  BY <1>1, <1>3 DEF ReadOK

(* The first statement of a query finds the least expiry, if there is one. *)
LEMMA NearestIs ==
  ASSUME DatabaseOK, NEW query \in Queries, NEW id,
         NEW nearest, nearest = FindNearestExpiryDate(DOMAIN rows, query, id)
  PROVE  /\ nearest = {} => SnapshotRows(DOMAIN rows, query, id) = {}
         /\ nearest # {} => \A key \in SnapshotRows(DOMAIN rows, query, id) :
                              \E d \in nearest : d <= ExpiryDate(key)
<1> DEFINE T == SnapshotRows(DOMAIN rows, query, id)
           first == DateOf(query.snapshotAt)
           all == {ExpiryDate(key) : key \in T}
           later == {d \in all : d >= first}
<1>1. \A key \in T : ExpiryDate(key) \in Nat /\ ExpiryDate(key) >= first
  BY StoredChainKeys
<1> HIDE DEF T, first
<1>2. nearest = {d \in later : \A e \in later : d <= e}
  BY DEF FindNearestExpiryDate, T, first
<1>3. \A key \in T : ExpiryDate(key) \in later
  BY <1>1
<1>4. later \subseteq Nat
  BY <1>1
<1> HIDE DEF later
<1>5. ASSUME T # {} PROVE nearest # {}
  <2>1. later # {}
    BY <1>3, <1>5
  <2>2. PICK d \in later : \A e \in later : d <= e
    BY <1>4, <2>1, LeastOf
  <2>. QED
    BY <1>2, <2>2
<1>6. ASSUME nearest # {}, NEW key \in T
      PROVE  \E d \in nearest : d <= ExpiryDate(key)
  BY <1>2, <1>3, <1>6
<1>. QED
  BY <1>5, <1>6 DEF T

LEMMA MaxWithOne ==
  ASSUME NEW count \in Int
  PROVE  Max({count, 1}) \in Nat \ {0}
<1> DEFINE S == {count, 1}
           m == IF count >= 1 THEN count ELSE 1
<1>1. m \in S /\ \A y \in S : m >= y
  OBVIOUS
<1>2. Max(S) \in S /\ \A y \in S : Max(S) >= y
  <2> HIDE DEF m, S
  <2>. QED
    BY <1>1 DEF Max
<1>. QED
  BY <1>2

(* When a strike is left out of those nearest to the money, there are as   *)
(* many as were asked for, and none of them is farther from it.            *)
LEMMA StrikesLeftOut ==
  ASSUME NEW strikes, strikes \subseteq Int, IsFiniteSet(strikes),
         NEW price \in Int, NEW count \in Int,
         NEW out \in strikes \ NearestStrikes(strikes, price, count)
  PROVE  /\ Cardinality(NearestStrikes(strikes, price, count)) = Max({count, 1})
         /\ \A s \in NearestStrikes(strikes, price, count) :
              Distance(s, price) <= Distance(out, price)
<1> DEFINE before(t, s) == \/ Distance(t, price) < Distance(s, price)
                           \/ Distance(t, price) = Distance(s, price) /\ t < s
           R == {p \in strikes \X strikes : before(p[1], p[2])}
           K == Max({count, 1})
           near == NearestStrikes(strikes, price, count)
           rank == Rank(R, strikes)
           N == Cardinality(strikes)
<1>1. \A s \in strikes : s \in Int /\ Distance(s, price) \in Int
  BY DEF Distance
<1>2. \A t, s \in strikes : <<t, s>> \in R <=> before(t, s)
  OBVIOUS
<1>3. Orders(R, strikes)
  <2> HIDE DEF R
  <2>. QED
    BY <1>1, <1>2 DEF Orders
<1>4. \A s \in strikes : {t \in strikes : before(t, s)} = Before(R, strikes, s)
  <2> HIDE DEF R, before
  <2>. QED
    BY <1>2 DEF Before
<1>5. near = {s \in strikes : Cardinality(Before(R, strikes, s)) < K}
  <2>1. near = {s \in strikes : Cardinality({t \in strikes : before(t, s)}) < K}
    BY DEF NearestStrikes
  <2> HIDE DEF near, R, K, before
  <2>. QED
    BY <1>4, <2>1
<1>6. K \in Nat /\ K >= 1
  BY MaxWithOne
<1> HIDE DEF K, near, before, N
<1>7. \A t, s \in strikes : <<t, s>> \in R => Distance(t, price) <= Distance(s, price)
  BY <1>1, <1>2 DEF before
<1> HIDE DEF R
<1>8. /\ N \in Nat
      /\ rank \in [strikes -> 1..N]
      /\ \A x, y \in strikes : <<x, y>> \in R <=> rank[x] < rank[y]
      /\ \A x, y \in strikes : x # y => rank[x] # rank[y]
      /\ \A n \in 1..N : \E x \in strikes : rank[x] = n
  BY <1>3, Ranked DEF N
<1>9. \A s \in strikes : rank[s] = Cardinality(Before(R, strikes, s)) + 1
  BY DEF Rank
<1> HIDE DEF rank
<1>10. \A s \in strikes : rank[s] \in Nat /\ rank[s] >= 1 /\ rank[s] <= N
  <2>1. \A s \in strikes : rank[s] \in 1..N
    BY <1>8
  <2>. QED
    BY <1>8, <2>1
<1>11. \A s \in strikes : s \in near <=> rank[s] <= K
  <2> SUFFICES ASSUME NEW s \in strikes PROVE s \in near <=> rank[s] <= K
    OBVIOUS
  <2> DEFINE b == Cardinality(Before(R, strikes, s))
  <2>1. s \in near <=> b < K
    BY <1>5
  <2>2. IsFiniteSet(Before(R, strikes, s)) /\ b \in Nat
    <3>1. Before(R, strikes, s) \in SUBSET strikes
      BY DEF Before
    <3>. QED
      BY <3>1, FS_Subset, FS_CardinalityType
  <2>3. rank[s] = b + 1
    BY <1>9
  <2> HIDE DEF b
  <2>4. b < K <=> rank[s] <= K
    BY <1>6, <2>2, <2>3
  <2>. QED
    BY <2>1, <2>4
<1>12. near \subseteq strikes
  BY <1>5
<1>13. out \in strikes /\ rank[out] > K
  <2>1. out \in strikes /\ out \notin near
    BY DEF near
  <2>. QED
    BY <1>6, <1>10, <1>11, <2>1
<1>14. \A s \in near : Distance(s, price) <= Distance(out, price)
  <2> SUFFICES ASSUME NEW s \in near
               PROVE  Distance(s, price) <= Distance(out, price)
    OBVIOUS
  <2>1. s \in strikes /\ rank[s] <= K
    BY <1>11, <1>12
  <2>2. rank[s] < rank[out]
    BY <1>6, <1>10, <1>13, <2>1
  <2>. QED
    BY <1>7, <1>8, <1>13, <2>1, <2>2
<1>15. Cardinality(near) = K
  <2> DEFINE g == [s \in near |-> rank[s]]
  <2>1. IsFiniteSet(near)
    BY <1>12, FS_Subset
  <2>2. \A s \in near : rank[s] \in 1..K
    BY <1>6, <1>10, <1>11, <1>12
  <2>3. \A n \in 1..K : \E s \in near : rank[s] = n
    <3> SUFFICES ASSUME NEW n \in 1..K PROVE \E s \in near : rank[s] = n
      OBVIOUS
    <3>1. n \in 1..N /\ n <= K
      BY <1>6, <1>8, <1>10, <1>13
    <3>2. PICK s \in strikes : rank[s] = n
      BY <1>8, <3>1
    <3>. QED
      BY <1>11, <3>1, <3>2
  <2>4. g \in [near -> 1..K] /\ \A s \in near : g[s] = rank[s]
    BY <2>2
  <2> HIDE DEF g
  <2>5. g \in Surjection(near, 1..K)
    BY <2>3, <2>4 DEF Surjection
  <2>6. g \in Injection(near, 1..K)
    BY <1>8, <1>12, <2>4 DEF Injection, IsInjective
  <2>7. Cardinality(1..K) = Cardinality(near)
    BY <2>1, <2>5, <2>6, FS_Surjection
  <2>8. Cardinality(1..K) = K
    BY <1>6, FS_Interval
  <2>. QED
    BY <2>7, <2>8
<1>. QED
  BY <1>14, <1>15 DEF near, K

SameQuery(read, next) ==
  /\ DOMAIN next = ReadFields
  /\ next.query = read.query /\ next.instrumentId = read.instrumentId
  /\ next.seen = read.seen

LEMMA QueryTypes ==
  ASSUME NEW query \in Queries
  PROVE  /\ query.kind \in {"nearest", "specific", "atm", "delta"}
         /\ query.price \in Int /\ query.strikeCount \in Int /\ query.limit \in Nat
BY ImportAssumption DEF ChainQuery

LEMMA AtmAnswer ==
  ASSUME DatabaseOK, NEW read, ReadOK(read, rows), NEW next, SameQuery(read, next),
         next.expiryDate = read.expiryDate,
         next.quotes = FindAtmStrikes(DOMAIN rows, read)
  PROVE  AtmComplete(next)
<1> DEFINE chain == FindBySnapshotAndExpiry(DOMAIN rows, read)
           all == {StrikePrice(key) : key \in chain}
           price == read.query.price
           count == read.query.strikeCount
           near == NearestStrikes(all, price, count)
           strikes == {StrikePrice(key) : key \in next.quotes}
<1>1. read.query \in Queries /\ read.seen \subseteq DOMAIN rows
  BY DEF ReadOK
<1>2. price \in Int /\ count \in Int
  BY <1>1, QueryTypes
<1>3. chain \subseteq SnapshotRows(DOMAIN rows, read.query, read.instrumentId)
  BY MoreIsStored
<1>4. all \subseteq Int
  BY <1>1, <1>3, StoredChainKeys
<1>5. IsFiniteSet(all)
  <2>1. chain \in SUBSET DOMAIN rows
    BY <1>3 DEF SnapshotRows
  <2>2. IsFiniteSet(chain)
    BY <2>1, FS_Subset DEF DatabaseOK
  <2> HIDE DEF chain
  <2> DEFINE g == [key \in chain |-> StrikePrice(key)]
  <2>3. g \in Surjection(chain, all)
    BY DEF Surjection
  <2> HIDE DEF g, all
  <2>. QED
    BY <2>2, <2>3, FS_Surjection
<1>6. next.quotes = {key \in chain : StrikePrice(key) \in near}
  BY DEF FindAtmStrikes
<1>7. near \subseteq all
  <2> HIDE DEF all
  <2>. QED
    BY DEF NearestStrikes
<1> HIDE DEF near
<1>8. strikes = near
  <2>1. strikes \subseteq near
    BY <1>6
  <2>2. ASSUME NEW s \in near PROVE s \in strikes
    <3>1. PICK key \in chain : StrikePrice(key) = s
      BY <1>7
    <3>2. key \in next.quotes
      BY <1>6, <3>1
    <3>. QED
      BY <3>1, <3>2
  <2>. QED
    BY <2>1, <2>2
<1>9. FindBySnapshotAndExpiry(next.seen, next) \subseteq chain
  <2>1. FindBySnapshotAndExpiry(next.seen, next) = FindBySnapshotAndExpiry(read.seen, read)
    BY DEF SameQuery, FindBySnapshotAndExpiry
  <2>. QED
    BY <1>1, <2>1, MoreIsStored
<1> HIDE DEF chain
<1>10. ASSUME NEW key \in chain, key \notin next.quotes
       PROVE  /\ Cardinality(near) = Max({count, 1})
              /\ \A s \in near : Distance(s, price) <= Distance(StrikePrice(key), price)
  <2>1. StrikePrice(key) \in all \ near
    BY <1>6, <1>10
  <2> HIDE DEF all, price, count
  <2>. QED
    BY <1>2, <1>4, <1>5, <2>1, StrikesLeftOut DEF near
<1> HIDE DEF all, strikes
<1>11. next.query.price = price /\ next.query.strikeCount = count
  BY DEF SameQuery
<1> HIDE DEF price, count
<1>12. \A key \in FindBySnapshotAndExpiry(next.seen, next) \ next.quotes :
         /\ Cardinality(strikes) = Max({count, 1})
         /\ \A s \in strikes : Distance(s, price) <= Distance(StrikePrice(key), price)
  BY <1>8, <1>9, <1>10
<1>. QED
  BY <1>11, <1>12 DEF AtmComplete, strikes

LEMMA DeltaAnswer ==
  ASSUME DatabaseOK, NEW read, ReadOK(read, rows), NEW next, SameQuery(read, next),
         next.expiryDate = read.expiryDate,
         next.quotes \in FindByDeltaRange(DOMAIN rows, read)
  PROVE  \/ DeltaRows(next.seen, next, rows) \subseteq next.quotes
         \/ Cardinality(next.quotes) = next.query.limit
<1> DEFINE all == InDeltaRange(DOMAIN rows, read)
           limit == read.query.limit
           S == next.quotes
<1>1. read.query \in Queries /\ read.seen \subseteq DOMAIN rows
  BY DEF ReadOK
<1>2. DeltaRows(next.seen, next, rows) \subseteq all
  <2>1. FindBySnapshotAndExpiry(next.seen, next) = FindBySnapshotAndExpiry(read.seen, read)
    BY DEF SameQuery, FindBySnapshotAndExpiry
  <2>2. DeltaRows(next.seen, next, rows) = InDeltaRange(read.seen, read)
    BY <2>1 DEF SameQuery, InDeltaRange, DeltaRows
  <2>3. InDeltaRange(read.seen, read) \subseteq all
    BY <1>1, MoreIsStored
  <2>. QED
    BY <2>2, <2>3
<1>3. IsFiniteSet(all) /\ Cardinality(all) \in Nat
  <2>1. all \in SUBSET DOMAIN rows
    BY MoreIsStored
  <2>. QED
    BY <2>1, FS_Subset, FS_CardinalityType DEF DatabaseOK
<1>4. limit \in Nat
  BY <1>1, QueryTypes
<1>5. S \in SUBSET all /\ Cardinality(S) = AtMost(limit, Cardinality(all))
  BY DEF FindByDeltaRange
<1> HIDE DEF all, limit
<1>6. Cardinality(S) = limit \/ Cardinality(S) = Cardinality(all)
  BY <1>5 DEF AtMost
<1>7. ASSUME Cardinality(S) = Cardinality(all) PROVE S = all
  BY <1>3, <1>5, <1>7, FS_Subset
<1>. QED
  BY <1>2, <1>6, <1>7 DEF SameQuery, limit

LEMMA AnswersMissNothing ==
  ASSUME DatabaseOK, NEW read, ReadOK(read, rows), read.phase = "finding rows",
         NEW next, SameQuery(read, next), next.expiryDate = read.expiryDate,
         next.quotes \in Answers(DOMAIN rows, read)
  PROVE  Complete(next, rows)
<1>1. read.query \in Queries /\ read.seen \subseteq DOMAIN rows
  BY DEF ReadOK
<1>2. next.query.kind = read.query.kind
  BY DEF SameQuery
<1>3. read.query.kind \in {"nearest", "specific", "atm", "delta"}
  BY <1>1, QueryTypes
<1>4. CASE read.query.kind \in {"nearest", "specific"}
  <2>1. next.quotes = FindBySnapshotAndExpiry(DOMAIN rows, read)
    BY <1>4 DEF Answers
  <2>2. FindBySnapshotAndExpiry(next.seen, next) = FindBySnapshotAndExpiry(read.seen, read)
    BY DEF SameQuery, FindBySnapshotAndExpiry
  <2>3. FindBySnapshotAndExpiry(next.seen, next) \subseteq next.quotes
    <3>1. FindBySnapshotAndExpiry(read.seen, read)
            \subseteq FindBySnapshotAndExpiry(DOMAIN rows, read)
      BY <1>1, MoreIsStored
    <3>. QED
      BY <2>1, <2>2, <3>1
  <2>4. read.query.kind = "nearest" => NoneNearer(next)
    BY DEF ReadOK, NoneNearer, SameQuery
  <2>. QED
    BY <1>2, <1>4, <2>3, <2>4 DEF Complete
<1>5. CASE read.query.kind = "atm"
  <2>1. next.quotes = FindAtmStrikes(DOMAIN rows, read)
    BY <1>5 DEF Answers
  <2>2. AtmComplete(next)
    BY <2>1, AtmAnswer
  <2>. QED
    BY <1>2, <1>5, <2>2 DEF Complete
<1>6. CASE read.query.kind = "delta"
  <2>1. next.quotes \in FindByDeltaRange(DOMAIN rows, read)
    BY <1>6 DEF Answers
  <2>2. \/ DeltaRows(next.seen, next, rows) \subseteq next.quotes
        \/ Cardinality(next.quotes) = next.query.limit
    BY <2>1, DeltaAnswer
  <2>. QED
    BY <1>2, <1>6, <2>2 DEF Complete
<1>. QED
  BY <1>3, <1>4, <1>5, <1>6

(* A query moves on and the others stay as they are. *)
LEMMA ReadMoves ==
  ASSUME ReadsOK, RowsStay, NEW r \in Readers, NEW next,
         reader' = [reader EXCEPT ![r] = next], ReadOK(next, rows)
  PROVE  ReadsOK'
<1>1. DOMAIN reader = Readers /\ DOMAIN reader' = Readers
  BY DEF ReadsOK
<1>2. ASSUME NEW q \in Readers PROVE reader'[q] = Unused \/ ReadOK(reader'[q], rows')
  <2>1. CASE q = r
    <3>1. reader'[q] = next
      BY <1>1, <2>1
    <3>2. ReadOK(next, rows')
      BY ReadStays
    <3>. QED
      BY <3>1, <3>2
  <2>2. CASE q # r
    <3>1. reader'[q] = reader[q]
      BY <1>1, <2>2
    <3>2. CASE reader[q] = Unused
      BY <3>1, <3>2
    <3>3. CASE ReadOK(reader[q], rows)
      <4>1. ReadOK(reader[q], rows')
        BY <3>3, ReadStays
      <4>. QED
        BY <3>1, <4>1
    <3>. QED
      BY <3>2, <3>3 DEF ReadsOK
  <2>. QED
    BY <2>1, <2>2
<1>. QED
  BY <1>1, <1>2 DEF ReadsOK

LEMMA ReadsStay ==
  ASSUME ReadsOK, RowsStay, UNCHANGED reader
  PROVE  ReadsOK'
<1>1. ASSUME NEW q \in Readers PROVE reader'[q] = Unused \/ ReadOK(reader'[q], rows')
  <2>1. reader[q] = Unused \/ ReadOK(reader[q], rows)
    BY DEF ReadsOK
  <2>. QED
    BY <2>1, ReadStays
<1>. QED
  BY <1>1 DEF ReadsOK

LEMMA StartReadKeepsReads ==
  ASSUME ReadsOK, NEW r \in Readers, NEW q \in Queries, StartQuery(r, q)
  PROVE  ReadsOK'
<1>1. RowsStay
  BY DEF StartQuery, RowsStay
<1> DEFINE phase == IF q.kind \in {"nearest", "atm"} THEN "finding expiry"
                                                     ELSE "finding rows"
<1>2. PICK id : reader' = [reader EXCEPT ![r] =
        [phase |-> phase, query |-> q, instrumentId |-> id,
         expiryDate |-> q.expiryDate, quotes |-> {}, seen |-> DOMAIN rows]]
  BY DEF StartQuery
<1>3. \/ phase = "finding expiry" /\ q.kind \in {"nearest", "atm"}
      \/ phase = "finding rows" /\ q.kind # "nearest"
  OBVIOUS
<1> HIDE DEF phase
<1> DEFINE next == [phase |-> phase, query |-> q, instrumentId |-> id,
                    expiryDate |-> q.expiryDate, quotes |-> {}, seen |-> DOMAIN rows]
<1>4. /\ DOMAIN next = ReadFields /\ next.phase = phase /\ next.query = q
      /\ next.quotes = {} /\ next.seen = DOMAIN rows
  BY DEF ReadFields
<1>5. reader' = [reader EXCEPT ![r] = next]
  BY <1>2
<1> HIDE DEF next
<1>6. ReadOK(next, rows)
  BY <1>3, <1>4 DEF ReadOK
<1>. QED
  BY <1>1, <1>5, <1>6, ReadMoves

LEMMA FindExpiryKeepsReads ==
  ASSUME DatabaseOK, ReadsOK, NEW r \in Readers, DatabaseFindsExpiry(r)
  PROVE  ReadsOK'
<1> DEFINE read == reader[r]
           nearest == FindNearestExpiryDate(DOMAIN rows, read.query, read.instrumentId)
           missing == [read EXCEPT !.phase = "not found"]
           next == [read EXCEPT !.phase = "finding rows", !.expiryDate = nearest]
<1>1. RowsStay /\ read.phase = "finding expiry"
  BY DEF DatabaseFindsExpiry, RowsStay
<1>2. reader' = [reader EXCEPT ![r] = IF nearest = {} THEN missing ELSE next]
  BY DEF DatabaseFindsExpiry
<1>3. ReadOK(read, rows)
  BY <1>1, UnusedIsNone DEF ReadsOK
<1> HIDE DEF read
<1>4. /\ DOMAIN read = ReadFields /\ read.query \in Queries
      /\ read.seen \subseteq DOMAIN rows
      /\ read.quotes = {} /\ read.query.kind \in {"nearest", "atm"}
  BY <1>1, <1>3 DEF ReadOK
<1>5. /\ nearest = {} => SnapshotRows(DOMAIN rows, read.query, read.instrumentId) = {}
      /\ nearest # {} => \A key \in SnapshotRows(DOMAIN rows, read.query, read.instrumentId) :
                           \E d \in nearest : d <= ExpiryDate(key)
  BY <1>4, NearestIs
<1> HIDE DEF nearest
<1>6. /\ DOMAIN missing = ReadFields /\ missing.phase = "not found"
      /\ missing.query = read.query /\ missing.instrumentId = read.instrumentId
      /\ missing.seen = read.seen /\ missing.quotes = read.quotes
  BY <1>4 DEF ReadFields
<1>7. /\ DOMAIN next = ReadFields /\ next.phase = "finding rows"
      /\ next.query = read.query /\ next.instrumentId = read.instrumentId
      /\ next.seen = read.seen /\ next.expiryDate = nearest
  BY <1>4 DEF ReadFields
<1> HIDE DEF missing, next
<1>8. SnapshotRows(read.seen, read.query, read.instrumentId)
        \subseteq SnapshotRows(DOMAIN rows, read.query, read.instrumentId)
  BY <1>4, MoreIsStored
<1>9. ASSUME nearest = {} PROVE ReadOK(missing, rows)
  <2>1. SnapshotRows(missing.seen, missing.query, missing.instrumentId) = {}
    BY <1>5, <1>6, <1>8, <1>9
  <2>2. FindBySnapshotAndExpiry(missing.seen, missing) = {}
    BY <2>1 DEF FindBySnapshotAndExpiry
  <2>3. Complete(missing, rows)
    BY <1>4, <1>6, <2>1, <2>2 DEF Complete, NoneNearer, AtmComplete
  <2>. QED
    BY <1>4, <1>6, <2>3 DEF ReadOK
<1>10. ASSUME nearest # {} PROVE ReadOK(next, rows)
  <2>1. NoneNearer(next)
    BY <1>5, <1>7, <1>8, <1>10 DEF NoneNearer
  <2>. QED
    BY <1>4, <1>7, <2>1 DEF ReadOK
<1>11. CASE nearest = {}
  BY <1>1, <1>2, <1>9, <1>11, ReadMoves
<1>12. CASE nearest # {}
  BY <1>1, <1>2, <1>10, <1>12, ReadMoves
<1>. QED
  BY <1>11, <1>12

LEMMA FindRowsKeepsReads ==
  ASSUME DatabaseOK, ReadsOK, NEW r \in Readers, DatabaseFindsRows(r)
  PROVE  ReadsOK'
<1> DEFINE read == reader[r]
<1>1. RowsStay /\ read.phase = "finding rows"
  BY DEF DatabaseFindsRows, RowsStay
<1>2. PICK answer \in Answers(DOMAIN rows, read), phase \in {"not found", "answered"} :
        reader' = [reader EXCEPT ![r].phase = phase, ![r].quotes = answer]
  BY DEF DatabaseFindsRows
<1>3. ReadOK(read, rows)
  BY <1>1, UnusedIsNone DEF ReadsOK
<1> DEFINE next == [read EXCEPT !.phase = phase, !.quotes = answer]
<1>4. reader' = [reader EXCEPT ![r] = next]
  BY <1>2 DEF ReadsOK
<1> HIDE DEF read
<1>5. DOMAIN read = ReadFields /\ read.query \in Queries /\ read.seen \subseteq DOMAIN rows
  BY <1>3 DEF ReadOK
<1>6. /\ SameQuery(read, next) /\ next.expiryDate = read.expiryDate
      /\ next.quotes = answer /\ next.phase = phase
  BY <1>5 DEF ReadFields, SameQuery
<1> HIDE DEF next
<1>7. Complete(next, rows)
  BY <1>1, <1>2, <1>3, <1>6, AnswersMissNothing
<1>8. ReadOK(next, rows)
  BY <1>2, <1>5, <1>6, <1>7 DEF ReadOK, SameQuery
<1>. QED
  BY <1>1, <1>4, <1>8, ReadMoves

LEMMA NextKeepsReads == QueryInv /\ [Next]_vars => QueryInv'
<1> SUFFICES ASSUME QueryInv, [Next]_vars PROVE QueryInv'
  OBVIOUS
<1>1. ImportInv /\ DatabaseOK /\ ReadsOK
  BY DEF QueryInv, ImportInv
<1>2. ImportInv'
  BY <1>1, NextKeepsImports
<1>3. RowsStay
  BY <1>1, StoredRowsStay
<1>4. ASSUME UNCHANGED reader PROVE ReadsOK'
  BY <1>1, <1>3, <1>4, ReadsStay
<1>5. ASSUME NEW c \in Imports,
             \/ \E payload \in Payloads : StartImport(c, payload)
             \/ PrepareBatch(c) \/ InstrumentNotFound(c)
             \/ DatabaseFindsExisting(c) \/ DatabaseCreatesMany(c)
             \/ DatabaseFails(c)
      PROVE  ReadsOK'
  <2>1. UNCHANGED reader
    BY <1>5 DEF StartImport, PrepareBatch, InstrumentNotFound,
                DatabaseFindsExisting, DatabaseCreatesMany, DatabaseFails
  <2>. QED
    BY <1>4, <2>1
<1>6. ASSUME NEW r \in Readers, NEW q \in Queries, StartQuery(r, q)
      PROVE  ReadsOK'
  BY <1>1, <1>6, StartReadKeepsReads
<1>7. ASSUME NEW r \in Readers, DatabaseFindsExpiry(r) PROVE ReadsOK'
  BY <1>1, <1>7, FindExpiryKeepsReads
<1>8. ASSUME NEW r \in Readers, DatabaseFindsRows(r) PROVE ReadsOK'
  BY <1>1, <1>8, FindRowsKeepsReads
<1>9. ASSUME UNCHANGED vars PROVE ReadsOK'
  <2>1. UNCHANGED reader
    BY <1>9 DEF vars
  <2>. QED
    BY <1>4, <2>1
<1>10. ReadsOK'
  <2>1. CASE \E c \in Imports :
               \/ \E payload \in Payloads : StartImport(c, payload)
               \/ PrepareBatch(c) \/ InstrumentNotFound(c)
               \/ DatabaseFindsExisting(c) \/ DatabaseCreatesMany(c)
               \/ DatabaseFails(c)
    BY <1>5, <2>1
  <2>2. CASE \E r \in Readers :
               \/ \E q \in Queries : StartQuery(r, q)
               \/ DatabaseFindsExpiry(r) \/ DatabaseFindsRows(r)
    BY <1>6, <1>7, <1>8, <2>2
  <2>. QED
    BY <1>9, <2>1, <2>2 DEF Next
<1>. QED
  BY <1>2, <1>10 DEF QueryInv

(* A query beside imports misses nothing that was stored when it began: no *)
(* expiry nearer than the one findNearestExpiryDate reports, and of that   *)
(* expiry no row, unless a limit cut it or a strike nearer to the money    *)
(* took its place, though the expiry and its rows are read apart.          *)
THEOREM QueriesAreComplete == Spec => []QueriesMissNothing
<1>1. Init => QueryInv
  <2>1. Init => ReadsOK
    BY DEF Init, ReadsOK
  <2>. QED
    BY <2>1, InitImports DEF QueryInv
<1>2. QueryInv => QueriesMissNothing
  <2> SUFFICES ASSUME QueryInv PROVE QueriesMissNothing
    OBVIOUS
  <2>1. ASSUME NEW r \in Readers, reader[r].phase \in {"answered", "not found"}
        PROVE  Complete(reader[r], rows)
    <3>1. reader[r] # Unused
      BY <2>1, UnusedIsNone
    <3>. QED
      BY <2>1, <3>1 DEF QueryInv, ReadsOK, ReadOK
  <2>. QED
    BY <2>1 DEF QueriesMissNothing, Complete, AtmComplete, NoneNearer,
               InDeltaRange, DeltaRows
<1>. QED
  BY <1>1, <1>2, NextKeepsReads, PTL DEF Spec

=============================================================================
