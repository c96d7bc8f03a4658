------------------------- MODULE ReplayEngineProofs -------------------------
(***************************************************************************)
(* Proofs about the event bus and the replays over it.                     *)
(***************************************************************************)
EXTENDS ReplayEngine, FiniteSetTheorems, WellFoundedInduction, TLAPS

-----------------------------------------------------------------------------
(* Induction, over a set of naturals *)

LEMMA NaturalsByStep ==
  ASSUME NEW S, 0 \in S, \A n \in Nat : n \in S => n + 1 \in S
  PROVE  \A n \in Nat : n \in S
<1> DEFINE T == Nat \ S
<1>1. CASE T # {}
  <2>1. PICK n \in T : \A m \in T : ~(<<m, n>> \in OpToRel(<, Nat))
    <3>1. T \subseteq Nat
      OBVIOUS
    <3> HIDE DEF T
    <3>. QED
      BY <1>1, <3>1, NatLessThanWellFounded, WFMin
  <2>2. \A m \in T : ~(m < n)
    BY <2>1 DEF OpToRel
  <2>3. n # 0 /\ n \in Nat
    OBVIOUS
  <2>4. n - 1 \in Nat /\ n - 1 < n /\ (n - 1) + 1 = n
    BY <2>3
  <2>5. n - 1 \in S
    BY <2>2, <2>4
  <2>. QED
    BY <2>4, <2>5
<1>. QED
  BY <1>1

-----------------------------------------------------------------------------
(* Sequences of handlers *)

Increasing(s) == \A m, n \in DOMAIN s : m < n => s[m] < s[n]

(* h[n] holds those of the first n that are kept.                          *)
KeepsUpTo(h, s, gone, N) ==
  h = [n \in 0..N |->
         IF n = 0 THEN <<>>
         ELSE IF s[n] \in gone THEN h[n - 1] ELSE Append(h[n - 1], s[n])]

(* The steps of a function that keeps are those of its definition.         *)
LEMMA KeepsStep ==
  ASSUME NEW h, NEW s, NEW gone, NEW N \in Nat, KeepsUpTo(h, s, gone, N)
  PROVE  /\ h[0] = <<>>
         /\ \A n \in 0..N : n # 0 =>
              h[n] = IF s[n] \in gone THEN h[n - 1] ELSE Append(h[n - 1], s[n])
BY DEF KeepsUpTo

LEMMA KeepsExists ==
  ASSUME NEW s, NEW gone
  PROVE  \A N \in Nat : \E h : KeepsUpTo(h, s, gone, N)
<1> DEFINE S == {N \in Nat : \E h : KeepsUpTo(h, s, gone, N)}
<1>1. 0 \in S
  <2> DEFINE h == [n \in 0..0 |-> <<>>]
  <2>1. KeepsUpTo(h, s, gone, 0)
    BY DEF KeepsUpTo
  <2>. QED
    BY <2>1
<1>2. ASSUME NEW N \in Nat, N \in S PROVE N + 1 \in S
  <2>1. PICK h : KeepsUpTo(h, s, gone, N)
    BY <1>2
  <2> DEFINE last == IF s[N + 1] \in gone THEN h[N] ELSE Append(h[N], s[N + 1])
             g == [n \in 0..(N + 1) |-> IF n = N + 1 THEN last ELSE h[n]]
             r == [n \in 0..(N + 1) |->
                     IF n = 0 THEN <<>>
                     ELSE IF s[n] \in gone THEN g[n - 1]
                                           ELSE Append(g[n - 1], s[n])]
  <2>2. ASSUME NEW n \in 0..(N + 1) PROVE g[n] = r[n]
    <3>1. CASE n = 0
      <4>1. h[0] = <<>>
        BY <2>1, KeepsStep
      <4>2. g[n] = h[n] /\ r[n] = <<>>
        BY <3>1
      <4>. QED
        BY <3>1, <4>1, <4>2
    <3>2. CASE n \in 1..N
      <4>1. h[n] = IF s[n] \in gone THEN h[n - 1] ELSE Append(h[n - 1], s[n])
        <5>1. n \in 0..N /\ n # 0
          BY <3>2
        <5>. QED
          BY <2>1, <5>1, KeepsStep
      <4>2. g[n] = h[n] /\ g[n - 1] = h[n - 1]
        BY <3>2
      <4>3. r[n] = IF s[n] \in gone THEN g[n - 1] ELSE Append(g[n - 1], s[n])
        BY <3>2
      <4> HIDE DEF g, r
      <4>. QED
        BY <4>1, <4>2, <4>3
    <3>3. CASE n = N + 1
      <4>1. g[n] = last /\ g[n - 1] = h[N]
        BY <3>3
      <4>2. r[n] = IF s[n] \in gone THEN g[n - 1] ELSE Append(g[n - 1], s[n])
        BY <3>3
      <4> HIDE DEF g, r
      <4>. QED
        BY <3>3, <4>1, <4>2
    <3>. QED
      BY <3>1, <3>2, <3>3
  <2>3. KeepsUpTo(g, s, gone, N + 1)
    BY <2>2 DEF KeepsUpTo
  <2> HIDE DEF g
  <2>. QED
    BY <2>3
<1>3. \A N \in Nat : N \in S
  <2> HIDE DEF S
  <2>. QED
    BY <1>1, <1>2, NaturalsByStep
<1>. QED
  BY <1>3

(* kept holds, in their order, those of the first n handlers that are not  *)
(* gone.  The handlers behind one that stays do not come before it, and    *)
(* while none of the first p has gone those behind them stay behind.       *)
KeptOf(kept, s, gone, n) ==
  /\ kept \in Seq(Nat) /\ Len(kept) <= n
  /\ \A m \in 1..Len(kept) : \E i \in m..n : s[i] = kept[m] /\ s[i] \notin gone
  /\ Increasing(s) => Increasing(kept)
  /\ \A p \in 0..n : (\A i \in 1..p : s[i] \notin gone) =>
       /\ p <= Len(kept)
       /\ \A i \in (p + 1)..n : s[i] \notin gone =>
            \E m \in (p + 1)..Len(kept) : kept[m] = s[i]

LEMMA KeepsOneMore ==
  ASSUME NEW s \in Seq(Nat), NEW gone, NEW n \in Nat, n + 1 <= Len(s),
         NEW kept, KeptOf(kept, s, gone, n), s[n + 1] \notin gone
  PROVE  KeptOf(Append(kept, s[n + 1]), s, gone, n + 1)
<1> DEFINE more == Append(kept, s[n + 1])
           L == Len(kept)
<1>1. /\ kept \in Seq(Nat) /\ L \in Nat /\ L <= n /\ n + 1 \in DOMAIN s
      /\ s[n + 1] \in Nat
  BY DEF KeptOf
<1>2. /\ more \in Seq(Nat) /\ Len(more) = L + 1 /\ more[L + 1] = s[n + 1]
      /\ \A m \in 1..L : more[m] = kept[m]
  BY <1>1
<1>3. \A m \in 1..L : \E i \in m..n : s[i] = kept[m] /\ s[i] \notin gone
  BY DEF KeptOf
<1> HIDE DEF more, L
<1>4. ASSUME NEW m \in 1..Len(more)
      PROVE  \E i \in m..(n + 1) : s[i] = more[m] /\ s[i] \notin gone
  <2>1. CASE m = L + 1
    BY <1>1, <1>2, <2>1
  <2>2. CASE m \in 1..L
    <3>1. PICK i \in m..n : s[i] = kept[m] /\ s[i] \notin gone
      BY <1>3, <2>2
    <3>2. i \in m..(n + 1)
      BY <2>2
    <3>3. s[i] = more[m]
      BY <1>2, <2>2, <3>1
    <3>. QED
      BY <3>1, <3>2, <3>3
  <2>. QED
    BY <1>1, <1>2, <2>1, <2>2
<1>5. ASSUME Increasing(s) PROVE Increasing(more)
  <2>1. Increasing(kept)
    BY <1>5 DEF KeptOf
  <2>2. DOMAIN kept = 1..L /\ DOMAIN more = 1..(L + 1)
    BY <1>1, <1>2 DEF L
  <2>3. ASSUME NEW m \in 1..L, NEW k \in 1..(L + 1), m < k
        PROVE  more[m] < more[k]
    <3>1. CASE k \in 1..L
      BY <1>2, <2>1, <2>2, <2>3, <3>1 DEF Increasing
    <3>2. CASE k = L + 1
      <4>1. PICK i \in m..n : s[i] = kept[m]
        BY <1>3
      <4>2. i \in DOMAIN s /\ i < n + 1
        BY <1>1, <4>1
      <4>3. s[i] < s[n + 1]
        BY <1>1, <1>5, <4>2 DEF Increasing
      <4>. QED
        BY <1>2, <3>2, <4>1, <4>3
    <3>. QED
      BY <1>1, <3>1, <3>2
  <2>. QED
    BY <1>1, <2>2, <2>3 DEF Increasing
<1>6. ASSUME NEW p \in 0..(n + 1), \A i \in 1..p : s[i] \notin gone
      PROVE  /\ p <= Len(more)
             /\ \A i \in (p + 1)..(n + 1) : s[i] \notin gone =>
                  \E m \in (p + 1)..Len(more) : more[m] = s[i]
  <2>1. CASE p \in 0..n
    <3>1. /\ p <= L
          /\ \A i \in (p + 1)..n : s[i] \notin gone =>
               \E m \in (p + 1)..L : kept[m] = s[i]
      BY <1>6, <2>1 DEF KeptOf, L
    <3>2. ASSUME NEW i \in (p + 1)..(n + 1), s[i] \notin gone
          PROVE  \E m \in (p + 1)..Len(more) : more[m] = s[i]
      <4>1. CASE i = n + 1
        <5>1. L + 1 \in (p + 1)..Len(more)
          BY <1>1, <1>2, <3>1, <2>1
        <5>. QED
          BY <1>2, <4>1, <5>1
      <4>2. CASE i \in (p + 1)..n
        <5>1. PICK m \in (p + 1)..L : kept[m] = s[i]
          BY <3>1, <3>2, <4>2
        <5>2. m \in (p + 1)..Len(more) /\ more[m] = kept[m]
          BY <1>1, <1>2, <2>1, <5>1
        <5>. QED
          BY <5>1, <5>2
      <4>. QED
        BY <2>1, <4>1, <4>2
    <3>. QED
      BY <1>1, <1>2, <2>1, <3>1, <3>2
  <2>2. CASE p = n + 1
    <3>1. n <= L
      <4>1. \A i \in 1..n : s[i] \notin gone
        BY <1>6, <2>2
      <4>2. n \in 0..n
        OBVIOUS
      <4>. QED
        BY <4>1, <4>2 DEF KeptOf, L
    <3>. QED
      BY <1>1, <1>2, <2>2, <3>1
  <2>. QED
    BY <2>1, <2>2
<1>7. KeptOf(more, s, gone, n + 1)
  <2>1. Len(more) <= n + 1
    BY <1>1, <1>2
  <2>. QED
    BY <1>2, <1>4, <1>5, <1>6, <2>1 DEF KeptOf
<1>. QED
  BY <1>7 DEF more

LEMMA KeepsOneLess ==
  ASSUME NEW s \in Seq(Nat), NEW gone, NEW n \in Nat, n + 1 <= Len(s),
         NEW kept, KeptOf(kept, s, gone, n), s[n + 1] \in gone
  PROVE  KeptOf(kept, s, gone, n + 1)
<1>1. kept \in Seq(Nat) /\ Len(kept) \in Nat /\ Len(kept) <= n + 1
  BY DEF KeptOf
<1>2. ASSUME NEW m \in 1..Len(kept)
      PROVE  \E i \in m..(n + 1) : s[i] = kept[m] /\ s[i] \notin gone
  <2>1. PICK i \in m..n : s[i] = kept[m] /\ s[i] \notin gone
    BY DEF KeptOf
  <2>2. i \in m..(n + 1)
    BY <1>1, <2>1
  <2>. QED
    BY <2>1, <2>2
<1>3. ASSUME NEW p \in 0..(n + 1), \A i \in 1..p : s[i] \notin gone
      PROVE  /\ p <= Len(kept)
             /\ \A i \in (p + 1)..(n + 1) : s[i] \notin gone =>
                  \E m \in (p + 1)..Len(kept) : kept[m] = s[i]
  <2>1. p \in 0..n
    BY <1>3
  <2>2. \A i \in (p + 1)..(n + 1) : s[i] \notin gone => i \in (p + 1)..n
    BY <2>1
  <2>3. /\ p <= Len(kept)
        /\ \A i \in (p + 1)..n : s[i] \notin gone =>
             \E m \in (p + 1)..Len(kept) : kept[m] = s[i]
    BY <1>3, <2>1 DEF KeptOf
  <2>. QED
    BY <2>2, <2>3
<1>4. Increasing(s) => Increasing(kept)
  BY DEF KeptOf
<1>. QED
  BY <1>1, <1>2, <1>3, <1>4 DEF KeptOf

LEMMA KeepsAre ==
  ASSUME NEW s \in Seq(Nat), NEW gone, NEW h, KeepsUpTo(h, s, gone, Len(s))
  PROVE  KeptOf(h[Len(s)], s, gone, Len(s))
<1> DEFINE S == {n \in Nat : n <= Len(s) => KeptOf(h[n], s, gone, n)}
<1>1. 0 \in S
  <2>1. h[0] = <<>>
    BY KeepsStep
  <2>2. KeptOf(<<>>, s, gone, 0)
    <3>1. Len(<<>>) = 0 /\ DOMAIN <<>> = {} /\ <<>> \in Seq(Nat)
      OBVIOUS
    <3>2. Increasing(<<>>)
      BY <3>1 DEF Increasing
    <3>3. 1..0 = {}
      OBVIOUS
    <3>4. \A p \in 0..0 : p = 0 /\ (p + 1)..0 = {}
      OBVIOUS
    <3>. QED
      BY <3>1, <3>2, <3>3, <3>4 DEF KeptOf
  <2>. QED
    BY <2>1, <2>2
<1>2. ASSUME NEW n \in Nat, n \in S PROVE n + 1 \in S
  <2> SUFFICES ASSUME n + 1 <= Len(s) PROVE KeptOf(h[n + 1], s, gone, n + 1)
    OBVIOUS
  <2>1. KeptOf(h[n], s, gone, n)
    BY <1>2
  <2>2. h[n + 1] = IF s[n + 1] \in gone THEN h[n] ELSE Append(h[n], s[n + 1])
    <3>1. n + 1 \in 0..Len(s) /\ n + 1 # 0 /\ (n + 1) - 1 = n
      OBVIOUS
    <3>. QED
      BY <3>1, KeepsStep
  <2>3. CASE s[n + 1] \in gone
    BY <2>1, <2>2, <2>3, KeepsOneLess
  <2>4. CASE s[n + 1] \notin gone
    BY <2>1, <2>2, <2>4, KeepsOneMore
  <2>. QED
    BY <2>3, <2>4
<1>3. \A n \in Nat : n \in S
  <2> HIDE DEF S
  <2>. QED
    BY <1>1, <1>2, NaturalsByStep
<1>. QED
  BY <1>3

LEMMA WithoutIsKept ==
  ASSUME NEW s \in Seq(Nat), NEW gone
  PROVE  KeptOf(Without(s, gone), s, gone, Len(s))
<1> DEFINE h == CHOOSE f : KeepsUpTo(f, s, gone, Len(s))
<1>1. KeepsUpTo(h, s, gone, Len(s))
  BY KeepsExists
<1>2. Without(s, gone) = h[Len(s)]
  BY DEF Without, KeepsUpTo
<1>. QED
  BY <1>1, <1>2, KeepsAre

-----------------------------------------------------------------------------
(* Sorting *)

(* R orders 1..n strictly and totally.                                     *)
Orders(R, n) ==
  /\ \A x \in 1..n : <<x, x>> \notin R
  /\ \A x, y \in 1..n : x # y => <<x, y>> \in R \/ <<y, x>> \in R
  /\ \A x, y, z \in 1..n : <<x, y>> \in R /\ <<y, z>> \in R => <<x, z>> \in R

(* Counting from the least up is a bijection of 1..n, and its inverse      *)
(* lists 1..n in order.                                                    *)
LEMMA OrderIsListed ==
  ASSUME NEW n \in Nat, NEW R, Orders(R, n)
  PROVE  \E f \in [1..n -> 1..n] :
           \A i, j \in 1..n : i < j => f[i] # f[j] /\ <<f[i], f[j]>> \in R
<1> DEFINE N == 1..n
           Smaller(x) == {y \in N : <<y, x>> \in R}
           rank == [x \in N |-> Cardinality(Smaller(x)) + 1]
<1>1. IsFiniteSet(N) /\ Cardinality(N) = n
  BY FS_Interval
<1>2. \A x \in N : IsFiniteSet(Smaller(x)) /\ Cardinality(Smaller(x)) \in Nat
  BY <1>1, FS_Subset, FS_CardinalityType
<1>3. \A x, y \in N : <<x, y>> \in R => rank[x] < rank[y]
  <2> SUFFICES ASSUME NEW x \in N, NEW y \in N, <<x, y>> \in R
               PROVE  rank[x] < rank[y]
    OBVIOUS
  <2>1. Smaller(x) \subseteq Smaller(y)
    BY DEF Orders
  <2>2. x \in Smaller(y) /\ x \notin Smaller(x)
    BY DEF Orders
  <2>3. Smaller(x) \in SUBSET Smaller(y) /\ Smaller(x) # Smaller(y)
    BY <2>1, <2>2
  <2> HIDE DEF Smaller
  <2>4. Cardinality(Smaller(x)) <= Cardinality(Smaller(y))
    BY <1>2, <2>3, FS_Subset
  <2>5. Cardinality(Smaller(x)) # Cardinality(Smaller(y))
    BY <1>2, <2>3, FS_Subset
  <2>6. rank[x] = Cardinality(Smaller(x)) + 1 /\ rank[y] = Cardinality(Smaller(y)) + 1
    OBVIOUS
  <2> HIDE DEF rank
  <2>. QED
    BY <1>2, <2>4, <2>5, <2>6
<1>4. rank \in [N -> N]
  <2> SUFFICES ASSUME NEW x \in N PROVE Cardinality(Smaller(x)) + 1 \in N
    OBVIOUS
  <2>1. Smaller(x) \in SUBSET (N \ {x})
    BY DEF Orders
  <2>2. IsFiniteSet(N \ {x}) /\ Cardinality(N \ {x}) = n - 1
    BY <1>1, FS_RemoveElement
  <2> HIDE DEF Smaller
  <2>3. Cardinality(Smaller(x)) <= n - 1
    BY <2>1, <2>2, FS_Subset
  <2>4. Cardinality(Smaller(x)) \in Nat
    BY <1>2
  <2>. QED
    BY <2>3, <2>4
<1>5. \A x, y \in N : x # y => rank[x] # rank[y]
  <2>1. \A x, y \in N : x # y => <<x, y>> \in R \/ <<y, x>> \in R
    BY DEF Orders
  <2> HIDE DEF rank
  <2>2. \A x \in N : rank[x] \in Nat
    BY <1>4
  <2>. QED
    <3> SUFFICES ASSUME NEW x \in N, NEW y \in N, x # y
                 PROVE  rank[x] # rank[y]
      OBVIOUS
    <3>1. rank[x] \in Nat /\ rank[y] \in Nat
      BY <2>2
    <3>2. rank[x] < rank[y] \/ rank[y] < rank[x]
      BY <1>3, <2>1
    <3> HIDE DEF N
    <3>. QED
      BY <3>1, <3>2
<1>6. rank \in Injection(N, N)
  <2> HIDE DEF rank
  <2>. QED
    BY <1>4, <1>5 DEF Injection, IsInjective
<1>7. rank \in Surjection(N, N)
  <2> HIDE DEF rank
  <2>. QED
    BY <1>1, <1>6, FS_Injection
<1>8. \A i \in N : \E x \in N : rank[x] = i
  <2> HIDE DEF rank
  <2>. QED
    BY <1>7 DEF Surjection
<1> HIDE DEF rank
<1> DEFINE f == [i \in N |-> CHOOSE x \in N : rank[x] = i]
<1>9. \A i \in N : f[i] \in N /\ rank[f[i]] = i
  BY <1>8
<1>10. ASSUME NEW i \in N, NEW j \in N, i < j
       PROVE  f[i] # f[j] /\ <<f[i], f[j]>> \in R
  <2>1. /\ f[i] \in N /\ f[j] \in N
        /\ rank[f[i]] = i /\ rank[f[j]] = j
    BY <1>9
  <2> HIDE DEF f
  <2>2. f[i] # f[j]
    BY <1>10, <2>1
  <2>3. <<f[j], f[i]>> \notin R
    BY <1>3, <1>10, <2>1
  <2>. QED
    BY <2>1, <2>2, <2>3 DEF Orders
<1>11. f \in [N -> N]
  BY <1>9
<1> HIDE DEF f
<1>. QED
  BY <1>10, <1>11

BacktestEvent == [type : Types, time : Nat]

(* Sorting arranges the events given by time, candles first.               *)
LEMMA SortedEvents ==
  ASSUME NEW merged \in Seq(BacktestEvent)
  PROVE  /\ MergeAndSort(merged) \in Seq(BacktestEvent)
         /\ Len(MergeAndSort(merged)) = Len(merged)
         /\ \A m, n \in DOMAIN MergeAndSort(merged) : m < n =>
              ~Earlier(MergeAndSort(merged)[n], MergeAndSort(merged)[m])
<1> DEFINE len == Len(merged)
           Before(m, n) == \/ Earlier(merged[m], merged[n])
                           \/ ~Earlier(merged[n], merged[m]) /\ m < n
           R == {p \in (1..len) \X (1..len) : Before(p[1], p[2])}
           P(f) == \A m, n \in 1..len : m < n => f[m] # f[n] /\ Before(f[m], f[n])
           order == CHOOSE f \in [1..len -> 1..len] : P(f)
<1>1. len \in Nat /\ DOMAIN merged = 1..len
  OBVIOUS
<1>2. \A m \in 1..len : /\ merged[m].time \in Nat
                         /\ EventTypeOrder(merged[m].type) \in {0, 1}
  <2> SUFFICES ASSUME NEW m \in 1..len
               PROVE  /\ merged[m].time \in Nat
                      /\ EventTypeOrder(merged[m].type) \in {0, 1}
    OBVIOUS
  <2>1. merged[m] \in BacktestEvent
    BY <1>1
  <2>2. merged[m].time \in Nat
    BY <2>1 DEF BacktestEvent
  <2>. QED
    BY <2>2 DEF EventTypeOrder
<1>3. Orders(R, len)
  <2>1. ASSUME NEW x \in 1..len PROVE <<x, x>> \notin R
    BY <1>2 DEF Earlier
  <2>2. ASSUME NEW x \in 1..len, NEW y \in 1..len, x # y
        PROVE  <<x, y>> \in R \/ <<y, x>> \in R
    BY <1>2, <2>2 DEF Earlier
  <2>3. ASSUME NEW x \in 1..len, NEW y \in 1..len, NEW z \in 1..len,
               Before(x, y), Before(y, z)
        PROVE  Before(x, z)
    <3>1. /\ merged[x].time \in Nat /\ merged[y].time \in Nat
          /\ merged[z].time \in Nat
      BY <1>2
    <3>2. /\ EventTypeOrder(merged[x].type) \in {0, 1}
          /\ EventTypeOrder(merged[y].type) \in {0, 1}
          /\ EventTypeOrder(merged[z].type) \in {0, 1}
      BY <1>2
    <3>3. x \in Int /\ y \in Int /\ z \in Int
      BY <1>1
    <3>4. CASE merged[x].time < merged[y].time \/ merged[y].time < merged[z].time
      BY <2>3, <3>1, <3>2, <3>4 DEF Earlier
    <3>5. CASE /\ ~(merged[x].time < merged[y].time)
               /\ ~(merged[y].time < merged[z].time)
      <4>1. /\ merged[x].time = merged[y].time
            /\ merged[y].time = merged[z].time
        BY <2>3, <3>1, <3>5 DEF Earlier
      <4>. QED
        BY <2>3, <3>1, <3>2, <3>3, <4>1 DEF Earlier
    <3>. QED
      BY <3>4, <3>5
  <2>4. \A x, y \in 1..len : <<x, y>> \in R <=> Before(x, y)
    OBVIOUS
  <2> HIDE DEF Before, R
  <2>. QED
    BY <2>1, <2>2, <2>3, <2>4 DEF Orders
<1>4. \E f \in [1..len -> 1..len] : P(f)
  <2>1. PICK f \in [1..len -> 1..len] :
          \A i, j \in 1..len : i < j => f[i] # f[j] /\ <<f[i], f[j]>> \in R
    <3> HIDE DEF R, len
    <3>. QED
      BY <1>1, <1>3, OrderIsListed
  <2>2. P(f)
    BY <2>1
  <2>. QED
    BY <2>2
<1>5. order \in [1..len -> 1..len] /\ P(order)
  <2> HIDE DEF P, len
  <2>. QED
    BY <1>4
<1>6. MergeAndSort(merged) = [n \in 1..len |-> merged[order[n]]]
  BY <1>1 DEF MergeAndSort
<1> HIDE DEF order
<1>7. ASSUME NEW m \in 1..len, NEW n \in 1..len, m < n
      PROVE  ~Earlier(merged[order[n]], merged[order[m]])
  <2>1. order[m] \in 1..len /\ order[n] \in 1..len
    BY <1>5
  <2>2. Before(order[m], order[n])
    BY <1>5, <1>7
  <2>3. ASSUME NEW i \in 1..len, NEW j \in 1..len, Before(i, j)
        PROVE  ~Earlier(merged[j], merged[i])
    <3>1. merged[i].time \in Nat /\ merged[j].time \in Nat
      BY <1>2
    <3>2. /\ EventTypeOrder(merged[i].type) \in {0, 1}
          /\ EventTypeOrder(merged[j].type) \in {0, 1}
      BY <1>2
    <3>. QED
      BY <2>3, <3>1, <3>2 DEF Earlier
  <2> HIDE DEF Before, len
  <2>. QED
    BY <2>1, <2>2, <2>3
<1>8. [n \in 1..len |-> merged[order[n]]] \in Seq(BacktestEvent)
  BY <1>5
<1>. QED
  BY <1>1, <1>6, <1>7, <1>8

-----------------------------------------------------------------------------
(* The inductive invariant *)

Everywhere == Types \cup {All, Replay}

PublishFrames ==
  [kind : {"publish"}, event : BacktestEvent, typed : Seq(Nat),
   live : BOOLEAN, typedPosition : Nat, globalPosition : Nat,
   running : BOOLEAN, called : Seq(Nat), due : SUBSET Nat, skips : BOOLEAN]

ReplayFrames(S) ==
  [kind : {"replay"}, events : Seq(BacktestEvent), next : Nat,
   failed : BOOLEAN, subscriptions : {S},
   handled : [S -> Seq(BacktestEvent)], skips : BOOLEAN]

Frames == PublishFrames \cup UNION {ReplayFrames(S) : S \in SUBSET Nat}

TypeOK ==
  /\ typedHandlers \in [Types -> Seq(Nat)]
  /\ globalHandlers \in Seq(Nat)
  /\ entries \in Seq(Everywhere)
  /\ stack \in Seq(Frames)

Holds(list, entry) == \E i \in DOMAIN list : list[i] = entry
Ahead(position, list, entry) ==
  \E i \in DOMAIN list : i > position /\ list[i] = entry

(* Handlers are in the order of their numbers, and each in a list of what  *)
(* it is subscribed to.                                                    *)
TypedListOK(list, type, en) ==
  /\ Increasing(list)
  /\ \A i \in DOMAIN list : list[i] \in DOMAIN en /\ en[list[i]] = type

GlobalListOK(list, en) ==
  /\ Increasing(list)
  /\ \A i \in DOMAIN list : list[i] \in DOMAIN en /\ en[list[i]] \notin Types

HandlersOK(th, gh, en) ==
  /\ \A type \in Types : TypedListOK(th[type], type, en)
  /\ GlobalListOK(gh, en)

(* A publish loops over an array of its type, the one in the map while it  *)
(* is live.                                                                *)
LoopTyped(f, th, en) ==
  /\ TypedListOK(f.typed, f.event.type, en)
  /\ f.typedPosition <= Len(f.typed)
  /\ f.live => f.typed = th[f.event.type]

InOrder(called, en) ==
  \A i, j \in DOMAIN called : i < j =>
    IF en[called[i]] \in Types <=> en[called[j]] \in Types
    THEN called[i] < called[j] ELSE en[called[i]] \in Types

(* What it has called comes before what it has still to call.              *)
LoopCalled(f, gh, en) ==
  /\ InOrder(f.called, en)
  /\ \A i \in DOMAIN f.called :
       /\ f.called[i] \in DOMAIN en
       /\ en[f.called[i]] \in Types =>
            \A j \in DOMAIN f.typed : j > f.typedPosition =>
              f.called[i] < f.typed[j]
       /\ en[f.called[i]] \notin Types =>
            /\ f.globalPosition > 0
            /\ \A j \in DOMAIN gh : j > f.globalPosition => f.called[i] < gh[j]

(* What was subscribed when it began has been called, is gone, is still to *)
(* come or may be skipped.                                                 *)
LoopDue(f, th, gh, en) ==
  \A e \in f.due :
    /\ e \in DOMAIN en
    /\ en[e] \in Types =>
         \/ Holds(f.called, e)
         \/ ~Holds(th[f.event.type], e)
         \/ f.globalPosition = 0 /\ Ahead(f.typedPosition, f.typed, e)
    /\ en[e] \notin Types =>
         \/ Holds(f.called, e)
         \/ ~Holds(gh, e)
         \/ Ahead(f.globalPosition, gh, e)
         \/ f.skips

LoopOK(f, th, gh, en) ==
  /\ LoopTyped(f, th, en)
  /\ LoopCalled(f, gh, en)
  /\ LoopDue(f, th, gh, en)

(* A replay's subscriptions are its own, and its events are sorted.        *)
ReplayShape(f, en) ==
  /\ \A e \in f.subscriptions : e \in DOMAIN en /\ en[e] = Replay
  /\ \A m, n \in DOMAIN f.events : m < n => ~Earlier(f.events[n], f.events[m])
  /\ f.next \in 1..(Len(f.events) + 1)

(* Between its events every subscriber has handled all so far.             *)
ReplayBetween(f, gh) ==
  ~f.failed /\ ~f.skips =>
    \A e \in f.subscriptions :
      Holds(gh, e) /\ f.handled[e] = SubSeq(f.events, 1, f.next - 1)

(* While g publishes its last event, those that g has called have handled  *)
(* that one, too, and the others are ahead of g.                           *)
ReplayDuring(f, g, gh) ==
  /\ g.kind = "publish"
  /\ f.next > 1 /\ g.event = f.events[f.next - 1]
  /\ ~f.failed /\ ~f.skips /\ ~g.skips =>
       \A e \in f.subscriptions :
         /\ Holds(gh, e)
         /\ \/ /\ Holds(g.called, e)
               /\ f.handled[e] = SubSeq(f.events, 1, f.next - 1)
            \/ /\ Ahead(g.globalPosition, gh, e)
               /\ f.handled[e] = SubSeq(f.events, 1, f.next - 2)

ReplayOK(st, k, gh, en) ==
  /\ ReplayShape(st[k], en)
  /\ k = Len(st) => ReplayBetween(st[k], gh)
  /\ k # Len(st) => ReplayDuring(st[k], st[k + 1], gh)

(* Nothing is subscribed for two replays, or for none that is under way.   *)
Apart(st) ==
  \A k, l \in DOMAIN st :
    k # l /\ st[k].kind = "replay" /\ st[l].kind = "replay" =>
      st[k].subscriptions \cap st[l].subscriptions = {}

NoneLeft(st, gh, en) ==
  \A i \in DOMAIN gh : en[gh[i]] = Replay =>
    \E k \in DOMAIN st : st[k].kind = "replay" /\ gh[i] \in st[k].subscriptions

StackOK(st, th, gh, en) ==
  /\ HandlersOK(th, gh, en)
  /\ \A k \in DOMAIN st :
       /\ st[k].kind = "publish" => LoopOK(st[k], th, gh, en)
       /\ st[k].kind = "replay" => ReplayOK(st, k, gh, en)
  /\ Apart(st)
  /\ NoneLeft(st, gh, en)

BusInv ==
  /\ TypeOK
  /\ StackOK(stack, typedHandlers, globalHandlers, entries)

-----------------------------------------------------------------------------
(* Lists of handlers, and what moves in them *)

LEMMA ToSetIsHolds ==
  ASSUME NEW list, NEW e
  PROVE  e \in ToSet(list) <=> Holds(list, e)
BY DEF ToSet, Holds

LEMMA NoneAhead ==
  ASSUME NEW list \in Seq(Nat), NEW n \in Nat, n >= Len(list), NEW entry
  PROVE  ~Ahead(n, list, entry)
<1>1. \A i \in DOMAIN list : i \in Nat /\ i <= Len(list)
  OBVIOUS
<1>2. \A i \in DOMAIN list : ~(i > n)
  BY <1>1
<1>. QED
  BY <1>2 DEF Ahead

LEMMA AheadIsHeld ==
  ASSUME NEW list \in Seq(Nat), NEW e, NEW p \in Nat, Ahead(p, list, e)
  PROVE  Holds(list, e) /\ e \in Nat
BY DEF Ahead, Holds

LEMMA HeldIsAhead ==
  ASSUME NEW list \in Seq(Nat), NEW e, Holds(list, e)
  PROVE  Ahead(0, list, e)
BY DEF Ahead, Holds

(* Handlers put behind a list stay behind whatever is in it.               *)
LEMMA ConcatMoves ==
  ASSUME NEW list \in Seq(Nat), NEW new \in Seq(Nat)
  PROVE  /\ list \o new \in Seq(Nat)
         /\ \A e : Holds(list \o new, e) <=> Holds(list, e) \/ Holds(new, e)
         /\ \A e, p \in Nat : Ahead(p, list, e) => Ahead(p, list \o new, e)
         /\ \A e, p \in Nat :
              Ahead(p, list \o new, e) => Ahead(p, list, e) \/ Holds(new, e)
<1> DEFINE L == Len(list)
           both == list \o new
<1>1. /\ both \in Seq(Nat) /\ L \in Nat /\ Len(new) \in Nat
      /\ DOMAIN both = 1..(L + Len(new))
      /\ DOMAIN list = 1..L /\ DOMAIN new = 1..Len(new)
      /\ \A i \in 1..L : both[i] = list[i]
      /\ \A i \in 1..Len(new) : both[L + i] = new[i]
  OBVIOUS
<1> HIDE DEF both, L
<1>2. ASSUME NEW i \in DOMAIN both
      PROVE  i \in DOMAIN list \/ (i - L \in DOMAIN new /\ both[i] = new[i - L])
  <2>1. CASE i \in 1..L
    BY <1>1, <2>1
  <2>2. CASE i - L \in 1..Len(new)
    <3>1. both[L + (i - L)] = new[i - L] /\ L + (i - L) = i
      BY <1>1, <2>2
    <3>. QED
      BY <1>1, <2>2, <3>1
  <2>. QED
    BY <1>1, <2>1, <2>2
<1>3. ASSUME NEW e PROVE Holds(both, e) <=> Holds(list, e) \/ Holds(new, e)
  <2>1. ASSUME Holds(both, e) PROVE Holds(list, e) \/ Holds(new, e)
    BY <1>1, <1>2, <2>1 DEF Holds
  <2>2. ASSUME Holds(list, e) PROVE Holds(both, e)
    <3>1. PICK i \in DOMAIN list : list[i] = e
      BY <2>2 DEF Holds
    <3>2. i \in DOMAIN both /\ both[i] = e
      BY <1>1, <3>1
    <3>. QED
      BY <3>2 DEF Holds
  <2>3. ASSUME Holds(new, e) PROVE Holds(both, e)
    <3>1. PICK i \in DOMAIN new : new[i] = e
      BY <2>3 DEF Holds
    <3>2. L + i \in DOMAIN both /\ both[L + i] = e
      BY <1>1, <3>1
    <3>. QED
      BY <3>2 DEF Holds
  <2>. QED
    BY <2>1, <2>2, <2>3
<1>4. ASSUME NEW e \in Nat, NEW p \in Nat, Ahead(p, list, e) PROVE Ahead(p, both, e)
  <2>1. PICK i \in DOMAIN list : i > p /\ list[i] = e
    BY <1>4 DEF Ahead
  <2>2. i \in DOMAIN both /\ both[i] = e
    BY <1>1, <2>1
  <2>. QED
    BY <2>1, <2>2 DEF Ahead
<1>5. ASSUME NEW e \in Nat, NEW p \in Nat, Ahead(p, both, e)
      PROVE  Ahead(p, list, e) \/ Holds(new, e)
  <2>1. PICK i \in DOMAIN both : i > p /\ both[i] = e
    BY <1>5 DEF Ahead
  <2>2. CASE i \in DOMAIN list
    BY <1>1, <2>1, <2>2 DEF Ahead
  <2>3. CASE i - L \in DOMAIN new /\ both[i] = new[i - L]
    BY <2>1, <2>3 DEF Holds
  <2>. QED
    BY <1>2, <2>2, <2>3
<1>. QED
  BY <1>1, <1>3, <1>4, <1>5 DEF both

(* Handlers that are new are put behind in the order of their numbers.     *)
LEMMA ConcatIncreases ==
  ASSUME NEW list \in Seq(Nat), NEW new \in Seq(Nat),
         Increasing(list), Increasing(new),
         \A d, e \in Nat : Holds(list, d) /\ Holds(new, e) => d < e
  PROVE  Increasing(list \o new)
<1> DEFINE L == Len(list)
           both == list \o new
<1>1. /\ L \in Nat /\ Len(new) \in Nat
      /\ DOMAIN both = 1..(L + Len(new))
      /\ DOMAIN list = 1..L /\ DOMAIN new = 1..Len(new)
      /\ \A i \in 1..L : both[i] = list[i]
      /\ \A i \in (L + 1)..(L + Len(new)) : both[i] = new[i - L]
      /\ \A i \in 1..L : list[i] \in Nat
      /\ \A i \in 1..Len(new) : new[i] \in Nat
  OBVIOUS
<1> HIDE DEF both, L
<1> SUFFICES ASSUME NEW m \in DOMAIN both, NEW n \in DOMAIN both, m < n
             PROVE  both[m] < both[n]
  BY DEF Increasing, both
<1>2. CASE m \in 1..L /\ n \in 1..L
  BY <1>1, <1>2 DEF Increasing
<1>3. CASE m \in 1..L /\ n \in (L + 1)..(L + Len(new))
  <2>1. n - L \in DOMAIN new /\ both[n] = new[n - L] /\ new[n - L] \in Nat
    BY <1>1, <1>3
  <2>2. both[m] = list[m] /\ list[m] \in Nat
    BY <1>1, <1>3
  <2>3. Holds(list, list[m]) /\ Holds(new, new[n - L])
    BY <1>1, <1>3, <2>1 DEF Holds
  <2>4. list[m] < new[n - L]
    BY <2>1, <2>2, <2>3
  <2>. QED
    BY <2>1, <2>2, <2>4
<1>4. CASE m \in (L + 1)..(L + Len(new)) /\ n \in (L + 1)..(L + Len(new))
  <2>1. /\ m - L \in DOMAIN new /\ n - L \in DOMAIN new /\ m - L < n - L
        /\ both[m] = new[m - L] /\ both[n] = new[n - L]
    BY <1>1, <1>4
  <2>. QED
    BY <2>1 DEF Increasing
<1>. QED
  BY <1>1, <1>2, <1>3, <1>4

(* Handlers that stay keep their order; one that stays is where it was or  *)
(* further to the front, and ahead of a position while none before that    *)
(* position goes.                                                          *)
LEMMA WithoutMoves ==
  ASSUME NEW list \in Seq(Nat), NEW gone
  PROVE  /\ Without(list, gone) \in Seq(Nat)
         /\ Increasing(list) => Increasing(Without(list, gone))
         /\ \A e : Holds(Without(list, gone), e) => Holds(list, e) /\ e \notin gone
         /\ \A e : Holds(list, e) /\ e \notin gone => Holds(Without(list, gone), e)
         /\ \A e, p \in Nat : Ahead(p, Without(list, gone), e) => Ahead(p, list, e)
         /\ \A e, p \in Nat :
              /\ Ahead(p, list, e) /\ e \notin gone
              /\ \A i \in 1..p : i \in DOMAIN list => list[i] \notin gone
              => Ahead(p, Without(list, gone), e)
<1> DEFINE kept == Without(list, gone)
           N == Len(list)
<1>1. KeptOf(kept, list, gone, N)
  BY WithoutIsKept
<1>2. N \in Nat /\ DOMAIN list = 1..N
  OBVIOUS
<1> HIDE DEF kept, N
<1>3. /\ kept \in Seq(Nat) /\ DOMAIN kept = 1..Len(kept) /\ Len(kept) \in Nat
      /\ Len(kept) <= N
      /\ Increasing(list) => Increasing(kept)
      /\ \A m \in 1..Len(kept) : \E i \in m..N : list[i] = kept[m] /\ list[i] \notin gone
  BY <1>1 DEF KeptOf
<1>4. ASSUME NEW p \in Nat, NEW e \in Nat, Ahead(p, list, e), e \notin gone,
             \A i \in 1..p : i \in DOMAIN list => list[i] \notin gone
      PROVE  Ahead(p, kept, e)
  <2>1. PICK j \in 1..N : j > p /\ list[j] = e
    BY <1>2, <1>4 DEF Ahead
  <2>2. p \in 0..N /\ j \in (p + 1)..N
    BY <1>2, <2>1
  <2>3. \A i \in 1..p : list[i] \notin gone
    BY <1>2, <1>4, <2>2
  <2>4. PICK m \in (p + 1)..Len(kept) : kept[m] = list[j]
    BY <1>1, <1>4, <2>1, <2>2, <2>3 DEF KeptOf
  <2>5. m \in DOMAIN kept /\ m > p
    BY <1>3, <2>4
  <2>. QED
    BY <2>1, <2>4, <2>5 DEF Ahead
<1>5. ASSUME NEW e, Holds(list, e), e \notin gone PROVE Holds(kept, e)
  <2>1. e \in Nat /\ Ahead(0, list, e)
    BY <1>5, HeldIsAhead, AheadIsHeld
  <2>2. Ahead(0, kept, e)
    BY <1>4, <1>5, <2>1
  <2>. QED
    BY <1>3, <2>2, AheadIsHeld
<1>6. ASSUME NEW e, Holds(kept, e) PROVE Holds(list, e) /\ e \notin gone
  <2>1. PICK m \in 1..Len(kept) : kept[m] = e
    BY <1>3, <1>6 DEF Holds
  <2>2. PICK i \in m..N : list[i] = kept[m] /\ list[i] \notin gone
    BY <1>3
  <2>3. i \in DOMAIN list
    BY <1>2, <2>2
  <2>. QED
    BY <2>1, <2>2, <2>3 DEF Holds
<1>7. ASSUME NEW p \in Nat, NEW e \in Nat, Ahead(p, kept, e) PROVE Ahead(p, list, e)
  <2>1. PICK m \in 1..Len(kept) : m > p /\ kept[m] = e
    BY <1>3, <1>7 DEF Ahead
  <2>2. PICK i \in m..N : list[i] = kept[m] /\ list[i] \notin gone
    BY <1>3
  <2>3. i \in DOMAIN list /\ i > p
    BY <1>2, <2>1, <2>2
  <2>. QED
    BY <2>1, <2>2, <2>3 DEF Ahead
<1>. QED
  BY <1>3, <1>4, <1>5, <1>6, <1>7 DEF kept

-----------------------------------------------------------------------------
(* Handlers change while publishes and replays are under way *)

LEMMA FrameKinds ==
  ASSUME NEW f \in Frames
  PROVE  /\ f.kind = "publish" \/ f.kind = "replay"
         /\ f.kind = "publish" => f \in PublishFrames
         /\ f.kind = "replay" => /\ f \in ReplayFrames(f.subscriptions)
                                 /\ f.subscriptions \in SUBSET Nat
<1>1. CASE f \in PublishFrames
  BY <1>1 DEF PublishFrames
<1>2. ASSUME NEW S \in SUBSET Nat, f \in ReplayFrames(S)
      PROVE  /\ f.kind = "replay" /\ f.subscriptions = S
             /\ f \in ReplayFrames(f.subscriptions)
  <2>1. f.kind = "replay" /\ f.subscriptions = S
    BY <1>2 DEF ReplayFrames
  <2>. QED
    BY <1>2, <2>1
<1>3. CASE f \in UNION {ReplayFrames(S) : S \in SUBSET Nat}
  <2>1. PICK S \in SUBSET Nat : f \in ReplayFrames(S)
    BY <1>3
  <2>. QED
    BY <1>2, <2>1
<1>. QED
  BY <1>1, <1>3 DEF Frames

(* Entries are only ever added, and no old one is subscribed again.        *)
HandlersMove(th, th2, gh, gh2, en, en2) ==
  /\ th2 \in [Types -> Seq(Nat)] /\ gh2 \in Seq(Nat) /\ en2 \in Seq(Everywhere)
  /\ Len(en) <= Len(en2)
  /\ \A e \in DOMAIN en :
       /\ en2[e] = en[e]
       /\ \A type \in Types : Holds(th2[type], e) => Holds(th[type], e)
       /\ Holds(gh2, e) => Holds(gh, e)
  /\ HandlersOK(th2, gh2, en2)

(* A publish under way goes on: what is ahead of it was, or is new; what   *)
(* was ahead still is, and no replay's subscription goes but those gone,   *)
(* unless it may skip.                                                     *)
LoopMoves(f, g, th2, gh, gh2, en, en2, gone) ==
  /\ g \in PublishFrames
  /\ g.event = f.event /\ g.called = f.called /\ g.due = f.due
  /\ g.typedPosition = f.typedPosition /\ g.globalPosition = f.globalPosition
  /\ f.skips => g.skips
  /\ LoopTyped(g, th2, en2)
  /\ \A e \in Nat :
       /\ Ahead(f.typedPosition, f.typed, e) => Ahead(f.typedPosition, g.typed, e)
       /\ Ahead(f.typedPosition, g.typed, e) =>
            Ahead(f.typedPosition, f.typed, e) \/ e > Len(en)
       /\ Ahead(f.globalPosition, gh2, e) =>
            Ahead(f.globalPosition, gh, e) \/ e > Len(en)
       /\ ~g.skips =>
            /\ Ahead(f.globalPosition, gh, e) /\ Holds(gh2, e) =>
                 Ahead(f.globalPosition, gh2, e)
            /\ Holds(gh, e) /\ e \in DOMAIN en /\ en[e] = Replay /\ e \notin gone =>
                 Holds(gh2, e)

LEMMA EntryIsNumber ==
  ASSUME NEW list \in Seq(Nat), NEW i \in DOMAIN list
  PROVE  list[i] \in Nat
OBVIOUS

LEMMA LoopKept ==
  ASSUME NEW th \in [Types -> Seq(Nat)], NEW th2, NEW gh \in Seq(Nat), NEW gh2,
         NEW en \in Seq(Everywhere), NEW en2, NEW gone,
         NEW f \in PublishFrames, NEW g,
         HandlersMove(th, th2, gh, gh2, en, en2),
         LoopMoves(f, g, th2, gh, gh2, en, en2, gone),
         LoopOK(f, th, gh, en)
  PROVE  LoopOK(g, th2, gh2, en2)
<1>1. /\ g.event = f.event /\ g.called = f.called /\ g.due = f.due
      /\ g.typedPosition = f.typedPosition /\ g.globalPosition = f.globalPosition
      /\ f.typedPosition \in Nat /\ f.globalPosition \in Nat
      /\ g.typed \in Seq(Nat) /\ f.typed \in Seq(Nat) /\ f.called \in Seq(Nat)
      /\ f.event.type \in Types /\ f.due \in SUBSET Nat
      /\ f.skips => g.skips
  BY DEF LoopMoves, PublishFrames, BacktestEvent
<1>2. /\ gh2 \in Seq(Nat) /\ Len(en) \in Nat /\ Len(en) <= Len(en2)
      /\ DOMAIN en = 1..Len(en) /\ DOMAIN en2 = 1..Len(en2)
      /\ \A e \in DOMAIN en : e \in DOMAIN en2 /\ en2[e] = en[e]
  BY DEF HandlersMove
<1>3. LoopTyped(g, th2, en2)
  BY DEF LoopMoves
<1>4. LoopCalled(g, gh2, en2)
  <2>1. LoopCalled(f, gh, en)
    BY DEF LoopOK
  <2>2. \A i \in DOMAIN f.called : f.called[i] \in DOMAIN en /\ f.called[i] \in Nat
    <3>1. \A i \in DOMAIN f.called : f.called[i] \in DOMAIN en
      BY <2>1 DEF LoopCalled
    <3>. QED
      BY <1>1, <3>1, EntryIsNumber
  <2>3. InOrder(g.called, en2)
    <3>1. InOrder(f.called, en)
      BY <2>1 DEF LoopCalled
    <3>2. \A i \in DOMAIN f.called : en2[f.called[i]] = en[f.called[i]]
      BY <1>2, <2>2
    <3>3. InOrder(f.called, en2)
      BY <3>1, <3>2 DEF InOrder
    <3>. QED
      BY <1>1, <3>3
  <2>4. ASSUME NEW i \in DOMAIN f.called, en[f.called[i]] \in Types,
               NEW j \in DOMAIN g.typed, j > f.typedPosition
        PROVE  f.called[i] < g.typed[j]
    <3>1. g.typed[j] \in Nat /\ Ahead(f.typedPosition, g.typed, g.typed[j])
      <4>1. g.typed[j] \in Nat
        <5>1. g.typed \in Seq(Nat) /\ j \in DOMAIN g.typed
          BY <1>1, <2>4
        <5>. QED
          BY <5>1, EntryIsNumber
      <4>. QED
        BY <2>4, <4>1 DEF Ahead
    <3>2. Ahead(f.typedPosition, f.typed, g.typed[j]) \/ g.typed[j] > Len(en)
      BY <3>1 DEF LoopMoves
    <3>3. CASE Ahead(f.typedPosition, f.typed, g.typed[j])
      BY <2>1, <2>4, <3>3 DEF LoopCalled, Ahead
    <3>4. CASE g.typed[j] > Len(en)
      BY <1>2, <2>2, <3>1, <3>4
    <3>. QED
      BY <3>2, <3>3, <3>4
  <2>5. ASSUME NEW i \in DOMAIN f.called, en[f.called[i]] \notin Types,
               NEW j \in DOMAIN gh2, j > f.globalPosition
        PROVE  f.called[i] < gh2[j]
    <3>1. gh2[j] \in Nat /\ Ahead(f.globalPosition, gh2, gh2[j])
      <4>1. gh2[j] \in Nat
        BY <1>2, <2>5, EntryIsNumber
      <4>. QED
        BY <2>5, <4>1 DEF Ahead
    <3>2. Ahead(f.globalPosition, gh, gh2[j]) \/ gh2[j] > Len(en)
      BY <3>1 DEF LoopMoves
    <3>3. CASE Ahead(f.globalPosition, gh, gh2[j])
      <4>1. PICK k \in DOMAIN gh : k > f.globalPosition /\ gh[k] = gh2[j]
        BY <3>3 DEF Ahead
      <4>2. \A k1 \in DOMAIN gh :
              k1 > f.globalPosition => f.called[i] < gh[k1]
        BY <2>1, <2>5 DEF LoopCalled
      <4>. QED
        BY <4>1, <4>2
    <3>4. CASE gh2[j] > Len(en)
      BY <1>2, <2>2, <3>1, <3>4
    <3>. QED
      BY <3>2, <3>3, <3>4
  <2>6. \A i \in DOMAIN f.called : en[f.called[i]] \notin Types => f.globalPosition > 0
    BY <2>1 DEF LoopCalled
  <2>7. \A i \in DOMAIN f.called :
          f.called[i] \in DOMAIN en2 /\ en2[f.called[i]] = en[f.called[i]]
    BY <1>2, <2>2
  <2>. QED
    BY <1>1, <2>3, <2>4, <2>5, <2>6, <2>7 DEF LoopCalled
<1>5. LoopDue(g, th2, gh2, en2)
  <2> SUFFICES ASSUME NEW e \in f.due
               PROVE  /\ e \in DOMAIN en2
                      /\ en2[e] \in Types =>
                           \/ Holds(f.called, e)
                           \/ ~Holds(th2[f.event.type], e)
                           \/ /\ f.globalPosition = 0
                              /\ Ahead(f.typedPosition, g.typed, e)
                      /\ en2[e] \notin Types =>
                           \/ Holds(f.called, e)
                           \/ ~Holds(gh2, e)
                           \/ Ahead(f.globalPosition, gh2, e)
                           \/ g.skips
    BY <1>1 DEF LoopDue
  <2>1. /\ e \in DOMAIN en /\ e \in Nat
        /\ en[e] \in Types =>
             \/ Holds(f.called, e)
             \/ ~Holds(th[f.event.type], e)
             \/ f.globalPosition = 0 /\ Ahead(f.typedPosition, f.typed, e)
        /\ en[e] \notin Types =>
             \/ Holds(f.called, e)
             \/ ~Holds(gh, e)
             \/ Ahead(f.globalPosition, gh, e)
             \/ f.skips
    BY <1>1 DEF LoopOK, LoopDue
  <2>2. /\ Holds(th2[f.event.type], e) => Holds(th[f.event.type], e)
        /\ Holds(gh2, e) => Holds(gh, e)
    BY <1>1, <2>1 DEF HandlersMove
  <2>3. /\ Ahead(f.typedPosition, f.typed, e) => Ahead(f.typedPosition, g.typed, e)
        /\ ~g.skips /\ Ahead(f.globalPosition, gh, e) /\ Holds(gh2, e) =>
             Ahead(f.globalPosition, gh2, e)
    BY <2>1 DEF LoopMoves
  <2>. QED
    BY <1>1, <1>2, <2>1, <2>2, <2>3
<1>. QED
  BY <1>3, <1>4, <1>5 DEF LoopOK

LEMMA DuringKept ==
  ASSUME NEW th, NEW th2, NEW gh \in Seq(Nat), NEW gh2,
         NEW en \in Seq(Everywhere), NEW en2, NEW gone,
         NEW f \in PublishFrames, NEW g,
         HandlersMove(th, th2, gh, gh2, en, en2),
         LoopMoves(f, g, th2, gh, gh2, en, en2, gone),
         NEW r, r.subscriptions \cap gone = {},
         ReplayShape(r, en), ReplayDuring(r, f, gh)
  PROVE  ReplayShape(r, en2) /\ ReplayDuring(r, g, gh2)
<1>1. /\ g.event = f.event /\ g.called = f.called /\ g.kind = "publish"
      /\ g.globalPosition = f.globalPosition
      /\ f.skips => g.skips
  BY DEF LoopMoves, PublishFrames
<1>2. /\ \A e \in DOMAIN en : e \in DOMAIN en2 /\ en2[e] = en[e]
      /\ \A e \in DOMAIN en : e \in Nat
  BY DEF HandlersMove
<1>3. ReplayShape(r, en2)
  BY <1>2 DEF ReplayShape
<1>4. ASSUME ~r.failed, ~r.skips, ~g.skips, NEW e \in r.subscriptions
      PROVE  /\ Holds(gh2, e)
             /\ \/ /\ Holds(g.called, e)
                   /\ r.handled[e] = SubSeq(r.events, 1, r.next - 1)
                \/ /\ Ahead(g.globalPosition, gh2, e)
                   /\ r.handled[e] = SubSeq(r.events, 1, r.next - 2)
  <2>1. /\ Holds(gh, e)
        /\ \/ /\ Holds(f.called, e)
              /\ r.handled[e] = SubSeq(r.events, 1, r.next - 1)
           \/ /\ Ahead(f.globalPosition, gh, e)
              /\ r.handled[e] = SubSeq(r.events, 1, r.next - 2)
    BY <1>1, <1>4 DEF ReplayDuring
  <2>2. e \in DOMAIN en /\ en[e] = Replay /\ e \in Nat /\ e \notin gone
    BY <1>2 DEF ReplayShape
  <2>3. /\ Holds(gh2, e)
        /\ Ahead(f.globalPosition, gh, e) => Ahead(f.globalPosition, gh2, e)
    BY <1>4, <2>1, <2>2 DEF LoopMoves
  <2>. QED
    BY <1>1, <2>1, <2>3
<1>5. r.next > 1 /\ g.event = r.events[r.next - 1]
  BY <1>1 DEF ReplayDuring
<1>. QED
  BY <1>1, <1>3, <1>4, <1>5 DEF ReplayDuring

StackMoves(st, st2, th2, gh, gh2, en, en2, gone) ==
  /\ st2 \in Seq(Frames) /\ Len(st2) = Len(st)
  /\ \A k \in DOMAIN st :
       /\ st[k].kind = "publish" =>
            LoopMoves(st[k], st2[k], th2, gh, gh2, en, en2, gone)
       /\ st[k].kind = "replay" =>
            /\ st2[k] = st[k]
            /\ k # Len(st) => st[k].subscriptions \cap gone = {}

LEMMA StackKept ==
  ASSUME NEW th \in [Types -> Seq(Nat)], NEW th2, NEW gh \in Seq(Nat), NEW gh2,
         NEW en \in Seq(Everywhere), NEW en2, NEW gone,
         NEW st \in Seq(Frames), NEW st2,
         HandlersMove(th, th2, gh, gh2, en, en2),
         StackMoves(st, st2, th2, gh, gh2, en, en2, gone),
         StackOK(st, th, gh, en)
  PROVE  /\ \A k \in DOMAIN st :
              /\ st2[k].kind = st[k].kind
              /\ st2[k].kind = "publish" => LoopOK(st2[k], th2, gh2, en2)
              /\ st2[k].kind = "replay" =>
                   /\ ReplayShape(st2[k], en2)
                   /\ k # Len(st) => ReplayDuring(st2[k], st2[k + 1], gh2)
         /\ Apart(st2)
<1>1. /\ Len(st) \in Nat /\ DOMAIN st = 1..Len(st) /\ DOMAIN st2 = DOMAIN st
      /\ \A k \in DOMAIN st : st[k] \in Frames
  BY DEF StackMoves
<1>2. ASSUME NEW k \in DOMAIN st, st[k].kind = "publish"
      PROVE  st2[k].kind = "publish" /\ LoopOK(st2[k], th2, gh2, en2)
  <2>1. st[k] \in PublishFrames
    BY <1>1, <1>2, FrameKinds
  <2>2. LoopMoves(st[k], st2[k], th2, gh, gh2, en, en2, gone)
    BY <1>2 DEF StackMoves
  <2>3. st2[k].kind = "publish"
    BY <2>2 DEF LoopMoves, PublishFrames
  <2>4. LoopOK(st[k], th, gh, en)
    BY <1>2 DEF StackOK
  <2>. QED
    BY <2>1, <2>2, <2>3, <2>4, LoopKept
<1>3. ASSUME NEW k \in DOMAIN st, st[k].kind = "replay"
      PROVE  /\ st2[k] = st[k] /\ ReplayShape(st2[k], en2)
             /\ k # Len(st) => ReplayDuring(st2[k], st2[k + 1], gh2)
  <2>1. st2[k] = st[k]
    BY <1>3 DEF StackMoves
  <2>2. ReplayOK(st, k, gh, en)
    BY <1>3 DEF StackOK
  <2>3. ReplayShape(st[k], en2)
    <3>1. \A e \in DOMAIN en : e \in DOMAIN en2 /\ en2[e] = en[e]
      BY DEF HandlersMove
    <3>. QED
      BY <2>2, <3>1 DEF ReplayOK, ReplayShape
  <2>4. ASSUME k # Len(st) PROVE ReplayDuring(st[k], st2[k + 1], gh2)
    <3>1. k + 1 \in DOMAIN st
      BY <1>1, <2>4
    <3>2. ReplayShape(st[k], en) /\ ReplayDuring(st[k], st[k + 1], gh)
      BY <2>2, <2>4 DEF ReplayOK
    <3>3. st[k + 1].kind = "publish"
      BY <3>2 DEF ReplayDuring
    <3>4. st[k + 1] \in PublishFrames
      BY <1>1, <3>1, <3>3, FrameKinds
    <3>5. LoopMoves(st[k + 1], st2[k + 1], th2, gh, gh2, en, en2, gone)
      BY <3>1, <3>3 DEF StackMoves
    <3>6. st[k].subscriptions \cap gone = {}
      BY <1>3, <2>4 DEF StackMoves
    <3>. QED
      BY <3>2, <3>4, <3>5, <3>6, DuringKept
  <2>. QED
    BY <2>1, <2>3, <2>4
<1>4. \A k \in DOMAIN st : st[k].kind = "publish" \/ st[k].kind = "replay"
  BY <1>1, FrameKinds
<1>5. Apart(st2)
  <2>1. Apart(st)
    BY DEF StackOK
  <2>2. \A k \in DOMAIN st : st2[k].kind = "replay" =>
          st[k].kind = "replay" /\ st2[k] = st[k]
    BY <1>2, <1>3, <1>4
  <2>. QED
    BY <1>1, <2>1, <2>2 DEF Apart
<1>. QED
  BY <1>2, <1>3, <1>4, <1>5

WellTyped(st, th, gh, en) ==
  /\ th \in [Types -> Seq(Nat)] /\ gh \in Seq(Nat)
  /\ en \in Seq(Everywhere) /\ st \in Seq(Frames)

(* What a handler or a client does: it starts no replay and ends none.     *)
CallMoves(st, st2, th, th2, gh, gh2, en, en2) ==
  /\ HandlersMove(th, th2, gh, gh2, en, en2)
  /\ StackMoves(st, st2, th2, gh, gh2, en, en2, {})
  /\ st # <<>> => st[Len(st)].kind = "publish"
  /\ \A e \in DOMAIN en2 : e > Len(en) => en2[e] # Replay

LEMMA CallKept ==
  ASSUME NEW st, NEW st2, NEW th, NEW th2, NEW gh, NEW gh2, NEW en, NEW en2,
         CallMoves(st, st2, th, th2, gh, gh2, en, en2),
         WellTyped(st, th, gh, en), StackOK(st, th, gh, en)
  PROVE  WellTyped(st2, th2, gh2, en2) /\ StackOK(st2, th2, gh2, en2)
<1> USE DEF CallMoves, WellTyped
<1>1. /\ Len(st) \in Nat /\ DOMAIN st = 1..Len(st) /\ DOMAIN st2 = DOMAIN st
      /\ Len(st2) = Len(st)
      /\ \A k \in DOMAIN st : st[k] \in Frames
  BY DEF StackMoves
<1>2. /\ \A k \in DOMAIN st :
           /\ st2[k].kind = st[k].kind
           /\ st2[k].kind = "publish" => LoopOK(st2[k], th2, gh2, en2)
           /\ st2[k].kind = "replay" =>
                /\ ReplayShape(st2[k], en2)
                /\ k # Len(st) => ReplayDuring(st2[k], st2[k + 1], gh2)
      /\ Apart(st2)
  BY StackKept
<1>3. ASSUME NEW k \in DOMAIN st, st2[k].kind = "replay"
      PROVE  ReplayOK(st2, k, gh2, en2)
  <2>1. k # Len(st)
    <3>1. st # <<>>
      BY <1>1
    <3>2. st[k].kind = "replay"
      BY <1>2, <1>3
    <3>. QED
      BY <3>1, <3>2
  <2>. QED
    BY <1>1, <1>2, <1>3, <2>1 DEF ReplayOK
<1>4. NoneLeft(st2, gh2, en2)
  <2> SUFFICES ASSUME NEW i \in DOMAIN gh2, en2[gh2[i]] = Replay
               PROVE  \E k \in DOMAIN st2 : /\ st2[k].kind = "replay"
                                            /\ gh2[i] \in st2[k].subscriptions
    BY DEF NoneLeft
  <2>1. gh2[i] \in DOMAIN en2
    BY DEF HandlersMove, HandlersOK, GlobalListOK
  <2>2. gh2[i] \in DOMAIN en /\ en[gh2[i]] = Replay /\ Holds(gh, gh2[i])
    <3>1. /\ en \in Seq(Everywhere) /\ en2 \in Seq(Everywhere) /\ Len(en) <= Len(en2)
          /\ \A e \in DOMAIN en : /\ en2[e] = en[e]
                                  /\ Holds(gh2, e) => Holds(gh, e)
      BY DEF HandlersMove
    <3>2. gh2[i] \in DOMAIN en
      BY <2>1, <3>1
    <3>3. Holds(gh2, gh2[i])
      BY DEF Holds
    <3>. QED
      BY <3>1, <3>2, <3>3
  <2>3. PICK k \in DOMAIN st : st[k].kind = "replay" /\ gh2[i] \in st[k].subscriptions
    BY <2>2 DEF StackOK, NoneLeft, Holds
  <2>4. st2[k] = st[k]
    BY <2>3 DEF StackMoves
  <2>. QED
    BY <1>1, <2>3, <2>4
<1>5. HandlersOK(th2, gh2, en2)
  BY DEF HandlersMove
<1>6. StackOK(st2, th2, gh2, en2)
  BY <1>1, <1>2, <1>3, <1>4, <1>5 DEF StackOK
<1>. QED
  BY <1>6 DEF HandlersMove, StackMoves

-----------------------------------------------------------------------------
(* subscribe, subscribeAll, unsubscribe and clear keep the invariant *)

LEMMA AppendMoves ==
  ASSUME NEW list \in Seq(Nat), NEW x \in Nat
  PROVE  /\ Append(list, x) \in Seq(Nat)
         /\ Len(Append(list, x)) = Len(list) + 1
         /\ \A e : Holds(Append(list, x), e) <=> Holds(list, e) \/ e = x
         /\ \A e, p \in Nat : Ahead(p, list, e) => Ahead(p, Append(list, x), e)
         /\ \A e, p \in Nat :
              Ahead(p, Append(list, x), e) => Ahead(p, list, e) \/ e = x
         /\ Increasing(list) /\ (\A e \in Nat : Holds(list, e) => e < x) =>
              Increasing(Append(list, x))
<1> DEFINE more == Append(list, x)
<1>1. /\ more \in Seq(Nat) /\ Len(more) = Len(list) + 1 /\ Len(list) \in Nat
      /\ DOMAIN list = 1..Len(list) /\ DOMAIN more = 1..(Len(list) + 1)
      /\ \A i \in DOMAIN list : more[i] = list[i] /\ list[i] \in Nat
      /\ more[Len(list) + 1] = x
  OBVIOUS
<1> HIDE DEF more
<1>2. \A i \in DOMAIN more : i \in DOMAIN list \/ i = Len(list) + 1
  BY <1>1
<1>3. ASSUME NEW e PROVE Holds(more, e) <=> Holds(list, e) \/ e = x
  <2>1. Holds(more, e) => Holds(list, e) \/ e = x
    BY <1>1, <1>2 DEF Holds
  <2>2. Holds(list, e) => Holds(more, e)
    BY <1>1 DEF Holds
  <2>3. e = x => Holds(more, e)
    BY <1>1 DEF Holds
  <2>. QED
    BY <2>1, <2>2, <2>3
<1>4. \A e, p \in Nat : Ahead(p, list, e) => Ahead(p, more, e)
  BY <1>1 DEF Ahead
<1>5. \A e, p \in Nat : Ahead(p, more, e) => Ahead(p, list, e) \/ e = x
  BY <1>1, <1>2 DEF Ahead
<1>6. ASSUME Increasing(list), \A e \in Nat : Holds(list, e) => e < x
      PROVE  Increasing(more)
  <2> SUFFICES ASSUME NEW m \in DOMAIN more, NEW n \in DOMAIN more, m < n
               PROVE  more[m] < more[n]
    BY DEF Increasing
  <2>1. CASE n \in DOMAIN list
    <3>1. m \in DOMAIN list
      BY <1>1, <2>1
    <3>. QED
      BY <1>1, <1>6, <2>1, <3>1 DEF Increasing
  <2>2. CASE n = Len(list) + 1
    <3>1. m \in DOMAIN list
      BY <1>1, <2>2
    <3>2. Holds(list, list[m]) /\ list[m] \in Nat /\ more[m] = list[m]
      BY <1>1, <3>1 DEF Holds
    <3>. QED
      BY <1>1, <1>6, <2>2, <3>2
  <2>. QED
    BY <1>2, <2>1, <2>2
<1>. QED
  BY <1>1, <1>3, <1>4, <1>5, <1>6 DEF more

(* What en2 adds to the entries en leaves their lists in order.            *)
Adds(en, en2) ==
  Len(en) <= Len(en2) /\ \A e \in DOMAIN en : e \in DOMAIN en2 /\ en2[e] = en[e]

LEMMA AppendAdds ==
  ASSUME NEW en \in Seq(Everywhere), NEW type \in Everywhere
  PROVE  /\ Append(en, type) \in Seq(Everywhere)
         /\ Adds(en, Append(en, type))
         /\ Len(en) + 1 \in Nat /\ Len(en) + 1 \notin DOMAIN en
         /\ DOMAIN Append(en, type) = DOMAIN en \cup {Len(en) + 1}
         /\ Append(en, type)[Len(en) + 1] = type
         /\ \A e \in DOMAIN en : e \in Nat /\ e <= Len(en)
BY DEF Adds

LEMMA ListsGrow ==
  ASSUME NEW en, NEW en2, Adds(en, en2), NEW list
  PROVE  /\ \A type : TypedListOK(list, type, en) => TypedListOK(list, type, en2)
         /\ GlobalListOK(list, en) => GlobalListOK(list, en2)
BY DEF Adds, TypedListOK, GlobalListOK

LEMMA TypedListAppended ==
  ASSUME NEW en \in Seq(Everywhere), NEW type \in Everywhere, NEW list \in Seq(Nat),
         TypedListOK(list, type, en)
  PROVE  TypedListOK(Append(list, Len(en) + 1), type, Append(en, type))
<1> DEFINE x == Len(en) + 1
           more == Append(list, x)
           en2 == Append(en, type)
<1>1. /\ Adds(en, en2) /\ x \in Nat /\ en2[x] = type /\ x \in DOMAIN en2
      /\ \A e \in DOMAIN en : e \in Nat /\ e < x
  BY AppendAdds
<1> HIDE DEF x, en2
<1>2. /\ \A e : Holds(more, e) <=> Holds(list, e) \/ e = x
      /\ Increasing(list) /\ (\A e \in Nat : Holds(list, e) => e < x) =>
           Increasing(more)
  BY <1>1, AppendMoves
<1>3. \A e : Holds(list, e) => e \in DOMAIN en /\ en[e] = type
  BY DEF TypedListOK, Holds
<1>4. Increasing(more)
  BY <1>1, <1>2, <1>3 DEF TypedListOK
<1>5. \A e : Holds(more, e) => e \in DOMAIN en2 /\ en2[e] = type
  BY <1>1, <1>2, <1>3 DEF Adds
<1> HIDE DEF more
<1>6. TypedListOK(more, type, en2)
  BY <1>4, <1>5 DEF TypedListOK, Holds
<1>. QED
  BY <1>6 DEF x, more, en2

(* A loop's array stays as it is.                                          *)
LEMMA LoopTypedStays ==
  ASSUME NEW f, NEW th, NEW th2, NEW en, NEW en2, Adds(en, en2),
         LoopTyped(f, th, en),
         f.live => th2[f.event.type] = th[f.event.type]
  PROVE  LoopTyped(f, th2, en2)
BY ListsGrow DEF LoopTyped

(* The frames of a stack, each one changed.                                *)
LEMMA FramesChanged ==
  ASSUME NEW st \in Seq(Frames), NEW st2, DOMAIN st2 = DOMAIN st,
         st2 = [k \in DOMAIN st2 |-> st2[k]],
         \A k \in DOMAIN st : st2[k] \in Frames
  PROVE  st2 \in Seq(Frames) /\ Len(st2) = Len(st)
<1>1. Len(st) \in Nat /\ DOMAIN st = 1..Len(st)
  OBVIOUS
<1>. QED
  BY <1>1

LEMMA PublishIsFrame ==
  PublishFrames \subseteq Frames
BY DEF Frames

(* Whoever may call is a client or a handler that a publish has called.    *)
LEMMA CallerPublishes ==
  ASSUME CanCall, stack # <<>>
  PROVE  stack[Len(stack)].kind = "publish"
BY DEF CanCall, Publishing, Top

LEMMA BusInvByCall ==
  ASSUME BusInv,
         CallMoves(stack, stack', typedHandlers, typedHandlers', globalHandlers,
                   globalHandlers', entries, entries')
  PROVE  BusInv'
<1>1. /\ WellTyped(stack, typedHandlers, globalHandlers, entries)
      /\ StackOK(stack, typedHandlers, globalHandlers, entries)
  BY DEF BusInv, TypeOK, WellTyped
<1>2. /\ WellTyped(stack', typedHandlers', globalHandlers', entries')
      /\ StackOK(stack', typedHandlers', globalHandlers', entries')
  BY <1>1, CallKept
<1>. QED
  BY <1>2 DEF BusInv, TypeOK, WellTyped

LEMMA SubscribeStep ==
  ASSUME BusInv, NEW type \in Types, Subscribe(type)
  PROVE  BusInv'
<1> DEFINE x == Len(entries) + 1
           Push(f) == IF f.live /\ f.event.type = type
                      THEN [f EXCEPT !.typed = Append(@, x)] ELSE f
<1>1. /\ typedHandlers \in [Types -> Seq(Nat)] /\ globalHandlers \in Seq(Nat)
      /\ entries \in Seq(Everywhere) /\ stack \in Seq(Frames)
      /\ StackOK(stack, typedHandlers, globalHandlers, entries)
      /\ type \in Everywhere
  BY DEF BusInv, TypeOK, Everywhere
<1>2. /\ CanCall
      /\ entries' = Append(entries, type)
      /\ typedHandlers' = [typedHandlers EXCEPT ![type] = Append(@, x)]
      /\ globalHandlers' = globalHandlers
      /\ stack' = [k \in DOMAIN stack |-> IF stack[k].kind = "publish"
                                          THEN Push(stack[k]) ELSE stack[k]]
  BY DEF Subscribe, NewEntry, InPublishes
<1>3. /\ entries' \in Seq(Everywhere) /\ Adds(entries, entries')
      /\ x \in Nat /\ x > Len(entries)
      /\ \A e \in DOMAIN entries : e \in Nat /\ e # x
      /\ \A e \in DOMAIN entries' : e > Len(entries) => entries'[e] = type
  BY <1>1, <1>2, AppendAdds
<1>4. /\ typedHandlers' \in [Types -> Seq(Nat)]
      /\ typedHandlers'[type] = Append(typedHandlers[type], x)
      /\ \A t \in Types : t # type => typedHandlers'[t] = typedHandlers[t]
  BY <1>1, <1>2, <1>3
<1>5. HandlersOK(typedHandlers, globalHandlers, entries)
  BY <1>1 DEF StackOK
<1>6. HandlersMove(typedHandlers, typedHandlers', globalHandlers, globalHandlers',
                   entries, entries')
  <2>1. ASSUME NEW e \in DOMAIN entries, NEW t \in Types, Holds(typedHandlers'[t], e)
        PROVE  Holds(typedHandlers[t], e)
    <3>1. CASE t = type
      <4>1. typedHandlers[type] \in Seq(Nat)
        BY <1>1
      <4>2. Holds(Append(typedHandlers[type], x), e) => Holds(typedHandlers[type], e)
        BY <1>3, <4>1, AppendMoves
      <4>. QED
        BY <1>4, <2>1, <3>1, <4>2
    <3>2. CASE t # type
      BY <1>4, <2>1, <3>2
    <3>. QED
      BY <3>1, <3>2
  <2>2. TypedListOK(typedHandlers'[type], type, entries')
    <3>1. typedHandlers[type] \in Seq(Nat) /\ TypedListOK(typedHandlers[type], type, entries)
      BY <1>1, <1>5 DEF HandlersOK
    <3>. QED
      BY <1>1, <1>2, <1>4, <3>1, TypedListAppended
  <2>3. HandlersOK(typedHandlers', globalHandlers', entries')
    BY <1>2, <1>3, <1>4, <1>5, <2>2, ListsGrow DEF HandlersOK
  <2>. QED
    BY <1>1, <1>2, <1>3, <1>4, <2>1, <2>3 DEF HandlersMove, Adds
<1>7. ASSUME NEW k \in DOMAIN stack, stack[k].kind = "publish"
      PROVE  LoopMoves(stack[k], stack'[k], typedHandlers', globalHandlers,
                       globalHandlers', entries, entries', {})
  <2> DEFINE f == stack[k]
             g == stack'[k]
  <2>1. f \in PublishFrames
    BY <1>1, <1>7, FrameKinds
  <2>2. g = Push(f)
    BY <1>2, <1>7
  <2>3. /\ f.typed \in Seq(Nat) /\ f.event.type \in Types
        /\ f.typedPosition \in Nat /\ f.globalPosition \in Nat
    BY <2>1 DEF PublishFrames, BacktestEvent
  <2>4. LoopTyped(f, typedHandlers, entries)
    BY <1>1, <1>7 DEF StackOK, LoopOK
  <2> HIDE DEF f, g
  <2>5. CASE f.live /\ f.event.type = type
    <3>1. g = [f EXCEPT !.typed = Append(f.typed, x)]
      BY <2>2, <2>5
    <3>2. Append(f.typed, x) \in Seq(Nat) /\ Len(Append(f.typed, x)) = Len(f.typed) + 1
      BY <1>3, <2>3
    <3>3. /\ g \in PublishFrames
          /\ g.event = f.event /\ g.called = f.called /\ g.due = f.due
          /\ g.typedPosition = f.typedPosition /\ g.globalPosition = f.globalPosition
          /\ g.skips = f.skips /\ g.typed = Append(f.typed, x)
      BY <2>1, <3>1, <3>2 DEF PublishFrames
    <3>4. LoopTyped(g, typedHandlers', entries')
      <4>1. TypedListOK(Append(f.typed, x), type, entries')
        BY <1>1, <1>2, <2>3, <2>4, <2>5, TypedListAppended DEF LoopTyped
      <4>2. g.typedPosition <= Len(g.typed)
        BY <2>3, <2>4, <3>2, <3>3 DEF LoopTyped
      <4>3. g.typed = typedHandlers'[g.event.type]
        BY <1>4, <2>4, <2>5, <3>3 DEF LoopTyped
      <4>. QED
        BY <2>5, <3>3, <4>1, <4>2, <4>3 DEF LoopTyped
    <3>5. \A e \in Nat :
            /\ Ahead(f.typedPosition, f.typed, e) => Ahead(f.typedPosition, g.typed, e)
            /\ Ahead(f.typedPosition, g.typed, e) =>
                 Ahead(f.typedPosition, f.typed, e) \/ e > Len(entries)
      BY <1>3, <2>3, <3>3, AppendMoves
    <3>. QED
      BY <1>2, <3>3, <3>4, <3>5 DEF LoopMoves, f, g
  <2>6. CASE ~(f.live /\ f.event.type = type)
    <3>1. g = f
      BY <2>2, <2>6
    <3>2. LoopTyped(f, typedHandlers', entries')
      BY <1>3, <1>4, <2>3, <2>4, <2>6, LoopTypedStays
    <3>. QED
      BY <1>2, <2>1, <3>1, <3>2 DEF LoopMoves, f, g
  <2>. QED
    BY <2>5, <2>6
<1>8. StackMoves(stack, stack', typedHandlers', globalHandlers, globalHandlers',
                 entries, entries', {})
  <2>1. ASSUME NEW k \in DOMAIN stack PROVE stack'[k] \in Frames
    <3>1. CASE stack[k].kind = "publish"
      BY <1>7, <3>1, PublishIsFrame DEF LoopMoves
    <3>2. CASE stack[k].kind # "publish"
      BY <1>1, <1>2, <3>2
    <3>. QED
      BY <3>1, <3>2
  <2>2. stack' \in Seq(Frames) /\ Len(stack') = Len(stack)
    BY <1>1, <1>2, <2>1, FramesChanged
  <2>. QED
    BY <1>2, <1>7, <2>2 DEF StackMoves
<1>9. CallMoves(stack, stack', typedHandlers, typedHandlers', globalHandlers,
                globalHandlers', entries, entries')
  <2>1. \A e \in DOMAIN entries' : e > Len(entries) => entries'[e] # Replay
    BY <1>3, ReplayAssumption
  <2>2. stack # <<>> => stack[Len(stack)].kind = "publish"
    BY <1>2, CallerPublishes
  <2>. QED
    BY <1>6, <1>8, <2>1, <2>2 DEF CallMoves
<1>. QED
  BY <1>9, BusInvByCall

(* Global handlers join behind those there are.                            *)
LEMMA JoinMoves ==
  ASSUME NEW st, NEW th, NEW gh, NEW en,
         WellTyped(st, th, gh, en), StackOK(st, th, gh, en),
         NEW en2 \in Seq(Everywhere), Adds(en, en2),
         NEW new \in Seq(Nat), Increasing(new),
         \A e \in Nat : Holds(new, e) =>
           e > Len(en) /\ e \in DOMAIN en2 /\ en2[e] \notin Types
  PROVE  /\ HandlersMove(th, th, gh, gh \o new, en, en2)
         /\ StackMoves(st, st, th, gh, gh \o new, en, en2, {})
<1> DEFINE gh2 == gh \o new
<1>1. /\ th \in [Types -> Seq(Nat)] /\ gh \in Seq(Nat)
      /\ en \in Seq(Everywhere) /\ st \in Seq(Frames)
      /\ \A e \in DOMAIN en : e \in Nat /\ e <= Len(en)
  BY DEF WellTyped
<1>2. HandlersOK(th, gh, en)
  BY DEF StackOK
<1>3. /\ gh2 \in Seq(Nat)
      /\ \A e : Holds(gh2, e) <=> Holds(gh, e) \/ Holds(new, e)
      /\ \A e, p \in Nat : Ahead(p, gh, e) => Ahead(p, gh2, e)
      /\ \A e, p \in Nat : Ahead(p, gh2, e) => Ahead(p, gh, e) \/ Holds(new, e)
  BY <1>1, ConcatMoves
<1>4. \A e : Holds(gh, e) => e \in DOMAIN en /\ en[e] \notin Types
  BY <1>2 DEF HandlersOK, GlobalListOK, Holds
<1>5. \A e : Holds(new, e) => e \in Nat
  BY DEF Holds
<1>6. GlobalListOK(gh2, en2)
  <2>1. \A d, e \in Nat : Holds(gh, d) /\ Holds(new, e) => d < e
    <3> SUFFICES ASSUME NEW d \in Nat, NEW e \in Nat, Holds(gh, d), Holds(new, e)
                 PROVE  d < e
      OBVIOUS
    <3>1. d <= Len(en) /\ e > Len(en) /\ Len(en) \in Nat
      BY <1>1, <1>4
    <3>. QED
      BY <3>1
  <2>2. Increasing(gh2)
    BY <1>1, <1>2, <2>1, ConcatIncreases DEF HandlersOK, GlobalListOK
  <2>3. \A e : Holds(gh2, e) => e \in DOMAIN en2 /\ en2[e] \notin Types
    BY <1>3, <1>4, <1>5 DEF Adds
  <2> HIDE DEF gh2
  <2>. QED
    BY <2>2, <2>3 DEF GlobalListOK, Holds
<1> HIDE DEF gh2
<1>7. HandlersMove(th, th, gh, gh2, en, en2)
  <2>1. \A e \in DOMAIN en : Holds(gh2, e) => Holds(gh, e)
    <3> SUFFICES ASSUME NEW e \in DOMAIN en, Holds(new, e) PROVE FALSE
      BY <1>3
    <3>1. e \in Nat /\ e <= Len(en) /\ e > Len(en) /\ Len(en) \in Nat
      BY <1>1
    <3>. QED
      BY <3>1
  <2>2. \A type \in Types : TypedListOK(th[type], type, en2)
    BY <1>2, ListsGrow DEF HandlersOK
  <2>. QED
    BY <1>1, <1>3, <1>6, <2>1, <2>2 DEF HandlersMove, HandlersOK, Adds
<1>8. ASSUME NEW k \in DOMAIN st, st[k].kind = "publish"
      PROVE  LoopMoves(st[k], st[k], th, gh, gh2, en, en2, {})
  <2> DEFINE f == st[k]
  <2>1. f \in PublishFrames
    BY <1>1, <1>8, FrameKinds
  <2>2. f.globalPosition \in Nat
    BY <2>1 DEF PublishFrames
  <2>3. LoopTyped(f, th, en2)
    BY <1>8, LoopTypedStays DEF StackOK, LoopOK
  <2> HIDE DEF f
  <2>4. \A e \in Nat :
          /\ Ahead(f.globalPosition, gh, e) => Ahead(f.globalPosition, gh2, e)
          /\ Ahead(f.globalPosition, gh2, e) =>
               Ahead(f.globalPosition, gh, e) \/ e > Len(en)
          /\ Holds(gh, e) => Holds(gh2, e)
    BY <1>3, <2>2
  <2>. QED
    BY <2>1, <2>3, <2>4 DEF LoopMoves, f
<1>. QED
  BY <1>1, <1>7, <1>8 DEF StackMoves, gh2

LEMMA SubscribeAllStep ==
  ASSUME BusInv, SubscribeAll
  PROVE  BusInv'
<1> DEFINE x == Len(entries) + 1
<1>1. /\ WellTyped(stack, typedHandlers, globalHandlers, entries)
      /\ StackOK(stack, typedHandlers, globalHandlers, entries)
  BY DEF BusInv, TypeOK, WellTyped
<1>2. /\ CanCall
      /\ entries' = Append(entries, All)
      /\ globalHandlers' = globalHandlers \o <<x>>
      /\ typedHandlers' = typedHandlers /\ stack' = stack
  BY DEF SubscribeAll, PushedLast, NewEntry
<1>3. /\ entries' \in Seq(Everywhere) /\ Adds(entries, entries')
      /\ x \in Nat /\ x > Len(entries) /\ x \in DOMAIN entries'
      /\ entries'[x] = All
      /\ \A e \in DOMAIN entries' : e > Len(entries) => entries'[e] = All
  <2>1. entries \in Seq(Everywhere) /\ All \in Everywhere
    BY <1>1 DEF WellTyped, Everywhere
  <2>. QED
    BY <1>2, <2>1, AppendAdds
<1> HIDE DEF x
<1>4. <<x>> \in Seq(Nat) /\ Increasing(<<x>>) /\ (\A e : Holds(<<x>>, e) => e = x)
  BY <1>3 DEF Increasing, Holds
<1>5. /\ HandlersMove(typedHandlers, typedHandlers, globalHandlers,
                      globalHandlers \o <<x>>, entries, entries')
      /\ StackMoves(stack, stack, typedHandlers, globalHandlers,
                    globalHandlers \o <<x>>, entries, entries', {})
  BY <1>1, <1>3, <1>4, JoinMoves, TypesAssumption
<1>6. CallMoves(stack, stack', typedHandlers, typedHandlers', globalHandlers,
                globalHandlers', entries, entries')
  <2>1. \A e \in DOMAIN entries' : e > Len(entries) => entries'[e] # Replay
    BY <1>3 DEF All, Replay
  <2>2. stack # <<>> => stack[Len(stack)].kind = "publish"
    BY <1>2, CallerPublishes
  <2>. QED
    BY <1>2, <1>5, <2>1, <2>2 DEF CallMoves
<1>. QED
  BY <1>6, BusInvByCall

LEMMA AddsNothing ==
  ASSUME NEW en
  PROVE  en \in Seq(Everywhere) => Adds(en, en)
BY DEF Adds

(* A list from which handlers go is still a list of its kind.              *)
LEMMA WithoutListOK ==
  ASSUME NEW list \in Seq(Nat), NEW gone, NEW en, NEW type
  PROVE  /\ TypedListOK(list, type, en) => TypedListOK(Without(list, gone), type, en)
         /\ GlobalListOK(list, en) => GlobalListOK(Without(list, gone), en)
<1> DEFINE kept == Without(list, gone)
<1>1. /\ Increasing(list) => Increasing(kept)
      /\ \A e : Holds(kept, e) => Holds(list, e)
  BY WithoutMoves
<1> HIDE DEF kept
<1>2. \A i \in DOMAIN kept : \E j \in DOMAIN list : list[j] = kept[i]
  BY <1>1 DEF Holds
<1>3. TypedListOK(list, type, en) => TypedListOK(kept, type, en)
  BY <1>1, <1>2 DEF TypedListOK
<1>4. GlobalListOK(list, en) => GlobalListOK(kept, en)
  BY <1>1, <1>2 DEF GlobalListOK
<1>. QED
  BY <1>3, <1>4 DEF kept

LEMMA UnsubscribeTypedStep ==
  ASSUME BusInv, NEW entry \in DOMAIN entries, UnsubscribeTyped(entry)
  PROVE  BusInv'
<1> DEFINE type == entries[entry]
           Filter(f) == IF f.live /\ f.event.type = type
                        THEN [f EXCEPT !.live = FALSE] ELSE f
<1>1. /\ WellTyped(stack, typedHandlers, globalHandlers, entries)
      /\ StackOK(stack, typedHandlers, globalHandlers, entries)
  BY DEF BusInv, TypeOK, WellTyped
<1>2. /\ CanCall /\ type \in Types
      /\ typedHandlers' = [typedHandlers EXCEPT ![type] = Without(@, {entry})]
      /\ globalHandlers' = globalHandlers /\ entries' = entries
      /\ stack' = [k \in DOMAIN stack |-> IF stack[k].kind = "publish"
                                          THEN Filter(stack[k]) ELSE stack[k]]
  BY DEF UnsubscribeTyped, InPublishes, FilteredTyped
<1>3. /\ typedHandlers \in [Types -> Seq(Nat)] /\ globalHandlers \in Seq(Nat)
      /\ entries \in Seq(Everywhere) /\ stack \in Seq(Frames)
      /\ typedHandlers[type] \in Seq(Nat)
      /\ Adds(entries, entries)
  BY <1>1, <1>2, AddsNothing DEF WellTyped
<1> HIDE DEF type
<1>4. /\ typedHandlers' \in [Types -> Seq(Nat)]
      /\ typedHandlers'[type] = Without(typedHandlers[type], {entry})
      /\ \A t \in Types : t # type => typedHandlers'[t] = typedHandlers[t]
  <2>1. Without(typedHandlers[type], {entry}) \in Seq(Nat)
    BY <1>3, WithoutMoves
  <2>. QED
    BY <1>2, <1>3, <2>1
<1>5. HandlersOK(typedHandlers, globalHandlers, entries)
  BY <1>1 DEF StackOK
<1>6. HandlersMove(typedHandlers, typedHandlers', globalHandlers, globalHandlers',
                   entries, entries')
  <2>1. ASSUME NEW e, NEW t \in Types, Holds(typedHandlers'[t], e)
        PROVE  Holds(typedHandlers[t], e)
    <3>1. Holds(Without(typedHandlers[type], {entry}), e) => Holds(typedHandlers[type], e)
      BY <1>3, WithoutMoves
    <3>. QED
      BY <1>4, <2>1, <3>1
  <2>2. TypedListOK(typedHandlers'[type], type, entries)
    BY <1>2, <1>3, <1>4, <1>5, WithoutListOK DEF HandlersOK
  <2>3. HandlersOK(typedHandlers', globalHandlers', entries')
    BY <1>2, <1>4, <1>5, <2>2 DEF HandlersOK
  <2>4. /\ globalHandlers' = globalHandlers /\ entries' = entries
        /\ Len(entries) <= Len(entries)
    BY <1>2, <1>3
  <2>5. typedHandlers' \in [Types -> Seq(Nat)]
    BY <1>4
  <2>6. globalHandlers \in Seq(Nat) /\ entries \in Seq(Everywhere)
    BY <1>3
  <2>. QED
    BY ONLY <2>1, <2>3, <2>4, <2>5, <2>6 DEF HandlersMove
<1>7. ASSUME NEW k \in DOMAIN stack, stack[k].kind = "publish"
      PROVE  LoopMoves(stack[k], stack'[k], typedHandlers', globalHandlers,
                       globalHandlers', entries, entries', {})
  <2> DEFINE f == stack[k]
             g == stack'[k]
  <2>1. f \in PublishFrames /\ f.event.type \in Types
    <3>1. f \in PublishFrames
      BY <1>3, <1>7, FrameKinds
    <3>. QED
      BY <3>1 DEF PublishFrames, BacktestEvent
  <2>2. g = Filter(f)
    BY <1>2, <1>7
  <2>3. LoopTyped(f, typedHandlers, entries)
    BY <1>1, <1>7 DEF StackOK, LoopOK
  <2> HIDE DEF f, g
  <2>4. /\ g \in PublishFrames
        /\ g.event = f.event /\ g.called = f.called /\ g.due = f.due
        /\ g.typedPosition = f.typedPosition /\ g.globalPosition = f.globalPosition
        /\ g.skips = f.skips /\ g.typed = f.typed
        /\ g.live => f.live /\ f.event.type # type
    <3>1. CASE f.live /\ f.event.type = type
      <4>1. g = [f EXCEPT !.live = FALSE]
        BY <2>2, <3>1
      <4>. QED
        BY <2>1, <4>1 DEF PublishFrames
    <3>2. CASE ~(f.live /\ f.event.type = type)
      <4>1. g = f
        BY <2>2, <3>2
      <4>. QED
        BY <2>1, <3>2, <4>1
    <3>. QED
      BY <3>1, <3>2
  <2>5. LoopTyped(g, typedHandlers', entries')
    BY <1>2, <1>4, <2>1, <2>3, <2>4 DEF LoopTyped
  <2>. QED
    BY <1>2, <2>4, <2>5 DEF LoopMoves, f, g
<1>8. StackMoves(stack, stack', typedHandlers', globalHandlers, globalHandlers',
                 entries, entries', {})
  <2>1. ASSUME NEW k \in DOMAIN stack PROVE stack'[k] \in Frames
    <3>1. CASE stack[k].kind = "publish"
      BY <1>7, <3>1, PublishIsFrame DEF LoopMoves
    <3>2. CASE stack[k].kind # "publish"
      BY <1>2, <1>3, <3>2
    <3>. QED
      BY <3>1, <3>2
  <2>2. stack' \in Seq(Frames) /\ Len(stack') = Len(stack)
    BY <1>2, <1>3, <2>1, FramesChanged
  <2>. QED
    BY <1>2, <1>7, <2>2 DEF StackMoves
<1>9. CallMoves(stack, stack', typedHandlers, typedHandlers', globalHandlers,
                globalHandlers', entries, entries')
  <2>1. \A e \in DOMAIN entries : ~(e > Len(entries))
    BY <1>3
  <2>2. stack # <<>> => stack[Len(stack)].kind = "publish"
    BY <1>2, CallerPublishes
  <2>. QED
    BY <1>2, <1>6, <1>8, <2>1, <2>2 DEF CallMoves
<1>. QED
  BY <1>9, BusInvByCall

(* Global handlers go, and a loop that had come to one of them may skip.   *)
LEMMA RemoveMoves ==
  ASSUME NEW st, NEW st2, NEW th, NEW gh, NEW en,
         WellTyped(st, th, gh, en), StackOK(st, th, gh, en),
         NEW removed, NEW gone,
         \A e \in removed : en[e] = Replay => e \in gone,
         DOMAIN st2 = DOMAIN st, st2 = [k \in DOMAIN st2 |-> st2[k]],
         \A k \in DOMAIN st :
           /\ st[k].kind = "publish" =>
                /\ st2[k] = [st[k] EXCEPT !.skips = st2[k].skips]
                /\ st2[k].skips \in BOOLEAN
                /\ st[k].skips => st2[k].skips
                /\ ~st2[k].skips =>
                     \A i \in 1..st[k].globalPosition :
                       i \in DOMAIN gh => gh[i] \notin removed
           /\ st[k].kind # "publish" =>
                /\ st2[k] = st[k]
                /\ k # Len(st) => st[k].subscriptions \cap gone = {}
  PROVE  /\ HandlersMove(th, th, gh, Without(gh, removed), en, en)
         /\ StackMoves(st, st2, th, gh, Without(gh, removed), en, en, gone)
<1> DEFINE gh2 == Without(gh, removed)
<1>1. /\ th \in [Types -> Seq(Nat)] /\ gh \in Seq(Nat)
      /\ en \in Seq(Everywhere) /\ st \in Seq(Frames)
  BY DEF WellTyped
<1>2. /\ gh2 \in Seq(Nat)
      /\ \A e : Holds(gh2, e) => Holds(gh, e) /\ e \notin removed
      /\ \A e : Holds(gh, e) /\ e \notin removed => Holds(gh2, e)
      /\ \A e, p \in Nat : Ahead(p, gh2, e) => Ahead(p, gh, e)
      /\ \A e, p \in Nat :
           /\ Ahead(p, gh, e) /\ e \notin removed
           /\ \A i \in 1..p : i \in DOMAIN gh => gh[i] \notin removed
           => Ahead(p, gh2, e)
  BY <1>1, WithoutMoves
<1>3. HandlersOK(th, gh2, en)
  BY <1>1, WithoutListOK DEF StackOK, HandlersOK
<1> HIDE DEF gh2
<1>4. HandlersMove(th, th, gh, gh2, en, en)
  BY <1>1, <1>2, <1>3 DEF HandlersMove
<1>5. ASSUME NEW k \in DOMAIN st, st[k].kind = "publish"
      PROVE  LoopMoves(st[k], st2[k], th, gh, gh2, en, en, gone)
  <2> DEFINE f == st[k]
             g == st2[k]
  <2>1. f \in PublishFrames
    BY <1>1, <1>5, FrameKinds
  <2>2. LoopTyped(f, th, en)
    BY <1>5 DEF StackOK, LoopOK
  <2>3. /\ g = [f EXCEPT !.skips = g.skips] /\ g.skips \in BOOLEAN
        /\ f.skips => g.skips
        /\ ~g.skips => \A i \in 1..f.globalPosition :
                         i \in DOMAIN gh => gh[i] \notin removed
    BY <1>5
  <2> HIDE DEF f, g
  <2>4. /\ g \in PublishFrames
        /\ g.event = f.event /\ g.called = f.called /\ g.due = f.due
        /\ g.typedPosition = f.typedPosition /\ g.globalPosition = f.globalPosition
        /\ g.typed = f.typed /\ g.live = f.live /\ f.globalPosition \in Nat
    BY <2>1, <2>3 DEF PublishFrames
  <2>5. LoopTyped(g, th, en)
    BY <2>2, <2>4 DEF LoopTyped
  <2>6. ASSUME NEW e \in Nat
        PROVE  /\ Ahead(f.globalPosition, gh2, e) => Ahead(f.globalPosition, gh, e)
               /\ ~g.skips =>
                    /\ Ahead(f.globalPosition, gh, e) /\ Holds(gh2, e) =>
                         Ahead(f.globalPosition, gh2, e)
                    /\ Holds(gh, e) /\ e \in DOMAIN en /\ en[e] = Replay /\ e \notin gone
                         => Holds(gh2, e)
    BY <1>2, <2>3, <2>4
  <2>. QED
    BY <2>3, <2>4, <2>5, <2>6 DEF LoopMoves, f, g
<1>6. \A k \in DOMAIN st : st2[k] \in Frames
  <2> SUFFICES ASSUME NEW k \in DOMAIN st PROVE st2[k] \in Frames
    OBVIOUS
  <2>1. CASE st[k].kind = "publish"
    BY <1>5, <2>1, PublishIsFrame DEF LoopMoves
  <2>2. CASE st[k].kind # "publish"
    BY <1>1, <2>2
  <2>. QED
    BY <2>1, <2>2
<1>7. st2 \in Seq(Frames) /\ Len(st2) = Len(st)
  BY <1>1, <1>6, FramesChanged
<1>8. StackMoves(st, st2, th, gh, gh2, en, en, gone)
  BY <1>5, <1>7 DEF StackMoves
<1>. QED
  BY <1>4, <1>8 DEF gh2

LEMMA UnsubscribeGlobalStep ==
  ASSUME BusInv, NEW entry \in DOMAIN entries, UnsubscribeGlobal(entry)
  PROVE  BusInv'
<1> DEFINE Passed(f) == [f EXCEPT !.skips = @ \/ PassedBy(f, entry)]
<1>1. /\ WellTyped(stack, typedHandlers, globalHandlers, entries)
      /\ StackOK(stack, typedHandlers, globalHandlers, entries)
  BY DEF BusInv, TypeOK, WellTyped
<1>2. /\ CanCall /\ entries[entry] = All
      /\ globalHandlers' = Without(globalHandlers, {entry})
      /\ stack' = [k \in DOMAIN stack |-> IF stack[k].kind = "publish"
                                          THEN Passed(stack[k]) ELSE stack[k]]
      /\ typedHandlers' = typedHandlers /\ entries' = entries
  BY DEF UnsubscribeGlobal, InPublishes
<1>3. ASSUME NEW k \in DOMAIN stack, stack[k].kind = "publish"
      PROVE  /\ stack'[k] = [stack[k] EXCEPT !.skips = stack'[k].skips]
             /\ stack'[k].skips \in BOOLEAN
             /\ stack[k].skips => stack'[k].skips
             /\ ~stack'[k].skips =>
                  \A i \in 1..stack[k].globalPosition :
                    i \in DOMAIN globalHandlers => globalHandlers[i] \notin {entry}
  <2>1. stack[k] \in PublishFrames
    BY <1>1, <1>3, FrameKinds DEF WellTyped
  <2> DEFINE f == stack[k]
             passed == PassedBy(f, entry)
  <2>2. stack'[k] = [f EXCEPT !.skips = f.skips \/ passed]
    BY <1>2, <1>3
  <2>3. /\ passed \in BOOLEAN
        /\ ~passed => \A i \in 1..f.globalPosition :
                        i \in DOMAIN globalHandlers => globalHandlers[i] # entry
    BY DEF PassedBy
  <2> HIDE DEF passed
  <2>4. stack'[k].skips = (f.skips \/ passed) /\ f.skips \in BOOLEAN
    BY <2>1, <2>2 DEF PublishFrames
  <2>. QED
    BY <2>2, <2>3, <2>4
<1>4. \A e \in {entry} : entries[e] = Replay => e \in {}
  BY <1>2 DEF All, Replay
<1>5. /\ DOMAIN stack' = DOMAIN stack /\ stack' = [k \in DOMAIN stack' |-> stack'[k]]
      /\ \A k \in DOMAIN stack : stack[k].kind # "publish" => stack'[k] = stack[k]
  BY <1>2
<1>6. \A k \in DOMAIN stack : stack[k].subscriptions \cap {} = {}
  OBVIOUS
<1>7. /\ HandlersMove(typedHandlers, typedHandlers, globalHandlers,
                      Without(globalHandlers, {entry}), entries, entries)
      /\ StackMoves(stack, stack', typedHandlers, globalHandlers,
                    Without(globalHandlers, {entry}), entries, entries, {})
  BY <1>1, <1>3, <1>4, <1>5, <1>6, RemoveMoves
<1>8. CallMoves(stack, stack', typedHandlers, typedHandlers', globalHandlers,
                globalHandlers', entries, entries')
  <2>1. \A e \in DOMAIN entries : ~(e > Len(entries))
    BY <1>1 DEF WellTyped
  <2>2. stack # <<>> => stack[Len(stack)].kind = "publish"
    BY <1>2, CallerPublishes
  <2>. QED
    BY <1>2, <1>7, <2>1, <2>2 DEF CallMoves
<1>. QED
  BY <1>8, BusInvByCall

LEMMA ClearStep ==
  ASSUME BusInv, Clear
  PROVE  BusInv'
<1> DEFINE Cleared(f) == [f EXCEPT !.live = FALSE, !.skips = TRUE]
<1>1. /\ WellTyped(stack, typedHandlers, globalHandlers, entries)
      /\ StackOK(stack, typedHandlers, globalHandlers, entries)
  BY DEF BusInv, TypeOK, WellTyped
<1>2. /\ CanCall
      /\ typedHandlers' = [type \in Types |-> <<>>] /\ globalHandlers' = <<>>
      /\ stack' = [k \in DOMAIN stack |-> IF stack[k].kind = "publish"
                                          THEN Cleared(stack[k]) ELSE stack[k]]
      /\ entries' = entries
  BY DEF Clear, InPublishes
<1>3. /\ entries \in Seq(Everywhere) /\ stack \in Seq(Frames)
      /\ Len(entries) <= Len(entries)
      /\ \A e \in DOMAIN entries : ~(e > Len(entries))
  BY <1>1 DEF WellTyped
<1>4. /\ typedHandlers' \in [Types -> Seq(Nat)] /\ globalHandlers' \in Seq(Nat)
      /\ \A type \in Types : typedHandlers'[type] = <<>>
      /\ \A e : ~Holds(<<>>, e)
      /\ \A e, p \in Nat : ~Ahead(p, <<>>, e)
      /\ \A type : TypedListOK(<<>>, type, entries)
      /\ GlobalListOK(<<>>, entries)
  <2>1. DOMAIN <<>> = {} /\ <<>> \in Seq(Nat)
    OBVIOUS
  <2>. QED
    BY <1>2, <2>1 DEF Holds, Ahead, TypedListOK, GlobalListOK, Increasing
<1>5. HandlersMove(typedHandlers, typedHandlers', globalHandlers, globalHandlers',
                   entries, entries')
  BY <1>2, <1>3, <1>4 DEF HandlersMove, HandlersOK
<1>6. ASSUME NEW k \in DOMAIN stack, stack[k].kind = "publish"
      PROVE  LoopMoves(stack[k], stack'[k], typedHandlers', globalHandlers,
                       globalHandlers', entries, entries', {})
  <2> DEFINE f == stack[k]
             g == stack'[k]
  <2>1. f \in PublishFrames /\ f.globalPosition \in Nat
    <3>1. f \in PublishFrames
      BY <1>3, <1>6, FrameKinds
    <3>. QED
      BY <3>1 DEF PublishFrames
  <2>2. g = [f EXCEPT !.live = FALSE, !.skips = TRUE]
    BY <1>2, <1>6
  <2>3. LoopTyped(f, typedHandlers, entries)
    BY <1>1, <1>6 DEF StackOK, LoopOK
  <2> HIDE DEF f, g
  <2>4. /\ g \in PublishFrames
        /\ g.event = f.event /\ g.called = f.called /\ g.due = f.due
        /\ g.typedPosition = f.typedPosition /\ g.globalPosition = f.globalPosition
        /\ g.skips /\ g.typed = f.typed /\ ~g.live
    BY <2>1, <2>2 DEF PublishFrames
  <2>5. LoopTyped(g, typedHandlers', entries')
    BY <1>2, <2>3, <2>4 DEF LoopTyped
  <2>. QED
    BY <1>2, <1>4, <2>1, <2>4, <2>5 DEF LoopMoves, f, g
<1>7. StackMoves(stack, stack', typedHandlers', globalHandlers, globalHandlers',
                 entries, entries', {})
  <2>1. ASSUME NEW k \in DOMAIN stack PROVE stack'[k] \in Frames
    <3>1. CASE stack[k].kind = "publish"
      BY <1>6, <3>1, PublishIsFrame DEF LoopMoves
    <3>2. CASE stack[k].kind # "publish"
      <4>1. stack'[k] = stack[k]
        BY <1>2, <3>2
      <4>2. stack[k] \in Frames
        BY <1>3
      <4>. QED
        BY <4>1, <4>2
    <3>. QED
      BY <3>1, <3>2
  <2>2. stack' \in Seq(Frames) /\ Len(stack') = Len(stack)
    BY <1>2, <1>3, <2>1, FramesChanged
  <2>. QED
    BY <1>2, <1>6, <2>2 DEF StackMoves
<1>8. CallMoves(stack, stack', typedHandlers, typedHandlers', globalHandlers,
                globalHandlers', entries, entries')
  <2>2. stack # <<>> => stack[Len(stack)].kind = "publish"
    BY <1>2, CallerPublishes
  <2>. QED
    BY <1>2, <1>3, <1>5, <1>7, <2>2 DEF CallMoves
<1>. QED
  BY <1>8, BusInvByCall

-----------------------------------------------------------------------------
(* Publishing: the loops *)

(* A publish that begins has everything still ahead of it.                 *)
LEMMA LoopBegins ==
  ASSUME WellTyped(stack, typedHandlers, globalHandlers, entries),
         HandlersOK(typedHandlers, globalHandlers, entries),
         NEW event \in BacktestEvent
  PROVE  /\ PublishFrame(event) \in PublishFrames
         /\ PublishFrame(event).kind = "publish"
         /\ PublishFrame(event).event = event
         /\ PublishFrame(event).globalPosition = 0
         /\ LoopOK(PublishFrame(event), typedHandlers, globalHandlers, entries)
<1> DEFINE f == PublishFrame(event)
           list == typedHandlers[event.type]
<1>1. /\ typedHandlers \in [Types -> Seq(Nat)] /\ globalHandlers \in Seq(Nat)
      /\ event.type \in Types /\ list \in Seq(Nat)
  BY DEF WellTyped, BacktestEvent
<1>2. /\ TypedListOK(list, event.type, entries) /\ GlobalListOK(globalHandlers, entries)
  BY <1>1 DEF HandlersOK
<1> HIDE DEF list
<1>3. /\ ToSet(list) \subseteq Nat /\ ToSet(globalHandlers) \subseteq Nat
      /\ <<>> \in Seq(Nat) /\ DOMAIN <<>> = {}
  BY <1>1 DEF ToSet
<1>4. /\ f.kind = "publish" /\ f.event = event /\ f.typed = list /\ f.live = TRUE
      /\ f.typedPosition = 0 /\ f.globalPosition = 0 /\ f.running = FALSE
      /\ f.called = <<>> /\ f.due = ToSet(list) \cup ToSet(globalHandlers)
      /\ f.skips = FALSE
  BY DEF PublishFrame, list
<1>5. f \in PublishFrames
  BY <1>1, <1>3 DEF PublishFrame, PublishFrames, list
<1> HIDE DEF f
<1>6. LoopTyped(f, typedHandlers, entries)
  BY <1>1, <1>2, <1>4 DEF LoopTyped, list
<1>7. LoopCalled(f, globalHandlers, entries)
  BY <1>3, <1>4 DEF LoopCalled, InOrder
<1>8. LoopDue(f, typedHandlers, globalHandlers, entries)
  <2> SUFFICES ASSUME NEW e \in ToSet(list) \cup ToSet(globalHandlers)
               PROVE  /\ e \in DOMAIN entries
                      /\ entries[e] \in Types => Ahead(0, list, e)
                      /\ entries[e] \notin Types => Ahead(0, globalHandlers, e)
    BY <1>4 DEF LoopDue
  <2>1. Holds(list, e) \/ Holds(globalHandlers, e)
    BY ToSetIsHolds
  <2>2. Holds(list, e) => e \in DOMAIN entries /\ entries[e] \in Types
    BY <1>1, <1>2 DEF TypedListOK, Holds
  <2>3. Holds(globalHandlers, e) => e \in DOMAIN entries /\ entries[e] \notin Types
    BY <1>2 DEF GlobalListOK, Holds
  <2>. QED
    BY <1>1, <2>1, <2>2, <2>3, HeldIsAhead
<1>. QED
  BY <1>4, <1>5, <1>6, <1>7, <1>8 DEF LoopOK, f

ComesNext(called, en, x) ==
  \A i \in DOMAIN called :
    IF en[called[i]] \in Types <=> en[x] \in Types
    THEN called[i] < x ELSE en[called[i]] \in Types

(* One more handler called, behind all that were.                          *)
LEMMA InOrderGrows ==
  ASSUME NEW called \in Seq(Nat), NEW en, InOrder(called, en), NEW x \in Nat,
         ComesNext(called, en, x)
  PROVE  /\ InOrder(Append(called, x), en)
         /\ Append(called, x) \in Seq(Nat)
         /\ \A i \in DOMAIN Append(called, x) :
              \/ i \in DOMAIN called /\ Append(called, x)[i] = called[i]
              \/ Append(called, x)[i] = x
<1> DEFINE more == Append(called, x)
<1>1. /\ more \in Seq(Nat) /\ Len(called) \in Nat
      /\ DOMAIN called = 1..Len(called) /\ DOMAIN more = 1..(Len(called) + 1)
      /\ \A i \in DOMAIN called : more[i] = called[i]
      /\ more[Len(called) + 1] = x
  OBVIOUS
<1> HIDE DEF more
<1>2. \A i \in DOMAIN more : i \in DOMAIN called \/ i = Len(called) + 1
  BY <1>1
<1>3. ASSUME NEW i \in DOMAIN more, NEW j \in DOMAIN more, i < j
      PROVE  IF en[more[i]] \in Types <=> en[more[j]] \in Types
             THEN more[i] < more[j] ELSE en[more[i]] \in Types
  <2>1. i \in DOMAIN called
    BY <1>1, <1>2, <1>3
  <2>2. CASE j \in DOMAIN called
    BY <1>1, <1>3, <2>1, <2>2 DEF InOrder
  <2>3. CASE j = Len(called) + 1
    BY <1>1, <2>1, <2>3 DEF ComesNext
  <2>. QED
    BY <1>2, <2>2, <2>3
<1>4. InOrder(more, en)
  BY <1>3 DEF InOrder
<1>. QED
  BY <1>1, <1>2, <1>4 DEF more

CallsNextTyped(f, g) ==
  g = [f EXCEPT !.typedPosition = f.typedPosition + 1, !.running = TRUE,
                !.called = Append(f.called, f.typed[f.typedPosition + 1])]

(* The loop over the array of the type calls the next handler in it.       *)
LEMMA TypedCalled ==
  ASSUME NEW f \in PublishFrames, NEW th, NEW gh, NEW en \in Seq(Everywhere),
         LoopOK(f, th, gh, en), ~TypedDone(f),
         NEW g, CallsNextTyped(f, g)
  PROVE  /\ g \in PublishFrames
         /\ g.event = f.event /\ g.globalPosition = f.globalPosition
         /\ g.skips = f.skips
         /\ \A e : Holds(f.called, e) => Holds(g.called, e)
         /\ LoopOK(g, th, gh, en)
<1> DEFINE n == f.typedPosition + 1
           x == f.typed[n]
<1>1. /\ f.typedPosition \in Nat /\ f.typed \in Seq(Nat) /\ f.called \in Seq(Nat)
      /\ f.globalPosition \in Nat
  BY DEF PublishFrames
<1>2. f.globalPosition = 0 /\ n \in DOMAIN f.typed /\ x \in Nat /\ n \in Nat
  <2>1. /\ f.globalPosition = 0 /\ f.typedPosition < Len(f.typed)
        /\ Len(f.typed) \in Nat /\ DOMAIN f.typed = 1..Len(f.typed)
    BY <1>1 DEF TypedDone
  <2>2. n \in Nat /\ n \in DOMAIN f.typed
    BY <1>1, <2>1
  <2> HIDE DEF n
  <2>. QED
    BY <1>1, <2>1, <2>2, EntryIsNumber
<1>3. /\ LoopTyped(f, th, en) /\ LoopCalled(f, gh, en) /\ LoopDue(f, th, gh, en)
  BY DEF LoopOK
<1> HIDE DEF x
<1>4. /\ g \in PublishFrames /\ g.event = f.event /\ g.typed = f.typed /\ g.live = f.live
      /\ g.typedPosition = n /\ g.globalPosition = f.globalPosition
      /\ g.called = Append(f.called, x) /\ g.due = f.due /\ g.skips = f.skips
  <2>1. Append(f.called, x) \in Seq(Nat)
    BY <1>1, <1>2
  <2>. QED
    BY <1>2, <2>1 DEF CallsNextTyped, PublishFrames, x
<1>5. x \in DOMAIN en /\ en[x] = f.event.type /\ f.event.type \in Types
  <2>1. f.event.type \in Types
    BY DEF PublishFrames, BacktestEvent
  <2>2. TypedListOK(f.typed, f.event.type, en)
    BY <1>3 DEF LoopTyped
  <2>. QED
    BY <1>2, <2>1, <2>2 DEF TypedListOK, x
<1>6. \A i \in DOMAIN f.called : /\ f.called[i] \in DOMAIN en /\ f.called[i] \in Nat
                                 /\ en[f.called[i]] \in Types
                                 /\ f.called[i] < x
  <2> SUFFICES ASSUME NEW i \in DOMAIN f.called
               PROVE  /\ f.called[i] \in DOMAIN en /\ f.called[i] \in Nat
                      /\ en[f.called[i]] \in Types
                      /\ f.called[i] < x
    OBVIOUS
  <2>1. en[f.called[i]] \in Types
    BY <1>2, <1>3 DEF LoopCalled
  <2>2. n > f.typedPosition
    BY <1>1
  <2>3. f.called[i] \in Nat /\ f.called[i] \in DOMAIN en
    BY <1>1, <1>3 DEF LoopCalled
  <2>4. \A j \in DOMAIN f.typed : j > f.typedPosition => f.called[i] < f.typed[j]
    BY <1>3, <2>1 DEF LoopCalled
  <2>5. f.called[i] < f.typed[n]
    BY <1>2, <2>2, <2>4
  <2>. QED
    BY <2>1, <2>3, <2>5 DEF x
<1>7. /\ InOrder(g.called, en)
      /\ \A i \in DOMAIN g.called :
           \/ i \in DOMAIN f.called /\ g.called[i] = f.called[i]
           \/ g.called[i] = x
  <2>1. ComesNext(f.called, en, x)
    BY <1>5, <1>6 DEF ComesNext
  <2>2. InOrder(f.called, en)
    BY <1>3 DEF LoopCalled
  <2>. QED
    <3>1. f.called \in Seq(Nat) /\ x \in Nat
      BY <1>1, <1>2
    <3>2. /\ InOrder(Append(f.called, x), en)
          /\ \A i \in DOMAIN Append(f.called, x) :
               \/ i \in DOMAIN f.called /\ Append(f.called, x)[i] = f.called[i]
               \/ Append(f.called, x)[i] = x
      BY <2>1, <2>2, <3>1, InOrderGrows
    <3>. QED
      BY <1>4, <3>2
<1>8. LoopTyped(g, th, en)
  <2>1. n <= Len(f.typed)
    BY <1>1, <1>2
  <2>. QED
    BY <1>3, <1>4, <2>1 DEF LoopTyped
<1>9. LoopCalled(g, gh, en)
  <2>1. ASSUME NEW i \in DOMAIN g.called
        PROVE  g.called[i] \in DOMAIN en /\ en[g.called[i]] \in Types
    BY <1>5, <1>6, <1>7
  <2>2. ASSUME NEW i \in DOMAIN g.called, NEW j \in DOMAIN f.typed, j > n
        PROVE  g.called[i] < f.typed[j]
    <3>1. x < f.typed[j] /\ f.typed[j] \in Nat
      <4>1. Increasing(f.typed)
        BY <1>3 DEF LoopTyped, TypedListOK
      <4>2. x < f.typed[j]
        BY <1>2, <2>2, <4>1 DEF Increasing, x
      <4>. QED
        BY <1>1, <4>2, EntryIsNumber
    <3>2. CASE g.called[i] = x
      BY <3>1, <3>2
    <3>3. CASE i \in DOMAIN f.called /\ g.called[i] = f.called[i]
      <4>1. f.called[i] < x /\ f.called[i] \in Nat
        BY <1>6, <3>3
      <4>. QED
        BY <1>2, <3>1, <3>3, <4>1
    <3>. QED
      BY <1>7, <3>2, <3>3
  <2>. QED
    BY <1>4, <1>7, <2>1, <2>2 DEF LoopCalled
<1>10. \A e : Holds(f.called, e) \/ e = x => Holds(g.called, e)
  BY <1>1, <1>2, <1>4, AppendMoves
<1>11. LoopDue(g, th, gh, en)
  <2> SUFFICES ASSUME NEW e \in f.due, Ahead(f.typedPosition, f.typed, e), e # x
               PROVE  Ahead(n, f.typed, e)
    BY <1>3, <1>4, <1>10 DEF LoopDue
  <2>1. PICK i \in DOMAIN f.typed : i > f.typedPosition /\ f.typed[i] = e
    BY DEF Ahead
  <2>2. i # n
    BY <2>1 DEF x
  <2>3. i \in Nat
    BY <1>1
  <2>4. i > n
    BY <1>1, <2>1, <2>2, <2>3
  <2> HIDE DEF n
  <2>. QED
    BY <2>1, <2>4 DEF Ahead
<1>. QED
  BY <1>4, <1>8, <1>9, <1>10, <1>11 DEF LoopOK

CallsNextGlobal(f, gh, x, g) ==
  /\ f.globalPosition < Len(gh) /\ gh[f.globalPosition + 1] = x
  /\ g = [f EXCEPT !.globalPosition = f.globalPosition + 1, !.running = TRUE,
                   !.called = Append(f.called, x)]

HasCalled(f, gh, x, g) ==
  /\ g.event = f.event /\ g.skips = f.skips
  /\ ~Holds(f.called, x)
  /\ \A e : Holds(f.called, e) \/ e = x => Holds(g.called, e)
  /\ \A e : Ahead(f.globalPosition, gh, e) /\ e # x =>
       Ahead(g.globalPosition, gh, e)

(* The loop over the global array calls the next handler in it.            *)
LEMMA GlobalCalled ==
  ASSUME NEW f \in PublishFrames, NEW th, NEW gh \in Seq(Nat),
         NEW en \in Seq(Everywhere), GlobalListOK(gh, en),
         LoopOK(f, th, gh, en), TypedDone(f),
         NEW x, NEW g, CallsNextGlobal(f, gh, x, g)
  PROVE  /\ g \in PublishFrames /\ LoopOK(g, th, gh, en)
         /\ HasCalled(f, gh, x, g)
<1> DEFINE n == f.globalPosition + 1
<1>1. /\ f.typedPosition \in Nat /\ f.typed \in Seq(Nat) /\ f.called \in Seq(Nat)
      /\ f.globalPosition \in Nat
  BY DEF PublishFrames
<1>2. n \in DOMAIN gh /\ x \in Nat /\ n \in Nat /\ gh[n] = x
  BY <1>1 DEF CallsNextGlobal
<1>3. /\ LoopTyped(f, th, en) /\ LoopCalled(f, gh, en) /\ LoopDue(f, th, gh, en)
  BY DEF LoopOK
<1>4. /\ g \in PublishFrames /\ g.event = f.event /\ g.typed = f.typed /\ g.live = f.live
      /\ g.typedPosition = f.typedPosition /\ g.globalPosition = n
      /\ g.called = Append(f.called, x) /\ g.due = f.due /\ g.skips = f.skips
  <2>1. Append(f.called, x) \in Seq(Nat)
    BY <1>1, <1>2
  <2>. QED
    BY <1>2, <2>1 DEF CallsNextGlobal, PublishFrames
<1>5. x \in DOMAIN en /\ en[x] \notin Types
  BY <1>2 DEF GlobalListOK
<1>6. \A i \in DOMAIN f.called :
        /\ f.called[i] \in DOMAIN en /\ f.called[i] \in Nat
        /\ en[f.called[i]] \notin Types =>
             /\ f.called[i] < x
             /\ \A j \in DOMAIN gh : j > n => f.called[i] < gh[j]
  <2> SUFFICES ASSUME NEW i \in DOMAIN f.called
               PROVE  /\ f.called[i] \in DOMAIN en /\ f.called[i] \in Nat
                      /\ en[f.called[i]] \notin Types =>
                           \A j \in DOMAIN gh : j >= n => f.called[i] < gh[j]
    BY <1>2
  <2>1. \A j \in DOMAIN gh : j >= n => j > f.globalPosition
    BY <1>1
  <2>. QED
    BY <1>1, <1>3, <2>1 DEF LoopCalled
<1>7. /\ InOrder(g.called, en)
      /\ \A i \in DOMAIN g.called :
           \/ i \in DOMAIN f.called /\ g.called[i] = f.called[i]
           \/ g.called[i] = x
  <2>1. ComesNext(f.called, en, x)
    BY <1>5, <1>6 DEF ComesNext
  <2>2. InOrder(f.called, en)
    BY <1>3 DEF LoopCalled
  <2>3. /\ InOrder(Append(f.called, x), en)
        /\ \A i \in DOMAIN Append(f.called, x) :
             \/ i \in DOMAIN f.called /\ Append(f.called, x)[i] = f.called[i]
             \/ Append(f.called, x)[i] = x
    <3>1. f.called \in Seq(Nat) /\ x \in Nat
      BY <1>1, <1>2
    <3>. QED
      BY <2>1, <2>2, <3>1, InOrderGrows
  <2>. QED
    BY <1>4, <2>3
<1>8. LoopTyped(g, th, en)
  BY <1>3, <1>4 DEF LoopTyped
<1>9. LoopCalled(g, gh, en)
  <2>1. ASSUME NEW i \in DOMAIN g.called PROVE g.called[i] \in DOMAIN en
    BY <1>5, <1>6, <1>7
  <2>2. ASSUME NEW i \in DOMAIN g.called, en[g.called[i]] \in Types,
               NEW j \in DOMAIN f.typed, j > f.typedPosition
        PROVE  g.called[i] < f.typed[j]
    BY <1>3, <1>5, <1>7, <2>2 DEF LoopCalled
  <2>3. ASSUME NEW i \in DOMAIN g.called, en[g.called[i]] \notin Types,
               NEW j \in DOMAIN gh, j > n
        PROVE  g.called[i] < gh[j]
    <3>1. x < gh[j]
      BY <1>2, <2>3 DEF GlobalListOK, Increasing
    <3>. QED
      BY <1>6, <1>7, <2>3, <3>1
  <2>4. n > 0
    BY <1>1
  <2> HIDE DEF n
  <2>. QED
    BY <1>4, <1>7, <2>1, <2>2, <2>3, <2>4 DEF LoopCalled
<1>10. \A e : Holds(f.called, e) \/ e = x => Holds(g.called, e)
  BY <1>1, <1>2, <1>4, AppendMoves
<1>11. ASSUME NEW e, Ahead(f.globalPosition, gh, e), e # x PROVE Ahead(n, gh, e)
  <2>1. PICK i \in DOMAIN gh : i > f.globalPosition /\ gh[i] = e
    BY <1>11 DEF Ahead
  <2>2. i # n
    BY <1>2, <1>11, <2>1
  <2>3. i \in Nat
    OBVIOUS
  <2>4. i > n
    BY <1>1, <2>1, <2>2, <2>3
  <2> HIDE DEF n
  <2>. QED
    BY <2>1, <2>4 DEF Ahead
<1>12. LoopDue(g, th, gh, en)
  <2> SUFFICES ASSUME NEW e \in f.due
               PROVE  /\ e \in DOMAIN en
                      /\ en[e] \in Types =>
                           Holds(g.called, e) \/ ~Holds(th[f.event.type], e)
                      /\ en[e] \notin Types =>
                           \/ Holds(g.called, e)
                           \/ ~Holds(gh, e)
                           \/ Ahead(n, gh, e)
                           \/ f.skips
    BY <1>4 DEF LoopDue
  <2>1. /\ e \in DOMAIN en
        /\ en[e] \in Types =>
             \/ Holds(f.called, e)
             \/ ~Holds(th[f.event.type], e)
             \/ f.globalPosition = 0 /\ Ahead(f.typedPosition, f.typed, e)
        /\ en[e] \notin Types =>
             \/ Holds(f.called, e)
             \/ ~Holds(gh, e)
             \/ Ahead(f.globalPosition, gh, e)
             \/ f.skips
    BY <1>3 DEF LoopDue
  <2>2. ~(f.globalPosition = 0 /\ Ahead(f.typedPosition, f.typed, e))
    <3>1. f.globalPosition = 0 => f.typedPosition >= Len(f.typed)
      BY <1>1 DEF TypedDone
    <3>. QED
      BY <1>1, <3>1, NoneAhead
  <2>. QED
    BY <1>10, <1>11, <2>1, <2>2
<1>13. ~Holds(f.called, x)
  BY <1>2, <1>5, <1>6 DEF Holds
<1>14. HasCalled(f, gh, x, g)
  BY <1>4, <1>10, <1>11, <1>13 DEF HasCalled
<1>. QED
  BY <1>4, <1>8, <1>9, <1>12, <1>14 DEF LoopOK

(* A loop that has ended owes nothing but what it may have skipped.        *)
LEMMA LoopEnds ==
  ASSUME NEW f \in PublishFrames, NEW th, NEW gh \in Seq(Nat), NEW en,
         LoopOK(f, th, gh, en), TypedDone(f), f.globalPosition >= Len(gh)
  PROVE  /\ \A e : ~Ahead(f.globalPosition, gh, e)
         /\ \A e \in f.due :
              /\ e \in DOMAIN en
              /\ en[e] \in Types =>
                   Holds(f.called, e) \/ ~Holds(th[f.event.type], e)
              /\ en[e] \notin Types =>
                   Holds(f.called, e) \/ ~Holds(gh, e) \/ f.skips
<1>1. /\ f.typedPosition \in Nat /\ f.typed \in Seq(Nat)
      /\ f.globalPosition \in Nat
  BY DEF PublishFrames
<1>2. \A e : ~Ahead(f.globalPosition, gh, e)
  BY <1>1, NoneAhead
<1>3. \A e : ~(f.globalPosition = 0 /\ Ahead(f.typedPosition, f.typed, e))
  <2>1. f.globalPosition = 0 => f.typedPosition >= Len(f.typed)
    BY <1>1 DEF TypedDone
  <2>. QED
    BY <1>1, <2>1, NoneAhead
<1>4. LoopDue(f, th, gh, en)
  BY DEF LoopOK
<1>. QED
  BY <1>2, <1>3, <1>4 DEF LoopDue

-----------------------------------------------------------------------------
(* Frames are put on the stack, taken off it and changed *)

LEMMA StackFacts ==
  ASSUME NEW st \in Seq(Frames)
  PROVE  /\ Len(st) \in Nat /\ DOMAIN st = 1..Len(st)
         /\ \A k \in DOMAIN st : st[k] \in Frames
         /\ st # <<>> => Len(st) \in DOMAIN st /\ Len(st) > 0
         /\ st # <<>> => /\ Front(st) \in Seq(Frames)
                         /\ Len(Front(st)) = Len(st) - 1
                         /\ \A k \in 1..(Len(st) - 1) : Front(st)[k] = st[k]
<1>1. /\ Len(st) \in Nat /\ DOMAIN st = 1..Len(st)
      /\ \A k \in DOMAIN st : st[k] \in Frames
  OBVIOUS
<1>2. ASSUME st # <<>>
      PROVE  /\ Len(st) \in DOMAIN st /\ Len(st) > 0
             /\ Front(st) \in Seq(Frames) /\ Len(Front(st)) = Len(st) - 1
             /\ \A k \in 1..(Len(st) - 1) : Front(st)[k] = st[k]
  <2>1. Len(st) > 0
    BY <1>2
  <2>. QED
    BY <1>1, <2>1 DEF Front
<1>. QED
  BY <1>1, <1>2

LEMMA PushFacts ==
  ASSUME NEW st \in Seq(Frames), NEW f \in Frames
  PROVE  /\ Append(st, f) \in Seq(Frames)
         /\ Len(Append(st, f)) = Len(st) + 1
         /\ DOMAIN Append(st, f) = 1..(Len(st) + 1)
         /\ \A k \in 1..Len(st) : Append(st, f)[k] = st[k]
         /\ Append(st, f)[Len(st) + 1] = f
OBVIOUS

(* The replays on a stack, with their subscriptions, stay what they are.   *)
SameReplays(st, st2) ==
  \A k \in DOMAIN st \cup DOMAIN st2 :
    (k \in DOMAIN st /\ st[k].kind = "replay") \/
    (k \in DOMAIN st2 /\ st2[k].kind = "replay") =>
      /\ k \in DOMAIN st /\ st[k].kind = "replay"
      /\ k \in DOMAIN st2 /\ st2[k].kind = "replay"
      /\ st2[k].subscriptions = st[k].subscriptions

LEMMA SameReplaysKeep ==
  ASSUME NEW st, NEW st2, NEW gh, NEW en, SameReplays(st, st2),
         Apart(st), NoneLeft(st, gh, en)
  PROVE  Apart(st2) /\ NoneLeft(st2, gh, en)
BY DEF SameReplays, Apart, NoneLeft

LEMMA BusInvByStack ==
  ASSUME BusInv, UNCHANGED <<typedHandlers, globalHandlers, entries>>,
         stack' \in Seq(Frames), SameReplays(stack, stack'),
         \A k \in DOMAIN stack' :
           /\ stack'[k].kind = "publish" =>
                LoopOK(stack'[k], typedHandlers, globalHandlers, entries)
           /\ stack'[k].kind = "replay" =>
                ReplayOK(stack', k, globalHandlers, entries)
  PROVE  BusInv'
<1>1. /\ typedHandlers' = typedHandlers /\ globalHandlers' = globalHandlers
      /\ entries' = entries
  OBVIOUS
<1>2. TypeOK'
  BY <1>1 DEF BusInv, TypeOK
<1>3. /\ HandlersOK(typedHandlers, globalHandlers, entries)
      /\ Apart(stack) /\ NoneLeft(stack, globalHandlers, entries)
  BY DEF BusInv, StackOK
<1>4. Apart(stack') /\ NoneLeft(stack', globalHandlers, entries)
  BY <1>3, SameReplaysKeep
<1>5. StackOK(stack', typedHandlers, globalHandlers, entries)
  BY <1>3, <1>4 DEF StackOK
<1>6. StackOK(stack', typedHandlers', globalHandlers', entries')
  BY <1>1, <1>5
<1>. QED
  BY <1>2, <1>6 DEF BusInv

(* What the invariant says of a stack and its frames.                      *)
LEMMA BusFacts ==
  ASSUME BusInv
  PROVE  /\ WellTyped(stack, typedHandlers, globalHandlers, entries)
         /\ typedHandlers \in [Types -> Seq(Nat)] /\ globalHandlers \in Seq(Nat)
         /\ entries \in Seq(Everywhere) /\ stack \in Seq(Frames)
         /\ HandlersOK(typedHandlers, globalHandlers, entries)
         /\ GlobalListOK(globalHandlers, entries)
         /\ Len(stack) \in Nat /\ DOMAIN stack = 1..Len(stack)
         /\ \A k \in DOMAIN stack :
              /\ stack[k] \in Frames
              /\ stack[k].kind = "publish" \/ stack[k].kind = "replay"
              /\ stack[k].kind = "publish" =>
                   /\ stack[k] \in PublishFrames
                   /\ LoopOK(stack[k], typedHandlers, globalHandlers, entries)
              /\ stack[k].kind = "replay" =>
                   /\ stack[k] \in ReplayFrames(stack[k].subscriptions)
                   /\ stack[k].subscriptions \in SUBSET Nat
                   /\ ReplayOK(stack, k, globalHandlers, entries)
                   /\ k # Len(stack) => k + 1 \in DOMAIN stack
                                        /\ stack[k + 1].kind = "publish"
<1>1. /\ WellTyped(stack, typedHandlers, globalHandlers, entries)
      /\ typedHandlers \in [Types -> Seq(Nat)] /\ globalHandlers \in Seq(Nat)
      /\ entries \in Seq(Everywhere) /\ stack \in Seq(Frames)
      /\ HandlersOK(typedHandlers, globalHandlers, entries)
      /\ GlobalListOK(globalHandlers, entries)
  BY DEF BusInv, TypeOK, WellTyped, StackOK, HandlersOK
<1>2. /\ Len(stack) \in Nat /\ DOMAIN stack = 1..Len(stack)
      /\ \A k \in DOMAIN stack : stack[k] \in Frames
  BY <1>1
<1>3. ASSUME NEW k \in DOMAIN stack
      PROVE  /\ stack[k] \in Frames
             /\ stack[k].kind = "publish" \/ stack[k].kind = "replay"
             /\ stack[k].kind = "publish" =>
                  /\ stack[k] \in PublishFrames
                  /\ LoopOK(stack[k], typedHandlers, globalHandlers, entries)
             /\ stack[k].kind = "replay" =>
                  /\ stack[k] \in ReplayFrames(stack[k].subscriptions)
                  /\ stack[k].subscriptions \in SUBSET Nat
                  /\ ReplayOK(stack, k, globalHandlers, entries)
                  /\ k # Len(stack) => k + 1 \in DOMAIN stack
                                       /\ stack[k + 1].kind = "publish"
  <2>1. /\ stack[k] \in Frames
        /\ stack[k].kind = "publish" \/ stack[k].kind = "replay"
        /\ stack[k].kind = "publish" => stack[k] \in PublishFrames
        /\ stack[k].kind = "replay" => /\ stack[k] \in ReplayFrames(stack[k].subscriptions)
                                       /\ stack[k].subscriptions \in SUBSET Nat
    BY <1>2, FrameKinds
  <2>2. /\ stack[k].kind = "publish" =>
             LoopOK(stack[k], typedHandlers, globalHandlers, entries)
        /\ stack[k].kind = "replay" => ReplayOK(stack, k, globalHandlers, entries)
    BY DEF BusInv, StackOK
  <2>3. ASSUME stack[k].kind = "replay", k # Len(stack)
        PROVE  k + 1 \in DOMAIN stack /\ stack[k + 1].kind = "publish"
    BY <1>2, <2>2, <2>3 DEF ReplayOK, ReplayDuring
  <2>. QED
    BY <2>1, <2>2, <2>3
<1>. QED
  BY <1>1, <1>2, <1>3

LEMMA PublishStep ==
  ASSUME BusInv, NEW event \in BacktestEvent, Publish(event)
  PROVE  BusInv'
<1> DEFINE n == Len(stack)
           p == PublishFrame(event)
<1>1. /\ CanCall /\ stack' = Append(stack, p)
      /\ UNCHANGED <<typedHandlers, globalHandlers, entries>>
  BY DEF Publish
<1>2. /\ p \in Frames /\ p.kind = "publish"
      /\ LoopOK(p, typedHandlers, globalHandlers, entries)
  BY BusFacts, LoopBegins, PublishIsFrame
<1> HIDE DEF p
<1>3. /\ stack' \in Seq(Frames) /\ Len(stack') = n + 1
      /\ DOMAIN stack' = 1..(n + 1) /\ DOMAIN stack = 1..n /\ n \in Nat
      /\ \A k \in 1..n : stack'[k] = stack[k]
      /\ stack'[n + 1] = p
  BY <1>1, <1>2, BusFacts, PushFacts
<1>4. \A k \in DOMAIN stack : stack[k].kind = "replay" =>
        k # n /\ k + 1 \in DOMAIN stack
  <2> SUFFICES ASSUME NEW k \in DOMAIN stack, stack[k].kind = "replay"
               PROVE  k # n /\ k + 1 \in DOMAIN stack
    OBVIOUS
  <2>1. stack # <<>>
    BY <1>3
  <2>2. stack[n].kind = "publish"
    BY <1>1, <2>1, CallerPublishes
  <2>. QED
    BY <2>2, BusFacts
<1>5. ASSUME NEW k \in DOMAIN stack', stack'[k].kind = "publish"
      PROVE  LoopOK(stack'[k], typedHandlers, globalHandlers, entries)
  <2>1. CASE k = n + 1
    BY <1>2, <1>3, <2>1
  <2>2. CASE k \in 1..n
    BY <1>3, <1>5, <2>2, BusFacts
  <2>. QED
    BY <1>3, <2>1, <2>2
<1>6. ASSUME NEW k \in DOMAIN stack', stack'[k].kind = "replay"
      PROVE  ReplayOK(stack', k, globalHandlers, entries)
  <2>1. k \in 1..n
    BY <1>2, <1>3, <1>6
  <2>2. stack[k].kind = "replay" /\ stack'[k] = stack[k]
    BY <1>3, <1>6, <2>1
  <2>3. k # n /\ k + 1 \in 1..n /\ k # n + 1
    BY <1>3, <1>4, <2>1, <2>2
  <2>4. ReplayOK(stack, k, globalHandlers, entries) /\ stack'[k + 1] = stack[k + 1]
    BY <1>3, <2>1, <2>2, <2>3, BusFacts
  <2>. QED
    BY <1>3, <2>2, <2>3, <2>4 DEF ReplayOK
<1>7. SameReplays(stack, stack')
  BY <1>2, <1>3 DEF SameReplays
<1>. QED
  BY <1>1, <1>3, <1>5, <1>6, <1>7, BusInvByStack

(* Other frames than the topmost one or two stay as they are.              *)
LEMMA LowerFrames ==
  ASSUME BusInv, NEW k \in DOMAIN stack, k # Len(stack),
         NEW st2, k # Len(st2), st2[k] = stack[k], st2[k + 1] = stack[k + 1]
  PROVE  /\ st2[k].kind = "publish" =>
              LoopOK(st2[k], typedHandlers, globalHandlers, entries)
         /\ st2[k].kind = "replay" => ReplayOK(st2, k, globalHandlers, entries)
BY BusFacts DEF ReplayOK

LEMMA LowerPublishes ==
  ASSUME BusInv, NEW k \in DOMAIN stack, stack[k].kind = "publish",
         NEW st2, st2[k] = stack[k]
  PROVE  LoopOK(st2[k], typedHandlers, globalHandlers, entries)
BY BusFacts

(* What is on top of the stack.                                            *)
LEMMA TopFacts ==
  ASSUME BusInv, stack # <<>>
  PROVE  /\ Len(stack) \in DOMAIN stack /\ Len(stack) > 0
         /\ Below \in Seq(Frames) /\ Len(Below) = Len(stack) - 1
         /\ \A k \in 1..(Len(stack) - 1) : Below[k] = stack[k]
         /\ \A f \in Frames :
              /\ WithTop(f) \in Seq(Frames) /\ Len(WithTop(f)) = Len(stack)
              /\ \A k \in 1..(Len(stack) - 1) : WithTop(f)[k] = stack[k]
              /\ WithTop(f)[Len(stack)] = f
<1>1. stack \in Seq(Frames) /\ Len(stack) \in Nat
  BY BusFacts
<1>2. /\ Len(stack) \in DOMAIN stack /\ Len(stack) > 0
      /\ Below \in Seq(Frames) /\ Len(Below) = Len(stack) - 1
      /\ \A k \in 1..(Len(stack) - 1) : Below[k] = stack[k]
  BY <1>1, StackFacts DEF Below
<1>3. ASSUME NEW f \in Frames
      PROVE  /\ WithTop(f) \in Seq(Frames) /\ Len(WithTop(f)) = Len(stack)
             /\ \A k \in 1..(Len(stack) - 1) : WithTop(f)[k] = stack[k]
             /\ WithTop(f)[Len(stack)] = f
  <2>1. Len(Below) + 1 = Len(stack)
    BY <1>1, <1>2
  <2>. QED
    BY <1>1, <1>2, <2>1, PushFacts DEF WithTop
<1>. QED
  BY <1>2, <1>3

ReplayIsFrame(f) == f \in ReplayFrames(f.subscriptions) /\ f.subscriptions \in SUBSET Nat

LEMMA ReplayIsInFrames ==
  ASSUME NEW f, ReplayIsFrame(f)
  PROVE  f \in Frames /\ f.kind = "replay"
<1>1. f \in UNION {ReplayFrames(S) : S \in SUBSET Nat}
  BY DEF ReplayIsFrame
<1>2. f.kind = "replay"
  BY DEF ReplayIsFrame, ReplayFrames
<1>. QED
  BY <1>1, <1>2 DEF Frames

LEMMA PublishNextStep ==
  ASSUME BusInv, PublishNext
  PROVE  BusInv'
<1> DEFINE n == Len(stack)
           f == stack[n]
           r == [f EXCEPT !.next = f.next + 1]
           p == PublishFrame(f.events[f.next])
<1>1. /\ stack # <<>> /\ f.kind = "replay" /\ ~f.failed /\ f.next <= Len(f.events)
      /\ stack' = Append(WithTop(r), p)
      /\ UNCHANGED <<typedHandlers, globalHandlers, entries>>
  BY DEF PublishNext, Replaying, Top
<1>2. /\ n \in DOMAIN stack /\ n > 0 /\ n \in Nat /\ DOMAIN stack = 1..n
      /\ n = Len(stack)
  BY <1>1, TopFacts, BusFacts
<1>3. ReplayIsFrame(f) /\ ReplayOK(stack, n, globalHandlers, entries)
  BY <1>1, <1>2, BusFacts DEF ReplayIsFrame
<1>4. ReplayShape(f, entries) /\ ReplayBetween(f, globalHandlers)
  BY <1>3 DEF ReplayOK, n
<1> HIDE DEF f, n
<1>5. /\ f.events \in Seq(BacktestEvent) /\ f.next \in Nat /\ f.next > 0
      /\ f.next \in DOMAIN f.events /\ f.events[f.next] \in BacktestEvent
      /\ f.skips \in BOOLEAN
  <2>1. f.events \in Seq(BacktestEvent) /\ f.skips \in BOOLEAN
    BY <1>3 DEF ReplayIsFrame, ReplayFrames
  <2>2. f.next \in 1..(Len(f.events) + 1)
    BY <1>4 DEF ReplayShape
  <2>. QED
    BY <1>1, <2>1, <2>2
<1>6. /\ ReplayIsFrame(r) /\ r.events = f.events /\ r.next = f.next + 1
      /\ r.subscriptions = f.subscriptions /\ r.handled = f.handled
      /\ r.failed = f.failed /\ r.skips = f.skips
  <2>1. f \in ReplayFrames(f.subscriptions) /\ f.subscriptions \in SUBSET Nat
    BY <1>3 DEF ReplayIsFrame
  <2>2. f.next + 1 \in Nat
    BY <1>5
  <2>3. /\ r \in ReplayFrames(f.subscriptions) /\ r.events = f.events
        /\ r.next = f.next + 1
        /\ r.subscriptions = f.subscriptions /\ r.handled = f.handled
        /\ r.failed = f.failed /\ r.skips = f.skips
    BY <2>1, <2>2 DEF ReplayFrames
  <2>. QED
    BY <2>1, <2>3 DEF ReplayIsFrame
<1>7. r \in Frames /\ r.kind = "replay"
  BY <1>6, ReplayIsInFrames
<1>8. /\ p \in Frames /\ p.kind = "publish" /\ p.event = f.events[f.next]
      /\ p.globalPosition = 0
      /\ LoopOK(p, typedHandlers, globalHandlers, entries)
  BY <1>5, BusFacts, LoopBegins, PublishIsFrame
<1> HIDE DEF p, r
<1>9. /\ stack' \in Seq(Frames) /\ Len(stack') = n + 1 /\ DOMAIN stack' = 1..(n + 1)
      /\ \A k \in 1..(n - 1) : stack'[k] = stack[k]
      /\ stack'[n] = r /\ stack'[n + 1] = p
  <2>1. /\ WithTop(r) \in Seq(Frames) /\ Len(WithTop(r)) = n
        /\ \A k \in 1..(n - 1) : WithTop(r)[k] = stack[k]
        /\ WithTop(r)[n] = r
    BY <1>1, <1>2, <1>7, TopFacts
  <2>2. /\ stack' \in Seq(Frames) /\ Len(stack') = n + 1 /\ DOMAIN stack' = 1..(n + 1)
        /\ \A k \in 1..n : stack'[k] = WithTop(r)[k]
        /\ stack'[n + 1] = p
    BY <1>1, <1>8, <2>1, PushFacts
  <2>. QED
    BY <1>2, <2>1, <2>2
<1>10. n \in Nat /\ n > 0 /\ Len(stack) = n /\ Len(stack') = n + 1
  BY <1>2, <1>9
<1>11. DOMAIN stack = 1..n /\ DOMAIN stack' = 1..(n + 1)
  BY <1>2, <1>9
<1>12. ReplayShape(r, entries)
  BY <1>4, <1>5, <1>6 DEF ReplayShape
<1>13. ReplayDuring(r, p, globalHandlers)
  <2>1. r.next > 1 /\ r.next - 1 = f.next /\ r.next - 2 = f.next - 1
    BY <1>5, <1>6
  <2>2. ASSUME ~r.failed, ~r.skips, NEW e \in r.subscriptions
        PROVE  /\ Holds(globalHandlers, e) /\ Ahead(p.globalPosition, globalHandlers, e)
               /\ r.handled[e] = SubSeq(r.events, 1, r.next - 2)
    <3>1. Holds(globalHandlers, e) /\ f.handled[e] = SubSeq(f.events, 1, f.next - 1)
      BY <1>4, <1>6, <2>2 DEF ReplayBetween
    <3>2. Ahead(0, globalHandlers, e)
      <4>1. globalHandlers \in Seq(Nat)
        BY BusFacts
      <4>. QED
        BY <3>1, <4>1, HeldIsAhead
    <3>. QED
      BY <1>6, <1>8, <2>1, <3>1, <3>2
  <2>. QED
    BY <1>6, <1>8, <2>1, <2>2 DEF ReplayDuring
<1>14. ASSUME NEW k \in 1..(n - 1)
       PROVE  /\ stack'[k].kind = "publish" =>
                   LoopOK(stack'[k], typedHandlers, globalHandlers, entries)
              /\ stack'[k].kind = "replay" =>
                   ReplayOK(stack', k, globalHandlers, entries)
  <2>1. CASE k = n - 1
    <3>1. k \in DOMAIN stack /\ k # Len(stack) /\ k + 1 = n
      BY <1>10, <1>11, <2>1
    <3>2. stack[k + 1].kind = "replay"
      BY <1>1, <3>1 DEF f
    <3>3. stack[k].kind = "publish"
      BY <3>1, <3>2, BusFacts
    <3>4. stack'[k] = stack[k]
      BY <1>9
    <3>. QED
      BY <3>1, <3>3, <3>4, LowerPublishes
  <2>2. CASE k # n - 1
    <3>1. /\ k \in DOMAIN stack /\ k # Len(stack) /\ k # Len(stack')
          /\ k + 1 \in 1..(n - 1)
      BY <1>10, <1>11, <2>2
    <3>2. stack'[k] = stack[k] /\ stack'[k + 1] = stack[k + 1]
      BY <1>9, <3>1
    <3>. QED
      BY <3>1, <3>2, LowerFrames
  <2>. QED
    BY <2>1, <2>2
<1>15. ASSUME NEW k \in DOMAIN stack'
       PROVE  /\ stack'[k].kind = "publish" =>
                   LoopOK(stack'[k], typedHandlers, globalHandlers, entries)
              /\ stack'[k].kind = "replay" =>
                   ReplayOK(stack', k, globalHandlers, entries)
  <2>1. CASE k = n + 1
    <3>1. stack'[k] = p
      BY <1>9, <2>1
    <3>. QED
      BY <1>8, <3>1
  <2>2. CASE k = n
    <3>1. n # Len(stack')
      BY <1>10
    <3>. QED
      BY <1>7, <1>9, <1>12, <1>13, <2>2, <3>1 DEF ReplayOK
  <2>3. k = n + 1 \/ k = n \/ k \in 1..(n - 1)
    BY <1>10, <1>11
  <2>. QED
    BY <1>14, <2>1, <2>2, <2>3
<1>16. SameReplays(stack, stack')
  <2>1. /\ stack[n].kind = "replay" /\ stack'[n].kind = "replay"
        /\ stack'[n].subscriptions = stack[n].subscriptions
    BY <1>1, <1>6, <1>7, <1>9 DEF f
  <2>2. /\ stack'[n + 1].kind # "replay"
        /\ \A k \in 1..(n - 1) : stack'[k] = stack[k]
    BY <1>8, <1>9
  <2>3. \A k \in 1..(n + 1) : k = n + 1 \/ k = n \/ k \in 1..(n - 1)
    BY <1>10
  <2>4. n \in 1..n /\ n \in 1..(n + 1) /\ n + 1 \notin 1..n
    BY <1>10
  <2>5. \A k \in 1..(n - 1) : k \in 1..n /\ k \in 1..(n + 1)
    BY <1>10
  <2>. QED
    BY <1>11, <2>1, <2>2, <2>3, <2>4, <2>5 DEF SameReplays
<1>. QED
  BY <1>1, <1>9, <1>15, <1>16, BusInvByStack

(* The publish on top goes on, and the replay it is for, if any, with it.  *)
LEMMA TopGoesOn ==
  ASSUME BusInv, UNCHANGED <<typedHandlers, globalHandlers, entries>>,
         stack # <<>>, stack[Len(stack)].kind = "publish",
         NEW g \in PublishFrames, stack' = WithTop(g),
         LoopOK(g, typedHandlers, globalHandlers, entries),
         \A k \in DOMAIN stack : k + 1 = Len(stack) /\ stack[k].kind = "replay" =>
           ReplayDuring(stack[k], g, globalHandlers)
  PROVE  BusInv'
<1> DEFINE n == Len(stack)
<1>1. /\ n \in Nat /\ n > 0 /\ Len(stack) = n /\ DOMAIN stack = 1..n
      /\ \A k \in 1..(n - 1) : k \in DOMAIN stack
  BY TopFacts, BusFacts
<1>2. g \in Frames /\ g.kind = "publish"
  BY PublishIsFrame DEF PublishFrames
<1>3. /\ stack' \in Seq(Frames) /\ Len(stack') = n
      /\ \A k \in 1..(n - 1) : stack'[k] = stack[k]
      /\ stack'[n] = g
  BY <1>2, TopFacts
<1>4. DOMAIN stack' = 1..n
  BY <1>3
<1>5. stack[n].kind = "publish"
  OBVIOUS
<1> HIDE DEF n
<1>6. \A k \in 1..n : k = n \/ k \in 1..(n - 1)
  BY <1>1
<1>7. ASSUME NEW k \in 1..(n - 1)
      PROVE  /\ stack'[k].kind = "publish" =>
                  LoopOK(stack'[k], typedHandlers, globalHandlers, entries)
             /\ stack'[k].kind = "replay" =>
                  ReplayOK(stack', k, globalHandlers, entries)
  <2>1. k \in DOMAIN stack /\ k # Len(stack) /\ k # Len(stack') /\ stack'[k] = stack[k]
    BY <1>1, <1>3
  <2>2. CASE k + 1 = n
    <3>1. stack'[k + 1] = g
      BY <1>3, <2>2
    <3>2. stack[k].kind = "publish" =>
            LoopOK(stack[k], typedHandlers, globalHandlers, entries)
      BY <2>1, BusFacts
    <3>3. stack[k].kind = "replay" => ReplayShape(stack[k], entries)
      BY <2>1, BusFacts DEF ReplayOK
    <3>4. stack[k].kind = "replay" => ReplayDuring(stack[k], g, globalHandlers)
      BY <1>1, <2>1, <2>2
    <3>. QED
      BY <2>1, <3>1, <3>2, <3>3, <3>4 DEF ReplayOK
  <2>3. CASE k + 1 # n
    <3>1. k + 1 \in 1..(n - 1)
      BY <1>1, <2>3
    <3>2. stack'[k + 1] = stack[k + 1]
      BY <1>3, <3>1
    <3>. QED
      BY <2>1, <3>2, LowerFrames
  <2>. QED
    BY <2>2, <2>3
<1>8. ASSUME NEW k \in DOMAIN stack'
      PROVE  /\ stack'[k].kind = "publish" =>
                  LoopOK(stack'[k], typedHandlers, globalHandlers, entries)
             /\ stack'[k].kind = "replay" =>
                  ReplayOK(stack', k, globalHandlers, entries)
  BY <1>2, <1>3, <1>4, <1>6, <1>7
<1>9. SameReplays(stack, stack')
  BY <1>1, <1>2, <1>3, <1>4, <1>5, <1>6 DEF SameReplays
<1>. QED
  BY <1>3, <1>8, <1>9, BusInvByStack

(* The replay whose event is being published on top.                       *)
LEMMA PublishedForReplay ==
  ASSUME BusInv, NEW k \in DOMAIN stack, k + 1 = Len(stack),
         stack[k].kind = "replay"
  PROVE  /\ ReplayShape(stack[k], entries)
         /\ ReplayDuring(stack[k], stack[Len(stack)], globalHandlers)
<1>1. k # Len(stack)
  BY BusFacts
<1>2. ReplayOK(stack, k, globalHandlers, entries)
  BY BusFacts
<1>. QED
  BY <1>1, <1>2 DEF ReplayOK

(* Those called stay so, and the others stay ahead.                        *)
LEMMA DuringGoesOn ==
  ASSUME NEW r, NEW f, NEW g, NEW gh, ReplayDuring(r, f, gh),
         g.kind = "publish", g.event = f.event, f.skips => g.skips,
         \A e : Holds(f.called, e) => Holds(g.called, e),
         \A e \in r.subscriptions :
           Ahead(f.globalPosition, gh, e) => Ahead(g.globalPosition, gh, e)
  PROVE  ReplayDuring(r, g, gh)
BY DEF ReplayDuring

LEMMA CallTypedStep ==
  ASSUME BusInv, CallTyped
  PROVE  BusInv'
<1> DEFINE f == stack[Len(stack)]
           g == [f EXCEPT !.typedPosition = f.typedPosition + 1, !.running = TRUE,
                          !.called = Append(f.called, f.typed[f.typedPosition + 1])]
<1>1. /\ stack # <<>> /\ f.kind = "publish" /\ ~TypedDone(f)
      /\ stack' = WithTop(g)
      /\ UNCHANGED <<typedHandlers, globalHandlers, entries>>
  BY DEF CallTyped, Looping, Publishing, Top
<1>2. Len(stack) \in DOMAIN stack
  BY <1>1, TopFacts
<1>3. /\ f \in PublishFrames
      /\ LoopOK(f, typedHandlers, globalHandlers, entries)
      /\ entries \in Seq(Everywhere)
  BY <1>1, <1>2, BusFacts
<1> HIDE DEF f
<1>4. CallsNextTyped(f, g)
  BY DEF CallsNextTyped
<1> HIDE DEF g
<1>5. /\ g \in PublishFrames
      /\ g.event = f.event /\ g.globalPosition = f.globalPosition
      /\ g.skips = f.skips
      /\ \A e : Holds(f.called, e) => Holds(g.called, e)
      /\ LoopOK(g, typedHandlers, globalHandlers, entries)
  <2>1. ~TypedDone(f)
    BY <1>1
  <2>. QED
    BY <1>3, <1>4, <2>1, TypedCalled
<1>6. g.kind = "publish"
  BY <1>5 DEF PublishFrames
<1>7. ASSUME NEW k \in DOMAIN stack, k + 1 = Len(stack), stack[k].kind = "replay"
      PROVE  ReplayDuring(stack[k], g, globalHandlers)
  <2>1. ReplayDuring(stack[k], f, globalHandlers)
    BY <1>7, PublishedForReplay DEF f
  <2>. QED
    BY <1>5, <1>6, <2>1, DuringGoesOn
<1>. QED
  BY <1>1, <1>5, <1>7, TopGoesOn DEF f

LEMMA HandlerReturnsStep ==
  ASSUME BusInv, HandlerReturns
  PROVE  BusInv'
<1> DEFINE f == stack[Len(stack)]
           g == [f EXCEPT !.running = FALSE]
<1>1. /\ stack # <<>> /\ f.kind = "publish" /\ stack' = WithTop(g)
      /\ UNCHANGED <<typedHandlers, globalHandlers, entries>>
  BY DEF HandlerReturns, Publishing, Top
<1>2. Len(stack) \in DOMAIN stack
  BY <1>1, TopFacts
<1>3. /\ f \in PublishFrames
      /\ LoopOK(f, typedHandlers, globalHandlers, entries)
  BY <1>1, <1>2, BusFacts
<1> HIDE DEF f
<1>4. /\ g \in PublishFrames /\ g.kind = "publish"
      /\ g.event = f.event /\ g.typed = f.typed /\ g.live = f.live
      /\ g.typedPosition = f.typedPosition /\ g.globalPosition = f.globalPosition
      /\ g.called = f.called /\ g.due = f.due /\ g.skips = f.skips
  BY <1>3 DEF PublishFrames
<1> HIDE DEF g
<1>5. LoopOK(g, typedHandlers, globalHandlers, entries)
  BY <1>3, <1>4 DEF LoopOK, LoopTyped, LoopCalled, LoopDue
<1>6. ASSUME NEW k \in DOMAIN stack, k + 1 = Len(stack), stack[k].kind = "replay"
      PROVE  ReplayDuring(stack[k], g, globalHandlers)
  <2>1. ReplayDuring(stack[k], f, globalHandlers)
    BY <1>6, PublishedForReplay DEF f
  <2>. QED
    BY <1>4, <2>1, DuringGoesOn
<1>. QED
  BY <1>1, <1>4, <1>5, <1>6, TopGoesOn DEF f

(* The publish on top is one of a replay.                                  *)
LEMMA CallerFacts ==
  ASSUME BusInv, OfReplay
  PROVE  /\ stack # <<>> /\ Len(stack) - 1 \in DOMAIN stack
         /\ stack[Len(stack)].kind = "publish"
         /\ Caller = stack[Len(stack) - 1] /\ Caller.kind = "replay"
         /\ ReplayIsFrame(Caller) /\ ReplayShape(Caller, entries)
         /\ ReplayDuring(Caller, stack[Len(stack)], globalHandlers)
<1> DEFINE n == Len(stack)
           k == n - 1
<1>1. /\ n > 1 /\ stack[k].kind = "replay" /\ Caller = stack[k]
      /\ n \in Nat /\ DOMAIN stack = 1..n /\ Len(stack) = n
  BY BusFacts DEF OfReplay, Caller
<1>2. k \in DOMAIN stack /\ k + 1 = Len(stack) /\ stack # <<>> /\ k # Len(stack)
  <2>1. stack # <<>>
    <3>1. n > 1
      BY <1>1
    <3>. QED
      BY <3>1
  <2>2. n \in Nat /\ n > 1
    BY <1>1
  <2>3. k \in 1..n /\ k + 1 = n /\ k # n
    BY <2>2
  <2>4. n = Len(stack) /\ DOMAIN stack = 1..n
    BY <1>1
  <2> HIDE DEF k, n
  <2>. QED
    BY <2>1, <2>2, <2>3, <2>4
<1> HIDE DEF k
<1>3. stack[k + 1].kind = "publish"
  BY <1>1, <1>2, BusFacts
<1>4. ReplayIsFrame(stack[k])
  BY <1>1, <1>2, BusFacts DEF ReplayIsFrame
<1>5. /\ ReplayShape(stack[k], entries)
      /\ ReplayDuring(stack[k], stack[Len(stack)], globalHandlers)
  BY <1>1, <1>2, PublishedForReplay
<1>. QED
  BY <1>1, <1>2, <1>3, <1>4, <1>5 DEF k

LEMMA WithCallerFacts ==
  ASSUME BusInv, OfReplay, NEW r \in Frames
  PROVE  /\ WithCaller(r) \in Seq(Frames) /\ Len(WithCaller(r)) = Len(stack) - 1
         /\ \A k \in 1..(Len(stack) - 2) : WithCaller(r)[k] = stack[k]
         /\ WithCaller(r)[Len(stack) - 1] = r
<1> DEFINE n == Len(stack)
           lower == Front(Below)
<1>1. n \in Nat /\ n > 1 /\ stack # <<>> /\ n = Len(stack)
  BY BusFacts, CallerFacts DEF OfReplay
<1>2. /\ Below \in Seq(Frames) /\ Len(Below) = n - 1
      /\ \A k \in 1..(n - 1) : Below[k] = stack[k]
  BY <1>1, TopFacts
<1> HIDE DEF n
<1>3. Below # <<>>
  BY <1>1, <1>2
<1>4. /\ lower \in Seq(Frames) /\ Len(lower) = Len(Below) - 1
      /\ \A k \in 1..(Len(Below) - 1) : lower[k] = Below[k]
  BY <1>2, <1>3, StackFacts
<1> HIDE DEF lower
<1>5. Len(Below) - 1 = n - 2 /\ Len(lower) = n - 2 /\ Len(lower) + 1 = n - 1
  BY <1>1, <1>2, <1>4
<1>6. \A k \in 1..(n - 2) : k \in 1..(n - 1) /\ lower[k] = stack[k]
  BY <1>1, <1>2, <1>4, <1>5
<1>7. /\ Append(lower, r) \in Seq(Frames)
      /\ Len(Append(lower, r)) = Len(lower) + 1
      /\ \A k \in 1..Len(lower) : Append(lower, r)[k] = lower[k]
      /\ Append(lower, r)[Len(lower) + 1] = r
  BY <1>4, PushFacts
<1>8. WithCaller(r) = Append(lower, r)
  BY DEF WithCaller, lower
<1>. QED
  BY <1>1, <1>5, <1>6, <1>7, <1>8

(* The publish has ended, and the replay goes on.                          *)
LEMMA CallerGoesOn ==
  ASSUME BusInv, OfReplay, UNCHANGED <<typedHandlers, globalHandlers, entries>>,
         NEW r, ReplayIsFrame(r), r.subscriptions = Caller.subscriptions,
         ReplayShape(r, entries), ReplayBetween(r, globalHandlers),
         stack' = WithCaller(r)
  PROVE  BusInv'
<1> DEFINE n == Len(stack)
           m == n - 1
<1>1. /\ n \in Nat /\ n > 1 /\ m \in Nat /\ m > 0 /\ n = m + 1 /\ Len(stack) = n
      /\ n - 2 = m - 1
  BY BusFacts DEF OfReplay
<1>2. r \in Frames /\ r.kind = "replay"
  BY ReplayIsInFrames
<1>3. /\ stack' \in Seq(Frames) /\ Len(stack') = n - 1
      /\ \A k \in 1..(n - 2) : stack'[k] = stack[k]
      /\ stack'[m] = r
  BY <1>2, WithCallerFacts
<1>4. /\ stack[n].kind = "publish" /\ stack[m].kind = "replay"
      /\ stack[m].subscriptions = r.subscriptions
  BY CallerFacts
<1>5. DOMAIN stack = 1..n
  BY BusFacts
<1> HIDE DEF n, m
<1>6. Len(stack') = m /\ DOMAIN stack' = 1..m
  BY <1>1, <1>3
<1>7. \A k \in 1..n : k = n \/ k \in 1..m
  BY <1>1
<1>8. \A k \in 1..m : (k = m \/ k \in 1..(m - 1)) /\ k \in 1..n
  BY <1>1
<1>9. ASSUME NEW k \in 1..(m - 1)
      PROVE  /\ stack'[k].kind = "publish" =>
                  LoopOK(stack'[k], typedHandlers, globalHandlers, entries)
             /\ stack'[k].kind = "replay" =>
                  ReplayOK(stack', k, globalHandlers, entries)
  <2>1. k \in DOMAIN stack /\ k # Len(stack) /\ k # Len(stack') /\ stack'[k] = stack[k]
    BY <1>1, <1>3, <1>5, <1>6
  <2>2. CASE k + 1 = m
    <3>1. stack[k + 1].kind = "replay"
      BY <1>4, <2>2
    <3>2. stack[k].kind = "publish"
      BY <2>1, <3>1, BusFacts
    <3>. QED
      BY <2>1, <3>2, LowerPublishes
  <2>3. CASE k + 1 # m
    <3>1. k + 1 \in 1..(n - 2)
      BY <1>1, <2>3
    <3>2. stack'[k + 1] = stack[k + 1]
      BY <1>3, <3>1
    <3>. QED
      BY <2>1, <3>2, LowerFrames
  <2>. QED
    BY <2>2, <2>3
<1>10. ReplayOK(stack', m, globalHandlers, entries)
  BY <1>3, <1>6 DEF ReplayOK
<1>11. ASSUME NEW k \in DOMAIN stack'
       PROVE  /\ stack'[k].kind = "publish" =>
                   LoopOK(stack'[k], typedHandlers, globalHandlers, entries)
              /\ stack'[k].kind = "replay" =>
                   ReplayOK(stack', k, globalHandlers, entries)
  BY <1>2, <1>3, <1>6, <1>8, <1>9, <1>10
<1>12. SameReplays(stack, stack')
  <2>1. \A k \in 1..(m - 1) : stack'[k] = stack[k]
    BY <1>1, <1>3
  <2>. QED
    BY <1>2, <1>3, <1>4, <1>5, <1>6, <1>7, <1>8, <2>1 DEF SameReplays
<1>. QED
  BY <1>3, <1>11, <1>12, BusInvByStack

(* Both the publish and the replay go on.                                  *)
LEMMA BothGoOn ==
  ASSUME BusInv, OfReplay, UNCHANGED <<typedHandlers, globalHandlers, entries>>,
         NEW r, ReplayIsFrame(r), r.subscriptions = Caller.subscriptions,
         ReplayShape(r, entries),
         NEW g \in PublishFrames, ReplayDuring(r, g, globalHandlers),
         LoopOK(g, typedHandlers, globalHandlers, entries),
         stack' = Append(WithCaller(r), g)
  PROVE  BusInv'
<1> DEFINE n == Len(stack)
           m == n - 1
<1>1. /\ n \in Nat /\ n > 1 /\ m \in Nat /\ m > 0 /\ n = m + 1 /\ Len(stack) = n
      /\ n - 2 = m - 1
  BY BusFacts DEF OfReplay
<1>2. r \in Frames /\ r.kind = "replay" /\ g \in Frames /\ g.kind = "publish"
  BY ReplayIsInFrames, PublishIsFrame DEF PublishFrames
<1>3. /\ stack' \in Seq(Frames) /\ Len(stack') = n
      /\ \A k \in 1..(m - 1) : stack'[k] = stack[k]
      /\ stack'[m] = r /\ stack'[n] = g
  <2>1. /\ WithCaller(r) \in Seq(Frames) /\ Len(WithCaller(r)) = m
        /\ \A k \in 1..(m - 1) : WithCaller(r)[k] = stack[k]
        /\ WithCaller(r)[m] = r
    BY <1>1, <1>2, WithCallerFacts
  <2>2. /\ stack' \in Seq(Frames) /\ Len(stack') = m + 1
        /\ \A k \in 1..m : stack'[k] = WithCaller(r)[k]
        /\ stack'[m + 1] = g
    BY <1>2, <2>1, PushFacts
  <2> HIDE DEF m, n
  <2>3. \A k \in 1..(m - 1) : k \in 1..m
    BY <1>1
  <2>. QED
    BY <1>1, <2>1, <2>2, <2>3
<1>4. /\ stack[n].kind = "publish" /\ stack[m].kind = "replay"
      /\ stack[m].subscriptions = r.subscriptions
  BY CallerFacts
<1>5. DOMAIN stack = 1..n
  BY BusFacts
<1> HIDE DEF n, m
<1>6. Len(stack') = n /\ DOMAIN stack' = 1..n
  BY <1>1, <1>3
<1>7. \A k \in 1..n : k = n \/ k = m \/ k \in 1..(m - 1)
  BY <1>1
<1>8. ASSUME NEW k \in 1..(m - 1)
      PROVE  /\ stack'[k].kind = "publish" =>
                  LoopOK(stack'[k], typedHandlers, globalHandlers, entries)
             /\ stack'[k].kind = "replay" =>
                  ReplayOK(stack', k, globalHandlers, entries)
  <2>1. k \in DOMAIN stack /\ k # Len(stack) /\ k # Len(stack') /\ stack'[k] = stack[k]
    BY <1>1, <1>3, <1>5, <1>6
  <2>2. CASE k + 1 = m
    <3>1. stack[k + 1].kind = "replay"
      BY <1>4, <2>2
    <3>2. stack[k].kind = "publish"
      BY <2>1, <3>1, BusFacts
    <3>. QED
      BY <2>1, <3>2, LowerPublishes
  <2>3. CASE k + 1 # m
    <3>1. k + 1 \in 1..(m - 1)
      BY <1>1, <2>3
    <3>2. stack'[k + 1] = stack[k + 1]
      BY <1>3, <3>1
    <3>. QED
      BY <2>1, <3>2, LowerFrames
  <2>. QED
    BY <2>2, <2>3
<1>9. ReplayOK(stack', m, globalHandlers, entries)
  <2>1. m # Len(stack') /\ m + 1 = n
    BY <1>1, <1>6
  <2>. QED
    BY <1>3, <2>1 DEF ReplayOK
<1>10. ASSUME NEW k \in DOMAIN stack'
       PROVE  /\ stack'[k].kind = "publish" =>
                   LoopOK(stack'[k], typedHandlers, globalHandlers, entries)
              /\ stack'[k].kind = "replay" =>
                   ReplayOK(stack', k, globalHandlers, entries)
  BY <1>2, <1>3, <1>6, <1>7, <1>8, <1>9
<1>11. SameReplays(stack, stack')
  BY <1>2, <1>3, <1>4, <1>5, <1>6, <1>7 DEF SameReplays
<1>. QED
  BY <1>3, <1>10, <1>11, BusInvByStack

(* The publish has ended, and the handler or the client that called it     *)
(* goes on.                                                                *)
LEMMA BelowGoesOn ==
  ASSUME BusInv, ~OfReplay, UNCHANGED <<typedHandlers, globalHandlers, entries>>,
         stack # <<>>, stack[Len(stack)].kind = "publish", stack' = Below
  PROVE  BusInv'
<1> DEFINE n == Len(stack)
           m == n - 1
<1>1. /\ n \in Nat /\ n > 0 /\ m \in Nat /\ n = m + 1 /\ Len(stack) = n
  BY BusFacts, TopFacts
<1>2. /\ stack' \in Seq(Frames) /\ Len(stack') = m
      /\ \A k \in 1..m : stack'[k] = stack[k]
  BY TopFacts
<1>3. DOMAIN stack = 1..n /\ stack[n].kind = "publish"
  BY BusFacts
<1>4. m > 0 => stack[m].kind # "replay"
  BY <1>1 DEF OfReplay
<1> HIDE DEF n, m
<1>5. DOMAIN stack' = 1..m
  BY <1>1, <1>2
<1>6. \A k \in 1..n : k = n \/ k \in 1..m
  BY <1>1
<1>7. ASSUME NEW k \in DOMAIN stack'
      PROVE  /\ stack'[k].kind = "publish" =>
                  LoopOK(stack'[k], typedHandlers, globalHandlers, entries)
             /\ stack'[k].kind = "replay" =>
                  ReplayOK(stack', k, globalHandlers, entries)
  <2>1. k \in DOMAIN stack /\ k # Len(stack) /\ stack'[k] = stack[k]
    BY <1>1, <1>2, <1>3, <1>5
  <2>2. CASE k = m
    <3>1. m > 0
      BY <1>1, <1>5, <2>2
    <3>2. stack[k].kind = "publish"
      BY <1>4, <2>1, <2>2, <3>1, BusFacts
    <3>. QED
      BY <2>1, <3>2, LowerPublishes
  <2>3. CASE k # m
    <3>1. k # Len(stack') /\ k + 1 \in 1..m
      BY <1>1, <1>2, <1>5, <2>3
    <3>2. stack'[k + 1] = stack[k + 1]
      BY <1>2, <3>1
    <3>. QED
      BY <2>1, <3>1, <3>2, LowerFrames
  <2>. QED
    BY <2>2, <2>3
<1>8. SameReplays(stack, stack')
  <2>1. \A k \in 1..m : k \in 1..n
    BY <1>1
  <2>. QED
    BY <1>2, <1>3, <1>5, <1>6, <2>1 DEF SameReplays
<1>. QED
  BY <1>2, <1>7, <1>8, BusInvByStack

LEMMA SubSeqGrows ==
  ASSUME NEW s \in Seq(BacktestEvent), NEW m \in 1..Len(s)
  PROVE  Append(SubSeq(s, 1, m - 1), s[m]) = SubSeq(s, 1, m)
<1> DEFINE front == SubSeq(s, 1, m - 1)
           more == SubSeq(s, 1, m)
<1>1. /\ front \in Seq(BacktestEvent) /\ more \in Seq(BacktestEvent)
      /\ Len(front) = m - 1 /\ Len(more) = m
      /\ \A i \in 1..(m - 1) : front[i] = s[i]
      /\ \A i \in 1..m : more[i] = s[i]
      /\ s[m] \in BacktestEvent
  OBVIOUS
<1> HIDE DEF front, more
<1>. QED
  BY <1>1

(* A subscriber of the replay that the event is of handles it.             *)
Handles(c, entry, event, r) ==
  r = [c EXCEPT !.handled = [c.handled EXCEPT ![entry] = Append(c.handled[entry], event)]]

LEMMA SubscriberHandles ==
  ASSUME NEW c, ReplayIsFrame(c), ReplayShape(c, entries),
         NEW f \in PublishFrames, NEW gh, ReplayDuring(c, f, gh),
         NEW entry \in c.subscriptions,
         ~Holds(f.called, entry),
         NEW g, g.kind = "publish", g.event = f.event, f.skips => g.skips,
         \A e : Holds(f.called, e) \/ e = entry => Holds(g.called, e),
         \A e : Ahead(f.globalPosition, gh, e) /\ e # entry =>
           Ahead(g.globalPosition, gh, e),
         NEW r, Handles(c, entry, f.event, r)
  PROVE  /\ ReplayIsFrame(r) /\ r.subscriptions = c.subscriptions
         /\ ReplayShape(r, entries) /\ ReplayDuring(r, g, gh)
<1> DEFINE S == c.subscriptions
           h == [c.handled EXCEPT ![entry] = Append(c.handled[entry], f.event)]
<1>1. c \in ReplayFrames(S) /\ S \in SUBSET Nat
  BY DEF ReplayIsFrame
<1>2. /\ c.events \in Seq(BacktestEvent) /\ c.next \in Nat
      /\ c.handled \in [S -> Seq(BacktestEvent)] /\ f.event \in BacktestEvent
  BY <1>1 DEF ReplayFrames, PublishFrames
<1>3. /\ h \in [S -> Seq(BacktestEvent)]
      /\ h[entry] = Append(c.handled[entry], f.event)
      /\ \A e \in S : e # entry => h[e] = c.handled[e]
  <2>1. Append(c.handled[entry], f.event) \in Seq(BacktestEvent)
    BY <1>2
  <2>. QED
    BY <1>2, <2>1
<1>4. r = [c EXCEPT !.handled = h]
  BY DEF Handles
<1> HIDE DEF h
<1>5. /\ r \in ReplayFrames(S) /\ r.subscriptions = S /\ r.handled = h
      /\ r.events = c.events /\ r.next = c.next /\ r.failed = c.failed
      /\ r.skips = c.skips
  BY <1>1, <1>3, <1>4 DEF ReplayFrames
<1>6. ReplayIsFrame(r)
  BY <1>1, <1>5 DEF ReplayIsFrame
<1>7. ReplayShape(r, entries)
  BY <1>5 DEF ReplayShape
<1>8. r.next > 1 /\ g.event = r.events[r.next - 1]
  BY <1>5 DEF ReplayDuring
<1>9. ASSUME ~r.failed, ~r.skips, ~g.skips, NEW e \in S
      PROVE  /\ Holds(gh, e)
             /\ \/ /\ Holds(g.called, e)
                   /\ r.handled[e] = SubSeq(r.events, 1, r.next - 1)
                \/ /\ Ahead(g.globalPosition, gh, e)
                   /\ r.handled[e] = SubSeq(r.events, 1, r.next - 2)
  <2>1. /\ Holds(gh, e)
        /\ \/ /\ Holds(f.called, e)
              /\ c.handled[e] = SubSeq(c.events, 1, c.next - 1)
           \/ /\ Ahead(f.globalPosition, gh, e)
              /\ c.handled[e] = SubSeq(c.events, 1, c.next - 2)
    BY <1>5, <1>9 DEF ReplayDuring
  <2>2. CASE e # entry
    BY <1>3, <1>5, <2>1, <2>2
  <2>3. CASE e = entry
    <3> DEFINE m == c.next - 1
    <3>1. c.handled[e] = SubSeq(c.events, 1, c.next - 2)
      BY <2>1, <2>3
    <3>2. m \in 1..Len(c.events) /\ m - 1 = c.next - 2
      BY <1>2 DEF ReplayShape, ReplayDuring
    <3>3. f.event = c.events[m]
      BY DEF ReplayDuring
    <3> HIDE DEF m
    <3>4. Append(SubSeq(c.events, 1, m - 1), c.events[m]) = SubSeq(c.events, 1, m)
      BY <1>2, <3>2, SubSeqGrows
    <3>5. h[e] = SubSeq(c.events, 1, m)
      BY <1>3, <2>3, <3>1, <3>2, <3>3, <3>4
    <3>. QED
      BY <1>5, <2>1, <2>3, <3>5 DEF m
  <2>. QED
    BY <2>2, <2>3
<1>10. ReplayDuring(r, g, gh)
  BY <1>5, <1>8, <1>9 DEF ReplayDuring
<1>. QED
  BY <1>5, <1>6, <1>7, <1>10

LEMMA CallSubscriberStep ==
  ASSUME BusInv, NEW entry \in DOMAIN entries, CallSubscriber(entry)
  PROVE  BusInv'
<1> DEFINE f == stack[Len(stack)]
           g == CalledGlobal(entry)
           handles == OfReplay /\ entry \in Caller.subscriptions
<1>1. /\ stack # <<>> /\ f.kind = "publish" /\ TypedDone(f)
      /\ CallsNextGlobal(f, globalHandlers, entry, g)
      /\ UNCHANGED <<typedHandlers, globalHandlers, entries>>
  BY DEF CallSubscriber, CallGlobal, CallsGlobal, CalledGlobal, Looping, Publishing,
         Top, CallsNextGlobal
<1>2. Len(stack) \in DOMAIN stack
  BY <1>1, TopFacts
<1>3. f \in PublishFrames /\ LoopOK(f, typedHandlers, globalHandlers, entries)
  BY <1>1, <1>2, BusFacts
<1>4. /\ entries \in Seq(Everywhere) /\ globalHandlers \in Seq(Nat)
      /\ GlobalListOK(globalHandlers, entries)
  BY BusFacts
<1>5. /\ ~handles => stack' = WithTop(g)
      /\ handles => stack' = Append(
           WithCaller([Caller EXCEPT !.handled[entry] = Append(@, f.event)]), g)
  BY DEF CallSubscriber, CallGlobal, Top
<1>6. \A k \in DOMAIN stack :
        k + 1 = Len(stack) /\ stack[k].kind = "replay" =>
          OfReplay /\ Caller = stack[k]
  <2> SUFFICES ASSUME NEW k \in DOMAIN stack, k + 1 = Len(stack),
                      stack[k].kind = "replay"
               PROVE  OfReplay /\ Caller = stack[k]
    OBVIOUS
  <2>1. k \in Nat /\ k > 0
    BY BusFacts
  <2>2. k = Len(stack) - 1 /\ Len(stack) > 1
    BY <2>1
  <2>. QED
    BY <2>2 DEF OfReplay, Caller
<1> HIDE DEF f, g
<1>7. TypedDone(f) /\ CallsNextGlobal(f, globalHandlers, entry, g)
  BY <1>1
<1>8. /\ g \in PublishFrames
      /\ g.event = f.event /\ g.skips = f.skips
      /\ \A e : Holds(f.called, e) \/ e = entry => Holds(g.called, e)
      /\ \A e : Ahead(f.globalPosition, globalHandlers, e) /\ e # entry =>
           Ahead(g.globalPosition, globalHandlers, e)
      /\ ~Holds(f.called, entry)
      /\ LoopOK(g, typedHandlers, globalHandlers, entries)
  <2>1. CallsNextGlobal(f, globalHandlers, entry, g)
    BY <1>7
  <2>2. TypedDone(f)
    BY <1>7
  <2>3. /\ g \in PublishFrames /\ LoopOK(g, typedHandlers, globalHandlers, entries)
        /\ HasCalled(f, globalHandlers, entry, g)
    BY <1>3, <1>4, <2>1, <2>2, GlobalCalled
  <2>. QED
    BY <2>3 DEF HasCalled
<1>9. g.kind = "publish"
  BY <1>8 DEF PublishFrames
<1>10. CASE ~handles
  <2>1. ASSUME NEW k \in DOMAIN stack, k + 1 = Len(stack), stack[k].kind = "replay"
        PROVE  ReplayDuring(stack[k], g, globalHandlers)
    <3>1. ReplayDuring(stack[k], f, globalHandlers)
      BY <2>1, PublishedForReplay DEF f
    <3>2. entry \notin stack[k].subscriptions
      BY <1>6, <1>10, <2>1
    <3>3. \A e \in stack[k].subscriptions :
            Ahead(f.globalPosition, globalHandlers, e) =>
              Ahead(g.globalPosition, globalHandlers, e)
      BY <1>8, <3>2
    <3>. QED
      BY <1>8, <1>9, <3>1, <3>3, DuringGoesOn
  <2>2. stack' = WithTop(g)
    BY <1>5, <1>10
  <2>. QED
    BY <1>1, <1>8, <2>1, <2>2, TopGoesOn DEF f
<1>11. CASE handles
  <2> DEFINE c == Caller
             r == [c EXCEPT !.handled = [c.handled EXCEPT
                    ![entry] = Append(c.handled[entry], f.event)]]
  <2>1. stack' = Append(WithCaller(r), g)
    BY <1>5, <1>11
  <2>2. OfReplay /\ entry \in c.subscriptions
    BY <1>11
  <2>3. /\ ReplayIsFrame(c) /\ ReplayShape(c, entries)
        /\ ReplayDuring(c, f, globalHandlers)
    BY <2>2, CallerFacts DEF f
  <2>4. Handles(c, entry, f.event, r)
    BY DEF Handles
  <2> HIDE DEF c, r
  <2>5. /\ ReplayIsFrame(r) /\ r.subscriptions = c.subscriptions
        /\ ReplayShape(r, entries) /\ ReplayDuring(r, g, globalHandlers)
    BY <1>3, <1>8, <1>9, <2>2, <2>3, <2>4, SubscriberHandles
  <2>. QED
    BY <1>1, <1>8, <2>1, <2>2, <2>5, BothGoOn DEF c
<1>. QED
  BY <1>10, <1>11

LEMMA ReturnsStep ==
  ASSUME BusInv, Returns
  PROVE  BusInv'
<1> DEFINE f == stack[Len(stack)]
<1>1. /\ stack # <<>> /\ f.kind = "publish" /\ TypedDone(f)
      /\ f.globalPosition >= Len(globalHandlers)
      /\ UNCHANGED <<typedHandlers, globalHandlers, entries>>
  BY DEF Returns, PublishReturns, PublishEnds, Looping, Publishing, Top
<1>2. Len(stack) \in DOMAIN stack
  BY <1>1, TopFacts
<1>3. /\ f \in PublishFrames /\ LoopOK(f, typedHandlers, globalHandlers, entries)
      /\ globalHandlers \in Seq(Nat)
  BY <1>1, <1>2, BusFacts
<1>4. CASE ~OfReplay
  <2>1. stack' = Below
    BY <1>4 DEF Returns, PublishReturns
  <2>. QED
    BY <1>1, <1>4, <2>1, BelowGoesOn
<1>5. CASE OfReplay
  <2> DEFINE c == Caller
             r == [c EXCEPT !.skips = c.skips \/ f.skips]
  <2>1. stack' = WithCaller(r)
    BY <1>5 DEF Returns, Top
  <2>2. /\ ReplayIsFrame(c) /\ ReplayShape(c, entries)
        /\ ReplayDuring(c, f, globalHandlers)
    BY <1>5, CallerFacts
  <2> HIDE DEF c, f
  <2>3. /\ ReplayIsFrame(r) /\ r.subscriptions = c.subscriptions
        /\ r.events = c.events /\ r.next = c.next /\ r.handled = c.handled
        /\ r.failed = c.failed /\ r.skips = (c.skips \/ f.skips)
    <3>1. c \in ReplayFrames(c.subscriptions) /\ c.subscriptions \in SUBSET Nat
      BY <2>2 DEF ReplayIsFrame
    <3>2. (c.skips \/ f.skips) \in BOOLEAN
      OBVIOUS
    <3> DEFINE skips == c.skips \/ f.skips
    <3> HIDE DEF skips
    <3>3. r = [c EXCEPT !.skips = skips] /\ skips \in BOOLEAN
      BY <3>2 DEF skips
    <3> HIDE DEF r
    <3>4. /\ r \in ReplayFrames(c.subscriptions) /\ r.subscriptions = c.subscriptions
          /\ r.events = c.events /\ r.next = c.next /\ r.handled = c.handled
          /\ r.failed = c.failed /\ r.skips = skips
      BY <3>1, <3>3 DEF ReplayFrames
    <3>. QED
      BY <3>1, <3>4 DEF ReplayIsFrame, skips
  <2> HIDE DEF r
  <2>4. ReplayShape(r, entries)
    BY <2>2, <2>3 DEF ReplayShape
  <2>5. \A e : ~Ahead(f.globalPosition, globalHandlers, e)
    BY <1>1, <1>3, LoopEnds
  <2>6. ReplayBetween(r, globalHandlers)
    BY <2>2, <2>3, <2>5 DEF ReplayDuring, ReplayBetween
  <2>. QED
    BY <1>1, <1>5, <2>1, <2>3, <2>4, <2>6, CallerGoesOn DEF c
<1>. QED
  BY <1>4, <1>5

LEMMA ThrowsStep ==
  ASSUME BusInv, Throws
  PROVE  BusInv'
<1>1. /\ stack # <<>> /\ stack[Len(stack)].kind = "publish"
      /\ UNCHANGED <<typedHandlers, globalHandlers, entries>>
  BY DEF Throws, HandlerThrows, Publishing, Top
<1>2. CASE ~OfReplay
  <2>1. stack' = Below
    BY <1>2 DEF Throws, HandlerThrows
  <2>. QED
    BY <1>1, <1>2, <2>1, BelowGoesOn
<1>3. CASE OfReplay
  <2> DEFINE c == Caller
             r == [c EXCEPT !.failed = TRUE]
  <2>1. stack' = WithCaller(r)
    BY <1>3 DEF Throws
  <2>2. ReplayIsFrame(c) /\ ReplayShape(c, entries)
    BY <1>3, CallerFacts
  <2> HIDE DEF c
  <2>3. /\ ReplayIsFrame(r) /\ r.subscriptions = c.subscriptions
        /\ r.events = c.events /\ r.next = c.next /\ r.failed = TRUE
    <3>1. c \in ReplayFrames(c.subscriptions) /\ c.subscriptions \in SUBSET Nat
      BY <2>2 DEF ReplayIsFrame
    <3>2. /\ r \in ReplayFrames(c.subscriptions) /\ r.subscriptions = c.subscriptions
          /\ r.events = c.events /\ r.next = c.next /\ r.failed = TRUE
      BY <3>1 DEF ReplayFrames
    <3>. QED
      BY <3>1, <3>2 DEF ReplayIsFrame
  <2> HIDE DEF r
  <2>4. ReplayShape(r, entries)
    BY <2>2, <2>3 DEF ReplayShape
  <2>5. ReplayBetween(r, globalHandlers)
    BY <2>3 DEF ReplayBetween
  <2>. QED
    BY <1>1, <1>3, <2>1, <2>3, <2>4, <2>5, CallerGoesOn DEF c
<1>. QED
  BY <1>2, <1>3

(* The subscriptions of a new replay are new, and in the order made.       *)
NewSubscriptions(subscribers) == [n \in 1..subscribers |-> Len(entries) + n]

LEMMA SubscriptionsAreNew ==
  ASSUME entries \in Seq(Everywhere), NEW subscribers \in Nat,
         NEW en2, en2 = entries \o [n \in 1..subscribers |-> Replay],
         NEW new, new = NewSubscriptions(subscribers)
  PROVE  /\ en2 \in Seq(Everywhere) /\ Adds(entries, en2)
         /\ new \in Seq(Nat) /\ Increasing(new)
         /\ \A e : Holds(new, e) =>
              /\ e \in Nat /\ e > Len(entries)
              /\ e \in DOMAIN en2 /\ en2[e] = Replay /\ en2[e] \notin Types
<1> DEFINE L == Len(entries)
           added == [n \in 1..subscribers |-> Replay]
<1>1. /\ added \in Seq(Everywhere) /\ Len(added) = subscribers /\ L \in Nat
      /\ L = Len(entries) /\ DOMAIN entries = 1..L
      /\ \A n \in 1..subscribers : added[n] = Replay
  <2>1. Replay \in Everywhere
    BY DEF Everywhere
  <2>. QED
    BY <2>1
<1>2. /\ new = [n \in 1..subscribers |-> L + n]
  BY DEF NewSubscriptions
<1> HIDE DEF added, L
<1>3. /\ en2 \in Seq(Everywhere) /\ Len(en2) = L + subscribers
      /\ \A n \in 1..L : en2[n] = entries[n]
      /\ \A n \in 1..subscribers : en2[L + n] = added[n]
  <2>1. en2 = entries \o added
    BY DEF added
  <2>. QED
    BY <1>1, <2>1
<1>4. DOMAIN en2 = 1..(L + subscribers)
  BY <1>3
<1>5. Adds(entries, en2)
  <2>1. \A e \in 1..L : e \in 1..(L + subscribers)
    BY <1>1
  <2>2. L <= L + subscribers
    BY <1>1
  <2>. QED
    BY <1>1, <1>3, <1>4, <2>1, <2>2 DEF Adds
<1>6. new \in Seq(Nat) /\ Increasing(new)
  <2>1. \A n \in 1..subscribers : L + n \in Nat
    BY <1>1
  <2>. QED
    BY <1>1, <1>2, <2>1 DEF Increasing
<1>7. ASSUME NEW e, Holds(new, e)
      PROVE  /\ e \in Nat /\ e > L
             /\ e \in DOMAIN en2 /\ en2[e] = Replay
  <2>1. PICK n \in 1..subscribers : e = L + n
    BY <1>2, <1>7 DEF Holds
  <2>2. e \in Nat /\ e > L /\ e \in 1..(L + subscribers)
    BY <1>1, <2>1
  <2>. QED
    BY <1>1, <1>3, <1>4, <2>1, <2>2
<1>. QED
  BY <1>1, <1>3, <1>5, <1>6, <1>7, ReplayAssumption

Subscribed(S, gh, en) ==
  \A e \in S : e \in DOMAIN en /\ en[e] = Replay /\ Holds(gh, e)

BeginsWith(r, input, S) ==
  r = ReplayFrame(MergeAndSort(LoadCandles(input.candles)
                                 \o LoadOptionChains(input.optionChains)), S)

(* A new replay has its events in order, and has published none.           *)
LEMMA ReplayBegins ==
  ASSUME NEW input \in Inputs, NEW S \in SUBSET Nat, NEW en, NEW gh,
         Subscribed(S, gh, en), NEW r, BeginsWith(r, input, S)
  PROVE  /\ ReplayIsFrame(r) /\ r.subscriptions = S
         /\ ReplayShape(r, en) /\ ReplayBetween(r, gh)
<1> DEFINE merged == LoadCandles(input.candles) \o LoadOptionChains(input.optionChains)
           sorted == MergeAndSort(merged)
<1>1. merged \in Seq(BacktestEvent)
  <2>1. /\ input.candles \in Seq(Nat) /\ input.optionChains \in Seq(Nat)
        /\ Market \in Types /\ OptionChain \in Types
    BY ReplayAssumption
  <2>2. ASSUME NEW times \in Seq(Nat), NEW type \in Types
        PROVE  [n \in DOMAIN times |-> Event(type, times[n])] \in Seq(BacktestEvent)
    <3>1. DOMAIN times = 1..Len(times) /\ Len(times) \in Nat
      OBVIOUS
    <3>2. \A n \in 1..Len(times) : Event(type, times[n]) \in BacktestEvent
      BY DEF Event, BacktestEvent
    <3>. QED
      BY <3>1, <3>2
  <2>3. /\ LoadCandles(input.candles) \in Seq(BacktestEvent)
        /\ LoadOptionChains(input.optionChains) \in Seq(BacktestEvent)
    BY <2>1, <2>2 DEF LoadCandles, LoadOptionChains
  <2>. QED
    BY <2>3
<1> HIDE DEF merged
<1>2. /\ sorted \in Seq(BacktestEvent)
      /\ \A m, n \in DOMAIN sorted : m < n => ~Earlier(sorted[n], sorted[m])
  BY <1>1, SortedEvents
<1>3. r = ReplayFrame(sorted, S)
  BY DEF BeginsWith, merged
<1> HIDE DEF sorted
<1>4. /\ r.kind = "replay" /\ r.events = sorted /\ r.next = 1 /\ r.failed = FALSE
      /\ r.subscriptions = S /\ r.handled = [e \in S |-> <<>>] /\ r.skips = FALSE
  BY <1>3 DEF ReplayFrame
<1>5. ReplayIsFrame(r)
  <2>1. [e \in S |-> <<>>] \in [S -> Seq(BacktestEvent)]
    OBVIOUS
  <2>2. r \in ReplayFrames(S)
    BY <1>2, <1>3, <2>1 DEF ReplayFrame, ReplayFrames
  <2>. QED
    BY <1>4, <2>2 DEF ReplayIsFrame
<1>6. ReplayShape(r, en)
  <2>1. 1 \in 1..(Len(sorted) + 1)
    BY <1>2
  <2>. QED
    BY <1>2, <1>4, <2>1 DEF Subscribed, ReplayShape
<1>7. ReplayBetween(r, gh)
  <2>1. SubSeq(sorted, 1, 1 - 1) = <<>>
    BY <1>2
  <2>2. ASSUME NEW e \in S
        PROVE  Holds(gh, e) /\ r.handled[e] = SubSeq(r.events, 1, r.next - 1)
    BY <1>4, <2>1 DEF Subscribed
  <2>. QED
    BY <1>4, <2>2 DEF ReplayBetween
<1>. QED
  BY <1>4, <1>5, <1>6, <1>7

(* A frame of a replay is put on a stack whose top is a handler's publish. *)
LEMMA ReplayPushed ==
  ASSUME NEW st, NEW th, NEW gh, NEW gh2, NEW en, NEW en2,
         WellTyped(st, th, gh, en), StackOK(st, th, gh, en),
         HandlersMove(th, th, gh, gh2, en, en2),
         StackMoves(st, st, th, gh, gh2, en, en2, {}),
         st # <<>> => st[Len(st)].kind = "publish",
         NEW r, ReplayIsFrame(r), ReplayShape(r, en2), ReplayBetween(r, gh2),
         \A e \in r.subscriptions : e \notin DOMAIN en,
         \A e : Holds(gh2, e) => Holds(gh, e) \/ e \in r.subscriptions
  PROVE  /\ WellTyped(Append(st, r), th, gh2, en2)
         /\ StackOK(Append(st, r), th, gh2, en2)
<1> DEFINE n == Len(st)
           st2 == Append(st, r)
<1>1. /\ th \in [Types -> Seq(Nat)] /\ gh \in Seq(Nat)
      /\ en \in Seq(Everywhere) /\ st \in Seq(Frames)
  BY DEF WellTyped
<1>2. /\ n \in Nat /\ DOMAIN st = 1..n /\ n = Len(st)
      /\ \A k \in 1..n : st[k] \in Frames
  BY <1>1
<1>3. r \in Frames /\ r.kind = "replay"
  BY ReplayIsInFrames
<1>4. /\ st2 \in Seq(Frames) /\ Len(st2) = n + 1 /\ DOMAIN st2 = 1..(n + 1)
      /\ \A k \in 1..n : st2[k] = st[k]
      /\ st2[n + 1] = r
  BY <1>1, <1>3, PushFacts
<1>5. /\ \A k \in DOMAIN st :
           /\ st[k].kind = "publish" => LoopOK(st[k], th, gh2, en2)
           /\ st[k].kind = "replay" =>
                /\ ReplayShape(st[k], en2)
                /\ k # Len(st) => ReplayDuring(st[k], st[k + 1], gh2)
      /\ Apart(st)
  <2>1. /\ \A k \in DOMAIN st :
             /\ st[k].kind = st[k].kind
             /\ st[k].kind = "publish" => LoopOK(st[k], th, gh2, en2)
             /\ st[k].kind = "replay" =>
                  /\ ReplayShape(st[k], en2)
                  /\ k # Len(st) => ReplayDuring(st[k], st[k + 1], gh2)
        /\ Apart(st)
    BY <1>1, StackKept
  <2>. QED
    BY <2>1
<1>6. n > 0 => st[n].kind = "publish"
  BY <1>2
<1> HIDE DEF n, st2
<1>7. \A k \in 1..(n + 1) : k = n + 1 \/ k \in 1..n
  BY <1>2
<1>8. ASSUME NEW k \in 1..n
      PROVE  /\ st2[k].kind = "publish" => LoopOK(st2[k], th, gh2, en2)
             /\ st2[k].kind = "replay" => ReplayOK(st2, k, gh2, en2)
  <2>1. k \in DOMAIN st /\ st2[k] = st[k] /\ k # n + 1 /\ n > 0
    BY <1>2, <1>4
  <2>2. CASE st[k].kind = "replay"
    <3>1. k # n
      BY <1>6, <2>1, <2>2
    <3>2. k + 1 \in 1..n
      BY <1>2, <3>1
    <3>3. st2[k + 1] = st[k + 1]
      BY <1>4, <3>2
    <3>4. ReplayShape(st[k], en2) /\ ReplayDuring(st[k], st[k + 1], gh2)
      BY <1>2, <1>5, <2>1, <2>2, <3>1
    <3>5. st2[k].kind # "publish"
      BY <2>1, <2>2
    <3>. QED
      BY <1>4, <2>1, <3>3, <3>4, <3>5 DEF ReplayOK
  <2>3. CASE st[k].kind # "replay"
    BY <1>5, <2>1, <2>3
  <2>. QED
    BY <2>2, <2>3
<1>9. ReplayOK(st2, n + 1, gh2, en2)
  BY <1>4 DEF ReplayOK
<1>10. ASSUME NEW k \in DOMAIN st2
       PROVE  /\ st2[k].kind = "publish" => LoopOK(st2[k], th, gh2, en2)
              /\ st2[k].kind = "replay" => ReplayOK(st2, k, gh2, en2)
  BY <1>3, <1>4, <1>7, <1>8, <1>9
<1>11. ASSUME NEW k \in 1..n, st[k].kind = "replay"
       PROVE  st[k].subscriptions \cap r.subscriptions = {}
  <2>1. ReplayShape(st[k], en)
    BY <1>2, <1>11 DEF StackOK, ReplayOK
  <2>. QED
    BY <2>1 DEF ReplayShape
<1>12. Apart(st2)
  BY <1>2, <1>4, <1>5, <1>7, <1>11 DEF Apart
<1>13. NoneLeft(st2, gh2, en2)
  <2> SUFFICES ASSUME NEW i \in DOMAIN gh2, en2[gh2[i]] = Replay
               PROVE  \E k \in DOMAIN st2 : /\ st2[k].kind = "replay"
                                            /\ gh2[i] \in st2[k].subscriptions
    BY DEF NoneLeft
  <2>1. Holds(gh2, gh2[i])
    BY DEF Holds
  <2>2. CASE gh2[i] \in r.subscriptions
    <3>1. n + 1 \in DOMAIN st2
      BY <1>2, <1>4
    <3>. QED
      BY <1>3, <1>4, <2>2, <3>1
  <2>3. CASE Holds(gh, gh2[i])
    <3>1. gh2[i] \in DOMAIN en
      BY <2>3 DEF StackOK, HandlersOK, GlobalListOK, Holds
    <3>2. en[gh2[i]] = Replay
      BY <3>1 DEF HandlersMove
    <3>3. PICK k \in DOMAIN st : st[k].kind = "replay" /\ gh2[i] \in st[k].subscriptions
      BY <2>3, <3>2 DEF StackOK, NoneLeft, Holds
    <3>4. k \in DOMAIN st2 /\ st2[k] = st[k]
      BY <1>2, <1>4
    <3>. QED
      BY <3>3, <3>4
  <2>. QED
    BY <2>1, <2>2, <2>3
<1>14. HandlersOK(th, gh2, en2)
  BY DEF HandlersMove
<1>15. StackOK(st2, th, gh2, en2)
  BY <1>10, <1>12, <1>13, <1>14 DEF StackOK
<1>16. WellTyped(st2, th, gh2, en2)
  BY <1>4 DEF HandlersMove, WellTyped
<1>. QED
  BY <1>15, <1>16 DEF st2

LEMMA StartReplayStep ==
  ASSUME BusInv, NEW input \in Inputs, NEW subscribers \in 1..MaxSubscribers,
         StartReplay(input, subscribers)
  PROVE  BusInv'
<1> DEFINE new == NewSubscriptions(subscribers)
           r == ReplayFrame(MergeAndSort(LoadCandles(input.candles)
                                           \o LoadOptionChains(input.optionChains)),
                            ToSet(new))
<1>1. /\ CanCall
      /\ entries' = entries \o [n \in 1..subscribers |-> Replay]
      /\ globalHandlers' = globalHandlers \o new
      /\ stack' = Append(stack, r)
      /\ typedHandlers' = typedHandlers
  BY DEF StartReplay, PushedLast, NewSubscriptions
<1>2. /\ WellTyped(stack, typedHandlers, globalHandlers, entries)
      /\ StackOK(stack, typedHandlers, globalHandlers, entries)
      /\ entries \in Seq(Everywhere) /\ globalHandlers \in Seq(Nat)
  BY BusFacts DEF BusInv
<1>3. subscribers \in Nat
  BY ReplayAssumption
<1>4. /\ entries' \in Seq(Everywhere) /\ Adds(entries, entries')
      /\ new \in Seq(Nat) /\ Increasing(new)
      /\ \A e : Holds(new, e) =>
           /\ e \in Nat /\ e > Len(entries)
           /\ e \in DOMAIN entries' /\ entries'[e] = Replay /\ entries'[e] \notin Types
  BY <1>1, <1>2, <1>3, SubscriptionsAreNew
<1> DEFINE S == ToSet(new)
<1>5. S \in SUBSET Nat /\ (\A e : e \in S <=> Holds(new, e))
  <2>1. \A e : e \in S <=> Holds(new, e)
    BY ToSetIsHolds
  <2>. QED
    BY <1>4, <2>1
<1> HIDE DEF new, S
<1>6. /\ HandlersMove(typedHandlers, typedHandlers, globalHandlers,
                      globalHandlers \o new, entries, entries')
      /\ StackMoves(stack, stack, typedHandlers, globalHandlers,
                    globalHandlers \o new, entries, entries', {})
  BY <1>2, <1>4, JoinMoves
<1>7. \A e : Holds(globalHandlers \o new, e) <=> Holds(globalHandlers, e) \/ Holds(new, e)
  BY <1>2, <1>4, ConcatMoves
<1> DEFINE gh2 == globalHandlers \o new
<1> HIDE DEF gh2
<1>8. BeginsWith(r, input, S)
  BY DEF BeginsWith, S
<1> HIDE DEF r
<1>9. Subscribed(S, gh2, entries')
  BY <1>4, <1>5, <1>7 DEF Subscribed, gh2
<1>10. /\ ReplayIsFrame(r) /\ r.subscriptions = S
       /\ ReplayShape(r, entries') /\ ReplayBetween(r, gh2)
  BY <1>5, <1>8, <1>9, ReplayBegins
<1>11. \A e \in r.subscriptions : e \notin DOMAIN entries
  <2> SUFFICES ASSUME NEW e \in S, e \in DOMAIN entries PROVE FALSE
    BY <1>10
  <2>1. e > Len(entries)
    BY <1>4, <1>5
  <2>2. e <= Len(entries) /\ Len(entries) \in Nat /\ e \in Nat
    BY <1>2
  <2>. QED
    BY <2>1, <2>2
<1>12. \A e : Holds(gh2, e) => Holds(globalHandlers, e) \/ e \in r.subscriptions
  BY <1>5, <1>7, <1>10 DEF gh2
<1>13. /\ HandlersMove(typedHandlers, typedHandlers, globalHandlers, gh2,
                       entries, entries')
       /\ StackMoves(stack, stack, typedHandlers, globalHandlers, gh2,
                     entries, entries', {})
  BY <1>6 DEF gh2
<1>14. stack # <<>> => stack[Len(stack)].kind = "publish"
  BY <1>1, CallerPublishes
<1>15. /\ WellTyped(Append(stack, r), typedHandlers, gh2, entries')
       /\ StackOK(Append(stack, r), typedHandlers, gh2, entries')
  BY <1>2, <1>10, <1>11, <1>12, <1>13, <1>14, ReplayPushed
<1>16. /\ WellTyped(stack', typedHandlers', globalHandlers', entries')
       /\ StackOK(stack', typedHandlers', globalHandlers', entries')
  BY <1>1, <1>15 DEF gh2
<1>. QED
  BY <1>16 DEF BusInv, TypeOK, WellTyped

(* The frame of a replay whose subscriptions have gone is taken off.       *)
LEMMA ReplayPopped ==
  ASSUME NEW st, NEW st2, NEW th, NEW gh, NEW gh2, NEW en, NEW r,
         WellTyped(st, th, gh, en), StackOK(st, th, gh, en),
         st # <<>>, r = st[Len(st)], r.kind = "replay",
         HandlersMove(th, th, gh, gh2, en, en),
         StackMoves(st, st2, th, gh, gh2, en, en, r.subscriptions),
         \A e : Holds(gh2, e) => Holds(gh, e) /\ e \notin r.subscriptions
  PROVE  /\ WellTyped(Front(st2), th, gh2, en)
         /\ StackOK(Front(st2), th, gh2, en)
<1> DEFINE n == Len(st)
           m == n - 1
           st3 == Front(st2)
<1>1. /\ th \in [Types -> Seq(Nat)] /\ gh \in Seq(Nat)
      /\ en \in Seq(Everywhere) /\ st \in Seq(Frames)
  BY DEF WellTyped
<1>2. /\ st2 \in Seq(Frames) /\ Len(st2) = n
      /\ \A k \in DOMAIN st : st[k].kind = "replay" => st2[k] = st[k]
  BY DEF StackMoves
<1>3. /\ n \in Nat /\ n > 0 /\ m \in Nat /\ n = m + 1
      /\ DOMAIN st = 1..n /\ n = Len(st) /\ r = st[n]
  BY <1>1, StackFacts
<1>4. st2 # <<>>
  BY <1>2, <1>3
<1>5. /\ st3 \in Seq(Frames) /\ Len(st3) = m
      /\ \A k \in 1..m : st3[k] = st2[k]
  BY <1>2, <1>4, StackFacts
<1>6. /\ \A k \in DOMAIN st :
           /\ st2[k].kind = st[k].kind
           /\ st2[k].kind = "publish" => LoopOK(st2[k], th, gh2, en)
           /\ st2[k].kind = "replay" =>
                /\ ReplayShape(st2[k], en)
                /\ k # Len(st) => ReplayDuring(st2[k], st2[k + 1], gh2)
      /\ Apart(st2)
  BY <1>1, StackKept
<1> HIDE DEF n, m, st3
<1>7. DOMAIN st3 = 1..m
  BY <1>3, <1>5
<1>8. ASSUME NEW k \in DOMAIN st3
      PROVE  /\ st3[k].kind = "publish" => LoopOK(st3[k], th, gh2, en)
             /\ st3[k].kind = "replay" => ReplayOK(st3, k, gh2, en)
  <2>1. k \in 1..m /\ k \in DOMAIN st /\ k # n /\ k + 1 \in DOMAIN st
    BY <1>3, <1>7
  <2>2. st3[k] = st2[k]
    BY <1>5, <2>1
  <2>3. CASE st2[k].kind = "replay"
    <3>1. ReplayShape(st2[k], en) /\ ReplayDuring(st2[k], st2[k + 1], gh2)
      BY <1>3, <1>6, <2>1, <2>3
    <3>2. st2[k + 1].kind = "publish"
      BY <3>1 DEF ReplayDuring
    <3>3. st2[n].kind = "replay"
      <4>1. n \in DOMAIN st
        BY <1>3
      <4>. QED
        BY <1>3, <1>6, <4>1
    <3>4. k + 1 # n
      BY <3>2, <3>3
    <3>5. k # m /\ k + 1 \in 1..m
      BY <1>3, <2>1, <3>4
    <3>6. st3[k + 1] = st2[k + 1]
      BY <1>5, <3>5
    <3>7. k # Len(st3)
      BY <1>5, <3>5
    <3>8. ReplayOK(st3, k, gh2, en)
      BY <2>2, <3>1, <3>6, <3>7 DEF ReplayOK
    <3>. QED
      BY <2>2, <2>3, <3>8
  <2>4. CASE st2[k].kind # "replay"
    BY <1>6, <2>1, <2>2, <2>4
  <2>. QED
    BY <2>3, <2>4
<1>9. Apart(st3)
  <2>1. DOMAIN st2 = 1..n
    BY <1>2
  <2>2. \A k \in 1..m : k \in 1..n
    BY <1>3
  <2>. QED
    BY <1>5, <1>6, <1>7, <2>1, <2>2 DEF Apart
<1>10. NoneLeft(st3, gh2, en)
  <2> SUFFICES ASSUME NEW i \in DOMAIN gh2, en[gh2[i]] = Replay
               PROVE  \E k \in DOMAIN st3 : /\ st3[k].kind = "replay"
                                            /\ gh2[i] \in st3[k].subscriptions
    BY DEF NoneLeft
  <2>1. Holds(gh, gh2[i]) /\ gh2[i] \notin r.subscriptions
    BY DEF Holds
  <2>2. PICK k \in DOMAIN st : st[k].kind = "replay" /\ gh2[i] \in st[k].subscriptions
    BY <2>1 DEF StackOK, NoneLeft, Holds
  <2>3. k # n
    BY <1>3, <2>1, <2>2
  <2>4. k \in 1..m
    BY <1>3, <2>3
  <2>5. st3[k] = st[k]
    BY <1>2, <1>5, <2>2, <2>4
  <2>. QED
    BY <1>7, <2>2, <2>4, <2>5
<1>11. HandlersOK(th, gh2, en)
  BY DEF HandlersMove
<1>12. StackOK(st3, th, gh2, en)
  BY <1>8, <1>9, <1>10, <1>11 DEF StackOK
<1>13. WellTyped(st3, th, gh2, en)
  BY <1>1, <1>5 DEF HandlersMove, WellTyped
<1>. QED
  BY <1>12, <1>13 DEF st3

LEMMA FinishReplayStep ==
  ASSUME BusInv, FinishReplay
  PROVE  BusInv'
<1> DEFINE r == stack[Len(stack)]
           gone == r.subscriptions
           gh2 == Without(globalHandlers, gone)
           Passed(f) == [f EXCEPT !.skips = @ \/ \E entry \in gone : PassedBy(f, entry)]
           st2 == [k \in DOMAIN stack |-> IF stack[k].kind = "publish"
                                          THEN Passed(stack[k]) ELSE stack[k]]
<1>1. /\ stack # <<>> /\ r.kind = "replay"
      /\ globalHandlers' = gh2 /\ stack' = Front(st2)
      /\ typedHandlers' = typedHandlers /\ entries' = entries
  BY DEF FinishReplay, Replaying, Unsubscribes, InPublishes, Top
<1>2. /\ WellTyped(stack, typedHandlers, globalHandlers, entries)
      /\ StackOK(stack, typedHandlers, globalHandlers, entries)
      /\ globalHandlers \in Seq(Nat)
  BY BusFacts DEF BusInv
<1>3. /\ DOMAIN st2 = DOMAIN stack /\ st2 = [k \in DOMAIN st2 |-> st2[k]]
      /\ \A k \in DOMAIN stack :
           st2[k] = IF stack[k].kind = "publish" THEN Passed(stack[k]) ELSE stack[k]
  OBVIOUS
<1> HIDE DEF st2, gone
<1>4. ASSUME NEW k \in DOMAIN stack, stack[k].kind = "publish"
      PROVE  /\ st2[k] = [stack[k] EXCEPT !.skips = st2[k].skips]
             /\ st2[k].skips \in BOOLEAN
             /\ stack[k].skips => st2[k].skips
             /\ ~st2[k].skips =>
                  \A i \in 1..stack[k].globalPosition :
                    i \in DOMAIN globalHandlers => globalHandlers[i] \notin gone
  <2> DEFINE f == stack[k]
             passed == \E entry \in gone : PassedBy(f, entry)
  <2>1. f \in PublishFrames
    BY <1>4, BusFacts
  <2>2. st2[k] = [f EXCEPT !.skips = f.skips \/ passed]
    BY <1>3, <1>4
  <2>3. /\ passed \in BOOLEAN
        /\ ~passed => \A i \in 1..f.globalPosition :
                        i \in DOMAIN globalHandlers => globalHandlers[i] \notin gone
    BY DEF PassedBy
  <2> HIDE DEF passed
  <2>4. st2[k].skips = (f.skips \/ passed) /\ f.skips \in BOOLEAN
    BY <2>1, <2>2 DEF PublishFrames
  <2>. QED
    BY <2>2, <2>3, <2>4
<1>5. ASSUME NEW k \in DOMAIN stack, stack[k].kind # "publish"
      PROVE  st2[k] = stack[k] /\ (k # Len(stack) => stack[k].subscriptions \cap gone = {})
  <2>1. st2[k] = stack[k]
    BY <1>3, <1>5
  <2>2. stack[k].kind = "replay" /\ Len(stack) \in DOMAIN stack
    BY <1>1, <1>5, BusFacts, TopFacts
  <2>3. Apart(stack)
    BY <1>2 DEF StackOK
  <2>4. ASSUME k # Len(stack) PROVE stack[k].subscriptions \cap gone = {}
    BY <1>1, <2>2, <2>3, <2>4 DEF Apart, gone
  <2>. QED
    BY <2>1, <2>4
<1>6. \A e \in gone : entries[e] = Replay => e \in gone
  OBVIOUS
<1>7. /\ HandlersMove(typedHandlers, typedHandlers, globalHandlers, gh2, entries, entries)
      /\ StackMoves(stack, st2, typedHandlers, globalHandlers, gh2, entries, entries, gone)
  BY <1>2, <1>3, <1>4, <1>5, <1>6, RemoveMoves
<1>8. \A e : Holds(gh2, e) => Holds(globalHandlers, e) /\ e \notin gone
  BY <1>2, WithoutMoves
<1> HIDE DEF gh2, r
<1>9. /\ HandlersMove(typedHandlers, typedHandlers, globalHandlers, gh2, entries, entries)
      /\ StackMoves(stack, st2, typedHandlers, globalHandlers, gh2, entries, entries,
                    r.subscriptions)
      /\ \A e : Holds(gh2, e) => Holds(globalHandlers, e) /\ e \notin r.subscriptions
      /\ r = stack[Len(stack)]
  BY <1>7, <1>8 DEF gone, r
<1>10. /\ WellTyped(Front(st2), typedHandlers, gh2, entries)
       /\ StackOK(Front(st2), typedHandlers, gh2, entries)
  BY <1>1, <1>2, <1>9, ReplayPopped
<1>11. /\ WellTyped(stack', typedHandlers', globalHandlers', entries')
       /\ StackOK(stack', typedHandlers', globalHandlers', entries')
  BY <1>1, <1>10
<1>. QED
  BY <1>11 DEF BusInv, TypeOK, WellTyped

-----------------------------------------------------------------------------
(* The invariant holds always, and what follows from it *)

LEMMA BusInvInit ==
  ASSUME Init
  PROVE  BusInv
<1>1. /\ typedHandlers = [type \in Types |-> <<>>] /\ globalHandlers = <<>>
      /\ entries = <<>> /\ stack = <<>>
  BY DEF Init, BusInit
<1>2. TypeOK
  BY <1>1 DEF TypeOK
<1>3. HandlersOK(typedHandlers, globalHandlers, entries)
  BY <1>1 DEF HandlersOK, TypedListOK, GlobalListOK, Increasing
<1>4. StackOK(stack, typedHandlers, globalHandlers, entries)
  BY <1>1, <1>3 DEF StackOK, Apart, NoneLeft
<1>. QED
  BY <1>2, <1>4 DEF BusInv

LEMMA BusInvNext ==
  ASSUME BusInv, [Next]_vars
  PROVE  BusInv'
<1>1. ASSUME NEW type \in Types, Subscribe(type)
      PROVE  BusInv'
  BY <1>1, SubscribeStep
<1>2. ASSUME NEW type \in Types, NEW time \in Times, Publish(Event(type, time))
      PROVE  BusInv'
  <2>1. Event(type, time) \in BacktestEvent
    BY ReplayAssumption DEF Event, BacktestEvent
  <2>. QED
    BY <1>2, <2>1, PublishStep
<1>3. CASE SubscribeAll
  BY <1>3, SubscribeAllStep
<1>4. ASSUME NEW entry \in DOMAIN entries, UnsubscribeTyped(entry)
      PROVE  BusInv'
  BY <1>4, UnsubscribeTypedStep
<1>5. ASSUME NEW entry \in DOMAIN entries, UnsubscribeGlobal(entry)
      PROVE  BusInv'
  BY <1>5, UnsubscribeGlobalStep
<1>6. CASE Clear
  BY <1>6, ClearStep
<1>7. CASE CallTyped
  BY <1>7, CallTypedStep
<1>8. ASSUME NEW entry \in DOMAIN entries, CallSubscriber(entry)
      PROVE  BusInv'
  BY <1>8, CallSubscriberStep
<1>9. CASE HandlerReturns
  BY <1>9, HandlerReturnsStep
<1>10. CASE Returns
  BY <1>10, ReturnsStep
<1>11. CASE Throws
  BY <1>11, ThrowsStep
<1>12. ASSUME NEW input \in Inputs, NEW subscribers \in 1..MaxSubscribers,
              StartReplay(input, subscribers)
       PROVE  BusInv'
  BY <1>12, StartReplayStep
<1>13. CASE PublishNext
  BY <1>13, PublishNextStep
<1>14. CASE FinishReplay
  BY <1>14, FinishReplayStep
<1>15. CASE UNCHANGED vars
  BY <1>15 DEF vars, busVars, BusInv, TypeOK
<1>. QED
  BY <1>1, <1>2, <1>3, <1>4, <1>5, <1>6, <1>7, <1>8, <1>9, <1>10, <1>11, <1>12,
     <1>13, <1>14, <1>15 DEF Next

LEMMA BusInvAlways ==
  Spec => []BusInv
BY BusInvInit, BusInvNext, PTL DEF Spec

LEMMA CalledAreInOrder ==
  ASSUME BusInv
  PROVE  CalledOnceInOrder
<1> SUFFICES ASSUME NEW k \in Publishes
             PROVE  LET called == stack[k].called IN
                      \A i, j \in DOMAIN called : i < j =>
                        LET typed(n) == entries[called[n]] \in Types
                        IN  IF typed(i) = typed(j) THEN called[i] < called[j]
                                                   ELSE typed(i)
  BY DEF CalledOnceInOrder
<1>1. LoopOK(stack[k], typedHandlers, globalHandlers, entries)
  BY DEF Publishes, BusInv, StackOK
<1>2. InOrder(stack[k].called, entries)
  BY <1>1 DEF LoopOK, LoopCalled
<1>. QED
  BY <1>2 DEF InOrder

LEMMA NoneIsForgotten ==
  ASSUME BusInv
  PROVE  SubscribedAreCalled
<1> DEFINE f == stack[Len(stack)]
<1>1. SUFFICES ASSUME PublishEnds, NEW e \in f.due
               PROVE  \/ e \in ToSet(f.called)
                      \/ e \notin ToSet(typedHandlers[f.event.type])
                                    \cup ToSet(globalHandlers)
                      \/ entries[e] \notin Types /\ f.skips
  BY DEF SubscribedAreCalled, Top
<1>2. /\ stack # <<>> /\ f.kind = "publish" /\ TypedDone(f)
      /\ f.globalPosition >= Len(globalHandlers)
  BY <1>1 DEF PublishEnds, Looping, Publishing, Top
<1>3. Len(stack) \in DOMAIN stack
  BY <1>2, TopFacts
<1>4. /\ f \in PublishFrames /\ LoopOK(f, typedHandlers, globalHandlers, entries)
      /\ globalHandlers \in Seq(Nat)
      /\ HandlersOK(typedHandlers, globalHandlers, entries)
  BY <1>2, <1>3, BusFacts
<1> HIDE DEF f
<1>5. /\ entries[e] \in Types =>
           Holds(f.called, e) \/ ~Holds(typedHandlers[f.event.type], e)
      /\ entries[e] \notin Types =>
           Holds(f.called, e) \/ ~Holds(globalHandlers, e) \/ f.skips
  BY <1>1, <1>2, <1>4, LoopEnds
<1>6. /\ Holds(globalHandlers, e) => entries[e] \notin Types
      /\ Holds(typedHandlers[f.event.type], e) => entries[e] \in Types
  BY <1>4 DEF PublishFrames, BacktestEvent, HandlersOK, GlobalListOK, TypedListOK, Holds
<1>7. /\ e \in ToSet(f.called) <=> Holds(f.called, e)
      /\ e \in ToSet(globalHandlers) <=> Holds(globalHandlers, e)
      /\ e \in ToSet(typedHandlers[f.event.type])
           <=> Holds(typedHandlers[f.event.type], e)
  BY ToSetIsHolds
<1>. QED
  BY <1>5, <1>6, <1>7

LEMMA HandledAreInOrder ==
  ASSUME BusInv
  PROVE  ReplayedInOrder
<1> DEFINE r == stack[Len(stack)]
<1>1. SUFFICES ASSUME Replaying, ~r.failed, ~r.skips, NEW e \in r.subscriptions
               PROVE  /\ r.handled[e] = SubSeq(r.events, 1, r.next - 1)
                      /\ \A m, n \in DOMAIN r.handled[e] : m < n =>
                           ~Earlier(r.handled[e][n], r.handled[e][m])
  BY DEF ReplayedInOrder, Top
<1>2. stack # <<>> /\ r.kind = "replay"
  BY <1>1 DEF Replaying, Top
<1>3. Len(stack) \in DOMAIN stack
  BY <1>2, TopFacts
<1>4. /\ r \in ReplayFrames(r.subscriptions)
      /\ ReplayOK(stack, Len(stack), globalHandlers, entries)
  BY <1>2, <1>3, BusFacts
<1>5. ReplayShape(r, entries) /\ ReplayBetween(r, globalHandlers)
  BY <1>4 DEF ReplayOK
<1> HIDE DEF r
<1>6. r.handled[e] = SubSeq(r.events, 1, r.next - 1)
  BY <1>1, <1>5 DEF ReplayBetween
<1>7. /\ r.events \in Seq(BacktestEvent) /\ r.next \in 1..(Len(r.events) + 1)
      /\ \A m, n \in DOMAIN r.events : m < n => ~Earlier(r.events[n], r.events[m])
  BY <1>4, <1>5 DEF ReplayFrames, ReplayShape
<1> DEFINE front == SubSeq(r.events, 1, r.next - 1)
<1>8. \A m \in DOMAIN front : m \in DOMAIN r.events /\ front[m] = r.events[m]
  BY <1>7
<1> HIDE DEF front
<1>9. r.handled[e] = front
  BY <1>6 DEF front
<1>10. \A m, n \in DOMAIN r.handled[e] : m < n =>
         ~Earlier(r.handled[e][n], r.handled[e][m])
  BY <1>7, <1>8, <1>9
<1>. QED
  BY <1>6, <1>10

(* Whatever handlers do while an event is published, subscribing,          *)
(* unsubscribing, publishing, clearing or throwing, publish calls a        *)
(* subscription at most once, those of the type before those of all types, *)
(* each in the order of subscription.                                      *)
THEOREM HandlersAreCalledInOrder == Spec => []CalledOnceInOrder
BY BusInvAlways, CalledAreInOrder, PTL

(* publish returns only after it has called everyone who was subscribed    *)
(* when it began and still is; only a global handler may be missed, and    *)
(* only when one the loop had come to was removed from the array.          *)
THEOREM SubscribersAreCalled == Spec => []SubscribedAreCalled
BY BusInvAlways, NoneIsForgotten, PTL

(* Between two events of a replay its subscribers have all handled exactly *)
(* those published, in order of time and candles first, unless a publish   *)
(* may have skipped one: for any input, and with any other replay begun by *)
(* a handler in between.                                                   *)
THEOREM ReplaysAreInOrder == Spec => []ReplayedInOrder
BY BusInvAlways, HandledAreInOrder, PTL

(* A replay that has ended, well or by an error, has left no subscription  *)
(* on the bus: each there is of a replay still under way.                  *)
THEOREM ReplaysUnsubscribe == Spec => []ReplaysLeaveNoSubscription
<1>1. BusInv => ReplaysLeaveNoSubscription
  BY DEF BusInv, StackOK, NoneLeft, ReplaysLeaveNoSubscription, Replays
<1>. QED
  BY <1>1, BusInvAlways, PTL

=============================================================================
