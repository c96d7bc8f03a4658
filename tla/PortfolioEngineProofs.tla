----------------------- MODULE PortfolioEngineProofs -----------------------
(***************************************************************************)
(* What holds of the account for every value of the constants.  Every      *)
(* trading method amounts to one ledger row that accounts for all of its   *)
(* effect (RowApplied); that the ledger replays to the cash, the sizes and *)
(* the margins then follows from the shape of the row alone.               *)
(*                                                                         *)
(* First the totals the models use: RunningTotal along a ledger, and the   *)
(* community modules' sum over a finite set.  The value of a recursive     *)
(* function is proved without induction.  For a ledger, TotalIs says that  *)
(* a function of running balances exists and that every one ends at v,     *)
(* which Append preserves; whoever appends to a ledger carries TotalIs     *)
(* along as part of its invariant.  For a set, a minimal subset at which a *)
(* fact fails leads to a contradiction.                                    *)
(***************************************************************************)
EXTENDS PortfolioEngine, FiniteSetTheorems, WellFoundedInduction, TLAPS

-----------------------------------------------------------------------------
(* Totals along a ledger *)

TotalIs(start, deltas, v) ==
  /\ \E h : IsBalance(h, start, deltas)
  /\ \A h : IsBalance(h, start, deltas) => h[Len(deltas)] = v

(* The total of an empty ledger is the opening balance. *)
LEMMA TotalOfEmpty ==
  ASSUME NEW start \in Int
  PROVE  TotalIs(start, <<>>, start)
<1> DEFINE h == [n \in 0..Len(<<>>) |-> start]
<1>1. IsBalance(h, start, <<>>)
  BY DEF IsBalance
<1>2. ASSUME NEW g, IsBalance(g, start, <<>>) PROVE g[Len(<<>>)] = start
  BY <1>2 DEF IsBalance
<1>. QED
  BY <1>1, <1>2 DEF TotalIs

(* A row of amount x moves the total by x. *)
LEMMA TotalOfAppend ==
  ASSUME NEW start \in Int, NEW deltas \in Seq(Int), NEW v \in Int,
         NEW x \in Int, TotalIs(start, deltas, v)
  PROVE  TotalIs(start, Append(deltas, x), v + x)
<1> DEFINE more == Append(deltas, x)
           N == Len(deltas)
<1>1. /\ N \in Nat
      /\ Len(more) = N + 1
      /\ more[N + 1] = x
      /\ \A n \in 1..N : more[n] = deltas[n]
  OBVIOUS
<1>2. PICK h : IsBalance(h, start, deltas)
  BY DEF TotalIs
<1>3. h[N] = v
  BY <1>2 DEF TotalIs
<1> DEFINE g == [n \in 0..Len(more) |-> IF n = N + 1 THEN v + x ELSE h[n]]
<1>4. IsBalance(g, start, more)
  <2> DEFINE r == [n \in 0..Len(more) |->
                     IF n = 0 THEN start ELSE g[n - 1] + more[n]]
  <2>1. ASSUME NEW n \in 0..Len(more) PROVE g[n] = r[n]
    <3>1. CASE n = 0
      BY <1>1, <1>2, <3>1 DEF IsBalance
    <3>2. CASE n \in 1..N
      <4>1. h[n] = h[n - 1] + deltas[n]
        <5>1. n \in 0..N /\ n # 0
          BY <3>2
        <5> HIDE DEF g, r, more
        <5>. QED
          BY ONLY <1>2, <5>1 DEF IsBalance
      <4>2. g[n] = h[n] /\ g[n - 1] = h[n - 1] /\ more[n] = deltas[n]
        BY <1>1, <3>2
      <4>3. r[n] = g[n - 1] + more[n]
        BY <1>1, <3>2
      <4> HIDE DEF g, r, more
      <4>. QED
        BY <4>1, <4>2, <4>3
    <3>3. CASE n = N + 1
      BY <1>1, <1>3, <3>3
    <3>. QED
      BY <1>1, <3>1, <3>2, <3>3
  <2>. QED
    BY <2>1 DEF IsBalance
<1>5. ASSUME NEW f, IsBalance(f, start, more) PROVE f[Len(more)] = v + x
  <2> DEFINE c == [n \in 0..N |-> f[n]]
  <2>1. IsBalance(c, start, deltas)
    <3> DEFINE r == [n \in 0..N |->
                       IF n = 0 THEN start ELSE c[n - 1] + deltas[n]]
    <3>1. ASSUME NEW n \in 0..N PROVE c[n] = r[n]
      <4>1. /\ n \in 0..Len(more) /\ c[n] = f[n]
            /\ r[n] = IF n = 0 THEN start ELSE c[n - 1] + deltas[n]
            /\ n # 0 => n \in 1..N /\ n - 1 \in 0..N
        BY <1>1
      <4>2. f[n] = IF n = 0 THEN start ELSE f[n - 1] + more[n]
        BY ONLY <1>5, <4>1 DEF IsBalance
      <4>3. n # 0 => c[n - 1] = f[n - 1] /\ more[n] = deltas[n]
        BY <1>1, <4>1
      <4> HIDE DEF c, r, more, N
      <4>. QED
        BY <4>1, <4>2, <4>3
    <3>. QED
      BY <3>1 DEF IsBalance
  <2>2. c[N] = v
    BY <2>1 DEF TotalIs
  <2>3. f[N + 1] = f[N] + x
    <3>1. N + 1 \in 0..Len(more) /\ N + 1 # 0 /\ (N + 1) - 1 = N
      BY <1>1
    <3> HIDE DEF more
    <3>2. f[N + 1] = f[(N + 1) - 1] + more[N + 1]
      BY ONLY <1>5, <3>1 DEF IsBalance
    <3>. QED
      BY <1>1, <3>1, <3>2
  <2>. QED
    BY <1>1, <2>2, <2>3
<1>. QED
  BY <1>1, <1>4, <1>5 DEF TotalIs

(* TotalIs determines RunningTotal. *)
LEMMA TotalIsRunningTotal ==
  ASSUME NEW start, NEW deltas, NEW v, TotalIs(start, deltas, v)
  PROVE  RunningTotal(start, deltas) = v
<1> DEFINE balance == CHOOSE h : IsBalance(h, start, deltas)
<1>1. IsBalance(balance, start, deltas)
  BY DEF TotalIs
<1>2. RunningTotal(start, deltas) = balance[Len(deltas)]
  BY DEF RunningTotal, IsBalance
<1>. QED
  BY <1>1, <1>2 DEF TotalIs

-----------------------------------------------------------------------------
(* Sums over finite sets *)

SomeOf(s) == CHOOSE y \in s : TRUE

(* h sums f over every subset of S, in the order MapThenSumSet takes.      *)
IsSum(h, f, S) ==
  h = [s \in SUBSET S |->
         IF s = {} THEN 0
         ELSE f[SomeOf(s)] + h[s \ {SomeOf(s)}]]

SetSum(f, S) == (CHOOSE h : IsSum(h, f, S))[S]

(* A non-empty collection of subsets of a finite set has a minimal one.    *)
LEMMA MinimalSubset ==
  ASSUME NEW S, IsFiniteSet(S), NEW T, T \subseteq SUBSET S, T # {}
  PROVE  \E U \in T : \A V \in T : V \subseteq U => V = U
<1>1. IsWellFoundedOn(StrictSubsetOrdering(S), SUBSET S)
  BY FS_StrictSubsetOrderingWellFounded, FS_FiniteSubsetsOfFinite
<1>2. \E U \in T : \A V \in T : ~(<<V, U>> \in StrictSubsetOrdering(S))
  <2> HIDE DEF StrictSubsetOrdering
  <2>. QED
    BY <1>1, WFMin
<1>. QED
  BY <1>2 DEF StrictSubsetOrdering

LEMMA SumOfNone ==
  ASSUME NEW S, NEW f, NEW h, IsSum(h, f, S)
  PROVE  h[{}] = 0
BY DEF IsSum

LEMMA IsSumUnfolds ==
  ASSUME NEW S, NEW f, NEW h, IsSum(h, f, S), NEW s \in SUBSET S, s # {}
  PROVE  /\ SomeOf(s) \in s
         /\ h[s] = f[SomeOf(s)] + h[s \ {SomeOf(s)}]
<1>1. SomeOf(s) \in s
  BY DEF SomeOf
<1>2. h[s] = f[SomeOf(s)] + h[s \ {SomeOf(s)}]
  BY DEF IsSum
<1>. QED
  BY <1>1, <1>2

LEMMA SumIsUnique ==
  ASSUME NEW S, IsFiniteSet(S), NEW f, NEW h, NEW g,
         IsSum(h, f, S), IsSum(g, f, S)
  PROVE  h = g
<1> DEFINE T == {s \in SUBSET S : h[s] # g[s]}
<1>1. CASE T # {}
  <2>1. PICK U \in T : \A V \in T : V \subseteq U => V = U
    <3>1. T \subseteq SUBSET S
      OBVIOUS
    <3> HIDE DEF T
    <3>. QED
      BY <1>1, <3>1, MinimalSubset
  <2>2. U \in SUBSET S /\ h[U] # g[U] /\ U # {}
    BY <2>1, SumOfNone
  <2> DEFINE x == SomeOf(U)
  <2>3. x \in U /\ h[U] = f[x] + h[U \ {x}] /\ g[U] = f[x] + g[U \ {x}]
    BY <2>2, IsSumUnfolds
  <2> HIDE DEF x
  <2>4. U \ {x} \in SUBSET S /\ U \ {x} # U /\ U \ {x} \subseteq U
    BY <2>2, <2>3
  <2>5. h[U \ {x}] = g[U \ {x}]
    BY <2>1, <2>4
  <2>. QED
    BY <2>2, <2>3, <2>5
<1>2. CASE T = {}
  <2>1. \A s \in SUBSET S : h[s] = g[s]
    BY <1>2
  <2>2. /\ h = [s \in SUBSET S |-> h[s]]
        /\ g = [s \in SUBSET S |-> g[s]]
    BY DEF IsSum
  <2>. QED
    BY <2>1, <2>2
<1>. QED
  BY <1>1, <1>2

LEMMA SumOfSubset ==
  ASSUME NEW S, NEW f, NEW h, IsSum(h, f, S), NEW U, U \subseteq S,
         NEW g, g = [s \in SUBSET U |-> h[s]]
  PROVE  IsSum(g, f, U)
<1> DEFINE r == [s \in SUBSET U |->
                   IF s = {} THEN 0
                   ELSE f[SomeOf(s)] + g[s \ {SomeOf(s)}]]
<1>1. ASSUME NEW s \in SUBSET U
      PROVE  g[s] = r[s]
  <2>1. s \in SUBSET S
    OBVIOUS
  <2>2. CASE s = {}
    BY <2>2, SumOfNone
  <2>3. CASE s # {}
    <3> DEFINE x == SomeOf(s)
    <3>1. x \in s /\ h[s] = f[x] + h[s \ {x}]
      BY <2>1, <2>3, IsSumUnfolds
    <3>2. s \ {x} \in SUBSET U
      OBVIOUS
    <3>3. r[s] = f[x] + g[s \ {x}]
      BY <2>3
    <3> HIDE DEF x, r
    <3>. QED
      BY <3>1, <3>2, <3>3
  <2>. QED
    BY <2>2, <2>3
<1>2. g = r
  BY <1>1
<1>. QED
  BY <1>2 DEF IsSum

HasSum(f, S) == \E h \in [SUBSET S -> Int] : IsSum(h, f, S)

LEMMA SetSumOf ==
  ASSUME NEW S, IsFiniteSet(S), NEW f, NEW h, IsSum(h, f, S)
  PROVE  h[S] = SetSum(f, S)
<1> DEFINE g == CHOOSE x : IsSum(x, f, S)
<1>1. IsSum(g, f, S)
  OBVIOUS
<1> HIDE DEF g
<1>2. g = h
  BY <1>1, SumIsUnique
<1>. QED
  BY <1>2 DEF SetSum, g

(* What SetSum is where there is a sum: the recursive equation.            *)
LEMMA SetSumUnfolds ==
  ASSUME NEW S, IsFiniteSet(S), NEW f, HasSum(f, S)
  PROVE  /\ SetSum(f, S) \in Int
         /\ S = {} => SetSum(f, S) = 0
         /\ S # {} =>
              /\ SomeOf(S) \in S
              /\ SetSum(f, S) = f[SomeOf(S)] + SetSum(f, S \ {SomeOf(S)})
<1>1. PICK h \in [SUBSET S -> Int] : IsSum(h, f, S)
  BY DEF HasSum
<1>2. h[S] = SetSum(f, S) /\ S \in SUBSET S
  BY <1>1, SetSumOf
<1>3. CASE S = {}
  BY <1>1, <1>2, <1>3, SumOfNone
<1>4. CASE S # {}
  <2> DEFINE x == SomeOf(S)
             U == S \ {x}
  <2>1. x \in S /\ h[S] = f[x] + h[U]
    BY <1>1, <1>2, <1>4, IsSumUnfolds
  <2>2. IsFiniteSet(U) /\ U \subseteq S
    BY FS_Subset
  <2> DEFINE g == [s \in SUBSET U |-> h[s]]
  <2>3. IsSum(g, f, U)
    <3>1. g = [s \in SUBSET U |-> h[s]]
      OBVIOUS
    <3> HIDE DEF g, U
    <3>. QED
      BY <1>1, <2>2, <3>1, SumOfSubset
  <2>4. g[U] = SetSum(f, U)
    <3> HIDE DEF g, U
    <3>. QED
      BY <2>2, <2>3, SetSumOf
  <2>5. g[U] = h[U]
    OBVIOUS
  <2> HIDE DEF g, U
  <2>6. SetSum(f, S) = f[x] + SetSum(f, U)
    BY <1>2, <2>1, <2>4, <2>5
  <2>. QED
    BY <1>1, <1>2, <1>4, <2>1, <2>6 DEF U
<1>. QED
  BY <1>3, <1>4

LEMMA SumExists ==
  ASSUME NEW S, IsFiniteSet(S), NEW f, \A x \in S : f[x] \in Int
  PROVE  \A U \in SUBSET S : HasSum(f, U)
<1> DEFINE T == {U \in SUBSET S : ~HasSum(f, U)}
<1>1. CASE T # {}
  <2>1. PICK U \in T : \A V \in T : V \subseteq U => V = U
    <3>1. T \subseteq SUBSET S
      OBVIOUS
    <3> HIDE DEF T
    <3>. QED
      BY <1>1, <3>1, MinimalSubset
  <2>2. U \in SUBSET S /\ ~HasSum(f, U)
    BY <2>1
  <2>3. \A V \in SUBSET U : V # U => HasSum(f, V) /\ IsFiniteSet(V)
    BY <2>1, <2>2, FS_Subset
  <2> DEFINE x == SomeOf(U)
             h == [s \in SUBSET U |->
                     IF s # U THEN SetSum(f, s)
                     ELSE IF U = {} THEN 0 ELSE f[x] + SetSum(f, U \ {x})]
             r == [s \in SUBSET U |->
                     IF s = {} THEN 0
                     ELSE f[SomeOf(s)] + h[s \ {SomeOf(s)}]]
  <2>4. U # {} => /\ x \in U /\ f[x] \in Int
                  /\ U \ {x} \in SUBSET U /\ U \ {x} # U
    <3>1. U # {} => x \in U
      BY DEF SomeOf
    <3> HIDE DEF x
    <3>. QED
      BY <2>2, <3>1
  <2>5. ASSUME NEW s \in SUBSET U
        PROVE  h[s] \in Int /\ h[s] = r[s]
    <3>1. CASE s = U
      <4>1. U # {} => SetSum(f, U \ {x}) \in Int
        <5> HIDE DEF x
        <5>. QED
          BY <2>3, <2>4, SetSumUnfolds
      <4>2. U # {} => h[U \ {x}] = SetSum(f, U \ {x})
        BY <2>4
      <4>3. /\ h[s] = IF U = {} THEN 0 ELSE f[x] + SetSum(f, U \ {x})
            /\ r[s] = IF U = {} THEN 0 ELSE f[x] + h[U \ {x}]
        BY <3>1
      <4> HIDE DEF h, r, x
      <4>. QED
        BY <2>4, <4>1, <4>2, <4>3
    <3>2. CASE s # U
      <4>1. HasSum(f, s) /\ IsFiniteSet(s)
        BY <2>3, <3>2
      <4> DEFINE z == SomeOf(s)
      <4>2. /\ SetSum(f, s) \in Int
            /\ s = {} => SetSum(f, s) = 0
            /\ s # {} => /\ z \in s
                         /\ SetSum(f, s) = f[z] + SetSum(f, s \ {z})
        BY <4>1, SetSumUnfolds
      <4>3. s # {} => /\ s \ {z} \in SUBSET U /\ s \ {z} # U
                      /\ h[s \ {z}] = SetSum(f, s \ {z})
        <5> HIDE DEF z
        <5>1. s # {} => s \ {z} \in SUBSET U /\ s \ {z} # U
          BY <3>2, <4>2
        <5>. QED
          BY <5>1
      <4>4. /\ h[s] = SetSum(f, s)
            /\ r[s] = IF s = {} THEN 0 ELSE f[z] + h[s \ {z}]
        BY <3>2
      <4> HIDE DEF h, r, z
      <4>. QED
        BY <4>2, <4>3, <4>4
    <3>. QED
      BY <3>1, <3>2
  <2>6. h \in [SUBSET U -> Int] /\ h = r
    <3>1. /\ DOMAIN h = SUBSET U /\ h = [s \in SUBSET U |-> h[s]]
          /\ DOMAIN r = SUBSET U /\ r = [s \in SUBSET U |-> r[s]]
      OBVIOUS
    <3> HIDE DEF h, r
    <3>. QED
      BY <2>5, <3>1
  <2>7. IsSum(h, f, U)
    BY <2>6 DEF IsSum
  <2> HIDE DEF h
  <2>. QED
    BY <2>2, <2>6, <2>7 DEF HasSum
<1>. QED
  BY <1>1

(* The sum over a finite set of integers, in whatever order.               *)
LEMMA SetSumType ==
  ASSUME NEW S, IsFiniteSet(S), NEW f, \A x \in S : f[x] \in Int
  PROVE  SetSum(f, S) \in Int
BY SumExists, SetSumUnfolds

LEMMA SetSumEmpty == ASSUME NEW f PROVE SetSum(f, {}) = 0
BY FS_EmptySet, SumExists, SetSumUnfolds

LEMMA SetSumRemove ==
  ASSUME NEW S, IsFiniteSet(S), NEW f, \A x \in S : f[x] \in Int,
         NEW y \in S
  PROVE  SetSum(f, S) = f[y] + SetSum(f, S \ {y})
<1> DEFINE T == {U \in SUBSET S :
                   \E z \in U : SetSum(f, U) # f[z] + SetSum(f, U \ {z})}
<1>1. CASE T # {}
  <2>1. PICK U \in T : \A V \in T : V \subseteq U => V = U
    <3>1. T \subseteq SUBSET S
      OBVIOUS
    <3> HIDE DEF T
    <3>. QED
      BY <1>1, <3>1, MinimalSubset
  <2>2. PICK z \in U : SetSum(f, U) # f[z] + SetSum(f, U \ {z})
    BY <2>1
  <2>3. \A V \in SUBSET U : V # U =>
          \A v \in V : SetSum(f, V) = f[v] + SetSum(f, V \ {v})
    BY <2>1
  <2>4. \A V \in SUBSET U : /\ IsFiniteSet(V)
                            /\ HasSum(f, V)
                            /\ SetSum(f, V) \in Int
    BY <2>1, FS_Subset, SumExists, SetSumUnfolds
  <2> HIDE DEF T
  <2>5. PICK x \in U : SetSum(f, U) = f[x] + SetSum(f, U \ {x})
    BY <2>2, <2>4, SetSumUnfolds
  <2>6. x # z /\ f[x] \in Int /\ f[z] \in Int
    BY <2>1, <2>2, <2>5 DEF T
  <2> DEFINE V == U \ {x}
             W == U \ {z}
             R == U \ {x, z}
  <2>7. /\ V \in SUBSET U /\ V # U /\ z \in V /\ V \ {z} = R
        /\ W \in SUBSET U /\ W # U /\ x \in W /\ W \ {x} = R
        /\ R \in SUBSET U
    BY <2>6
  <2> HIDE DEF V, W, R
  <2>8. /\ SetSum(f, V) = f[z] + SetSum(f, R)
        /\ SetSum(f, W) = f[x] + SetSum(f, R)
    BY <2>3, <2>7
  <2>9. SetSum(f, R) \in Int
    BY <2>4, <2>7
  <2>. QED
    BY <2>2, <2>5, <2>6, <2>8, <2>9 DEF V, W
<1>. QED
  BY <1>1

(* The sum depends on the values at the members only.                      *)
LEMMA SetSumAgrees ==
  ASSUME NEW S, IsFiniteSet(S), NEW f, NEW g,
         \A x \in S : f[x] \in Int /\ g[x] = f[x]
  PROVE  SetSum(g, S) = SetSum(f, S)
<1>1. PICK h : IsSum(h, f, S)
  BY SumExists DEF HasSum
<1> DEFINE r == [s \in SUBSET S |->
                   IF s = {} THEN 0
                   ELSE g[SomeOf(s)] + h[s \ {SomeOf(s)}]]
<1>2. ASSUME NEW s \in SUBSET S
      PROVE  h[s] = r[s]
  <2>1. CASE s = {}
    BY <1>1, <2>1, SumOfNone
  <2>2. CASE s # {}
    <3> DEFINE x == SomeOf(s)
    <3>1. x \in s /\ h[s] = f[x] + h[s \ {x}]
      BY <1>1, <2>2, IsSumUnfolds
    <3>2. r[s] = g[x] + h[s \ {x}]
      BY <2>2
    <3> HIDE DEF r, x
    <3>. QED
      BY <3>1, <3>2
  <2>. QED
    BY <2>1, <2>2
<1>3. h = [s \in SUBSET S |-> h[s]]
  BY <1>1 DEF IsSum
<1>4. h = r
  <2> DEFINE k == [s \in SUBSET S |-> h[s]]
  <2>1. k = r
    BY <1>2
  <2>. QED
    BY <1>3, <2>1
<1>5. IsSum(h, g, S)
  BY <1>4 DEF IsSum
<1>. QED
  BY <1>1, <1>5, SetSumOf

(* Values that are zero on U: the sum falls short by what U would add.     *)
LEMMA SetSumWithout ==
  ASSUME NEW S, IsFiniteSet(S), NEW U, NEW f, NEW g,
         \A x \in S : f[x] \in Int /\ g[x] = (IF x \in U THEN 0 ELSE f[x])
  PROVE  SetSum(g, S) = SetSum(f, S) - SetSum(f, S \cap U)
<1> DEFINE Short(V) == SetSum(g, V) = SetSum(f, V) - SetSum(f, V \cap U)
           T == {V \in SUBSET S : ~Short(V)}
<1>1. CASE T # {}
  <2>1. PICK V \in T : \A W \in T : W \subseteq V => W = V
    <3>1. T \subseteq SUBSET S
      OBVIOUS
    <3> HIDE DEF T
    <3>. QED
      BY <1>1, <3>1, MinimalSubset
  <2>2. V \in SUBSET S /\ ~Short(V) /\ IsFiniteSet(V) /\ IsFiniteSet(V \cap U)
    BY <2>1, FS_Subset
  <2>3. \A x \in V : f[x] \in Int /\ g[x] \in Int
    BY <2>2
  <2>4. V # {}
    <3>1. ASSUME V = {} PROVE V \cap U = {}
      BY <3>1
    <3>. QED
      BY <2>2, <3>1, SetSumEmpty
  <2>5. PICK y \in V : TRUE
    BY <2>4
  <2> DEFINE W == V \ {y}
  <2>6. Short(W)
    <3>1. W \in SUBSET S /\ W \subseteq V /\ W # V
      BY <2>2, <2>5
    <3> HIDE DEF Short, W
    <3>. QED
      BY <2>1, <3>1
  <2>7. /\ SetSum(f, V) = f[y] + SetSum(f, W)
        /\ SetSum(g, V) = g[y] + SetSum(g, W)
    BY <2>2, <2>3, <2>5, SetSumRemove
  <2>8. /\ SetSum(f, W) \in Int /\ SetSum(g, W) \in Int
        /\ SetSum(f, W \cap U) \in Int
    <3>1. IsFiniteSet(W) /\ IsFiniteSet(W \cap U)
      BY <2>2, FS_Subset
    <3>. QED
      BY <2>3, <3>1, SetSumType
  <2>9. CASE y \in U
    <3>1. y \in V \cap U /\ (V \cap U) \ {y} = W \cap U
      BY <2>5, <2>9
    <3>2. SetSum(f, V \cap U) = f[y] + SetSum(f, W \cap U)
      BY <2>2, <2>3, <3>1, SetSumRemove
    <3>3. g[y] = 0 /\ f[y] \in Int
      BY <2>2, <2>5, <2>9
    <3> HIDE DEF W
    <3>. QED
      BY <2>2, <2>6, <2>7, <2>8, <3>2, <3>3
  <2>10. CASE y \notin U
    <3>1. V \cap U = W \cap U
      BY <2>10
    <3>2. g[y] = f[y] /\ f[y] \in Int
      BY <2>2, <2>5, <2>10
    <3> HIDE DEF W
    <3>3. SetSum(f, V \cap U) = SetSum(f, W \cap U)
      BY <3>1, Zenon
    <3>. QED
      BY <2>2, <2>6, <2>7, <2>8, <3>2, <3>3
  <2>. QED
    BY <2>9, <2>10
<1>2. Short(S)
  BY <1>1
<1>. QED
  BY <1>2

-----------------------------------------------------------------------------
(* Closed positions *)

ClosedRecord == [positionId : PositionIds, position : Position]

-----------------------------------------------------------------------------
(* Type correctness *)

LEMMA OpenEquityType ==
  ASSUME PortfolioTypeOK, NEW s \in Strategies, NEW i \in Instruments,
         NEW q \in Int, NEW p \in Int, NEW f \in Int,
         OpenEquityPosition(s, i, q, p, f)
  PROVE  PortfolioTypeOK'
<1> DEFINE id == CreatePositionId(s, i, DefaultLeg)
<1>1. id \in PositionIds
  BY LegAssumption DEF CreatePositionId, PositionIds
<1>2. q \in Positive /\ p \in Int /\ f \in Int
  BY DEF OpenEquityPosition, OpenEquityAllowed, Positive
<1>3. EquityAfterBuy(id, q, p) \in EquityPosition
  <2>1. CASE IsOpen(id)
    <3> DEFINE held == openPositions[id]
               newQuantity == held.quantity + q
               total == held.averagePrice * held.quantity + p * q
    <3>1. held \in EquityPosition
      BY <2>1
      DEF OpenEquityPosition, OpenEquityAllowed, IsOpenAs, IsOpen,
          PortfolioTypeOK, Position, EquityPosition, DefinedRiskPosition
    <3>2. newQuantity \in Positive /\ total \in Int
      BY <1>2, <3>1 DEF EquityPosition, Positive
    <3>3. (total \div newQuantity) \in Int
      BY <3>2 DEF Positive
    <3>. QED
      BY <1>2, <2>1, <3>1, <3>2, <3>3 DEF EquityAfterBuy, EquityPosition
  <2>2. CASE ~IsOpen(id)
    BY <1>2, <2>2 DEF EquityAfterBuy, EquityPosition
  <2>. QED
    BY <2>1, <2>2
<1>4. \A x \in DOMAIN openPositions' : openPositions'[x] \in Position
  BY <1>3 DEF OpenEquityPosition, WithPosition, PortfolioTypeOK, Position
<1>5. DOMAIN openPositions' \subseteq PositionIds
  BY <1>1 DEF OpenEquityPosition, WithPosition, PortfolioTypeOK
<1>6. ledger' \in Seq(LedgerRow)
  BY <1>1, <1>2
  DEF OpenEquityPosition, RecordLedgerEntry, LedgerRow, PortfolioTypeOK
<1>7. cash' \in Int /\ closedPositions' = closedPositions
  BY <1>2 DEF OpenEquityPosition, PortfolioTypeOK, Positive
<1>. QED
  BY <1>4, <1>5, <1>6, <1>7 DEF PortfolioTypeOK

LEMMA CloseEquityType ==
  ASSUME PortfolioTypeOK, NEW id \in PositionIds,
         NEW q \in Int, NEW p \in Int, NEW f \in Int,
         CloseEquityPosition(id, q, p, f)
  PROVE  PortfolioTypeOK'
<1> DEFINE position == openPositions[id]
           remaining == position.quantity - q
           proceeds == p * q - f
           sold == [position EXCEPT !.quantity = remaining, !.markPrice = p]
<1>1. q \in Positive /\ p \in Int /\ f \in Int
  BY DEF CloseEquityPosition, CloseEquityAllowed, Positive
<1>2. id \in DOMAIN openPositions /\ position \in EquityPosition
  BY DEF CloseEquityPosition, CloseEquityAllowed, IsOpenAs, IsOpen,
         PortfolioTypeOK, Position, EquityPosition, DefinedRiskPosition
<1>3. remaining \in Int /\ proceeds \in Int
  BY <1>1, <1>2 DEF EquityPosition, Positive
<1>4. ledger' \in Seq(LedgerRow)
  <2>1. proceeds - position.averagePrice * q \in Int
    BY <1>1, <1>2, <1>3 DEF EquityPosition, Positive
  <2>. QED
    BY <1>1, <1>3, <2>1
    DEF CloseEquityPosition, EquityRealizedPnl, RecordLedgerEntry, LedgerRow,
        PortfolioTypeOK
<1>5. cash' \in Int
  BY <1>3 DEF CloseEquityPosition, PortfolioTypeOK
<1>6. CASE StaysOpen(remaining)
  <2>1. sold \in EquityPosition
    <3>1. remaining \in Positive
      BY <1>3, <1>6 DEF StaysOpen, Positive
    <3>. QED
      BY <1>1, <1>2, <3>1 DEF EquityPosition
  <2>2. openPositions' = WithPosition(id, sold)
        /\ closedPositions' = closedPositions
    BY <1>6 DEF CloseEquityPosition
  <2>. QED
    BY <1>4, <1>5, <2>1, <2>2 DEF WithPosition, PortfolioTypeOK, Position
<1>7. CASE ~StaysOpen(remaining)
  <2>1. ClosePositionRecord(id)
    BY <1>7 DEF CloseEquityPosition
  <2>. QED
    BY <1>2, <1>4, <1>5, <2>1
    DEF ClosePositionRecord, WithoutPosition, PortfolioTypeOK, Position
<1>. QED
  BY <1>6, <1>7

LEMMA OpenDefinedRiskType ==
  ASSUME PortfolioTypeOK, NEW s \in Strategies, NEW i \in Instruments,
         NEW leg \in LegGroups, NEW q \in Int,
         NEW c \in Int, NEW m \in Int,
         OpenDefinedRiskPosition(s, i, leg, q, c, m)
  PROVE  PortfolioTypeOK'
<1> DEFINE id == CreatePositionId(s, i, leg)
           opened == [kind |-> "DEFINED_RISK", quantity |-> q,
                      entryCredit |-> c, maxLoss |-> m, markPrice |-> c]
<1>1. id \in PositionIds
  BY DEF CreatePositionId, PositionIds
<1>2. q \in Positive /\ c \in Positive /\ m \in Positive
  BY DEF OpenDefinedRiskPosition, OpenDefinedRiskAllowed, Positive
<1>3. opened \in Position
  BY <1>2 DEF Position, DefinedRiskPosition, Positive
<1>4. c * q \in Int /\ CalculateDefinedRiskMargin(m, q) \in Int
  BY <1>2 DEF CalculateDefinedRiskMargin, Positive
<1>5. ledger' \in Seq(LedgerRow)
  BY <1>1, <1>2, <1>4
  DEF OpenDefinedRiskPosition, RecordLedgerEntry, LedgerRow, PortfolioTypeOK,
      Positive
<1>6. openPositions' = WithPosition(id, opened)
  BY DEF OpenDefinedRiskPosition
<1>7. cash' \in Int /\ closedPositions' = closedPositions
  BY <1>4 DEF OpenDefinedRiskPosition, PortfolioTypeOK
<1>. QED
  BY <1>1, <1>3, <1>5, <1>6, <1>7 DEF WithPosition, PortfolioTypeOK

LEMMA CloseDefinedRiskType ==
  ASSUME PortfolioTypeOK, NEW id \in PositionIds, NEW c \in Int,
         CloseDefinedRiskPosition(id, c)
  PROVE  PortfolioTypeOK'
<1> DEFINE position == openPositions[id]
           total == c * position.quantity
           margin == CalculateDefinedRiskMargin(position.maxLoss,
                                                position.quantity)
<1>1. id \in DOMAIN openPositions /\ position \in DefinedRiskPosition
  BY DEF CloseDefinedRiskPosition, CloseDefinedRiskAllowed, IsOpenAs, IsOpen,
         PortfolioTypeOK, Position, EquityPosition, DefinedRiskPosition
<1>2. c \in Int /\ total \in Int /\ margin \in Int
  BY <1>1 DEF DefinedRiskPosition, Positive, CalculateDefinedRiskMargin
<1>3. DefinedRiskRealizedPnl(id, c) \in Int
  BY <1>1, <1>2 DEF DefinedRiskRealizedPnl, DefinedRiskPosition, Positive
<1>4. ledger' \in Seq(LedgerRow)
  BY <1>1, <1>2, <1>3
  DEF CloseDefinedRiskPosition, RecordLedgerEntry, LedgerRow,
      PortfolioTypeOK, DefinedRiskPosition
<1>5. cash' \in Int /\ ClosePositionRecord(id)
  BY <1>2 DEF CloseDefinedRiskPosition, PortfolioTypeOK
<1>. QED
  BY <1>1, <1>4, <1>5
  DEF ClosePositionRecord, WithoutPosition, PortfolioTypeOK, Position

LEMMA MarkToMarketType ==
  ASSUME PortfolioTypeOK, NEW id \in PositionIds, NEW m \in Int,
  MarkToMarket(id, m)
  PROVE  PortfolioTypeOK'
<1>1. CASE IsOpen(id)
  <2> DEFINE marked == [openPositions[id] EXCEPT !.markPrice = m]
  <2>1. marked \in Position
    BY <1>1
    DEF PortfolioTypeOK, IsOpen, Position, EquityPosition,
        DefinedRiskPosition
  <2>. QED
    BY <1>1, <2>1 DEF MarkToMarket, WithPosition, PortfolioTypeOK
<1>2. CASE ~IsOpen(id)
  BY <1>2 DEF MarkToMarket, PortfolioTypeOK
<1>. QED
  BY <1>1, <1>2

LEMMA InitType == PortfolioInit => PortfolioTypeOK
BY CapitalAssumption DEF PortfolioInit, PortfolioTypeOK

-----------------------------------------------------------------------------
(* One ledger row accounts for everything a trade does *)

(* row is appended, it concerns one position id, the cash moves by its     *)
(* cash column, that position's size and margin by its own columns, every  *)
(* other position is untouched, and only a sale may leave cash negative.   *)
RowApplied(row) ==
  /\ row \in LedgerRow
  /\ ledger' = Append(ledger, row)
  /\ cash' = cash + row.cashDelta
  /\ HeldQuantity(row.positionId)' =
       HeldQuantity(row.positionId) + SignedQuantity(row)
  /\ HeldMargin(row.positionId)' =
       HeldMargin(row.positionId) + row.marginDelta
  /\ \A id \in PositionIds \ {row.positionId} :
        /\ HeldQuantity(id)' = HeldQuantity(id)
        /\ HeldMargin(id)' = HeldMargin(id)
  /\ row.type = "EQUITY_SELL" \/ row.cashDelta >= 0 \/ cash' >= 0

OthersKept(id) ==
  \A other \in PositionIds \ {id} :
    /\ HeldQuantity(other)' = HeldQuantity(other)
    /\ HeldMargin(other)' = HeldMargin(other)

LEMMA OthersKeptByUpdate ==
  ASSUME NEW id, NEW position, openPositions' = WithPosition(id, position)
  PROVE  OthersKept(id)
BY DEF OthersKept, HeldQuantity, HeldMargin, IsOpen, IsOpenAs, WithPosition,
       CalculatePositionMargin, CalculateDefinedRiskMargin,
       CalculateEquityMargin

LEMMA OthersKeptByRemoval ==
  ASSUME NEW id, openPositions' = WithoutPosition(id)
  PROVE  OthersKept(id)
BY DEF OthersKept, HeldQuantity, HeldMargin, IsOpen, IsOpenAs,
       WithoutPosition, CalculatePositionMargin, CalculateDefinedRiskMargin,
       CalculateEquityMargin

LEMMA OpenEquityRow ==
  ASSUME PortfolioTypeOK, NEW s \in Strategies, NEW i \in Instruments,
         NEW q \in Int, NEW p \in Int, NEW f \in Int,
         OpenEquityPosition(s, i, q, p, f)
  PROVE  \E row : RowApplied(row)
<1> DEFINE id == CreatePositionId(s, i, DefaultLeg)
           total == p * q + f
           row == [type |-> "EQUITY_BUY", positionId |-> id,
                   cashDelta |-> -total, marginDelta |-> 0,
                   realizedPnl |-> 0, quantity |-> q, price |-> p]
           bought == EquityAfterBuy(id, q, p)
<1>1. /\ id \in PositionIds
      /\ q \in Positive /\ p \in Int /\ f \in Int /\ total \in Int
  BY LegAssumption
  DEF CreatePositionId, PositionIds, OpenEquityPosition, OpenEquityAllowed,
      Positive
<1>2. row \in LedgerRow
  BY <1>1 DEF LedgerRow
<1>3. openPositions' = WithPosition(id, bought)
  BY DEF OpenEquityPosition
<1>4. /\ bought.kind = "EQUITY"
      /\ bought.quantity = HeldQuantity(id) + q
  <2>1. CASE IsOpen(id)
    <3>1. openPositions[id] \in EquityPosition
      BY <2>1
      DEF OpenEquityPosition, OpenEquityAllowed, IsOpenAs, IsOpen,
          PortfolioTypeOK, Position, EquityPosition, DefinedRiskPosition
    <3> HIDE DEF id
    <3>. QED
      BY <2>1, <3>1 DEF EquityAfterBuy, EquityPosition, HeldQuantity
  <2>2. CASE ~IsOpen(id)
    BY <1>1, <2>2 DEF EquityAfterBuy, HeldQuantity, Positive
  <2>. QED
    BY <2>1, <2>2
<1>5. HeldMargin(id) = 0
  BY DEF OpenEquityPosition, OpenEquityAllowed, HeldMargin, IsOpenAs
<1>6. HeldQuantity(id)' = bought.quantity /\ HeldMargin(id)' = 0
  BY <1>3, <1>4 DEF HeldQuantity, HeldMargin, IsOpen, IsOpenAs, WithPosition
<1>7. SignedQuantity(row) = q
  BY DEF SignedQuantity
<1>8. cash' = cash - total /\ cash >= total /\ cash \in Int
  BY DEF OpenEquityPosition, OpenEquityAllowed, CanOpenEquityPosition,
         PortfolioTypeOK
<1>9. ledger' = Append(ledger, row)
  BY DEF OpenEquityPosition, RecordLedgerEntry
<1>10. RowApplied(row)
  <2>1. cash' = cash + row.cashDelta /\ cash' >= 0
    BY <1>1, <1>8
  <2>2. row.positionId = id /\ row.marginDelta = 0
    OBVIOUS
  <2> HIDE DEF row, id, bought
  <2>. QED
    BY <1>2, <1>3, <1>4, <1>5, <1>6, <1>7, <1>9, <2>1, <2>2,
       OthersKeptByUpdate
    DEF RowApplied, OthersKept
<1>. QED
  BY <1>10

LEMMA CloseEquityRow ==
  ASSUME PortfolioTypeOK, NEW id \in PositionIds,
         NEW q \in Int, NEW p \in Int, NEW f \in Int,
         CloseEquityPosition(id, q, p, f)
  PROVE  \E row : RowApplied(row)
<1> DEFINE position == openPositions[id]
           remaining == position.quantity - q
           proceeds == p * q - f
           pnl == proceeds - position.averagePrice * q
           row == [type |-> "EQUITY_SELL", positionId |-> id,
                   cashDelta |-> proceeds, marginDelta |-> 0,
                   realizedPnl |-> pnl, quantity |-> q, price |-> p]
           sold == [position EXCEPT !.quantity = remaining, !.markPrice = p]
<1>1. /\ IsOpen(id)
      /\ position \in EquityPosition
  BY DEF CloseEquityPosition, CloseEquityAllowed, IsOpenAs, IsOpen,
         PortfolioTypeOK, Position, EquityPosition, DefinedRiskPosition
<1>2. /\ q \in Positive /\ q <= position.quantity
      /\ p \in Int /\ f \in Int /\ proceeds \in Int
      /\ remaining \in Nat
  BY <1>1
  DEF CloseEquityPosition, CloseEquityAllowed, EquityPosition, Positive
<1>3. pnl \in Int
  BY <1>1, <1>2 DEF EquityPosition, Positive
<1>4. row \in LedgerRow
  BY <1>2, <1>3 DEF LedgerRow
<1>5. HeldQuantity(id) = position.quantity /\ HeldMargin(id) = 0
  BY <1>1 DEF HeldQuantity, HeldMargin, IsOpenAs, EquityPosition
<1>6. \/ openPositions' = WithPosition(id, sold)
      \/ openPositions' = WithoutPosition(id)
  BY DEF CloseEquityPosition, ClosePositionRecord
<1>7. HeldQuantity(id)' = remaining /\ HeldMargin(id)' = 0
  <2>1. CASE StaysOpen(remaining)
    <3>1. openPositions' = WithPosition(id, sold)
      BY <2>1 DEF CloseEquityPosition
    <3>2. sold.kind = "EQUITY" /\ sold.quantity = remaining
      BY <1>1 DEF EquityPosition
    <3>. QED
      BY <3>1, <3>2
      DEF HeldQuantity, HeldMargin, IsOpen, IsOpenAs, WithPosition
  <2>2. CASE ~StaysOpen(remaining)
    <3>1. openPositions' = WithoutPosition(id)
      BY <2>2 DEF CloseEquityPosition, ClosePositionRecord
    <3>2. remaining = 0
      BY <1>2, <2>2 DEF StaysOpen
    <3>. QED
      BY <3>1, <3>2
      DEF HeldQuantity, HeldMargin, IsOpen, IsOpenAs, WithoutPosition
  <2>. QED
    BY <2>1, <2>2
<1>8. cash' = cash + proceeds /\ ledger' = Append(ledger, row)
  BY DEF CloseEquityPosition, EquityRealizedPnl, RecordLedgerEntry
<1>9. HeldQuantity(id)' = HeldQuantity(id) + SignedQuantity(row)
  BY <1>1, <1>2, <1>5, <1>7 DEF SignedQuantity, Positive, EquityPosition
<1>10. ASSUME NEW r, r = row PROVE RowApplied(r)
  <2>1. /\ r.positionId = id
        /\ r.marginDelta = 0
        /\ r.cashDelta = proceeds
        /\ r.type = "EQUITY_SELL"
    BY <1>10
  <2>2. OthersKept(id)
    BY <1>6, OthersKeptByUpdate, OthersKeptByRemoval
  <2> HIDE DEF row, proceeds, sold, position
  <2>. QED
    BY <1>4, <1>5, <1>7, <1>8, <1>9, <1>10, <2>1, <2>2
    DEF RowApplied, OthersKept
<1>. QED
  BY <1>10

LEMMA OpenDefinedRiskRow ==
  ASSUME PortfolioTypeOK, NEW s \in Strategies, NEW i \in Instruments,
         NEW leg \in LegGroups, NEW q \in Int,
         NEW c \in Int, NEW m \in Int,
         OpenDefinedRiskPosition(s, i, leg, q, c, m)
  PROVE  \E row : RowApplied(row)
<1> DEFINE id == CreatePositionId(s, i, leg)
           received == c * q
           margin == CalculateDefinedRiskMargin(m, q)
           row == [type |-> "CREDIT_SPREAD_OPEN", positionId |-> id,
                   cashDelta |-> received, marginDelta |-> margin,
                   realizedPnl |-> 0, quantity |-> q, price |-> c]
           opened == [kind |-> "DEFINED_RISK", quantity |-> q,
                      entryCredit |-> c, maxLoss |-> m, markPrice |-> c]
<1>1. /\ id \in PositionIds
      /\ q \in Positive /\ c \in Positive /\ m \in Positive
  BY DEF CreatePositionId, PositionIds, OpenDefinedRiskPosition,
         OpenDefinedRiskAllowed, Positive
<1>2. received \in Nat /\ margin \in Int
  BY <1>1 DEF CalculateDefinedRiskMargin, Positive
<1>3. row \in LedgerRow
  BY <1>1, <1>2 DEF LedgerRow
<1>4. openPositions' = WithPosition(id, opened) /\ ~IsOpen(id)
  BY DEF OpenDefinedRiskPosition, OpenDefinedRiskAllowed
<1>5. HeldQuantity(id) = 0 /\ HeldMargin(id) = 0
  BY <1>4 DEF HeldQuantity, HeldMargin, IsOpenAs
<1>6. HeldQuantity(id)' = q /\ HeldMargin(id)' = margin
  BY <1>4
  DEF HeldQuantity, HeldMargin, IsOpen, IsOpenAs, WithPosition,
      CalculatePositionMargin
<1>7. cash' = cash + received /\ ledger' = Append(ledger, row)
  BY DEF OpenDefinedRiskPosition, RecordLedgerEntry
<1>8. SignedQuantity(row) = q
  BY DEF SignedQuantity
<1>9. RowApplied(row)
  <2>1. /\ row.positionId = id
        /\ row.marginDelta = margin
        /\ row.cashDelta = received
    OBVIOUS
  <2> HIDE DEF row, id, opened, received, margin
  <2>. QED
    BY <1>1, <1>2, <1>3, <1>4, <1>5, <1>6, <1>7, <1>8, <2>1,
       OthersKeptByUpdate
    DEF RowApplied, OthersKept, Positive
<1>. QED
  BY <1>9

LEMMA CloseDefinedRiskRow ==
  ASSUME PortfolioTypeOK, NEW id \in PositionIds, NEW c \in Int,
         CloseDefinedRiskPosition(id, c)
  PROVE  \E row : RowApplied(row)
<1> DEFINE position == openPositions[id]
           total == c * position.quantity
           margin == CalculateDefinedRiskMargin(position.maxLoss,
                                                position.quantity)
           pnl == (position.entryCredit - c) * position.quantity
           row == [type |-> "CREDIT_SPREAD_CLOSE", positionId |-> id,
                   cashDelta |-> -total, marginDelta |-> -margin,
                   realizedPnl |-> pnl, quantity |-> position.quantity,
                   price |-> c]
<1>1. /\ IsOpenAs(id, "DEFINED_RISK")
      /\ position \in DefinedRiskPosition
  BY DEF CloseDefinedRiskPosition, CloseDefinedRiskAllowed, IsOpenAs, IsOpen,
         PortfolioTypeOK, Position, EquityPosition, DefinedRiskPosition
<1>2. /\ c \in Int /\ total \in Int /\ margin \in Int
      /\ position.quantity \in Positive
  BY <1>1 DEF DefinedRiskPosition, Positive, CalculateDefinedRiskMargin
<1>3. pnl \in Int
  BY <1>1, <1>2 DEF DefinedRiskPosition, Positive
<1>4. row \in LedgerRow
  BY <1>2, <1>3 DEF LedgerRow
<1>5. HeldQuantity(id) = position.quantity /\ HeldMargin(id) = margin
  BY <1>1 DEF HeldQuantity, HeldMargin, IsOpenAs, CalculatePositionMargin
<1>6. openPositions' = WithoutPosition(id)
  BY DEF CloseDefinedRiskPosition, ClosePositionRecord
<1>7. HeldQuantity(id)' = 0 /\ HeldMargin(id)' = 0
  BY <1>6 DEF HeldQuantity, HeldMargin, IsOpen, IsOpenAs, WithoutPosition
<1>8. cash' = cash - total /\ cash >= total /\ ledger' = Append(ledger, row)
  BY DEF CloseDefinedRiskPosition, CloseDefinedRiskAllowed,
         DefinedRiskRealizedPnl, RecordLedgerEntry
<1>9. SignedQuantity(row) = -position.quantity
  BY DEF SignedQuantity
<1>10. cash' = cash + row.cashDelta /\ cash' >= 0
  <2>1. row.cashDelta = -total /\ cash \in Int
    BY DEF PortfolioTypeOK
  <2> HIDE DEF row, total
  <2>. QED
    BY <1>2, <1>8, <2>1
<1>11. ASSUME NEW r, r = row PROVE RowApplied(r)
  <2>1. r.positionId = id /\ r.marginDelta = -margin
    BY <1>11
  <2> HIDE DEF row, margin, position
  <2>. QED
    BY <1>2, <1>4, <1>5, <1>6, <1>7, <1>8, <1>9, <1>10, <1>11, <2>1,
       OthersKeptByRemoval
    DEF RowApplied, OthersKept, Positive
<1>. QED
  BY <1>11

(* The row a method appends is the last one of the ledger.                 *)
LEMMA RowIsLast ==
  ASSUME PortfolioTypeOK, NEW row, RowApplied(row),
         NEW other, ledger' = Append(ledger, other)
  PROVE  row = other
<1>1. ledger \in Seq(LedgerRow) /\ ledger' = Append(ledger, row)
  BY DEF PortfolioTypeOK, RowApplied
<1>2. ASSUME NEW rows \in Seq(LedgerRow), NEW x
      PROVE  Append(rows, x)[Len(rows) + 1] = x
  OBVIOUS
<1>3. Append(ledger, row)[Len(ledger) + 1] = row
  BY <1>1, <1>2
<1>4. Append(ledger, other)[Len(ledger) + 1] = other
  BY <1>1, <1>2
<1>5. Append(ledger, row) = Append(ledger, other)
  BY <1>1
<1>. QED
  BY <1>3, <1>4, <1>5

-----------------------------------------------------------------------------
(* Sums over the positions of a book *)

LEMMA PnlIsInt ==
  ASSUME NEW position \in Position
  PROVE  CalculatePositionUnrealizedPnl(position) \in Int
BY DEF CalculatePositionUnrealizedPnl, Position, EquityPosition,
       DefinedRiskPosition, Positive

(* The profit of some of the positions of a book, as a snapshot adds it up. *)
BookPnl(positions, ids) ==
  MapThenSumSet(
    LAMBDA id : CalculatePositionUnrealizedPnl(positions[id]), ids)

LEMMA PnlIsSum ==
  ASSUME NEW positions, IsFiniteSet(DOMAIN positions),
         \A id \in DOMAIN positions : positions[id] \in Position,
         NEW pnl,
         pnl = [id \in DOMAIN positions |->
                  CalculatePositionUnrealizedPnl(positions[id])],
         NEW ids, ids \subseteq DOMAIN positions
  PROVE  BookPnl(positions, ids) = SetSum(pnl, ids)
<1> DEFINE P(h) == h = [s \in SUBSET ids |->
                          IF s = {} THEN 0
                          ELSE LET x == CHOOSE y \in s : TRUE
                               IN  CalculatePositionUnrealizedPnl(positions[x])
                                   + h[s \ {x}]]
<1>1. \A x \in ids : /\ pnl[x] = CalculatePositionUnrealizedPnl(positions[x])
                     /\ pnl[x] \in Int
  BY PnlIsInt
<1>2. IsFiniteSet(ids)
  BY FS_Subset
<1>3. \A s \in SUBSET ids : s # {} => (CHOOSE y \in s : TRUE) \in ids
  OBVIOUS
<1>4. ASSUME NEW h
      PROVE  P(h) <=> IsSum(h, pnl, ids)
  BY <1>1, <1>3 DEF IsSum, SomeOf
<1>5. PICK g : IsSum(g, pnl, ids)
  BY <1>1, <1>2, SumExists DEF HasSum
<1>6. P(g)
  BY <1>4, <1>5
<1>7. P(CHOOSE h : P(h))
  BY <1>6
<1>8. (CHOOSE h : P(h))[ids] = SetSum(pnl, ids)
  <2> DEFINE k == CHOOSE h : P(h)
  <2>1. IsSum(k, pnl, ids)
    BY <1>4, <1>7
  <2> HIDE DEF k
  <2>. QED
    BY <1>2, <2>1, SetSumOf DEF k
<1>9. BookPnl(positions, ids) = (CHOOSE h : P(h))[ids]
  BY DEF BookPnl, MapThenSumSet, MapThenFoldSet
<1>. QED
  BY <1>8, <1>9

(* The account's unrealized profit is the profit of its whole book.        *)
LEMMA UnrealizedIsBookPnl ==
  /\ UnrealizedPnl = BookPnl(openPositions, DOMAIN openPositions)
  /\ UnrealizedPnl' = BookPnl(openPositions', DOMAIN openPositions')
BY DEF UnrealizedPnl, SumOverPositions, BookPnl, MapThenSumSet, MapThenFoldSet

LEMMA BookPnlType ==
  ASSUME NEW positions, IsFiniteSet(DOMAIN positions),
         \A id \in DOMAIN positions : positions[id] \in Position,
         NEW ids, ids \subseteq DOMAIN positions
  PROVE  /\ BookPnl(positions, ids) \in Int
         /\ ids = {} => BookPnl(positions, ids) = 0
<1> DEFINE pnl == [id \in DOMAIN positions |->
                     CalculatePositionUnrealizedPnl(positions[id])]
<1>1. \A id \in ids : pnl[id] \in Int
  BY PnlIsInt
<1>2. BookPnl(positions, ids) = SetSum(pnl, ids)
  BY PnlIsSum
<1>3. IsFiniteSet(ids)
  BY FS_Subset
<1> HIDE DEF pnl
<1>. QED
  BY <1>1, <1>2, <1>3, SetSumType, SetSumEmpty

-----------------------------------------------------------------------------
(* The ledger replays *)

(* A column of a sequence, extended by one row. *)
LEMMA ColumnOfAppend ==
  ASSUME NEW rows, NEW more, NEW row, NEW S, rows \in Seq(S),
         more = Append(rows, row),
         NEW column, NEW longer, NEW x \in Int,
         DOMAIN column = DOMAIN rows, column \in [DOMAIN rows -> Int],
         DOMAIN longer = DOMAIN more, longer \in [DOMAIN more -> Int],
         \A n \in DOMAIN rows : longer[n] = column[n],
         longer[Len(rows) + 1] = x
  PROVE  column \in Seq(Int) /\ longer = Append(column, x)
<1>1. column \in Seq(Int) /\ Len(column) = Len(rows)
  OBVIOUS
<1>2. longer \in Seq(Int) /\ Len(longer) = Len(rows) + 1
  <2>1. DOMAIN longer = 1..(Len(rows) + 1) /\ Len(rows) + 1 \in Nat
    OBVIOUS
  <2>. QED
    BY <2>1
<1>3. ASSUME NEW n \in 1..Len(longer)
      PROVE  longer[n] = Append(column, x)[n]
  <2>1. CASE n \in DOMAIN rows
    BY <1>1, <2>1
  <2>2. CASE n = Len(rows) + 1
    BY <1>1, <2>2
  <2>. QED
    BY <1>2, <2>1, <2>2
<1>. QED
  BY <1>1, <1>2, <1>3

LEMMA HeldIsInt ==
  ASSUME PortfolioTypeOK, NEW id
  PROVE  HeldQuantity(id) \in Int /\ HeldMargin(id) \in Int
<1>1. CASE ~IsOpen(id)
  BY <1>1 DEF HeldQuantity, HeldMargin, IsOpenAs
<1>2. CASE IsOpen(id)
  <2>1. openPositions[id] \in EquityPosition \cup DefinedRiskPosition
    BY <1>2 DEF IsOpen, PortfolioTypeOK, Position
  <2>2. CASE openPositions[id] \in EquityPosition
    BY <1>2, <2>2
    DEF HeldQuantity, HeldMargin, IsOpenAs, EquityPosition, Positive
  <2>3. CASE openPositions[id] \in DefinedRiskPosition
    BY <1>2, <2>3
    DEF HeldQuantity, HeldMargin, IsOpenAs, Positive, DefinedRiskPosition,
        CalculatePositionMargin, CalculateDefinedRiskMargin
  <2>. QED
    BY <2>1, <2>2, <2>3
<1>. QED
  BY <1>1, <1>2

(* The inductive invariant: every replayed column has a total, and it is  *)
(* the balance it should be.                                              *)
ReplayInv ==
  /\ PortfolioTypeOK
  /\ TotalIs(InitialCapital, CashDeltas, cash)
  /\ \A id \in PositionIds :
       /\ TotalIs(0, QuantityDeltas(id), HeldQuantity(id))
       /\ TotalIs(0, MarginDeltas(id), HeldMargin(id))
  /\ \E s \in Int : s <= 0 /\ s <= cash /\ TotalIs(0, SaleShortfalls, s)

LEMMA CashReplayStep ==
  ASSUME ReplayInv, NEW row, RowApplied(row)
  PROVE  TotalIs(InitialCapital, CashDeltas, cash)'
<1>1. CashDeltas \in Seq(Int) /\ CashDeltas' = Append(CashDeltas,
row.cashDelta)
  <2>1. /\ ledger \in Seq(LedgerRow)
        /\ row \in LedgerRow
        /\ ledger' = Append(ledger, row)
    BY DEF ReplayInv, PortfolioTypeOK, RowApplied
  <2>2. /\ row.cashDelta \in Int
        /\ CashDeltas \in [DOMAIN ledger -> Int]
        /\ CashDeltas' \in [DOMAIN ledger' -> Int]
    <3>1. \A r \in LedgerRow : r.cashDelta \in Int
      BY DEF LedgerRow
    <3>2. /\ \A n \in DOMAIN ledger : ledger[n] \in LedgerRow
          /\ \A n \in DOMAIN ledger' : ledger'[n] \in LedgerRow
      BY <2>1
    <3>. QED
      BY <2>1, <3>1, <3>2 DEF CashDeltas
  <2>3. /\ \A n \in DOMAIN ledger : CashDeltas'[n] = CashDeltas[n]
        /\ CashDeltas'[Len(ledger) + 1] = row.cashDelta
    BY <2>1 DEF CashDeltas
  <2>. QED
    BY <2>1, <2>2, <2>3, ColumnOfAppend
<1>2. row.cashDelta \in Int /\ cash \in Int /\ InitialCapital \in Int
  BY CapitalAssumption DEF RowApplied, LedgerRow, ReplayInv, PortfolioTypeOK
<1>3. TotalIs(InitialCapital, Append(CashDeltas, row.cashDelta),
              cash + row.cashDelta)
  BY <1>1, <1>2, TotalOfAppend DEF ReplayInv
<1>. QED
  BY <1>1, <1>3 DEF RowApplied

LEMMA PositionReplayStep ==
  ASSUME ReplayInv, NEW row, RowApplied(row), NEW id \in PositionIds
  PROVE  /\ TotalIs(0, QuantityDeltas(id), HeldQuantity(id))'
         /\ TotalIs(0, MarginDeltas(id), HeldMargin(id))'
<1> DEFINE quantityDelta == OwnRow(row, id, SignedQuantity(row))
           marginDelta == OwnRow(row, id, row.marginDelta)
<1>1. /\ ledger \in Seq(LedgerRow)
      /\ row \in LedgerRow
      /\ ledger' = Append(ledger, row)
  BY DEF ReplayInv, PortfolioTypeOK, RowApplied
<1>2. \A r \in LedgerRow : /\ r.marginDelta \in Int
                          /\ OwnRow(r, id, r.marginDelta) \in Int
                          /\ OwnRow(r, id, SignedQuantity(r)) \in Int
  BY DEF LedgerRow, OwnRow, SignedQuantity, Positive
<1>3. /\ \A n \in DOMAIN ledger : ledger[n] \in LedgerRow
      /\ \A n \in DOMAIN ledger' : ledger'[n] \in LedgerRow
  BY <1>1
<1>4. /\ QuantityDeltas(id) \in Seq(Int)
      /\ QuantityDeltas(id)' = Append(QuantityDeltas(id), quantityDelta)
  <2>1. /\ QuantityDeltas(id) \in [DOMAIN ledger -> Int]
        /\ QuantityDeltas(id)' \in [DOMAIN ledger' -> Int]
    BY <1>1, <1>2, <1>3 DEF QuantityDeltas
  <2>2. /\ \A n \in DOMAIN ledger :
             QuantityDeltas(id)'[n] = QuantityDeltas(id)[n]
        /\ QuantityDeltas(id)'[Len(ledger) + 1] = quantityDelta
    BY <1>1 DEF QuantityDeltas
  <2>. QED
    BY <1>1, <1>2, <2>1, <2>2, ColumnOfAppend
<1>5. /\ MarginDeltas(id) \in Seq(Int)
      /\ MarginDeltas(id)' = Append(MarginDeltas(id), marginDelta)
  <2>1. /\ MarginDeltas(id) \in [DOMAIN ledger -> Int]
        /\ MarginDeltas(id)' \in [DOMAIN ledger' -> Int]
    BY <1>1, <1>2, <1>3 DEF MarginDeltas
  <2>2. /\ \A n \in DOMAIN ledger :
             MarginDeltas(id)'[n] = MarginDeltas(id)[n]
        /\ MarginDeltas(id)'[Len(ledger) + 1] = marginDelta
    BY <1>1 DEF MarginDeltas
  <2>. QED
    BY <1>1, <1>2, <2>1, <2>2, ColumnOfAppend
<1>6. /\ HeldQuantity(id) \in Int /\ HeldMargin(id) \in Int
      /\ quantityDelta \in Int /\ marginDelta \in Int
  BY <1>1, <1>2, HeldIsInt DEF ReplayInv
<1>7. /\ HeldQuantity(id)' = HeldQuantity(id) + quantityDelta
      /\ HeldMargin(id)' = HeldMargin(id) + marginDelta
  <2>1. CASE row.positionId = id
    BY <2>1 DEF RowApplied, OwnRow
  <2>2. CASE row.positionId # id
    BY <1>6, <2>2 DEF RowApplied, OwnRow
  <2>. QED
    BY <2>1, <2>2
<1>8. /\ TotalIs(0, Append(QuantityDeltas(id), quantityDelta),
                 HeldQuantity(id) + quantityDelta)
      /\ TotalIs(0, Append(MarginDeltas(id), marginDelta),
                 HeldMargin(id) + marginDelta)
  <2> HIDE DEF quantityDelta, marginDelta
  <2>1. /\ 0 \in Int
        /\ TotalIs(0, QuantityDeltas(id), HeldQuantity(id))
        /\ TotalIs(0, MarginDeltas(id), HeldMargin(id))
    BY DEF ReplayInv
  <2>. QED
    BY <1>4, <1>5, <1>6, <2>1, TotalOfAppend
<1>. QED
  BY <1>4, <1>5, <1>7, <1>8

LEMMA OverdraftStep ==
  ASSUME ReplayInv, NEW row, RowApplied(row)
  PROVE  \E s \in Int : s <= 0 /\ s <= cash' /\ TotalIs(0, SaleShortfalls', s)
<1> DEFINE short == IF row.type = "EQUITY_SELL" /\ row.cashDelta < 0
                    THEN row.cashDelta ELSE 0
<1>1. /\ ledger \in Seq(LedgerRow)
      /\ row \in LedgerRow
      /\ ledger' = Append(ledger, row)
  BY DEF ReplayInv, PortfolioTypeOK, RowApplied
<1>2. \A r \in LedgerRow : r.cashDelta \in Int
  BY DEF LedgerRow
<1>3. /\ SaleShortfalls \in Seq(Int)
      /\ SaleShortfalls' = Append(SaleShortfalls, short)
  <2>1. /\ \A n \in DOMAIN ledger : ledger[n] \in LedgerRow
        /\ \A n \in DOMAIN ledger' : ledger'[n] \in LedgerRow
    BY <1>1
  <2>2. /\ SaleShortfalls \in [DOMAIN ledger -> Int]
        /\ SaleShortfalls' \in [DOMAIN ledger' -> Int]
    BY <1>1, <1>2, <2>1 DEF SaleShortfalls
  <2>3. /\ \A n \in DOMAIN ledger : SaleShortfalls'[n] = SaleShortfalls[n]
        /\ SaleShortfalls'[Len(ledger) + 1] = short
    BY <1>1 DEF SaleShortfalls
  <2>. QED
    BY <1>1, <1>2, <2>2, <2>3, ColumnOfAppend
<1>4. PICK s \in Int : s <= 0 /\ s <= cash /\ TotalIs(0, SaleShortfalls, s)
  BY DEF ReplayInv
<1>5. short \in Int
  BY <1>1, <1>2
<1>6. TotalIs(0, SaleShortfalls', s + short)
  <2> HIDE DEF short
  <2>1. 0 \in Int
    OBVIOUS
  <2>. QED
    BY <1>3, <1>4, <1>5, <2>1, TotalOfAppend
<1>7. s + short <= 0 /\ s + short <= cash'
  BY <1>1, <1>2, <1>4 DEF RowApplied, ReplayInv, PortfolioTypeOK
<1>. QED
  BY <1>4, <1>5, <1>6, <1>7

LEMMA ReplayOfInit == PortfolioInit => ReplayInv
<1> SUFFICES ASSUME PortfolioInit PROVE ReplayInv
  OBVIOUS
<1>1. /\ CashDeltas = <<>>
      /\ SaleShortfalls = <<>>
      /\ \A id : QuantityDeltas(id) = <<>> /\ MarginDeltas(id) = <<>>
  BY DEF PortfolioInit, CashDeltas, SaleShortfalls, QuantityDeltas,
         MarginDeltas
<1>2. \A id : HeldQuantity(id) = 0 /\ HeldMargin(id) = 0
  BY DEF PortfolioInit, HeldQuantity, HeldMargin, IsOpen, IsOpenAs
<1>3. cash = InitialCapital /\ cash \in Nat
  BY CapitalAssumption DEF PortfolioInit
<1>. QED
  BY <1>1, <1>2, <1>3, InitType, TotalOfEmpty DEF ReplayInv

LEMMA ReplayOfMark ==
  ASSUME ReplayInv, NEW id \in PositionIds, NEW m \in Int,
         MarkToMarket(id, m)
  PROVE  ReplayInv'
<1>1. PortfolioTypeOK'
  BY MarkToMarketType DEF ReplayInv
<1>2. /\ cash' = cash
      /\ CashDeltas' = CashDeltas
      /\ SaleShortfalls' = SaleShortfalls
      /\ \A x : QuantityDeltas(x)' = QuantityDeltas(x)
             /\ MarginDeltas(x)' = MarginDeltas(x)
  BY DEF MarkToMarket, CashDeltas, SaleShortfalls, QuantityDeltas,
         MarginDeltas
<1>3. \A x \in PositionIds : HeldQuantity(x)' = HeldQuantity(x)
                            /\ HeldMargin(x)' = HeldMargin(x)
  <2>1. CASE ~IsOpen(id)
    BY <2>1
    DEF MarkToMarket, HeldQuantity, HeldMargin, IsOpen, IsOpenAs,
        CalculatePositionMargin, CalculateDefinedRiskMargin,
        CalculateEquityMargin
  <2>2. CASE IsOpen(id)
    <3> DEFINE marked == [openPositions[id] EXCEPT !.markPrice = m]
    <3>1. openPositions[id] \in Position
      BY <2>2 DEF ReplayInv, PortfolioTypeOK, IsOpen
    <3>2. /\ marked.kind = openPositions[id].kind
          /\ marked.quantity = openPositions[id].quantity
          /\ openPositions[id].kind = "DEFINED_RISK" =>
                marked.maxLoss = openPositions[id].maxLoss
      BY <3>1 DEF Position, EquityPosition, DefinedRiskPosition
    <3>3. openPositions' = WithPosition(id, marked)
      BY <2>2 DEF MarkToMarket
    <3>4. OthersKept(id)
      BY <3>3, OthersKeptByUpdate
    <3>5. HeldQuantity(id)' = HeldQuantity(id)
          /\ HeldMargin(id)' = HeldMargin(id)
      <4> HIDE DEF marked
      <4>. QED
        BY <2>2, <3>2, <3>3
        DEF HeldQuantity, HeldMargin, IsOpen, IsOpenAs, WithPosition,
            CalculatePositionMargin
    <3>. QED
      BY <3>4, <3>5 DEF OthersKept
  <2>. QED
    BY <2>1, <2>2
<1>. QED
  BY <1>1, <1>2, <1>3 DEF ReplayInv

(* One trade, with its row, keeps the account replayable. *)
LEMMA ReplayStep ==
  ASSUME ReplayInv, PortfolioTypeOK', NEW row, RowApplied(row)
  PROVE  ReplayInv'
BY CashReplayStep, PositionReplayStep, OverdraftStep DEF ReplayInv

LEMMA ReplayOfStutter ==
  ASSUME ReplayInv, UNCHANGED portfolioVars
  PROVE  ReplayInv'
BY DEF portfolioVars, ReplayInv, PortfolioTypeOK, CashDeltas, QuantityDeltas,
       MarginDeltas, SaleShortfalls, HeldQuantity, HeldMargin, IsOpen,
       IsOpenAs

(* What the invariant means for the balances a reader looks at. *)
LEMMA ReplayMeaning ==
  ReplayInv => /\ LedgerReplaysCash
               /\ LedgerReplaysPositions
               /\ OverdraftOnlyFromSaleFees
<1>1. ReplayInv => LedgerReplaysCash
  BY TotalIsRunningTotal DEF ReplayInv, LedgerReplaysCash
<1>2. ReplayInv => LedgerReplaysPositions
  BY TotalIsRunningTotal DEF ReplayInv, LedgerReplaysPositions
<1>3. ReplayInv => OverdraftOnlyFromSaleFees
  BY TotalIsRunningTotal DEF ReplayInv, OverdraftOnlyFromSaleFees
<1>. QED
  BY <1>1, <1>2, <1>3

-----------------------------------------------------------------------------
(* The books balance *)

(* What the positions under ids cost, as BooksBalance adds it up.          *)
BookCost(positions, ids) ==
  MapThenSumSet(LAMBDA id : CarriedValue(positions[id]), ids)

LEMMA CostIsInt ==
  ASSUME NEW position \in Position
  PROVE  CarriedValue(position) \in Int
BY DEF CarriedValue, Position, EquityPosition, DefinedRiskPosition, Positive

LEMMA CostIsSum ==
  ASSUME NEW positions, IsFiniteSet(DOMAIN positions),
         \A id \in DOMAIN positions : positions[id] \in Position,
         NEW cost,
         cost = [id \in DOMAIN positions |-> CarriedValue(positions[id])],
         NEW ids, ids \subseteq DOMAIN positions
  PROVE  /\ BookCost(positions, ids) = SetSum(cost, ids)
         /\ BookCost(positions, ids) \in Int
<1> DEFINE P(h) == h = [s \in SUBSET ids |->
                          IF s = {} THEN 0
                          ELSE LET x == CHOOSE y \in s : TRUE
                               IN  CarriedValue(positions[x]) + h[s \ {x}]]
<1>1. \A x \in ids : cost[x] = CarriedValue(positions[x]) /\ cost[x] \in Int
  BY CostIsInt
<1>2. IsFiniteSet(ids)
  BY FS_Subset
<1>3. \A s \in SUBSET ids : s # {} => (CHOOSE y \in s : TRUE) \in ids
  OBVIOUS
<1>4. ASSUME NEW h
      PROVE  P(h) <=> IsSum(h, cost, ids)
  BY <1>1, <1>3 DEF IsSum, SomeOf
<1>5. PICK g : IsSum(g, cost, ids)
  BY <1>1, <1>2, SumExists DEF HasSum
<1>6. P(g)
  BY <1>4, <1>5
<1>7. P(CHOOSE h : P(h))
  BY <1>6
<1>8. (CHOOSE h : P(h))[ids] = SetSum(cost, ids)
  <2> DEFINE k == CHOOSE h : P(h)
  <2>1. IsSum(k, cost, ids)
    BY <1>4, <1>7
  <2> HIDE DEF k
  <2>. QED
    BY <1>2, <2>1, SetSumOf DEF k
<1>9. BookCost(positions, ids) = (CHOOSE h : P(h))[ids]
  BY DEF BookCost, MapThenSumSet, MapThenFoldSet
<1>10. SetSum(cost, ids) \in Int
  BY <1>1, <1>2, SetSumType
<1>. QED
  BY <1>8, <1>9, <1>10

Cost == BookCost(openPositions, DOMAIN openPositions)

LEMMA CostOfBook ==
  /\ SumOverPositions(CarriedValue, DOMAIN openPositions) = Cost
  /\ Cost' = BookCost(openPositions', DOMAIN openPositions')
BY DEF SumOverPositions, Cost, BookCost, MapThenSumSet, MapThenFoldSet

(* Two books that differ under one id.                                     *)
LEMMA CostOfRest ==
  ASSUME NEW old, IsFiniteSet(DOMAIN old),
         \A x \in DOMAIN old : old[x] \in Position,
         NEW new, IsFiniteSet(DOMAIN new),
         \A x \in DOMAIN new : new[x] \in Position,
         NEW id, DOMAIN old \ {id} = DOMAIN new \ {id},
         \A x \in DOMAIN old \ {id} :
           CarriedValue(new[x]) = CarriedValue(old[x])
  PROVE  BookCost(new, DOMAIN new)
           - (IF id \in DOMAIN new THEN CarriedValue(new[id]) ELSE 0)
           = BookCost(old, DOMAIN old)
             - (IF id \in DOMAIN old THEN CarriedValue(old[id]) ELSE 0)
<1> DEFINE rest == DOMAIN old \ {id}
           f == [x \in DOMAIN old |-> CarriedValue(old[x])]
           g == [x \in DOMAIN new |-> CarriedValue(new[x])]
<1>1. /\ BookCost(old, DOMAIN old) = SetSum(f, DOMAIN old)
      /\ BookCost(new, DOMAIN new) = SetSum(g, DOMAIN new)
  BY CostIsSum
<1>2. /\ \A x \in DOMAIN old : f[x] = CarriedValue(old[x]) /\ f[x] \in Int
      /\ \A x \in DOMAIN new : g[x] = CarriedValue(new[x]) /\ g[x] \in Int
  BY CostIsInt
<1> HIDE DEF f, g
<1>3. IsFiniteSet(rest)
  BY FS_Subset
<1>4. SetSum(g, rest) = SetSum(f, rest)
  <2>1. \A x \in rest : f[x] \in Int /\ g[x] = f[x]
    BY <1>2
  <2> HIDE DEF rest
  <2>. QED
    BY <1>3, <2>1, SetSumAgrees
<1>5. SetSum(f, rest) \in Int
  BY <1>2, <1>3, SetSumType
<1>6. SetSum(f, DOMAIN old)
        = (IF id \in DOMAIN old THEN f[id] ELSE 0) + SetSum(f, rest)
  <2>1. CASE id \in DOMAIN old
    BY <1>2, <2>1, SetSumRemove
  <2>2. CASE id \notin DOMAIN old
    <3>1. rest = DOMAIN old
      BY <2>2
    <3>. QED
      BY <1>5, <2>2, <3>1
  <2>. QED
    BY <2>1, <2>2
<1>7. SetSum(g, DOMAIN new)
        = (IF id \in DOMAIN new THEN g[id] ELSE 0) + SetSum(g, rest)
  <2>1. CASE id \in DOMAIN new
    <3>1. rest = DOMAIN new \ {id}
      OBVIOUS
    <3>2. SetSum(g, DOMAIN new) = g[id] + SetSum(g, DOMAIN new \ {id})
      BY <1>2, <2>1, SetSumRemove
    <3>. QED
      BY <2>1, <3>1, <3>2
  <2>2. CASE id \notin DOMAIN new
    <3>1. rest = DOMAIN new
      BY <2>2
    <3>. QED
      BY <1>4, <1>5, <2>2, <3>1
  <2>. QED
    BY <2>1, <2>2
<1> HIDE DEF rest
<1>. QED
  BY <1>1, <1>2, <1>4, <1>5, <1>6, <1>7

BuyFee(row) ==
  IF row.type = "EQUITY_BUY" THEN -row.cashDelta - row.price * row.quantity
  ELSE 0

SharesIn(row) == IF row.type = "EQUITY_BUY" THEN row.quantity ELSE 0

HoldsAtMost(positions, b) ==
  \A id \in DOMAIN positions :
    positions[id].kind = "EQUITY" => positions[id].quantity <= b

(* What averaging rounds off a buy: less than a unit per share held then.  *)
RoundedOff(row, slack) ==
  /\ Cost' = Cost + row.realizedPnl - BuyFee(row) - row.cashDelta - slack
  /\ row.type # "EQUITY_BUY" => slack = 0
  /\ \A b \in Nat :
       HoldsAtMost(openPositions, b) => slack <= b + SharesIn(row)

(* The row explains, up to that, what the book is worth at cost.           *)
Balanced(row) ==
  /\ RowApplied(row)
  /\ IsFiniteSet(DOMAIN openPositions')
  /\ \E slack \in Nat : RoundedOff(row, slack)
  /\ \A b \in Nat :
       HoldsAtMost(openPositions, b) =>
         HoldsAtMost(openPositions', b + SharesIn(row))

LEMMA Quotient ==
  ASSUME NEW a \in Int, NEW n \in Nat, n > 0
  PROVE  /\ (a \div n) \in Int
         /\ (a \div n) * n <= a
         /\ a < (a \div n) * n + n
OBVIOUS

(* One position is set or taken out; the others cost what they did.        *)
LEMMA CostOfUpdate ==
  ASSUME PortfolioTypeOK, PortfolioTypeOK', IsFiniteSet(DOMAIN openPositions),
         NEW id,
         \/ openPositions' = WithoutPosition(id)
         \/ \E position : openPositions' = WithPosition(id, position)
  PROVE  /\ IsFiniteSet(DOMAIN openPositions')
         /\ Cost \in Int /\ Cost' \in Int
         /\ Cost' - (IF id \in DOMAIN openPositions'
                     THEN CarriedValue(openPositions'[id]) ELSE 0)
              = Cost - (IF id \in DOMAIN openPositions
                        THEN CarriedValue(openPositions[id]) ELSE 0)
<1>1. /\ DOMAIN openPositions' \subseteq DOMAIN openPositions \cup {id}
      /\ DOMAIN openPositions' \ {id} = DOMAIN openPositions \ {id}
      /\ \A x \in DOMAIN openPositions \ {id} :
           openPositions'[x] = openPositions[x]
  BY DEF WithPosition, WithoutPosition
<1>2. IsFiniteSet(DOMAIN openPositions')
  BY <1>1, FS_AddElement, FS_Subset
<1>3. /\ \A x \in DOMAIN openPositions : openPositions[x] \in Position
      /\ \A x \in DOMAIN openPositions' : openPositions'[x] \in Position
  BY DEF PortfolioTypeOK
<1>4. Cost \in Int /\ Cost' \in Int
  BY <1>2, <1>3, CostIsSum DEF Cost
<1>5. \A x \in DOMAIN openPositions \ {id} :
        CarriedValue(openPositions'[x]) = CarriedValue(openPositions[x])
  BY <1>1
<1>6. BookCost(openPositions', DOMAIN openPositions')
        - (IF id \in DOMAIN openPositions'
           THEN CarriedValue(openPositions'[id]) ELSE 0)
        = BookCost(openPositions, DOMAIN openPositions)
          - (IF id \in DOMAIN openPositions
             THEN CarriedValue(openPositions[id]) ELSE 0)
  BY <1>1, <1>2, <1>3, <1>5, CostOfRest
<1>. QED
  BY <1>2, <1>4, <1>6, CostOfBook DEF Cost

(* What CostOfUpdate says is read from one side to the other.               *)
LEMMA MovedAcross ==
  /\ \A a, b, c \in Int : a - c = b - 0 => a = b + c
  /\ \A a, b, c \in Int : a - 0 = b - c => a = b - c
OBVIOUS

LEMMA OpenEquityBooks ==
  ASSUME PortfolioTypeOK, IsFiniteSet(DOMAIN openPositions),
         NEW s \in Strategies, NEW i \in Instruments,
         NEW q \in Int, NEW p \in Int, NEW f \in Int,
         OpenEquityPosition(s, i, q, p, f)
  PROVE  \E row : Balanced(row)
<1> DEFINE id == CreatePositionId(s, i, DefaultLeg)
           row == [type |-> "EQUITY_BUY", positionId |-> id,
                   cashDelta |-> -(p * q + f), marginDelta |-> 0,
                   realizedPnl |-> 0, quantity |-> q, price |-> p]
           held == openPositions[id]
           bought == EquityAfterBuy(id, q, p)
           total == held.averagePrice * held.quantity + p * q
<1>1. PortfolioTypeOK' /\ q \in Nat /\ q > 0
  <2>1. PortfolioTypeOK'
    BY OpenEquityType
  <2>2. q > 0
    BY DEF OpenEquityPosition, OpenEquityAllowed
  <2>. QED
    BY <2>1, <2>2
<1>2. /\ ledger' = Append(ledger, row)
      /\ openPositions' = WithPosition(id, bought)
  BY DEF OpenEquityPosition, RecordLedgerEntry
<1>3. RowApplied(row)
  <2>1. PICK r : RowApplied(r)
    BY OpenEquityRow
  <2> HIDE DEF row
  <2>. QED
    BY <1>2, <2>1, RowIsLast
<1>4. ASSUME IsOpen(id)
      PROVE  /\ held \in EquityPosition
             /\ held.quantity \in Nat /\ total \in Int
             /\ bought.quantity = held.quantity + q
             /\ CarriedValue(bought)
                  = (total \div (held.quantity + q)) * (held.quantity + q)
             /\ CarriedValue(held) = held.averagePrice * held.quantity
  <2>1. held \in EquityPosition
    BY <1>4
    DEF OpenEquityPosition, OpenEquityAllowed, IsOpenAs, IsOpen,
        PortfolioTypeOK, Position, EquityPosition, DefinedRiskPosition
  <2> HIDE DEF id
  <2>. QED
    BY <1>1, <1>4, <2>1
    DEF EquityAfterBuy, EquityPosition, Positive, CarriedValue
<1>5. ASSUME ~IsOpen(id)
      PROVE  bought.quantity = q /\ CarriedValue(bought) = p * q
  BY <1>5 DEF EquityAfterBuy, CarriedValue
<1>6. bought.kind = "EQUITY"
  <2> HIDE DEF id
  <2>. QED
    BY <1>4 DEF EquityAfterBuy, EquityPosition
<1>7. /\ id \in DOMAIN openPositions' /\ openPositions'[id] = bought
      /\ DOMAIN openPositions' = DOMAIN openPositions \cup {id}
      /\ \A x \in DOMAIN openPositions \ {id} :
           openPositions'[x] = openPositions[x]
  BY <1>2 DEF WithPosition
<1> HIDE DEF id, bought, held
<1>8. /\ IsFiniteSet(DOMAIN openPositions')
      /\ Cost \in Int /\ Cost' \in Int
      /\ Cost' - CarriedValue(bought)
           = Cost - (IF IsOpen(id) THEN CarriedValue(held) ELSE 0)
  BY <1>1, <1>2, <1>7, CostOfUpdate DEF IsOpen, held
<1>9. BuyFee(row) = f /\ SharesIn(row) = q
  BY DEF BuyFee, SharesIn
<1>10. \E slack \in Nat : RoundedOff(row, slack)
  <2>1. CASE ~IsOpen(id)
    <3>1. Cost' = Cost + p * q
      <4> DEFINE amount == p * q
      <4>1. CarriedValue(bought) = amount /\ amount \in Int
        BY <1>5, <2>1
      <4>2. Cost' - amount = Cost - 0
        BY <1>8, <2>1, <4>1
      <4> HIDE DEF amount
      <4>3. Cost' = Cost + amount
        BY <1>8, <4>1, <4>2
      <4>. QED
        BY <4>3 DEF amount
    <3>2. Cost' = Cost + row.realizedPnl - BuyFee(row) - row.cashDelta - 0
      BY <1>8, <1>9, <3>1
    <3>. QED
      BY <1>1, <1>9, <3>2 DEF RoundedOff
  <2>2. CASE IsOpen(id)
    <3> DEFINE n == held.quantity + q
               slack == total - (total \div n) * n
    <3>1. n \in Nat /\ n > 0 /\ total \in Int
      BY <1>1, <1>4, <2>2
    <3>2. slack \in Nat /\ slack <= n /\ (total \div n) * n = total - slack
      <4> HIDE DEF n, total
      <4>. QED
        BY <3>1, Quotient
    <3>3. Cost' = Cost + (total - slack) - held.averagePrice * held.quantity
      <4>1. CarriedValue(bought) = total - slack
        BY <1>4, <2>2, <3>2
      <4>2. total - slack \in Int
        BY <3>1, <3>2
      <4>3. CarriedValue(held) = held.averagePrice * held.quantity
            /\ CarriedValue(held) \in Int
        BY <1>4, <2>2 DEF EquityPosition
      <4> HIDE DEF total, slack, n
      <4>. QED
        BY <1>8, <2>2, <4>1, <4>2, <4>3
    <3>4. held.averagePrice * held.quantity \in Int
      BY <1>4, <2>2 DEF EquityPosition
    <3> HIDE DEF slack, n
    <3>5. Cost' = Cost + row.realizedPnl - BuyFee(row) - row.cashDelta - slack
      BY <1>8, <1>9, <3>2, <3>3, <3>4
    <3>6. ASSUME NEW b \in Nat, HoldsAtMost(openPositions, b)
          PROVE  slack <= b + SharesIn(row)
      <4>1. held.quantity <= b
        BY <1>4, <2>2, <3>6 DEF HoldsAtMost, IsOpen, EquityPosition, held
      <4>. QED
        BY <1>1, <1>4, <1>9, <2>2, <3>2, <4>1 DEF n
    <3>. QED
      BY <3>2, <3>5, <3>6 DEF RoundedOff
  <2>. QED
    BY <2>1, <2>2
<1>11. ASSUME NEW b \in Nat, HoldsAtMost(openPositions, b)
       PROVE  HoldsAtMost(openPositions', b + SharesIn(row))
  <2>1. \A x \in DOMAIN openPositions : openPositions[x].kind = "EQUITY" =>
          openPositions[x].quantity \in Nat /\ openPositions[x].quantity <= b
    BY <1>11
    DEF HoldsAtMost, PortfolioTypeOK, Position, EquityPosition, Positive,
        DefinedRiskPosition
  <2>2. bought.quantity <= b + q
    <3>1. CASE IsOpen(id)
      <4>1. held.quantity <= b
        BY <1>4, <2>1, <3>1 DEF IsOpen, EquityPosition, held
      <4>. QED
        BY <1>1, <1>4, <3>1, <4>1
    <3>2. CASE ~IsOpen(id)
      BY <1>1, <1>5, <3>2
    <3>. QED
      BY <3>1, <3>2
  <2>3. \A x \in DOMAIN openPositions' : openPositions'[x].kind = "EQUITY" =>
          openPositions'[x].quantity <= b + q
    BY <1>1, <1>7, <2>1, <2>2
  <2>. QED
    BY <1>9, <2>3 DEF HoldsAtMost
<1> HIDE DEF row
<1>. QED
  BY <1>3, <1>8, <1>10, <1>11 DEF Balanced

LEMMA CloseEquityBooks ==
  ASSUME PortfolioTypeOK, IsFiniteSet(DOMAIN openPositions),
         NEW id \in PositionIds,
         NEW q \in Int, NEW p \in Int, NEW f \in Int,
         CloseEquityPosition(id, q, p, f)
  PROVE  \E row : Balanced(row)
<1> DEFINE position == openPositions[id]
           remaining == position.quantity - q
           basis == position.averagePrice * q
           proceeds == p * q - f
           row == [type |-> "EQUITY_SELL", positionId |-> id,
                   cashDelta |-> proceeds, marginDelta |-> 0,
                   realizedPnl |-> proceeds - basis, quantity |-> q,
                   price |-> p]
           sold == [position EXCEPT !.quantity = remaining, !.markPrice = p]
<1>1. PortfolioTypeOK'
  BY CloseEquityType
<1>2. /\ id \in DOMAIN openPositions /\ position \in EquityPosition
      /\ q > 0 /\ q <= position.quantity
  BY DEF CloseEquityPosition, CloseEquityAllowed, IsOpenAs, IsOpen,
         PortfolioTypeOK, Position, EquityPosition, DefinedRiskPosition
<1>3. /\ position.averagePrice \in Int /\ position.quantity \in Nat
      /\ remaining \in Nat /\ basis \in Int /\ proceeds \in Int
  BY <1>2 DEF EquityPosition, Positive
<1>4. ledger' = Append(ledger, row)
  BY DEF CloseEquityPosition, EquityRealizedPnl, RecordLedgerEntry
<1>5. RowApplied(row)
  <2>1. PICK r : RowApplied(r)
    BY CloseEquityRow
  <2> HIDE DEF row
  <2>. QED
    BY <1>4, <2>1, RowIsLast
<1>6. \/ StaysOpen(remaining) /\ openPositions' = WithPosition(id, sold)
      \/ ~StaysOpen(remaining) /\ openPositions' = WithoutPosition(id)
  BY DEF CloseEquityPosition, ClosePositionRecord
<1>7. /\ IsFiniteSet(DOMAIN openPositions')
      /\ Cost \in Int /\ Cost' \in Int
      /\ Cost' - (IF id \in DOMAIN openPositions'
                  THEN CarriedValue(openPositions'[id]) ELSE 0)
           = Cost - CarriedValue(position)
  BY <1>1, <1>2, <1>6, CostOfUpdate
<1>8. CarriedValue(position) = position.averagePrice * position.quantity
  BY <1>2 DEF CarriedValue, EquityPosition
<1>9. Cost' = Cost - basis
  <2>1. CASE StaysOpen(remaining)
    <3>1. id \in DOMAIN openPositions' /\ openPositions'[id] = sold
      BY <1>6, <2>1 DEF WithPosition
    <3>2. CarriedValue(sold) = position.averagePrice * remaining
      BY <1>2 DEF CarriedValue, EquityPosition
    <3>3. CarriedValue(sold) = CarriedValue(position) - basis
          /\ CarriedValue(position) \in Int
      BY <1>3, <1>8, <3>2
    <3>4. Cost' - CarriedValue(sold) = Cost - CarriedValue(position)
      BY <1>7, <3>1
    <3> HIDE DEF basis, sold, position
    <3>. QED
      BY <1>3, <1>7, <3>3, <3>4
  <2>2. CASE ~StaysOpen(remaining)
    <3>1. id \notin DOMAIN openPositions'
      BY <1>6, <2>2 DEF WithoutPosition
    <3>2. remaining = 0
      BY <1>3, <2>2 DEF StaysOpen
    <3>3. CarriedValue(position) = basis
      BY <1>3, <1>8, <3>2
    <3>4. Cost' - 0 = Cost - basis
      BY <1>7, <3>1, <3>3
    <3>5. Cost \in Int /\ Cost' \in Int /\ basis \in Int
      BY <1>3, <1>7
    <3> HIDE DEF basis, position, remaining, proceeds, row, sold
    <3>. QED
      BY <3>4, <3>5, MovedAcross
  <2>. QED
    BY <2>1, <2>2
<1>10. BuyFee(row) = 0 /\ SharesIn(row) = 0
  BY DEF BuyFee, SharesIn
<1>11. Cost' = Cost + row.realizedPnl - BuyFee(row) - row.cashDelta - 0
  <2> HIDE DEF basis, proceeds
  <2>. QED
    BY <1>3, <1>7, <1>9, <1>10
<1>12. ASSUME NEW b \in Nat, HoldsAtMost(openPositions, b)
       PROVE  HoldsAtMost(openPositions', b + SharesIn(row))
  <2>1. ASSUME NEW x \in DOMAIN openPositions',
               openPositions'[x].kind = "EQUITY"
        PROVE  openPositions'[x].quantity <= b
    <3>1. CASE x = id
      <4>1. StaysOpen(remaining) /\ openPositions'[x] = sold
        BY <1>6, <3>1 DEF WithPosition, WithoutPosition
      <4>2. position.quantity <= b
        BY <1>2, <1>12 DEF HoldsAtMost, EquityPosition
      <4>3. sold.quantity = remaining
        BY <1>2 DEF EquityPosition
      <4>. QED
        BY <1>2, <1>3, <4>1, <4>2, <4>3
    <3>2. CASE x # id
      <4>1. x \in DOMAIN openPositions /\ openPositions'[x] = openPositions[x]
        BY <1>6, <3>2 DEF WithPosition, WithoutPosition
      <4>. QED
        BY <1>12, <2>1, <4>1 DEF HoldsAtMost
    <3>. QED
      BY <3>1, <3>2
  <2>2. b + SharesIn(row) = b
    BY <1>10
  <2> HIDE DEF row, sold, position, remaining
  <2>. QED
    BY <2>1, <2>2 DEF HoldsAtMost
<1>13. \E slack \in Nat : RoundedOff(row, slack)
  <2>1. row.type # "EQUITY_BUY"
    OBVIOUS
  <2>2. \A b \in Nat : 0 <= b + SharesIn(row)
    BY <1>10
  <2> HIDE DEF row
  <2>. QED
    BY <1>11, <2>1, <2>2 DEF RoundedOff
<1> HIDE DEF row
<1>. QED
  BY <1>5, <1>7, <1>12, <1>13 DEF Balanced

LEMMA OpenDefinedRiskBooks ==
  ASSUME PortfolioTypeOK, IsFiniteSet(DOMAIN openPositions),
         NEW s \in Strategies, NEW i \in Instruments,
         NEW leg \in LegGroups, NEW q \in Int,
         NEW c \in Int, NEW m \in Int,
         OpenDefinedRiskPosition(s, i, leg, q, c, m)
  PROVE  \E row : Balanced(row)
<1> DEFINE id == CreatePositionId(s, i, leg)
           received == c * q
           row == [type |-> "CREDIT_SPREAD_OPEN", positionId |-> id,
                   cashDelta |-> received,
                   marginDelta |-> CalculateDefinedRiskMargin(m, q),
                   realizedPnl |-> 0, quantity |-> q, price |-> c]
           opened == [kind |-> "DEFINED_RISK", quantity |-> q,
                      entryCredit |-> c, maxLoss |-> m, markPrice |-> c]
<1>1. PortfolioTypeOK'
  BY OpenDefinedRiskType
<1>2. /\ ledger' = Append(ledger, row)
      /\ openPositions' = WithPosition(id, opened) /\ ~IsOpen(id)
  BY DEF OpenDefinedRiskPosition, OpenDefinedRiskAllowed, RecordLedgerEntry
<1>3. RowApplied(row)
  <2>1. PICK r : RowApplied(r)
    BY OpenDefinedRiskRow
  <2> HIDE DEF row
  <2>. QED
    BY <1>2, <2>1, RowIsLast
<1>4. /\ id \in DOMAIN openPositions' /\ openPositions'[id] = opened
      /\ \A x \in DOMAIN openPositions' \ {id} :
           x \in DOMAIN openPositions /\ openPositions'[x] = openPositions[x]
  BY <1>2 DEF WithPosition
<1> HIDE DEF id
<1>5. /\ IsFiniteSet(DOMAIN openPositions')
      /\ Cost \in Int /\ Cost' \in Int
      /\ Cost' - CarriedValue(opened) = Cost - 0
  BY <1>1, <1>2, <1>4, CostOfUpdate DEF IsOpen
<1>6. CarriedValue(opened) = -received /\ received \in Int
  BY DEF CarriedValue
<1>7. Cost' = Cost - received
  <2>1. Cost' - (-received) = Cost - 0
    BY <1>5, <1>6, Zenon
  <2>2. -received \in Int
    BY <1>6
  <2> HIDE DEF received, opened
  <2>3. Cost' = Cost + (-received)
    BY <1>5, <2>1, <2>2, MovedAcross
  <2>. QED
    BY <1>5, <1>6, <2>3
<1>8. BuyFee(row) = 0 /\ SharesIn(row) = 0
  BY DEF BuyFee, SharesIn
<1>9. Cost' = Cost + row.realizedPnl - BuyFee(row) - row.cashDelta - 0
  <2> HIDE DEF received
  <2>. QED
    BY <1>5, <1>6, <1>7, <1>8
<1>10. ASSUME NEW b \in Nat, HoldsAtMost(openPositions, b)
       PROVE  HoldsAtMost(openPositions', b + SharesIn(row))
  <2>1. opened.kind # "EQUITY"
    OBVIOUS
  <2>2. b + SharesIn(row) = b
    BY <1>8
  <2> HIDE DEF row, opened
  <2>. QED
    BY <1>4, <1>10, <2>1, <2>2 DEF HoldsAtMost
<1>11. \E slack \in Nat : RoundedOff(row, slack)
  <2>1. row.type # "EQUITY_BUY"
    OBVIOUS
  <2>2. \A b \in Nat : 0 <= b + SharesIn(row)
    BY <1>8
  <2> HIDE DEF row
  <2>. QED
    BY <1>9, <2>1, <2>2 DEF RoundedOff
<1> HIDE DEF row
<1>. QED
  BY <1>3, <1>5, <1>10, <1>11 DEF Balanced

LEMMA CloseDefinedRiskBooks ==
  ASSUME PortfolioTypeOK, IsFiniteSet(DOMAIN openPositions),
         NEW id \in PositionIds, NEW c \in Int,
         CloseDefinedRiskPosition(id, c)
  PROVE  \E row : Balanced(row)
<1> DEFINE position == openPositions[id]
           q == position.quantity
           paid == c * q
           credit == position.entryCredit * q
           pnl == (position.entryCredit - c) * q
           row == [type |-> "CREDIT_SPREAD_CLOSE", positionId |-> id,
                   cashDelta |-> -paid,
                   marginDelta |-> -CalculateDefinedRiskMargin(
                                      position.maxLoss, q),
                   realizedPnl |-> pnl, quantity |-> q, price |-> c]
<1>1. PortfolioTypeOK'
  BY CloseDefinedRiskType
<1>2. /\ ledger' = Append(ledger, row)
      /\ openPositions' = WithoutPosition(id)
  BY DEF CloseDefinedRiskPosition, DefinedRiskRealizedPnl, RecordLedgerEntry,
         ClosePositionRecord
<1>3. RowApplied(row)
  <2>1. PICK r : RowApplied(r)
    BY CloseDefinedRiskRow
  <2> HIDE DEF row
  <2>. QED
    BY <1>2, <2>1, RowIsLast
<1>4. id \in DOMAIN openPositions /\ position \in DefinedRiskPosition
  BY DEF CloseDefinedRiskPosition, CloseDefinedRiskAllowed, IsOpenAs, IsOpen,
         PortfolioTypeOK, Position, EquityPosition, DefinedRiskPosition
<1>5. /\ id \notin DOMAIN openPositions'
      /\ \A x \in DOMAIN openPositions' :
           x \in DOMAIN openPositions /\ openPositions'[x] = openPositions[x]
  BY <1>2 DEF WithoutPosition
<1>6. /\ IsFiniteSet(DOMAIN openPositions')
      /\ Cost \in Int /\ Cost' \in Int
      /\ Cost' - 0 = Cost - CarriedValue(position)
  BY <1>1, <1>2, <1>4, <1>5, CostOfUpdate
<1>7. /\ CarriedValue(position) = -credit
      /\ paid \in Int /\ credit \in Int /\ pnl \in Int
      /\ pnl = credit - paid
  BY <1>4 DEF CarriedValue, DefinedRiskPosition, Positive
<1>8. Cost' = Cost + credit
  <2>1. Cost' - 0 = Cost - (-credit) /\ -credit \in Int
    BY <1>6, <1>7
  <2> HIDE DEF position, credit
  <2>2. Cost' = Cost - (-credit)
    BY <1>6, <2>1, MovedAcross
  <2>. QED
    BY <1>6, <1>7, <2>2
<1>9. BuyFee(row) = 0 /\ SharesIn(row) = 0
  BY DEF BuyFee, SharesIn
<1>10. Cost' = Cost + row.realizedPnl - BuyFee(row) - row.cashDelta - 0
  <2> HIDE DEF paid, credit, pnl
  <2>. QED
    BY <1>6, <1>7, <1>8, <1>9
<1>11. ASSUME NEW b \in Nat, HoldsAtMost(openPositions, b)
       PROVE  HoldsAtMost(openPositions', b + SharesIn(row))
  <2>1. b + SharesIn(row) = b
    BY <1>9
  <2>2. \A x \in DOMAIN openPositions' : openPositions'[x].kind = "EQUITY" =>
          openPositions'[x].quantity <= b
    BY <1>5, <1>11 DEF HoldsAtMost
  <2> HIDE DEF row, position
  <2>. QED
    BY <2>1, <2>2 DEF HoldsAtMost
<1>12. \E slack \in Nat : RoundedOff(row, slack)
  <2>1. row.type # "EQUITY_BUY"
    OBVIOUS
  <2>2. \A b \in Nat : 0 <= b + SharesIn(row)
    BY <1>9
  <2> HIDE DEF row
  <2>. QED
    BY <1>10, <2>1, <2>2 DEF RoundedOff
<1> HIDE DEF row
<1>. QED
  BY <1>3, <1>6, <1>11, <1>12 DEF Balanced

(* The inductive invariant: cash is what the columns of the ledger and the *)
(* book at cost say, less a slack that is at most the square of the shares *)
(* ever bought, and no position holds more shares than were ever bought.   *)
BooksAt(pnl, fees, bought, slack) ==
  /\ TotalIs(0, RealizedPnls, pnl)
  /\ TotalIs(0, BuyFees, fees)
  /\ TotalIs(0, SharesBought, bought)
  /\ cash = InitialCapital + pnl - Cost - fees - slack
  /\ slack <= bought * bought
  /\ HoldsAtMost(openPositions, bought)

BooksInv ==
  /\ PortfolioTypeOK
  /\ IsFiniteSet(DOMAIN openPositions)
  /\ \E pnl, fees \in Int, bought, slack \in Nat :
       BooksAt(pnl, fees, bought, slack)

(* A row adds one entry to each of the three columns.                      *)
LEMMA BooksColumns ==
  ASSUME PortfolioTypeOK, NEW row, RowApplied(row)
  PROVE  /\ RealizedPnls \in Seq(Int) /\ row.realizedPnl \in Int
         /\ RealizedPnls' = Append(RealizedPnls, row.realizedPnl)
         /\ BuyFees \in Seq(Int) /\ BuyFee(row) \in Int
         /\ BuyFees' = Append(BuyFees, BuyFee(row))
         /\ SharesBought \in Seq(Int) /\ SharesIn(row) \in Nat
         /\ SharesBought' = Append(SharesBought, SharesIn(row))
         /\ row.cashDelta \in Int
         /\ row.type = "EQUITY_BUY" => SharesIn(row) > 0
<1>1. /\ ledger \in Seq(LedgerRow)
      /\ row \in LedgerRow
      /\ ledger' = Append(ledger, row)
  BY DEF PortfolioTypeOK, RowApplied
<1>2. \A r \in LedgerRow :
        /\ r.realizedPnl \in Int /\ r.cashDelta \in Int
        /\ BuyFee(r) \in Int /\ SharesIn(r) \in Nat
        /\ r.type = "EQUITY_BUY" => SharesIn(r) > 0
  BY DEF LedgerRow, BuyFee, SharesIn, Positive
<1>3. /\ \A n \in DOMAIN ledger : ledger[n] \in LedgerRow
      /\ \A n \in DOMAIN ledger' : ledger'[n] \in LedgerRow
  BY <1>1
<1>4. /\ RealizedPnls \in Seq(Int)
      /\ RealizedPnls' = Append(RealizedPnls, row.realizedPnl)
  <2>1. /\ RealizedPnls \in [DOMAIN ledger -> Int]
        /\ RealizedPnls' \in [DOMAIN ledger' -> Int]
    BY <1>2, <1>3 DEF RealizedPnls
  <2>2. /\ \A n \in DOMAIN ledger : RealizedPnls'[n] = RealizedPnls[n]
        /\ RealizedPnls'[Len(ledger) + 1] = row.realizedPnl
    BY <1>1 DEF RealizedPnls
  <2>3. row.realizedPnl \in Int
    BY <1>1, <1>2
  <2>. QED
    BY <1>1, <2>1, <2>2, <2>3, ColumnOfAppend
<1>5. /\ BuyFees \in Seq(Int)
      /\ BuyFees' = Append(BuyFees, BuyFee(row))
  <2>1. /\ BuyFees = [n \in DOMAIN ledger |-> BuyFee(ledger[n])]
        /\ BuyFees' = [n \in DOMAIN ledger' |-> BuyFee(ledger'[n])]
    BY DEF BuyFees, BuyFee
  <2>2. /\ BuyFees \in [DOMAIN ledger -> Int]
        /\ BuyFees' \in [DOMAIN ledger' -> Int]
    BY <1>2, <1>3, <2>1
  <2>3. /\ \A n \in DOMAIN ledger : BuyFees'[n] = BuyFees[n]
        /\ BuyFees'[Len(ledger) + 1] = BuyFee(row)
    BY <1>1, <2>1
  <2>4. BuyFee(row) \in Int
    BY <1>1, <1>2
  <2>. QED
    BY <1>1, <2>2, <2>3, <2>4, ColumnOfAppend
<1>6. /\ SharesBought \in Seq(Int)
      /\ SharesBought' = Append(SharesBought, SharesIn(row))
  <2>1. /\ SharesBought = [n \in DOMAIN ledger |-> SharesIn(ledger[n])]
        /\ SharesBought' = [n \in DOMAIN ledger' |-> SharesIn(ledger'[n])]
    BY DEF SharesBought, SharesIn
  <2>2. /\ SharesBought \in [DOMAIN ledger -> Int]
        /\ SharesBought' \in [DOMAIN ledger' -> Int]
    BY <1>2, <1>3, <2>1
  <2>3. /\ \A n \in DOMAIN ledger : SharesBought'[n] = SharesBought[n]
        /\ SharesBought'[Len(ledger) + 1] = SharesIn(row)
    BY <1>1, <2>1
  <2>4. SharesIn(row) \in Int
    BY <1>1, <1>2
  <2>. QED
    BY <1>1, <2>2, <2>3, <2>4, ColumnOfAppend
<1>. QED
  BY <1>1, <1>2, <1>4, <1>5, <1>6

LEMMA SquareGrows ==
  ASSUME NEW b \in Nat, NEW q \in Nat, q > 0
  PROVE  b * b + (b + q) <= (b + q) * (b + q)
<1>1. (b + q) * (b + q) = b * b + 2 * (b * q) + q * q
  OBVIOUS
<1>2. b * q >= b /\ q * q >= q
  OBVIOUS
<1> DEFINE bb == b * b
           bq == b * q
           qq == q * q
<1>3. bb \in Int /\ bq \in Int /\ qq \in Int
  OBVIOUS
<1>4. bb + (b + q) <= bb + 2 * bq + qq
  <2>1. bq >= b /\ qq >= q
    BY <1>2
  <2> HIDE DEF bb, bq, qq
  <2>. QED
    BY <1>3, <2>1
<1>. QED
  BY <1>1, <1>4

LEMMA BooksStep ==
  ASSUME BooksInv, PortfolioTypeOK', NEW row, Balanced(row)
  PROVE  BooksInv'
<1>1. PICK pnl \in Int, fees \in Int, bought \in Nat, slack \in Nat :
        BooksAt(pnl, fees, bought, slack)
  BY DEF BooksInv
<1>2. PortfolioTypeOK /\ RowApplied(row) /\ IsFiniteSet(DOMAIN openPositions')
  BY DEF BooksInv, Balanced
<1>3. PICK off \in Nat : RoundedOff(row, off)
  BY DEF Balanced
<1> DEFINE q == SharesIn(row)
           pnl2 == pnl + row.realizedPnl
           fees2 == fees + BuyFee(row)
           bought2 == bought + q
           slack2 == slack + off
<1>4. /\ q \in Nat /\ row.cashDelta \in Int
      /\ row.realizedPnl \in Int /\ BuyFee(row) \in Int
      /\ row.type = "EQUITY_BUY" => q > 0
  BY <1>2, BooksColumns
<1>5. /\ pnl2 \in Int /\ fees2 \in Int /\ bought2 \in Nat /\ slack2 \in Nat
  BY <1>4
<1>6. TotalIs(0, RealizedPnls', pnl2)
  <2>1. TotalIs(0, RealizedPnls, pnl) /\ 0 \in Int
    BY <1>1 DEF BooksAt
  <2>2. /\ RealizedPnls \in Seq(Int)
        /\ RealizedPnls' = Append(RealizedPnls, row.realizedPnl)
    BY <1>2, BooksColumns
  <2>3. TotalIs(0, Append(RealizedPnls, row.realizedPnl), pnl2)
    BY <1>4, <2>1, <2>2, TotalOfAppend
  <2>. QED
    BY <2>2, <2>3
<1>7. TotalIs(0, BuyFees', fees2)
  <2>1. TotalIs(0, BuyFees, fees) /\ 0 \in Int
    BY <1>1 DEF BooksAt
  <2>2. /\ BuyFees \in Seq(Int)
        /\ BuyFees' = Append(BuyFees, BuyFee(row))
    BY <1>2, BooksColumns
  <2>3. TotalIs(0, Append(BuyFees, BuyFee(row)), fees2)
    BY <1>4, <2>1, <2>2, TotalOfAppend
  <2>. QED
    BY <2>2, <2>3
<1>8. TotalIs(0, SharesBought', bought2)
  <2>1. TotalIs(0, SharesBought, bought) /\ 0 \in Int
    BY <1>1 DEF BooksAt
  <2>2. /\ SharesBought \in Seq(Int)
        /\ SharesBought' = Append(SharesBought, q)
    BY <1>2, BooksColumns
  <2>3. q \in Int /\ bought \in Int
    BY <1>4
  <2> HIDE DEF q
  <2>4. TotalIs(0, Append(SharesBought, q), bought2)
    BY <2>1, <2>2, <2>3, TotalOfAppend
  <2>. QED
    BY <2>2, <2>4
<1>9. Cost \in Int /\ InitialCapital \in Int
  <2>1. \A x \in DOMAIN openPositions : openPositions[x] \in Position
    BY <1>2 DEF PortfolioTypeOK
  <2>2. IsFiniteSet(DOMAIN openPositions)
    BY DEF BooksInv
  <2>3. Cost \in Int
    BY <2>1, <2>2, CostIsSum DEF Cost
  <2>. QED
    BY <2>3, CapitalAssumption
<1>10. cash' = InitialCapital + pnl2 - Cost' - fees2 - slack2
  <2>1. cash' = cash + row.cashDelta
    BY <1>2 DEF RowApplied
  <2>2. cash = InitialCapital + pnl - Cost - fees - slack
    BY <1>1 DEF BooksAt
  <2>3. Cost' = Cost + row.realizedPnl - BuyFee(row) - row.cashDelta - off
    BY <1>3 DEF RoundedOff
  <2>. QED
    BY <1>4, <1>9, <2>1, <2>2, <2>3
<1>11. slack2 <= bought2 * bought2
  <2>1. slack <= bought * bought
    BY <1>1 DEF BooksAt
  <2>2. off <= bought + q
    BY <1>1, <1>3 DEF BooksAt, RoundedOff
  <2>3. row.type # "EQUITY_BUY" => off = 0 /\ q = 0
    BY <1>3 DEF RoundedOff, SharesIn
  <2> HIDE DEF q
  <2>4. CASE row.type = "EQUITY_BUY"
    <3>1. bought * bought + (bought + q) <= bought2 * bought2
      BY <1>4, <2>4, SquareGrows
    <3> DEFINE before == bought * bought
               after == bought2 * bought2
    <3>2. before \in Int /\ after \in Int
      BY <1>5
    <3>3. slack <= before /\ before + (bought + q) <= after
      BY <2>1, <3>1
    <3> HIDE DEF before, after, bought2
    <3>4. slack2 <= after
      BY <1>4, <2>2, <3>2, <3>3
    <3>. QED
      BY <3>4 DEF after
  <2>5. CASE row.type # "EQUITY_BUY"
    <3>1. slack2 = slack /\ bought2 = bought
      BY <2>3, <2>5
    <3>. QED
      BY <2>1, <3>1
  <2>. QED
    BY <2>4, <2>5
<1>12. HoldsAtMost(openPositions', bought2)
  BY <1>1 DEF BooksAt, Balanced
<1> HIDE DEF pnl2, fees2, bought2, slack2
<1>13. BooksAt(pnl2, fees2, bought2, slack2)'
  BY <1>6, <1>7, <1>8, <1>10, <1>11, <1>12
  DEF BooksAt, pnl2, fees2, bought2, slack2
<1>. QED
  BY <1>2, <1>5, <1>13 DEF BooksInv

LEMMA BooksOfInit == PortfolioInit => BooksInv
<1> SUFFICES ASSUME PortfolioInit PROVE BooksInv
  OBVIOUS
<1>1. PortfolioTypeOK
  BY InitType
<1>2. DOMAIN openPositions = {} /\ IsFiniteSet(DOMAIN openPositions)
  BY FS_EmptySet DEF PortfolioInit
<1>3. RealizedPnls = <<>> /\ BuyFees = <<>> /\ SharesBought = <<>>
  BY DEF PortfolioInit, RealizedPnls, BuyFees, SharesBought
<1>4. TotalIs(0, <<>>, 0)
  <2>1. 0 \in Int
    OBVIOUS
  <2>. QED
    BY <2>1, TotalOfEmpty
<1>5. Cost = 0
  <2> DEFINE cost == [id \in DOMAIN openPositions |->
                        CarriedValue(openPositions[id])]
  <2>1. Cost = SetSum(cost, {})
    BY <1>1, <1>2, CostIsSum DEF Cost, PortfolioTypeOK
  <2> HIDE DEF cost
  <2>. QED
    BY <2>1, SetSumEmpty
<1>6. cash = InitialCapital + 0 - Cost - 0 - 0
  BY <1>5, CapitalAssumption DEF PortfolioInit
<1>7. HoldsAtMost(openPositions, 0)
  BY <1>2 DEF HoldsAtMost
<1>8. BooksAt(0, 0, 0, 0)
  BY <1>3, <1>4, <1>6, <1>7 DEF BooksAt
<1>. QED
  BY <1>1, <1>2, <1>8 DEF BooksInv

(* A quote moves no position's cost and no column of the ledger.           *)
LEMMA BooksOfMark ==
  ASSUME BooksInv, PortfolioTypeOK', NEW id \in PositionIds, NEW m \in Int,
         MarkToMarket(id, m)
  PROVE  BooksInv'
<1>1. /\ DOMAIN openPositions' = DOMAIN openPositions
      /\ \A x \in DOMAIN openPositions :
           /\ openPositions'[x].kind = openPositions[x].kind
           /\ openPositions'[x].quantity = openPositions[x].quantity
           /\ CarriedValue(openPositions'[x]) = CarriedValue(openPositions[x])
  <2>1. /\ DOMAIN openPositions' = DOMAIN openPositions
        /\ \A x \in DOMAIN openPositions :
             \/ openPositions'[x] = openPositions[x]
             \/ openPositions'[x] = [openPositions[x] EXCEPT !.markPrice = m]
    BY DEF MarkToMarket, WithPosition, IsOpen
  <2>2. \A x \in DOMAIN openPositions : openPositions[x] \in Position
    BY DEF BooksInv, PortfolioTypeOK
  <2>3. ASSUME NEW position \in Position
        PROVE  LET marked == [position EXCEPT !.markPrice = m]
               IN  /\ marked.kind = position.kind
                   /\ marked.quantity = position.quantity
                   /\ CarriedValue(marked) = CarriedValue(position)
    BY <2>3 DEF Position, EquityPosition, DefinedRiskPosition, CarriedValue
  <2>. QED
    BY <2>1, <2>2, <2>3
<1>2. PICK pnl \in Int, fees \in Int, bought \in Nat, slack \in Nat :
        BooksAt(pnl, fees, bought, slack)
  BY DEF BooksInv
<1>3. IsFiniteSet(DOMAIN openPositions) /\ IsFiniteSet(DOMAIN openPositions')
  BY <1>1 DEF BooksInv
<1>4. Cost' = Cost
  <2> DEFINE old == [x \in DOMAIN openPositions |->
                       CarriedValue(openPositions[x])]
             new == [x \in DOMAIN openPositions' |->
                       CarriedValue(openPositions'[x])]
  <2>1. /\ \A x \in DOMAIN openPositions : openPositions[x] \in Position
        /\ \A x \in DOMAIN openPositions' : openPositions'[x] \in Position
    BY DEF BooksInv, PortfolioTypeOK
  <2>2. /\ Cost = SetSum(old, DOMAIN openPositions)
        /\ Cost' = SetSum(new, DOMAIN openPositions')
    BY <1>3, <2>1, CostIsSum DEF Cost
  <2>3. new = old
    BY <1>1
  <2>. QED
    BY <1>1, <2>2, <2>3
<1>5. /\ RealizedPnls' = RealizedPnls /\ BuyFees' = BuyFees
      /\ SharesBought' = SharesBought /\ cash' = cash
  BY DEF MarkToMarket, RealizedPnls, BuyFees, SharesBought
<1>6. HoldsAtMost(openPositions', bought)
  BY <1>1, <1>2 DEF BooksAt, HoldsAtMost
<1>7. BooksAt(pnl, fees, bought, slack)'
  BY <1>2, <1>4, <1>5, <1>6 DEF BooksAt
<1>. QED
  BY <1>3, <1>7 DEF BooksInv

LEMMA BooksOfStutter ==
  ASSUME BooksInv, UNCHANGED portfolioVars
  PROVE  BooksInv'
BY DEF portfolioVars, BooksInv, BooksAt, PortfolioTypeOK, Cost, RealizedPnls,
       BuyFees, SharesBought

LEMMA BooksMeaning == BooksInv => BooksBalance
<1> SUFFICES ASSUME BooksInv PROVE BooksBalance
  OBVIOUS
<1>1. PICK pnl \in Int, fees \in Int, bought \in Nat, slack \in Nat :
        BooksAt(pnl, fees, bought, slack)
  BY DEF BooksInv
<1>2. /\ RunningTotal(0, RealizedPnls) = pnl
      /\ RunningTotal(0, BuyFees) = fees
      /\ RunningTotal(0, SharesBought) = bought
  BY <1>1, TotalIsRunningTotal DEF BooksAt
<1>3. Cost \in Int
  <2>1. \A x \in DOMAIN openPositions : openPositions[x] \in Position
    BY DEF BooksInv, PortfolioTypeOK
  <2>2. IsFiniteSet(DOMAIN openPositions)
    BY DEF BooksInv
  <2>. QED
    BY <2>1, <2>2, CostIsSum DEF Cost
<1> DEFINE accounted == InitialCapital + pnl - Cost - fees
<1>4. accounted - cash = slack
  BY <1>1, <1>3, CapitalAssumption DEF BooksAt
<1>5. slack >= 0 /\ slack <= bought * bought
  BY <1>1 DEF BooksAt
<1> HIDE DEF accounted
<1>6. accounted - cash >= 0 /\ accounted - cash <= bought * bought
  BY <1>4, <1>5
<1>. QED
  BY <1>2, <1>6, CostOfBook DEF BooksBalance, accounted

=============================================================================
