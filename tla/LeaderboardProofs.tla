------------------------- MODULE LeaderboardProofs -------------------------
(***************************************************************************)
(* The ranking, for any players, coins, quotes and number of readers: it   *)
(* is made of committed books, however the statements of a computation     *)
(* fall between the trades, and its order is fair.                         *)
(***************************************************************************)
EXTENDS Leaderboard, LedgerProofs, FiniteSetTheorems, WellFoundedInduction

(***************************************************************************)
(* Induction and counting.                                                 *)
(***************************************************************************)

\* What holds of every natural number is shown by its least exception.
LEMMA LeastNatural ==
  ASSUME NEW T \in SUBSET Nat, T # {}
  PROVE  \E x \in T : \A y \in T : x <= y
<1>1. IsWellFoundedOn(OpToRel(<, Nat), Nat)
  BY NatLessThanWellFounded
<1>2. PICK x \in T : \A y \in T : <<y, x>> \notin OpToRel(<, Nat)
  BY <1>1, WFMin
<1>3. ASSUME NEW y \in T, y < x PROVE <<y, x>> \in OpToRel(<, Nat)
  <2>1. y \in Nat /\ x \in Nat
    OBVIOUS
  <2> QED
    BY <1>3, <2>1, Zenon DEF OpToRel
<1>4. \A y \in T : ~(y < x)
  BY <1>2, <1>3
<1> QED
  BY <1>4

\* A strict subset of a finite set has fewer elements.
LEMMA FewerElements ==
  ASSUME NEW S, IsFiniteSet(S), NEW T \in SUBSET S, NEW x \in S, x \notin T
  PROVE  /\ IsFiniteSet(T) /\ Cardinality(T) \in Nat /\ Cardinality(S) \in Nat
         /\ Cardinality(T) + 1 <= Cardinality(S)
<1>1. IsFiniteSet(S \ {x}) /\ Cardinality(S \ {x}) = Cardinality(S) - 1
  BY FS_RemoveElement
<1>2. T \subseteq S \ {x}
  OBVIOUS
<1>3. IsFiniteSet(T) /\ Cardinality(T) <= Cardinality(S \ {x})
  BY <1>1, <1>2, FS_Subset
<1>4. Cardinality(T) \in Nat /\ Cardinality(S) \in Nat
  BY <1>3, FS_CardinalityType
<1> QED
  BY <1>1, <1>3, <1>4

-----------------------------------------------------------------------------
(***************************************************************************)
(* The sum of natural numbers over a finite set.                           *)
(***************************************************************************)

\* sum is the recursive function of sumOver.
IsSum(sum, f, S) ==
  sum = [T \in SUBSET S |->
           IF T = {} THEN 0 ELSE LET x == CHOOSE x \in T : TRUE IN f[x] + sum[T \ {x}]]

\* It exists: a function right on the sets of fewer than n elements is the start
\* of one that is right on those of n.
LEMMA SumExists ==
  ASSUME NEW S, IsFiniteSet(S), NEW f
  PROVE  \E sum : IsSum(sum, f, S)
<1> DEFINE one(T) == CHOOSE x \in T : TRUE
           Value(s, T) == IF T = {} THEN 0 ELSE f[one(T)] + s[T \ {one(T)}]
           Right(s, n) == \A T \in SUBSET S : Cardinality(T) < n => s[T] = Value(s, T)
           Wrong == {n \in Nat : ~\E s : Right(s, n)}
<1>1. \A T \in SUBSET S : IsFiniteSet(T) /\ Cardinality(T) \in Nat
  BY FS_Subset, FS_CardinalityType
<1>2. \A T \in SUBSET S : T # {} => one(T) \in T
  OBVIOUS
<1> HIDE DEF one
<1>3. ASSUME NEW n \in Nat, NEW s, Right(s, n)
      PROVE  Right([T \in SUBSET S |-> Value(s, T)], n + 1)
  <2> DEFINE g == [T \in SUBSET S |-> Value(s, T)]
  <2> SUFFICES ASSUME NEW T \in SUBSET S, Cardinality(T) < n + 1
               PROVE  g[T] = Value(g, T)
    OBVIOUS
  <2>1. ASSUME T # {} PROVE g[T \ {one(T)}] = s[T \ {one(T)}]
    <3>1. Cardinality(T \ {one(T)}) + 1 <= Cardinality(T)
      BY <1>1, <1>2, <2>1, FewerElements
    <3>2. T \ {one(T)} \in SUBSET S /\ Cardinality(T \ {one(T)}) < n
      BY <1>1, <3>1
    <3>3. s[T \ {one(T)}] = Value(s, T \ {one(T)})
      BY <1>3, <3>2
    <3> HIDE DEF Value
    <3> QED
      BY <3>2, <3>3
  <2>2. g[T] = Value(s, T)
    <3> HIDE DEF Value
    <3> QED
      OBVIOUS
  <2>3. Value(s, T) = Value(g, T)
    <3> HIDE DEF g
    <3> QED
      BY <2>1
  <2> QED
    BY <2>2, <2>3
<1>4. Wrong = {}
  <2> SUFFICES ASSUME Wrong # {} PROVE FALSE
    OBVIOUS
  <2>1. PICK m \in Wrong : \A n \in Wrong : m <= n
    <3>1. Wrong \in SUBSET Nat
      OBVIOUS
    <3> HIDE DEF Wrong
    <3> QED
      BY <3>1, LeastNatural
  <2>2. m \in Nat /\ ~\E s : Right(s, m)
    <3> HIDE DEF Right
    <3> QED
      OBVIOUS
  <2>3. Right([T \in SUBSET S |-> 0], 0)
    BY <1>1
  <2>4. m # 0
    <3> HIDE DEF Right
    <3> QED
      BY <2>2, <2>3
  <2>5. m - 1 \in Nat /\ m - 1 \notin Wrong /\ m - 1 + 1 = m
    <3> HIDE DEF Wrong
    <3> QED
      BY <2>1, <2>2, <2>4
  <2>6. PICK s : Right(s, m - 1)
    <3> HIDE DEF Right
    <3> QED
      BY <2>5
  <2>7. Right([T \in SUBSET S |-> Value(s, T)], m)
    <3> HIDE DEF Right, Value
    <3> QED
      BY <1>3, <2>5, <2>6
  <2> HIDE DEF Right, Value
  <2> QED
    BY <2>2, <2>7
<1>5. Cardinality(S) + 1 \in Nat
  BY <1>1
<1>6. PICK s : Right(s, Cardinality(S) + 1)
  <2> HIDE DEF Right
  <2> QED
    BY <1>4, <1>5
<1> DEFINE g == [T \in SUBSET S |-> Value(s, T)]
<1>7. ASSUME NEW T \in SUBSET S PROVE Cardinality(T) < Cardinality(S) + 1
  <2>1. Cardinality(T) <= Cardinality(S)
    BY FS_Subset
  <2> QED
    BY <1>1, <2>1
<1>8. \A T \in SUBSET S : s[T] = g[T]
  <2> HIDE DEF Value
  <2> QED
    BY <1>6, <1>7
<1>9. ASSUME NEW T \in SUBSET S PROVE Value(s, T) = Value(g, T)
  <2> HIDE DEF g
  <2> QED
    BY <1>8
<1>10. g = [T \in SUBSET S |-> Value(g, T)]
  <2>1. [T \in SUBSET S |-> Value(s, T)] = [T \in SUBSET S |-> Value(g, T)]
    <3> HIDE DEF Value, g
    <3> QED
      BY <1>9
  <2> QED
    BY <2>1, Zenon DEF g
<1>11. IsSum(g, f, S)
  <2> HIDE DEF g
  <2> QED
    BY <1>10, Zenon DEF IsSum, one
<1> HIDE DEF g
<1> QED
  BY <1>11

\* A sum of natural numbers is one.
LEMMA SumIsNatural ==
  ASSUME NEW S, IsFiniteSet(S), NEW f \in [S -> Nat]
  PROVE  sumOver(f, S) \in Nat
<1> DEFINE sum == CHOOSE s : IsSum(s, f, S)
<1>1. IsSum(sum, f, S)
  BY SumExists
<1>2. sumOver(f, S) = sum[S]
  BY Zenon DEF sumOver, IsSum
<1> HIDE DEF sum
<1>3. \A T \in SUBSET S : IsFiniteSet(T) /\ Cardinality(T) \in Nat
  BY FS_Subset, FS_CardinalityType
<1>4. /\ sum[{}] = 0
      /\ \A T \in SUBSET S : T # {} => \E x \in T : sum[T] = f[x] + sum[T \ {x}]
  BY <1>1 DEF IsSum
<1> DEFINE sizes == {Cardinality(T) : T \in {U \in SUBSET S : sum[U] \notin Nat}}
<1>5. sizes = {}
  <2> SUFFICES ASSUME sizes # {} PROVE FALSE
    OBVIOUS
  <2>1. sizes \in SUBSET Nat
    BY <1>3
  <2>2. PICK n \in sizes : \A m \in sizes : n <= m
    <3> HIDE DEF sizes
    <3> QED
      BY <2>1, LeastNatural
  <2>3. PICK T \in SUBSET S : sum[T] \notin Nat /\ n = Cardinality(T)
    OBVIOUS
  <2>4. T # {}
    <3>1. sum[{}] \in Nat
      BY <1>4
    <3> QED
      BY <2>3, <3>1, Zenon
  <2>5. PICK x \in T : sum[T] = f[x] + sum[T \ {x}]
    BY <1>4, <2>4
  <2>6. T \ {x} \in SUBSET S /\ Cardinality(T \ {x}) + 1 <= Cardinality(T)
    BY <1>3, FewerElements
  <2>7. Cardinality(T \ {x}) \notin sizes
    <3> HIDE DEF sizes
    <3> QED
      BY <1>3, <2>1, <2>2, <2>3, <2>6
  <2>8. sum[T \ {x}] \in Nat
    BY <2>6, <2>7
  <2>9. f[x] \in Nat
    BY <2>3
  <2> QED
    BY <2>3, <2>5, <2>8, <2>9
<1> QED
  BY <1>2, <1>5

-----------------------------------------------------------------------------
(***************************************************************************)
(* The order of the ranking.                                               *)
(***************************************************************************)

\* Rounding keeps the order.
LEMMA HalfUpMonotone ==
  ASSUME NEW n \in Int, NEW m \in Int, n <= m, NEW d \in Nat \ {0}
  PROVE  HalfUp(n, d) <= HalfUp(m, d)
<1> DEFINE g == HalfUp(n, d)
           h == HalfUp(m, d)
<1>1. /\ g \in Int /\ h \in Int
      /\ 2 * (d * g) <= 2 * n + d
      /\ 2 * m < 2 * (d * h) + d
  BY HalfUpError
<1> HIDE DEF g, h
<1>2. ASSUME h < g PROVE FALSE
  <2>1. PICK k \in Nat : g = h + 1 + k
    BY <1>1, <1>2, g - h - 1 \in Nat
  <2>2. d * g = d * h + d + d * k /\ d * k >= 0
    BY <1>1, <2>1
  <2> QED
    BY <1>1, <2>2, d * h \in Int, d * g \in Int, d * k \in Int
<1>3. g <= h
  BY <1>1, <1>2
<1> QED
  BY <1>3 DEF g, h

\* So does rounding half away from zero.
LEMMA SignedHalfUpMonotone ==
  ASSUME NEW n \in Int, NEW m \in Int, n <= m, NEW d \in Nat \ {0}
  PROVE  /\ SignedHalfUp(n, d) \in Int /\ SignedHalfUp(m, d) \in Int
         /\ SignedHalfUp(n, d) <= SignedHalfUp(m, d)
<1>1. /\ HalfUp(n, d) \in Int /\ HalfUp(m, d) \in Int
      /\ HalfUp(0 - n, d) \in Int /\ HalfUp(0 - m, d) \in Int
  BY HalfUpError
<1>2. CASE n >= 0
  <2>1. m >= 0 /\ HalfUp(n, d) <= HalfUp(m, d)
    BY <1>2, HalfUpMonotone
  <2> QED
    BY <1>1, <1>2, <2>1 DEF SignedHalfUp
<1>3. CASE n < 0 /\ m >= 0
  <2>1. HalfUp(0 - n, d) >= 0 /\ HalfUp(m, d) >= 0
    <3>1. 0 - n \in Nat /\ m \in Nat
      BY <1>3
    <3>2. HalfUp(0 - n, d) \in Nat /\ HalfUp(m, d) \in Nat
      BY <3>1, HalfUpNat
    <3> QED
      BY <3>2
  <2> QED
    BY <1>1, <1>3, <2>1 DEF SignedHalfUp
<1>4. CASE n < 0 /\ m < 0
  <2>1. HalfUp(0 - m, d) <= HalfUp(0 - n, d)
    <3>1. 0 - m \in Int /\ 0 - n \in Int /\ 0 - m <= 0 - n
      OBVIOUS
    <3> QED
      BY <3>1, HalfUpMonotone
  <2> QED
    BY <1>1, <1>4, <2>1 DEF SignedHalfUp
<1> QED
  BY <1>2, <1>3, <1>4

\* The richer player has at least the same performance.
LEMMA PerformanceMonotone ==
  ASSUME NEW x \in Nat, NEW y \in Nat, x <= y
  PROVE  /\ performance(x) \in Int /\ performance(y) \in Int
         /\ performance(x) <= performance(y)
<1> DEFINE initial == InitialBalance * CentScale * FineScale
<1>1. initial \in Nat \ {0}
  <2>1. /\ InitialBalance \in Nat \ {0} /\ CentScale \in Nat \ {0}
        /\ FineScale \in Nat \ {0}
    BY BooksAreReal, LeaderboardIsReal, ScalesAreReal
  <2>2. \A i, j \in Nat \ {0} : i * j \in Nat \ {0}
    OBVIOUS
  <2>3. InitialBalance * CentScale \in Nat \ {0}
    BY <2>1, <2>2
  <2> QED
    BY <2>1, <2>2, <2>3
<1> HIDE DEF initial
<1>2. /\ (x - initial) * 10000 \in Int /\ (y - initial) * 10000 \in Int
      /\ (x - initial) * 10000 <= (y - initial) * 10000
  BY <1>1
<1>3. /\ SignedHalfUp((x - initial) * 10000, initial) \in Int
      /\ SignedHalfUp((y - initial) * 10000, initial) \in Int
      /\ SignedHalfUp((x - initial) * 10000, initial)
           <= SignedHalfUp((y - initial) * 10000, initial)
  BY <1>1, <1>2, SignedHalfUpMonotone
<1> QED
  BY <1>3 DEF performance, initial

\* The sort key is a strict order of the players that puts the richer first.
LEMMA AheadIsOrder ==
  ASSUME NEW value \in [Users -> Nat]
  PROVE  /\ \A u \in Users : ~ahead(value, u, u)
         /\ \A u, v, w \in Users :
              ahead(value, u, v) /\ ahead(value, v, w) => ahead(value, u, w)
         /\ \A u, v \in Users : value[u] > value[v] => ahead(value, u, v)
<1> DEFINE perf(u) == performance(value[u])
<1>1. \A u \in Users : /\ value[u] \in Nat /\ NameOrder[u] \in Nat
  BY LeaderboardIsReal
<1>2. \A u \in Users : perf(u) \in Int
  BY <1>1, PerformanceMonotone
<1>3. \A u, v \in Users : value[u] > value[v] => perf(u) >= perf(v)
  <2> SUFFICES ASSUME NEW u \in Users, NEW v \in Users, value[u] > value[v]
               PROVE  perf(u) >= perf(v)
    OBVIOUS
  <2>1. value[v] <= value[u]
    BY <1>1
  <2>2. perf(v) <= perf(u)
    BY <1>1, <2>1, PerformanceMonotone
  <2> QED
    BY <1>2, <2>2
<1>4. \A u, v \in Users : ahead(value, u, v) <=>
        \/ perf(u) > perf(v)
        \/ /\ perf(u) = perf(v)
           /\ \/ value[u] > value[v]
              \/ value[u] = value[v] /\ NameOrder[u] < NameOrder[v]
  BY DEF ahead
<1> HIDE DEF perf
<1>5. \A u \in Users : ~ahead(value, u, u)
  BY <1>1, <1>2, <1>4
<1>6. \A u, v, w \in Users :
        ahead(value, u, v) /\ ahead(value, v, w) => ahead(value, u, w)
  BY <1>1, <1>2, <1>4
<1>7. \A u, v \in Users : value[u] > value[v] => ahead(value, u, v)
  BY <1>1, <1>2, <1>3, <1>4
<1> QED
  BY <1>5, <1>6, <1>7

\* Ranks are places, and the richer player has the better one.
LEMMA RanksAreFair ==
  ASSUME NEW value \in [Users -> Nat]
  PROVE  /\ ranks(value) \in [Users -> 1 .. Cardinality(Users)]
         /\ \A u, v \in Users : value[u] > value[v] => ranks(value)[u] < ranks(value)[v]
<1> DEFINE before(u) == {v \in Users : ahead(value, v, u)}
<1>1. \A u \in Users : ranks(value)[u] = 1 + Cardinality(before(u))
  BY DEF ranks
<1>2. ASSUME NEW u \in Users
      PROVE  /\ IsFiniteSet(before(u)) /\ Cardinality(before(u)) \in Nat
             /\ Cardinality(before(u)) + 1 <= Cardinality(Users)
             /\ Cardinality(Users) \in Nat
  <2>1. before(u) \in SUBSET Users /\ u \notin before(u)
    BY AheadIsOrder
  <2> HIDE DEF before
  <2> QED
    BY <2>1, FewerElements, LeaderboardIsReal
<1>3. ASSUME NEW u \in Users, NEW v \in Users, value[u] > value[v]
      PROVE  ranks(value)[u] < ranks(value)[v]
  <2>1. ahead(value, u, v)
    BY <1>3, AheadIsOrder
  <2>2. before(u) \in SUBSET before(v)
    BY <2>1, AheadIsOrder
  <2>3. u \in before(v) /\ u \notin before(u)
    BY <2>1, AheadIsOrder
  <2> HIDE DEF before
  <2>4. Cardinality(before(u)) + 1 <= Cardinality(before(v))
    BY <1>2, <2>2, <2>3, FewerElements
  <2> QED
    BY <1>1, <1>2, <2>4
<1>4. ranks(value) \in [Users -> 1 .. Cardinality(Users)]
  <2>1. \A u \in Users : 1 + Cardinality(before(u)) \in 1 .. Cardinality(Users)
    <3> HIDE DEF before
    <3> QED
      BY <1>2
  <2> QED
    BY <2>1 DEF ranks
<1> QED
  BY <1>3, <1>4

\* One page of any size shows a given place.
LEMMA OnePage ==
  ASSUME NEW N \in Nat, NEW r \in 1 .. N, NEW size \in 1 .. (N + 1)
  PROVE  \E p \in 1 .. N : \A page \in 1 .. N :
           (r > (page - 1) * size /\ r <= page * size) <=> page = p
<1> DEFINE q == (r - 1) \div size
<1>1. /\ q \in Int /\ size * q <= r - 1 /\ r - 1 < size * q + size
  BY Division
<1> HIDE DEF q
<1>2. q >= 0
  <2> SUFFICES ASSUME q < 0 PROVE FALSE
    BY <1>1
  <2>1. PICK k \in Nat : q = 0 - 1 - k
    BY <1>1, 0 - 1 - q \in Nat
  <2>2. size * q + size = 0 - size * k /\ size * k >= 0
    BY <2>1
  <2> QED
    BY <1>1, <2>2, size * q \in Int, size * k \in Int
<1>3. q <= size * q
  <2>1. size * q = q + (size - 1) * q /\ (size - 1) * q >= 0
    BY <1>1, <1>2
  <2> QED
    BY <1>1, <2>1, (size - 1) * q \in Int
<1>4. q + 1 \in 1 .. N
  BY <1>1, <1>2, <1>3, size * q \in Int
<1>5. ASSUME NEW page \in 1 .. N
      PROVE  (r > (page - 1) * size /\ r <= page * size) <=> page = q + 1
  <2>1. /\ size * q \in Int /\ page * size \in Int /\ (page - 1) * size \in Int
        /\ (page - 1) * size = page * size - size
    BY <1>1
  <2>2. CASE page = q + 1
    <3>1. (page - 1) * size = size * q
      BY <1>1, <2>2
    <3> QED
      BY <1>1, <2>1, <2>2, <3>1
  <2>3. CASE page < q + 1
    <3>1. PICK k \in Nat : q = page + k
      BY <1>1, <2>3, q - page \in Nat
    <3>2. size * q = page * size + size * k /\ size * k >= 0
      BY <3>1
    <3> QED
      BY <1>1, <2>1, <2>3, <3>2, size * k \in Int
  <2>4. CASE page > q + 1
    <3>1. PICK k \in Nat : page = q + 2 + k
      BY <1>1, <2>4, page - q - 2 \in Nat
    <3>2. (page - 1) * size = size * q + size + size * k /\ size * k >= 0
      BY <1>1, <3>1
    <3> QED
      BY <1>1, <2>1, <2>4, <3>2, size * k \in Int
  <2> QED
    BY <1>1, <2>2, <2>3, <2>4
<1> QED
  BY <1>4, <1>5

-----------------------------------------------------------------------------
(***************************************************************************)
(* What was replayed stays replayed: a trade makes the history longer and  *)
(* leaves its start alone.                                                 *)
(***************************************************************************)

\* A history has one replay.
LEMMA ReplayIsUnique ==
  ASSUME NEW txs, Len(txs) \in Nat, NEW a, IsReplay(a, txs), NEW b, IsReplay(b, txs),
         NEW n \in 0 .. Len(txs)
  PROVE  a[n] = b[n]
<1>1. /\ a[0] = NewBook /\ b[0] = NewBook
      /\ \A i \in 1 .. Len(txs) : /\ a[i] = Apply(a[i - 1], txs[i])
                                  /\ b[i] = Apply(b[i - 1], txs[i])
  BY DEF IsReplay
<1> DEFINE Wrong == {i \in 0 .. Len(txs) : a[i] # b[i]}
<1>2. Wrong = {}
  <2> SUFFICES ASSUME Wrong # {} PROVE FALSE
    OBVIOUS
  <2>1. Wrong \in SUBSET Nat
    OBVIOUS
  <2>2. PICK i \in Wrong : \A j \in Wrong : i <= j
    <3> HIDE DEF Wrong
    <3> QED
      BY <2>1, LeastNatural
  <2>3. i \in 1 .. Len(txs) /\ a[i] # b[i]
    BY <1>1, <2>2
  <2>4. i - 1 \in 0 .. Len(txs) /\ ~(i <= i - 1)
    BY <2>3
  <2>5. a[i - 1] = b[i - 1]
    BY <2>2, <2>4
  <2> QED
    BY <1>1, <2>3, <2>5
<1> QED
  BY <1>2

\* A trade appends to one history, and what the earlier ones replay to stays as it was.
LEMMA TradeExtendsHistory ==
  ASSUME BooksInv, NEW u \in Users, NEW tx \in Transactions, Trade(u, tx), NEW v \in Users
  PROVE  /\ Len(ledger[v]) \in Nat /\ Len(ledger'[v]) \in Nat
         /\ Len(ledger[v]) <= Len(ledger'[v])
         /\ \A n \in 0 .. Len(ledger[v]) : Replay(ledger'[v])[n] = Replay(ledger[v])[n]
<1>1. ledger \in [Users -> Seq(Transactions)] /\ Replayable
  BY DEF BooksInv, BooksTypeOK
<1>2. ledger' = [ledger EXCEPT ![u] = Append(@, tx)]
  BY DEF Trade
<1>3. CASE v # u
  <2>1. ledger'[v] = ledger[v]
    BY <1>1, <1>2, <1>3
  <2> QED
    BY <1>1, <2>1
<1>4. CASE v = u
  <2> DEFINE txs == ledger[u]
  <2>1. txs \in Seq(Transactions) /\ ledger'[u] = Append(txs, tx)
    BY <1>1, <1>2
  <2>2. Len(txs) \in Nat /\ Len(ledger'[u]) = Len(txs) + 1
    BY <2>1
  <2>3. IsReplay(Replay(txs), txs)
    BY <1>1, ReplayIsReplay DEF Replayable
  <2>4. IsReplay(Replay(ledger'[u]), Append(txs, tx))
    <3>1. \E b : IsReplay(b, Append(txs, tx))
      <4> HIDE DEF txs
      <4> QED
        BY <2>1, <2>3, ReplayExtends
    <3> QED
      BY <2>1, <3>1, ReplayIsReplay
  <2>5. IsReplay([n \in 0 .. Len(txs) |-> Replay(ledger'[u])[n]], txs)
    <3> HIDE DEF txs
    <3> QED
      BY <2>1, <2>4, ReplayRestricts
  <2>6. ASSUME NEW n \in 0 .. Len(txs) PROVE Replay(ledger'[u])[n] = Replay(txs)[n]
    <3> HIDE DEF txs
    <3>1. [i \in 0 .. Len(txs) |-> Replay(ledger'[u])[i]][n] = Replay(txs)[n]
      BY <2>2, <2>3, <2>5, ReplayIsUnique
    <3> QED
      BY <3>1
  <2> QED
    BY <1>4, <2>2, <2>6
<1> QED
  BY <1>3, <1>4

-----------------------------------------------------------------------------
(***************************************************************************)
(* The inductive invariant.                                                *)
(***************************************************************************)

\* The cash after some transaction of txs, the first b of them included.
CashIsReal(money, b, txs) ==
  \E n \in b .. Len(txs) : money = Replay(txs)[n].cash

\* The cash after one transaction and the holdings after the same or a later one.
RowIsReal(money, held, b, txs) ==
  \E n, m \in b .. Len(txs) :
    /\ n <= m
    /\ money = Replay(txs)[n].cash
    /\ held = Replay(txs)[m].position

\* What a reader has read are committed books, none older than its beginning.
ReaderOK(k) ==
  \A u \in Users :
    /\ pc[k] # "idle" => began[k][u] <= Len(ledger[u])
    /\ pc[k] = "holdings" => CashIsReal(readCash[k][u], began[k][u], ledger[u])
    /\ pc[k] = "prices" =>
         RowIsReal(readCash[k][u], readHeld[k][u], began[k][u], ledger[u])

\* The places of a cached ranking are those of its values.
CachedOK ==
  cached # None =>
    /\ cached.rank = ranks(cached.value)
    /\ \A u \in Users :
         RowIsReal(cached.cash[u], cached.held[u], cached.began[u], ledger[u])

\* The inductive invariant.
Inv == LeaderboardTypeOK /\ BooksInv /\ (\A k \in Readers : ReaderOK(k)) /\ CachedOK

\* What is real stays real when somebody trades.
LEMMA RealStaysReal ==
  ASSUME BooksInv, NEW u \in Users, NEW tx \in Transactions, Trade(u, tx),
         NEW v \in Users, NEW b \in Nat
  PROVE  /\ b <= Len(ledger[v]) => b <= Len(ledger'[v])
         /\ \A money : CashIsReal(money, b, ledger[v]) => CashIsReal(money, b, ledger'[v])
         /\ \A money, held :
              RowIsReal(money, held, b, ledger[v]) => RowIsReal(money, held, b, ledger'[v])
<1>1. /\ Len(ledger[v]) \in Nat /\ Len(ledger'[v]) \in Nat
      /\ Len(ledger[v]) <= Len(ledger'[v])
      /\ \A n \in 0 .. Len(ledger[v]) : Replay(ledger'[v])[n] = Replay(ledger[v])[n]
  BY TradeExtendsHistory
<1>2. \A n \in b .. Len(ledger[v]) :
        /\ n \in b .. Len(ledger'[v])
        /\ Replay(ledger'[v])[n] = Replay(ledger[v])[n]
  BY <1>1
<1>3. ASSUME NEW money, CashIsReal(money, b, ledger[v])
      PROVE  CashIsReal(money, b, ledger'[v])
  BY <1>2, <1>3 DEF CashIsReal
<1>4. ASSUME NEW money, NEW held, RowIsReal(money, held, b, ledger[v])
      PROVE  RowIsReal(money, held, b, ledger'[v])
  <2>1. PICK n \in b .. Len(ledger[v]) :
          \E m \in b .. Len(ledger[v]) :
            /\ n <= m
            /\ money = Replay(ledger[v])[n].cash
            /\ held = Replay(ledger[v])[m].position
    BY <1>4 DEF RowIsReal
  <2>2. PICK m \in b .. Len(ledger[v]) :
          /\ n <= m
          /\ money = Replay(ledger[v])[n].cash
          /\ held = Replay(ledger[v])[m].position
    BY <2>1
  <2> QED
    BY <1>2, <2>2 DEF RowIsReal
<1> QED
  BY <1>1, <1>3, <1>4

\* The tables as they are: the replay of the whole history.
LEMMA TablesAreReal ==
  ASSUME BooksInv, NEW u \in Users
  PROVE  /\ Len(ledger[u]) \in Nat
         /\ cash[u] = Replay(ledger[u])[Len(ledger[u])].cash
         /\ position[u] = Replay(ledger[u])[Len(ledger[u])].position
<1>1. ledger \in [Users -> Seq(Transactions)] /\ BooksMatchLedger
  BY BooksInvImplies DEF BooksInv, BooksTypeOK
<1>2. Replay(ledger[u])[Len(ledger[u])] = Book(u)
  BY <1>1 DEF BooksMatchLedger
<1> QED
  BY <1>1, <1>2 DEF Book

\* The value of a portfolio is a natural number, whatever quotes are missing.
LEMMA WorthIsNatural ==
  ASSUME NEW money \in Nat, NEW held \in [Coins -> Positions], NEW quotes \in Quotes
  PROVE  worth(money, held, quotes) \in Nat
<1>1. CentScale \in Nat /\ FineScale \in Nat /\ IsFiniteSet(Coins)
  BY ScalesAreReal, LeaderboardIsReal
<1>2. \A i, j \in Nat : i * j \in Nat
  OBVIOUS
<1>3. ASSUME NEW c \in Coins
      PROVE  held[c].quantity * unitPrice(quotes, c, held[c]) \in Nat
  <2>1. held[c].quantity \in Nat /\ held[c].avg \in Nat
    BY DEF Positions
  <2>2. CASE c \in DOMAIN quotes
    <3>1. PICK live \in SUBSET Coins : quotes \in [live -> {x \in RawQuotes : x > 0}]
      BY DEF Quotes
    <3>2. quotes[c] \in Nat
      BY <2>2, <3>1, BooksAreReal
    <3> QED
      BY <1>2, <2>1, <2>2, <3>2 DEF unitPrice
  <2>3. CASE c \notin DOMAIN quotes
    BY <1>1, <1>2, <2>1, <2>3 DEF unitPrice
  <2> QED
    BY <2>2, <2>3
<1>4. [c \in Coins |-> held[c].quantity * unitPrice(quotes, c, held[c])] \in [Coins -> Nat]
  BY <1>3
<1>5. sumOver([c \in Coins |-> held[c].quantity * unitPrice(quotes, c, held[c])], Coins) \in Nat
  BY <1>1, <1>4, SumIsNatural
<1>6. money * CentScale * FineScale \in Nat
  BY <1>1, <1>2
<1> QED
  BY <1>5, <1>6 DEF worth

-----------------------------------------------------------------------------
(***************************************************************************)
(* The steps.                                                              *)
(***************************************************************************)

\* The first ranking is still to be computed.
LEMMA InvInit ==
  Init => Inv
<1> SUFFICES ASSUME Init PROVE Inv
  OBVIOUS
<1>1. /\ BooksInit /\ ending = [u \in Users |-> 0] /\ cached = None /\ left = 0
      /\ pc = [k \in Readers |-> "idle"] /\ readCash = [k \in Readers |-> NoCash]
      /\ readHeld = [k \in Readers |-> NoHoldings] /\ began = [k \in Readers |-> NoCash]
  BY DEF Init
<1>2. BooksInv
  BY <1>1, BooksInitInv
<1>3. NoCash \in [Users -> Nat] /\ NoHoldings \in [Users -> [Coins -> Positions]]
  BY DEF NoCash, NoHoldings, NoPosition, Positions
<1>4. 0 \in 0 .. TTL
  BY LeaderboardIsReal
<1>5. LeaderboardTypeOK
  BY <1>1, <1>2, <1>3, <1>4 DEF LeaderboardTypeOK, BooksInv, Awaits
<1>6. (\A k \in Readers : ReaderOK(k)) /\ CachedOK
  BY <1>1 DEF ReaderOK, CachedOK
<1> QED
  BY <1>2, <1>5, <1>6 DEF Inv

\* A trade makes what was read older, and no less real.
LEMMA CommitTradeStep ==
  ASSUME Inv, NEW u \in Users, CommitTrade(u)
  PROVE  Inv'
<1>1. LeaderboardTypeOK /\ BooksInv /\ (\A k \in Readers : ReaderOK(k)) /\ CachedOK
  BY DEF Inv
<1>2. /\ TradeBy(u) /\ ending' = [ending EXCEPT ![u] = @ + 1]
      /\ UNCHANGED <<cached, left, pc, readCash, readHeld, began>>
  BY DEF CommitTrade, reader
<1>3. PICK w \in Users, tx \in Transactions : Trade(w, tx)
  BY <1>2, LedgerNextTrades DEF LedgerNext
<1>4. BooksInv'
  BY <1>1, <1>3, TradeKeepsBooks
<1>5. LeaderboardTypeOK'
  <2>1. ending' \in [Users -> Nat]
    BY <1>1, <1>2 DEF LeaderboardTypeOK
  <2> QED
    BY <1>1, <1>2, <1>4, <2>1 DEF LeaderboardTypeOK, BooksInv
<1>6. ASSUME NEW k \in Readers PROVE ReaderOK(k)'
  <2> SUFFICES ASSUME NEW v \in Users
               PROVE  /\ pc[k] # "idle" => began[k][v] <= Len(ledger'[v])
                      /\ pc[k] = "holdings" =>
                           CashIsReal(readCash[k][v], began[k][v], ledger'[v])
                      /\ pc[k] = "prices" =>
                           RowIsReal(readCash[k][v], readHeld[k][v], began[k][v], ledger'[v])
    BY <1>2 DEF ReaderOK
  <2>1. began[k][v] \in Nat /\ ReaderOK(k)
    BY <1>1 DEF LeaderboardTypeOK
  <2> QED
    BY <1>1, <1>3, <2>1, RealStaysReal DEF ReaderOK
<1>7. CachedOK'
  <2> SUFFICES ASSUME cached # None, NEW v \in Users
               PROVE  /\ cached.rank = ranks(cached.value)
                      /\ RowIsReal(cached.cash[v], cached.held[v], cached.began[v], ledger'[v])
    BY <1>2 DEF CachedOK
  <2>1. /\ cached.rank = ranks(cached.value) /\ cached.began[v] \in Nat
        /\ RowIsReal(cached.cash[v], cached.held[v], cached.began[v], ledger[v])
    BY <1>1 DEF CachedOK, LeaderboardTypeOK, Rankings
  <2> QED
    BY <1>1, <1>3, <2>1, RealStaysReal
<1> QED
  BY <1>4, <1>5, <1>6, <1>7 DEF Inv

\* The end of a trade drops the ranking, or leaves it when the request failed.
LEMMA TradeEndsStep ==
  ASSUME Inv, NEW u \in Users, EndTrade(u) \/ FailTrade(u)
  PROVE  Inv'
<1>1. LeaderboardTypeOK /\ BooksInv /\ (\A k \in Readers : ReaderOK(k)) /\ CachedOK
  BY DEF Inv
<1>2. /\ ending[u] > 0 /\ ending' = [ending EXCEPT ![u] = @ - 1]
      /\ UNCHANGED <<cash, position, ledger, pc, readCash, readHeld, began>>
      /\ (cached' = None /\ left' = 0) \/ UNCHANGED <<cached, left>>
  BY DEF EndTrade, FailTrade, books, reader
<1>3. BooksInv'
  BY <1>1, <1>2, StutterKeepsBooks DEF books
<1>4. ending' \in [Users -> Nat]
  BY <1>1, <1>2 DEF LeaderboardTypeOK
<1>5. 0 \in 0 .. TTL
  BY LeaderboardIsReal
<1>6. LeaderboardTypeOK'
  BY <1>1, <1>2, <1>3, <1>4, <1>5 DEF LeaderboardTypeOK, BooksInv
<1>7. (\A k \in Readers : ReaderOK(k)') /\ CachedOK'
  BY <1>1, <1>2 DEF ReaderOK, CachedOK
<1> QED
  BY <1>3, <1>6, <1>7 DEF Inv

\* A reader begins with the histories as they are.
LEMMA OpenStep ==
  ASSUME Inv, NEW k \in Readers, Open(k)
  PROVE  Inv'
<1>1. LeaderboardTypeOK /\ BooksInv /\ (\A j \in Readers : ReaderOK(j)) /\ CachedOK
  BY DEF Inv
<1>2. /\ pc' = [pc EXCEPT ![k] = "portfolios"]
      /\ began' = [began EXCEPT ![k] = [u \in Users |-> Len(ledger[u])]]
      /\ UNCHANGED <<cash, position, ledger, ending, cached, left, readCash, readHeld>>
  BY DEF Open, books
<1>3. BooksInv'
  BY <1>1, <1>2, StutterKeepsBooks DEF books
<1>4. [u \in Users |-> Len(ledger[u])] \in [Users -> Nat]
  BY <1>1, TablesAreReal
<1>5. pc' \in [Readers -> Awaits] /\ began' \in [Readers -> [Users -> Nat]]
  BY <1>1, <1>2, <1>4 DEF LeaderboardTypeOK, Awaits
<1>6. LeaderboardTypeOK'
  BY <1>1, <1>2, <1>3, <1>5 DEF LeaderboardTypeOK, BooksInv
<1>7. ASSUME NEW j \in Readers PROVE ReaderOK(j)'
  <2>1. CASE j = k
    <3>1. \A u \in Users : began'[j][u] = Len(ledger[u]) /\ Len(ledger[u]) \in Nat
      BY <1>1, <1>2, <2>1, TablesAreReal DEF LeaderboardTypeOK
    <3>2. pc'[j] = "portfolios"
      BY <1>1, <1>2, <2>1 DEF LeaderboardTypeOK
    <3> QED
      BY <1>2, <3>1, <3>2 DEF ReaderOK
  <2>2. CASE j # k
    <3>1. pc'[j] = pc[j] /\ began'[j] = began[j]
      BY <1>1, <1>2, <2>2 DEF LeaderboardTypeOK
    <3> QED
      BY <1>1, <1>2, <3>1 DEF ReaderOK
  <2> QED
    BY <2>1, <2>2
<1>8. CachedOK'
  BY <1>1, <1>2 DEF CachedOK
<1> QED
  BY <1>3, <1>6, <1>7, <1>8 DEF Inv

\* The first statement reads the cash of the committed books.
LEMMA ReadPortfoliosStep ==
  ASSUME Inv, NEW k \in Readers, ReadPortfolios(k)
  PROVE  Inv'
<1>1. LeaderboardTypeOK /\ BooksInv /\ (\A j \in Readers : ReaderOK(j)) /\ CachedOK
  BY DEF Inv
<1>2. /\ pc[k] = "portfolios" /\ pc' = [pc EXCEPT ![k] = "holdings"]
      /\ readCash' = [readCash EXCEPT ![k] = cash]
      /\ UNCHANGED <<cash, position, ledger, ending, cached, left, readHeld, began>>
  BY DEF ReadPortfolios, books
<1>3. BooksInv'
  BY <1>1, <1>2, StutterKeepsBooks DEF books
<1>4. pc' \in [Readers -> Awaits] /\ readCash' \in [Readers -> [Users -> Nat]]
  BY <1>1, <1>2 DEF LeaderboardTypeOK, BooksTypeOK, Awaits
<1>5. LeaderboardTypeOK'
  BY <1>1, <1>2, <1>3, <1>4 DEF LeaderboardTypeOK, BooksInv
<1>6. ASSUME NEW j \in Readers PROVE ReaderOK(j)'
  <2>1. CASE j = k
    <3>1. pc'[j] = "holdings" /\ readCash'[j] = cash
      BY <1>1, <1>2, <2>1 DEF LeaderboardTypeOK
    <3>2. ASSUME NEW u \in Users
          PROVE  /\ began[j][u] <= Len(ledger[u])
                 /\ CashIsReal(cash[u], began[j][u], ledger[u])
      <4>1. began[j][u] <= Len(ledger[u]) /\ began[j][u] \in Nat
        BY <1>1, <1>2, <2>1 DEF ReaderOK, LeaderboardTypeOK
      <4>2. Len(ledger[u]) \in began[j][u] .. Len(ledger[u])
        BY <1>1, <4>1, TablesAreReal
      <4> QED
        BY <1>1, <4>1, <4>2, TablesAreReal DEF CashIsReal
    <3> QED
      BY <1>2, <3>1, <3>2 DEF ReaderOK
  <2>2. CASE j # k
    <3>1. pc'[j] = pc[j] /\ readCash'[j] = readCash[j]
      BY <1>1, <1>2, <2>2 DEF LeaderboardTypeOK
    <3> QED
      BY <1>1, <1>2, <3>1 DEF ReaderOK
  <2> QED
    BY <2>1, <2>2
<1>7. CachedOK'
  BY <1>1, <1>2 DEF CachedOK
<1> QED
  BY <1>3, <1>5, <1>6, <1>7 DEF Inv

\* The second statement reads the holdings, of the same books or of later ones.
LEMMA ReadHoldingsStep ==
  ASSUME Inv, NEW k \in Readers, ReadHoldings(k)
  PROVE  Inv'
<1>1. LeaderboardTypeOK /\ BooksInv /\ (\A j \in Readers : ReaderOK(j)) /\ CachedOK
  BY DEF Inv
<1>2. /\ pc[k] = "holdings" /\ pc' = [pc EXCEPT ![k] = "prices"]
      /\ readHeld' = [readHeld EXCEPT ![k] = position]
      /\ UNCHANGED <<cash, position, ledger, ending, cached, left, readCash, began>>
  BY DEF ReadHoldings, books
<1>3. BooksInv'
  BY <1>1, <1>2, StutterKeepsBooks DEF books
<1>4. /\ pc' \in [Readers -> Awaits]
      /\ readHeld' \in [Readers -> [Users -> [Coins -> Positions]]]
  BY <1>1, <1>2 DEF LeaderboardTypeOK, BooksTypeOK, Awaits
<1>5. LeaderboardTypeOK'
  BY <1>1, <1>2, <1>3, <1>4 DEF LeaderboardTypeOK, BooksInv
<1>6. ASSUME NEW j \in Readers PROVE ReaderOK(j)'
  <2>1. CASE j = k
    <3>1. pc'[j] = "prices" /\ readHeld'[j] = position
      BY <1>1, <1>2, <2>1 DEF LeaderboardTypeOK
    <3>2. ASSUME NEW u \in Users
          PROVE  /\ began[j][u] <= Len(ledger[u])
                 /\ RowIsReal(readCash[j][u], position[u], began[j][u], ledger[u])
      <4>1. began[j][u] <= Len(ledger[u]) /\ began[j][u] \in Nat
        BY <1>1, <1>2, <2>1 DEF ReaderOK, LeaderboardTypeOK
      <4>2. PICK n \in began[j][u] .. Len(ledger[u]) :
              readCash[j][u] = Replay(ledger[u])[n].cash
        BY <1>1, <1>2, <2>1 DEF ReaderOK, CashIsReal
      <4>3. n <= Len(ledger[u]) /\ Len(ledger[u]) \in began[j][u] .. Len(ledger[u])
        BY <1>1, <4>1, TablesAreReal
      <4> QED
        BY <1>1, <4>1, <4>2, <4>3, TablesAreReal DEF RowIsReal
    <3> QED
      BY <1>2, <3>1, <3>2 DEF ReaderOK
  <2>2. CASE j # k
    <3>1. pc'[j] = pc[j] /\ readHeld'[j] = readHeld[j]
      BY <1>1, <1>2, <2>2 DEF LeaderboardTypeOK
    <3> QED
      BY <1>1, <1>2, <3>1 DEF ReaderOK
  <2> QED
    BY <2>1, <2>2
<1>7. CachedOK'
  BY <1>1, <1>2 DEF CachedOK
<1> QED
  BY <1>3, <1>5, <1>6, <1>7 DEF Inv

\* A reader that ends keeps nothing.
LEMMA ReaderEnds ==
  ASSUME LeaderboardTypeOK, \A j \in Readers : ReaderOK(j), NEW k \in Readers,
         UNCHANGED ledger,
         pc' = [pc EXCEPT ![k] = "idle"],
         readCash' = [readCash EXCEPT ![k] = NoCash],
         readHeld' = [readHeld EXCEPT ![k] = NoHoldings],
         began' = [began EXCEPT ![k] = NoCash]
  PROVE  /\ pc' \in [Readers -> Awaits]
         /\ readCash' \in [Readers -> [Users -> Nat]]
         /\ readHeld' \in [Readers -> [Users -> [Coins -> Positions]]]
         /\ began' \in [Readers -> [Users -> Nat]]
         /\ \A j \in Readers : ReaderOK(j)'
<1>1. NoCash \in [Users -> Nat] /\ NoHoldings \in [Users -> [Coins -> Positions]]
  BY DEF NoCash, NoHoldings, NoPosition, Positions
<1>2. ASSUME NEW j \in Readers PROVE ReaderOK(j)'
  <2>1. CASE j = k
    <3>1. pc'[j] = "idle"
      BY <2>1 DEF LeaderboardTypeOK
    <3> QED
      BY <3>1 DEF ReaderOK
  <2>2. CASE j # k
    <3>1. /\ pc'[j] = pc[j] /\ readCash'[j] = readCash[j]
          /\ readHeld'[j] = readHeld[j] /\ began'[j] = began[j]
      BY <2>2 DEF LeaderboardTypeOK
    <3> QED
      BY <3>1 DEF ReaderOK
  <2> QED
    BY <2>1, <2>2
<1> QED
  BY <1>1, <1>2 DEF LeaderboardTypeOK, Awaits

\* A ranking is stored: values, places and rows of what was read.
LEMMA StoreStep ==
  ASSUME Inv, NEW k \in Readers, Store(k)
  PROVE  Inv'
<1>1. LeaderboardTypeOK /\ BooksInv /\ (\A j \in Readers : ReaderOK(j)) /\ CachedOK
  BY DEF Inv
<1>2. /\ pc[k] = "prices" /\ left' = TTL /\ pc' = [pc EXCEPT ![k] = "idle"]
      /\ readCash' = [readCash EXCEPT ![k] = NoCash]
      /\ readHeld' = [readHeld EXCEPT ![k] = NoHoldings]
      /\ began' = [began EXCEPT ![k] = NoCash]
      /\ UNCHANGED <<cash, position, ledger, ending>>
  BY DEF Store, books
<1>3. PICK quotes \in Quotes :
        LET value == [u \in Users |-> worth(readCash[k][u], readHeld[k][u], quotes)]
        IN  cached' = [cash |-> readCash[k], held |-> readHeld[k], value |-> value,
                       rank |-> ranks(value), began |-> began[k]]
  BY DEF Store
<1> DEFINE value == [u \in Users |-> worth(readCash[k][u], readHeld[k][u], quotes)]
<1>4. cached' = [cash |-> readCash[k], held |-> readHeld[k], value |-> value,
                 rank |-> ranks(value), began |-> began[k]]
  BY <1>3, Zenon
<1>5. /\ readCash[k] \in [Users -> Nat] /\ readHeld[k] \in [Users -> [Coins -> Positions]]
      /\ began[k] \in [Users -> Nat]
  BY <1>1 DEF LeaderboardTypeOK
<1>6. value \in [Users -> Nat]
  BY <1>5, WorthIsNatural
<1> HIDE DEF value
<1>7. ranks(value) \in [Users -> 1 .. Cardinality(Users)]
  BY <1>6, RanksAreFair
<1>8. cached' \in Rankings /\ cached' # None
  BY <1>4, <1>5, <1>6, <1>7, NoneIsNoRanking DEF Rankings
<1>9. BooksInv'
  BY <1>1, <1>2, StutterKeepsBooks DEF books
<1>10. TTL \in 0 .. TTL /\ TTL # 0
  BY LeaderboardIsReal
<1>11. /\ pc' \in [Readers -> Awaits]
       /\ readCash' \in [Readers -> [Users -> Nat]]
       /\ readHeld' \in [Readers -> [Users -> [Coins -> Positions]]]
       /\ began' \in [Readers -> [Users -> Nat]]
       /\ \A j \in Readers : ReaderOK(j)'
  BY <1>1, <1>2, ReaderEnds
<1>12. LeaderboardTypeOK'
  BY <1>1, <1>2, <1>8, <1>9, <1>10, <1>11 DEF LeaderboardTypeOK, BooksInv
<1>13. CachedOK'
  <2>1. \A u \in Users : RowIsReal(readCash[k][u], readHeld[k][u], began[k][u], ledger[u])
    BY <1>1, <1>2 DEF ReaderOK
  <2> QED
    BY <1>2, <1>4, <2>1 DEF CachedOK
<1> QED
  BY <1>9, <1>11, <1>12, <1>13 DEF Inv

\* The request of a reader fails.
LEMMA FailReaderStep ==
  ASSUME Inv, NEW k \in Readers, FailReader(k)
  PROVE  Inv'
<1>1. LeaderboardTypeOK /\ BooksInv /\ (\A j \in Readers : ReaderOK(j)) /\ CachedOK
  BY DEF Inv
<1>2. /\ pc' = [pc EXCEPT ![k] = "idle"]
      /\ readCash' = [readCash EXCEPT ![k] = NoCash]
      /\ readHeld' = [readHeld EXCEPT ![k] = NoHoldings]
      /\ began' = [began EXCEPT ![k] = NoCash]
      /\ UNCHANGED <<cash, position, ledger, ending, cached, left>>
  BY DEF FailReader, books
<1>3. BooksInv'
  BY <1>1, <1>2, StutterKeepsBooks DEF books
<1>4. /\ pc' \in [Readers -> Awaits]
      /\ readCash' \in [Readers -> [Users -> Nat]]
      /\ readHeld' \in [Readers -> [Users -> [Coins -> Positions]]]
      /\ began' \in [Readers -> [Users -> Nat]]
      /\ \A j \in Readers : ReaderOK(j)'
  BY <1>1, <1>2, ReaderEnds
<1>5. LeaderboardTypeOK'
  BY <1>1, <1>2, <1>3, <1>4 DEF LeaderboardTypeOK, BooksInv
<1>6. CachedOK'
  BY <1>1, <1>2 DEF CachedOK
<1> QED
  BY <1>3, <1>4, <1>5, <1>6 DEF Inv

\* Time passes; an entry that expires is gone.
LEMMA TickStep ==
  ASSUME Inv, Tick
  PROVE  Inv'
<1>1. LeaderboardTypeOK /\ BooksInv /\ (\A k \in Readers : ReaderOK(k)) /\ CachedOK
  BY DEF Inv
<1>2. /\ left > 0 /\ left' = left - 1 /\ cached' = IF left = 1 THEN None ELSE cached
      /\ UNCHANGED <<cash, position, ledger, ending, pc, readCash, readHeld, began>>
  BY DEF Tick, books, reader
<1>3. BooksInv'
  BY <1>1, <1>2, StutterKeepsBooks DEF books
<1>4. left' \in 0 .. TTL /\ (cached' = None <=> left' = 0)
  <2>1. left \in 0 .. TTL /\ TTL \in Nat /\ (cached = None <=> left = 0)
    BY <1>1, LeaderboardIsReal DEF LeaderboardTypeOK
  <2> QED
    BY <1>2, <2>1
<1>5. LeaderboardTypeOK'
  BY <1>1, <1>2, <1>3, <1>4 DEF LeaderboardTypeOK, BooksInv
<1>6. (\A k \in Readers : ReaderOK(k)') /\ CachedOK'
  BY <1>1, <1>2 DEF ReaderOK, CachedOK
<1> QED
  BY <1>3, <1>5, <1>6 DEF Inv

\* Every step keeps the invariant.
LEMMA InvStep ==
  Inv /\ [Next]_vars => Inv'
<1> SUFFICES ASSUME Inv, [Next]_vars PROVE Inv'
  OBVIOUS
<1>1. ASSUME NEW u \in Users, CommitTrade(u) PROVE Inv'
  BY <1>1, CommitTradeStep
<1>2. ASSUME NEW u \in Users, EndTrade(u) \/ FailTrade(u) PROVE Inv'
  BY <1>2, TradeEndsStep
<1>3. ASSUME NEW k \in Readers, Open(k) PROVE Inv'
  BY <1>3, OpenStep
<1>4. ASSUME NEW k \in Readers, ReadPortfolios(k) PROVE Inv'
  BY <1>4, ReadPortfoliosStep
<1>5. ASSUME NEW k \in Readers, ReadHoldings(k) PROVE Inv'
  BY <1>5, ReadHoldingsStep
<1>6. ASSUME NEW k \in Readers, Store(k) PROVE Inv'
  BY <1>6, StoreStep
<1>7. ASSUME NEW k \in Readers, FailReader(k) PROVE Inv'
  BY <1>7, FailReaderStep
<1>8. CASE Tick
  BY <1>8, TickStep
<1>9. CASE UNCHANGED vars
  <2>1. BooksInv'
    BY <1>9, StutterKeepsBooks DEF vars, Inv
  <2> QED
    BY <1>9, <2>1 DEF vars, books, reader, Inv, LeaderboardTypeOK, BooksTypeOK, ReaderOK, CachedOK
<1> QED
  BY <1>1, <1>2, <1>3, <1>4, <1>5, <1>6, <1>7, <1>8, <1>9 DEF Next

\* The invariant always holds.
LEMMA InvAlways ==
  Spec => []Inv
BY InvInit, InvStep, PTL DEF Spec

-----------------------------------------------------------------------------
(***************************************************************************)
(* The theorems.                                                           *)
(***************************************************************************)

\* Every variable has its type, and a ranking is cached as long as it has time
\* left, for any number of readers that compute at once.
THEOREM LeaderboardTypes ==
  Spec => []LeaderboardTypeOK
<1>1. Inv => LeaderboardTypeOK
  BY DEF Inv
<1> QED
  BY <1>1, InvAlways, PTL

\* A ranking shows committed books only: the cash of a player after some trade
\* and the holdings after the same or a later one, none older than the ranking's
\* beginning, whatever is traded between the two statements.
THEOREM RankingsAreReal ==
  Spec => []RowsAreReal
<1>1. Inv => RowsAreReal
  BY DEF Inv, CachedOK, RowIsReal, RowsAreReal
<1> QED
  BY <1>1, InvAlways, PTL

\* Nobody is placed before a richer player, although rounded percentages are
\* compared first, and the pages of any size show every player exactly once.
THEOREM RankingsAreFair ==
  Spec => []RankingIsFair
<1>1. Inv => RankingIsFair
  <2> SUFFICES ASSUME Inv, cached # None PROVE RankingIsFair
    BY DEF RankingIsFair
  <2>1. cached.value \in [Users -> Nat] /\ cached.rank = ranks(cached.value)
    BY DEF Inv, CachedOK, LeaderboardTypeOK, Rankings
  <2>2. /\ cached.rank \in [Users -> 1 .. Cardinality(Users)]
        /\ \A u, v \in Users :
             cached.value[u] > cached.value[v] => cached.rank[u] < cached.rank[v]
    BY <2>1, RanksAreFair
  <2>3. Cardinality(Users) \in Nat
    BY LeaderboardIsReal, FS_CardinalityType
  <2>4. ASSUME NEW size \in 1 .. (Cardinality(Users) + 1), NEW u \in Users
        PROVE  Cardinality({page \in 1 .. Cardinality(Users) :
                              u \in pageOf(cached.rank, page, size)}) = 1
    <3> DEFINE N == Cardinality(Users)
               pages == {page \in 1 .. N : u \in pageOf(cached.rank, page, size)}
    <3>1. cached.rank[u] \in 1 .. N
      BY <2>2
    <3>2. PICK p \in 1 .. N : \A page \in 1 .. N :
            (cached.rank[u] > (page - 1) * size /\ cached.rank[u] <= page * size) <=> page = p
      BY <2>3, <3>1, OnePage
    <3>3. pages = {p}
      BY <3>2 DEF pageOf
    <3>4. Cardinality({p}) = 1
      BY FS_Singleton
    <3> QED
      BY <3>3, <3>4
  <2> QED
    BY <2>2, <2>4 DEF RankingIsFair
<1> QED
  BY <1>1, InvAlways, PTL
=============================================================================
