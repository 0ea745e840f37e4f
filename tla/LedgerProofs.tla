---------------------------- MODULE LedgerProofs ----------------------------
(***************************************************************************)
(* The arithmetic of trade_service.py, for every scale, and the books,     *)
(* which stay right under atomic trades, for every set of users, coins and *)
(* quotes.  The step lemma TradeKeepsBooks is what the proof of the trade  *)
(* engine rests on.                                                        *)
(***************************************************************************)
EXTENDS Ledger, TLAPS, SequenceTheorems

-----------------------------------------------------------------------------
(***************************************************************************)
(* Rounding, totals and averages.                                          *)
(***************************************************************************)

\* Euclidean division by a positive divisor, in the one form used below.
LEMMA Division ==
  ASSUME NEW n \in Int, NEW d \in Nat \ {0}
  PROVE  /\ n \div d \in Int
         /\ d * (n \div d) <= n
         /\ n < d * (n \div d) + d
  OBVIOUS

\* A quotient rounded half up is at most half a unit away from the exact one.
LEMMA HalfUpError ==
  ASSUME NEW n \in Int, NEW d \in Nat \ {0}
  PROVE  /\ HalfUp(n, d) \in Int
         /\ 2 * (d * HalfUp(n, d)) <= 2 * n + d
         /\ 2 * n < 2 * (d * HalfUp(n, d)) + d
<1> DEFINE h == HalfUp(n, d)
<1>1. /\ h \in Int
      /\ (2 * d) * h <= 2 * n + d
      /\ 2 * n + d < (2 * d) * h + 2 * d
  BY Division, 2 * n + d \in Int, 2 * d \in Nat \ {0} DEF HalfUp
<1>2. (2 * d) * h = 2 * (d * h)
  BY <1>1
<1> QED
  BY <1>1, <1>2

\* Rounding stays between two integer bounds of the exact quotient.
LEMMA HalfUpBetween ==
  ASSUME NEW n \in Int, NEW d \in Nat \ {0}, NEW lo \in Int, NEW hi \in Int,
         lo * d <= n, n <= hi * d
  PROVE  lo <= HalfUp(n, d) /\ HalfUp(n, d) <= hi
<1> DEFINE h == HalfUp(n, d)
<1>1. /\ h \in Int
      /\ 2 * (d * h) <= 2 * n + d
      /\ 2 * n < 2 * (d * h) + d
  BY HalfUpError
<1> HIDE DEF h
<1>2. ASSUME h < lo PROVE FALSE
  <2>1. PICK k \in Nat : lo = h + 1 + k
    BY <1>1, <1>2, lo - h - 1 \in Nat
  <2>2. lo * d = d * h + d + d * k /\ d * k >= 0
    BY <1>1, <2>1
  <2> QED
    BY <1>1, <2>2, d * h \in Int, d * k \in Int
<1>3. ASSUME hi < h PROVE FALSE
  <2>1. PICK k \in Nat : h = hi + 1 + k
    BY <1>1, <1>3, h - hi - 1 \in Nat
  <2>2. d * h = hi * d + d + d * k /\ d * k >= 0
    BY <1>1, <2>1
  <2> QED
    BY <1>1, <2>2, hi * d \in Int, d * k \in Int
<1> QED
  BY <1>1, <1>2, <1>3 DEF h

\* Rounding never leaves the natural numbers.
LEMMA HalfUpNat ==
  ASSUME NEW n \in Nat, NEW d \in Nat \ {0}
  PROVE  HalfUp(n, d) \in Nat
<1>1. 0 * d <= n /\ n <= n * d
  <2>1. n * d = n + n * (d - 1) /\ n * (d - 1) >= 0
    OBVIOUS
  <2> QED
    BY <2>1, n * (d - 1) \in Int
<1>2. 0 \in Int /\ n \in Int
  OBVIOUS
<1>3. 0 <= HalfUp(n, d)
  BY <1>1, <1>2, HalfUpBetween
<1> QED
  BY <1>3, HalfUpError

\* The cash a trade moves differs from quantity * price by at most half a cent,
\* whatever the quantity and the price: rounding never costs or yields more.
THEOREM TotalRounding ==
  ASSUME NEW q \in Nat, NEW p \in Nat
  PROVE  /\ 2 * (CentScale * compute_total(q, p) - q * p) <= CentScale
         /\ 2 * (q * p - CentScale * compute_total(q, p)) <= CentScale
<1>1. q * p \in Int /\ CentScale \in Nat \ {0}
  BY ScalesAreReal
<1> DEFINE t == compute_total(q, p)
<1>2. /\ t \in Int
      /\ 2 * (CentScale * t) <= 2 * (q * p) + CentScale
      /\ 2 * (q * p) < 2 * (CentScale * t) + CentScale
  BY <1>1, HalfUpError DEF compute_total
<1>3. CentScale * t \in Int
  BY <1>1, <1>2
<1> HIDE DEF t
<1> QED
  BY <1>1, <1>2, <1>3 DEF t

\* A total is a number of cents.
LEMMA TotalType ==
  ASSUME NEW q \in Nat, NEW p \in Nat
  PROVE  compute_total(q, p) \in Nat
<1>1. q * p \in Nat
  OBVIOUS
<1> QED
  BY <1>1, HalfUpNat, ScalesAreReal DEF compute_total

\* The minimum of one cent also keeps a price that was rounded to zero out of
\* the transactions table.
LEMMA MinimumMeansPriced ==
  ASSUME NEW q \in Nat, NEW p \in Nat, compute_total(q, p) >= MinTotal
  PROVE  p # 0
<1> SUFFICES ASSUME p = 0 PROVE FALSE
  OBVIOUS
<1>1. CentScale \in Nat \ {0} /\ q * p = 0
  BY ScalesAreReal
<1>2. compute_total(q, p) <= 0
  BY <1>1, HalfUpBetween, 0 * CentScale = 0 DEF compute_total
<1> QED
  BY <1>2, TotalType DEF MinTotal

\* A purchase leaves a well-typed, open position.
LEMMA BuyType ==
  ASSUME NEW pos \in [quantity : Nat, avg : Nat], NEW q \in Nat \ {0}, NEW p \in Nat
  PROVE  /\ apply_buy(pos, q, p) \in [quantity : Nat, avg : Nat]
         /\ apply_buy(pos, q, p).quantity = pos.quantity + q
<1> DEFINE n == pos.quantity * pos.avg + q * p
           d == pos.quantity + q
<1>1. n \in Nat /\ d \in Nat \ {0}
  <2>1. pos.quantity * pos.avg \in Nat /\ q * p \in Nat
    OBVIOUS
  <2> QED
    BY <2>1
<1> HIDE DEF n, d
<1>2. HalfUp(n, d) \in Nat
  BY <1>1, HalfUpNat
<1> QED
  BY <1>1, <1>2 DEF apply_buy, n, d

\* The average price after a purchase lies between any bounds of the price
\* paid and of the average before it; a closed position does not count.
THEOREM AverageStaysBetween ==
  ASSUME NEW pos \in [quantity : Nat, avg : Nat], NEW q \in Nat \ {0}, NEW p \in Nat,
         NEW lo \in Nat, NEW hi \in Nat,
         lo <= p, p <= hi,
         pos.quantity = 0 \/ (lo <= pos.avg /\ pos.avg <= hi)
  PROVE  lo <= apply_buy(pos, q, p).avg /\ apply_buy(pos, q, p).avg <= hi
<1> DEFINE m == pos.quantity
           a == pos.avg
           n == m * a + q * p
           d == m + q
<1>1. m \in Nat /\ a \in Nat
  OBVIOUS
<1> HIDE DEF m, a
<1>2. n \in Nat /\ d \in Nat \ {0} /\ m * a \in Nat /\ q * p \in Nat
  <2>1. m * a \in Nat /\ q * p \in Nat
    BY <1>1
  <2> QED
    BY <1>1, <2>1
<1>3. lo * q <= q * p /\ q * p <= hi * q
  <2>1. q * p = lo * q + q * (p - lo) /\ q * (p - lo) >= 0
    OBVIOUS
  <2>2. hi * q = q * p + q * (hi - p) /\ q * (hi - p) >= 0
    OBVIOUS
  <2> QED
    BY <1>2, <2>1, <2>2, lo * q \in Int, hi * q \in Int
<1>4. lo * m <= m * a /\ m * a <= hi * m
  <2>1. CASE m = 0
    BY <1>1, <2>1
  <2>2. CASE m # 0
    <3>1. lo <= a /\ a <= hi
      BY <2>2 DEF m, a
    <3>2. m * a = lo * m + m * (a - lo) /\ m * (a - lo) >= 0
      BY <1>1, <3>1
    <3>3. hi * m = m * a + m * (hi - a) /\ m * (hi - a) >= 0
      BY <1>1, <3>1
    <3> QED
      BY <1>1, <1>2, <3>2, <3>3, lo * m \in Int, hi * m \in Int
  <2> QED
    BY <2>1, <2>2
<1>5. lo * d = lo * m + lo * q /\ hi * d = hi * m + hi * q
  BY <1>1
<1>6. lo * d <= n /\ n <= hi * d
  BY <1>1, <1>2, <1>3, <1>4, <1>5, lo * m \in Int, hi * m \in Int,
     lo * q \in Int, hi * q \in Int
<1>7. lo <= HalfUp(n, d) /\ HalfUp(n, d) <= hi
  BY <1>2, <1>6, HalfUpBetween
<1> QED
  BY <1>7 DEF apply_buy, m, a

-----------------------------------------------------------------------------
(***************************************************************************)
(* The values of a trade.                                                  *)
(***************************************************************************)

\* A validated quantity is a positive number of stored units.
LEMMA QuantityIsPositive ==
  ASSUME NEW q \in Quantities
  PROVE  q \in Nat \ {0}
<1>1. PICK raw \in RawQuantities : validate_quantity(raw) /\ q = raw \div FineScale
  BY DEF Quantities
<1>2. raw \in Int /\ raw > 0 /\ raw % FineScale = 0 /\ FineScale \in Nat \ {0}
  BY <1>1, BooksAreReal, ScalesAreReal DEF validate_quantity
<1>3. q \in Int /\ raw = FineScale * q
  BY <1>1, <1>2
<1>4. ASSUME q <= 0 PROVE FALSE
  <2>1. FineScale * (0 - q) \in Nat
    BY <1>2, <1>3, <1>4, 0 - q \in Nat
  <2> QED
    BY <1>2, <1>3, <2>1
<1> QED
  BY <1>3, <1>4

\* A positive quote gives a natural price, possibly zero.
LEMMA PriceIsNatural ==
  ASSUME NEW p \in Prices
  PROVE  p \in Nat
<1>1. PICK raw \in RawQuotes : raw > 0 /\ p = HalfUp(raw, FineScale)
  BY DEF Prices, extract_price
<1>2. raw \in Nat /\ FineScale \in Nat \ {0}
  BY <1>1, BooksAreReal, ScalesAreReal
<1> QED
  BY <1>1, <1>2, HalfUpNat

-----------------------------------------------------------------------------
(***************************************************************************)
(* Replaying: the recursive function Replay(txs) is a CHOOSE of a function *)
(* that satisfies its defining equation.  That such a function exists for  *)
(* the transactions of a user is itself part of the invariant.             *)
(***************************************************************************)

\* b satisfies the equation that defines Replay(txs).
IsReplay(b, txs) ==
  b = [n \in 0..Len(txs) |-> IF n = 0 THEN NewBook ELSE Apply(b[n - 1], txs[n])]

\* Replay(txs) satisfies it as soon as some function does.
LEMMA ReplayIsReplay ==
  ASSUME NEW txs, \E b : IsReplay(b, txs)
  PROVE  IsReplay(Replay(txs), txs)
<1>1. IsReplay(CHOOSE b : IsReplay(b, txs), txs)
  OBVIOUS
<1> QED
  BY <1>1 DEF Replay, IsReplay

\* A replay of txs followed by one more transaction.
LEMMA ReplayExtends ==
  ASSUME NEW S, NEW txs \in Seq(S), NEW tx \in S, NEW b, IsReplay(b, txs)
  PROVE  LET more == Append(txs, tx)
             ext == [n \in 0..Len(more) |->
                       IF n = Len(more) THEN Apply(b[Len(txs)], tx) ELSE b[n]]
         IN  IsReplay(ext, more)
<1> DEFINE more == Append(txs, tx)
           ext == [n \in 0..Len(more) |->
                     IF n = Len(more) THEN Apply(b[Len(txs)], tx) ELSE b[n]]
<1>1. /\ Len(txs) \in Nat
      /\ Len(more) = Len(txs) + 1
      /\ \A n \in 1..Len(txs) : more[n] = txs[n]
      /\ more[Len(more)] = tx
  OBVIOUS
<1>2. /\ b[0] = NewBook
      /\ \A n \in 1..Len(txs) : b[n] = Apply(b[n - 1], txs[n])
  BY <1>1 DEF IsReplay
<1>3. ASSUME NEW n \in 0..Len(more)
      PROVE  ext[n] = IF n = 0 THEN NewBook ELSE Apply(ext[n - 1], more[n])
  <2>1. CASE n = 0
    BY <1>1, <1>2, <2>1
  <2>2. CASE n \in 1..Len(txs)
    BY <1>1, <1>2, <2>2
  <2>3. CASE n = Len(more)
    BY <1>1, <2>3
  <2> QED
    BY <1>1, <2>1, <2>2, <2>3
<1> QED
  BY <1>3 DEF IsReplay

\* A replay of txs followed by one more transaction is a replay of txs, then
\* the effect of that transaction.
LEMMA ReplayRestricts ==
  ASSUME NEW S, NEW txs \in Seq(S), NEW tx \in S, NEW b, IsReplay(b, Append(txs, tx))
  PROVE  /\ IsReplay([n \in 0..Len(txs) |-> b[n]], txs)
         /\ b[Len(txs) + 1] = Apply(b[Len(txs)], tx)
<1> DEFINE more == Append(txs, tx)
           pre == [n \in 0..Len(txs) |-> b[n]]
<1>1. /\ Len(txs) \in Nat
      /\ Len(more) = Len(txs) + 1
      /\ \A n \in 1..Len(txs) : more[n] = txs[n]
      /\ more[Len(more)] = tx
  OBVIOUS
<1>2. /\ b[0] = NewBook
      /\ \A n \in 1..Len(more) : b[n] = Apply(b[n - 1], more[n])
  BY <1>1 DEF IsReplay
<1>3. ASSUME NEW n \in 0..Len(txs)
      PROVE  pre[n] = IF n = 0 THEN NewBook ELSE Apply(pre[n - 1], txs[n])
  BY <1>1, <1>2
<1>4. pre = [n \in 0..Len(txs) |-> IF n = 0 THEN NewBook ELSE Apply(pre[n - 1], txs[n])]
  BY <1>3
<1>5. more[Len(txs) + 1] = tx /\ Len(txs) + 1 \in 1..Len(more)
  BY <1>1
<1>6. b[Len(txs) + 1] = Apply(b[Len(txs) + 1 - 1], tx)
  BY <1>2, <1>5
<1>7. Len(txs) + 1 - 1 = Len(txs)
  BY <1>1
<1>8. b[Len(txs) + 1] = Apply(b[Len(txs)], tx)
  BY <1>6, <1>7
<1>9. IsReplay(pre, txs)
  BY <1>4 DEF IsReplay
<1> QED
  BY <1>8, <1>9

-----------------------------------------------------------------------------
(***************************************************************************)
(* The inductive invariant of the books.                                   *)
(***************************************************************************)

\* b is a replay of u's transactions that never overdraws and ends at the books.
Explains(b, u) ==
  /\ b[Len(ledger[u])] = Book(u)
  /\ \A n \in 0..Len(ledger[u]) : Solvent(b[n])

\* Every history can be replayed, and every replay explains the books.
Replayable ==
  \A u \in Users : /\ \E b : IsReplay(b, ledger[u])
                   /\ \A b : IsReplay(b, ledger[u]) => Explains(b, u)

\* The inductive invariant of the books.
BooksInv == BooksTypeOK /\ Replayable /\ AverageWithinPaid

\* What the invariant says of the replay the properties speak of.
LEMMA BooksInvImplies ==
  BooksInv => BooksMatchLedger /\ NeverOverdrawn
<1> SUFFICES ASSUME BooksInv, NEW u \in Users
             PROVE  Explains(Replay(ledger[u]), u)
  BY DEF BooksMatchLedger, NeverOverdrawn, Explains
<1> QED
  BY ReplayIsReplay DEF BooksInv, Replayable

\* New books are right.
LEMMA BooksInitInv == BooksInit => BooksInv
<1> SUFFICES ASSUME BooksInit PROVE BooksInv
  OBVIOUS
<1>1. BooksTypeOK
  BY BooksAreReal DEF BooksInit, BooksTypeOK, NoPosition, Positions
<1>2. ASSUME NEW u \in Users
      PROVE  /\ \E b : IsReplay(b, ledger[u])
             /\ \A b : IsReplay(b, ledger[u]) => Explains(b, u)
  <2>1. ledger[u] = << >> /\ Len(ledger[u]) = 0 /\ Book(u) = NewBook
    BY <1>2 DEF BooksInit, Book, NewBook
  <2>2. Solvent(NewBook)
    BY BooksAreReal DEF Solvent, NewBook, NoPosition
  <2>3. IsReplay([n \in 0..0 |-> NewBook], ledger[u])
    BY <2>1 DEF IsReplay
  <2>4. ASSUME NEW b, IsReplay(b, ledger[u]) PROVE Explains(b, u)
    BY <2>1, <2>2, <2>4 DEF IsReplay, Explains
  <2> QED
    BY <2>3, <2>4
<1>3. AverageWithinPaid
  BY DEF BooksInit, AverageWithinPaid, NoPosition
<1> QED
  BY <1>1, <1>2, <1>3 DEF BooksInv, Replayable

-----------------------------------------------------------------------------
(***************************************************************************)
(* A trade keeps the books right.                                          *)
(***************************************************************************)

\* What an affordable transaction does to the book of its user.
LEMMA ApplyIsSolvent ==
  ASSUME BooksTypeOK, NEW u \in Users, NEW tx \in Transactions, Affordable(u, tx)
  PROVE  /\ Apply(Book(u), tx).cash \in Nat
         /\ Apply(Book(u), tx).position \in [Coins -> Positions]
         /\ Solvent(Apply(Book(u), tx))
         /\ Apply(Book(u), tx) = [cash     |-> Apply(Book(u), tx).cash,
                                  position |-> Apply(Book(u), tx).position]
<1> DEFINE c == tx.coin
           pos == position[u][c]
<1>1. /\ cash[u] \in Nat
      /\ position[u] \in [Coins -> Positions]
      /\ c \in Coins
      /\ pos \in [quantity : Nat, avg : Nat]
      /\ tx.quantity \in Nat \ {0} /\ tx.price \in Nat \ {0} /\ tx.total \in Nat \ {0}
  BY DEF BooksTypeOK, Transactions, Positions
<1>2. CASE tx.side = "BUY"
  <2>1. apply_buy(pos, tx.quantity, tx.price) \in Positions
    BY <1>1, BuyType DEF Positions
  <2>2. cash[u] - tx.total \in Nat
    BY <1>1, <1>2 DEF Affordable
  <2>3. Apply(Book(u), tx) =
          [cash |-> cash[u] - tx.total,
           position |-> [position[u] EXCEPT ![c] = apply_buy(pos, tx.quantity, tx.price)]]
    BY <1>1, <1>2 DEF Apply, Book
  <2>4. [position[u] EXCEPT ![c] = apply_buy(pos, tx.quantity, tx.price)]
          \in [Coins -> Positions]
    BY <1>1, <2>1
  <2> QED
    BY <2>2, <2>3, <2>4 DEF Solvent, Positions
<1>3. CASE tx.side # "BUY"
  <2>1. [pos EXCEPT !.quantity = @ - tx.quantity] \in Positions
    BY <1>1, <1>3 DEF Affordable, Positions
  <2>2. cash[u] + tx.total \in Nat
    BY <1>1
  <2>3. Apply(Book(u), tx) =
          [cash |-> cash[u] + tx.total,
           position |-> [position[u] EXCEPT ![c] = [pos EXCEPT !.quantity = @ - tx.quantity]]]
    BY <1>1, <1>3 DEF Apply, Book
  <2>4. [position[u] EXCEPT ![c] = [pos EXCEPT !.quantity = @ - tx.quantity]]
          \in [Coins -> Positions]
    BY <1>1, <2>1
  <2> QED
    BY <2>2, <2>3, <2>4 DEF Solvent, Positions
<1> QED
  BY <1>2, <1>3

\* The average price of the traded coin stays within what was paid for it.
LEMMA ApplyKeepsAverage ==
  ASSUME BooksTypeOK, AverageWithinPaid,
         NEW u \in Users, NEW tx \in Transactions, Affordable(u, tx),
         position' = [position EXCEPT ![u] = Apply(Book(u), tx).position],
         ledger' = [ledger EXCEPT ![u] = Append(@, tx)]
  PROVE  AverageWithinPaid'
<1> SUFFICES ASSUME NEW v \in Users, NEW c \in Coins, position'[v][c].quantity > 0
             PROVE  \E lo, hi \in PaidPrices(v, c)' :
                      lo <= position'[v][c].avg /\ position'[v][c].avg <= hi
  BY DEF AverageWithinPaid
<1>1. /\ ledger \in [Users -> Seq(Transactions)]
      /\ position \in [Users -> [Coins -> Positions]]
  BY DEF BooksTypeOK
<1>2. PaidPrices(v, c) \subseteq PaidPrices(v, c)'
  <2>1. ASSUME NEW i \in DOMAIN ledger[v]
        PROVE  i \in DOMAIN ledger'[v] /\ ledger'[v][i] = ledger[v][i]
    BY <1>1
  <2> QED
    BY <2>1 DEF PaidPrices
<1>3. CASE v # u \/ c # tx.coin
  <2>1. position'[v][c] = position[v][c]
    BY <1>1, <1>3 DEF Apply, Book
  <2> QED
    BY <1>2, <2>1 DEF AverageWithinPaid
<1>4. CASE v = u /\ c = tx.coin /\ tx.side # "BUY"
  <2>1. position'[v][c] = [position[v][c] EXCEPT !.quantity = @ - tx.quantity]
    BY <1>1, <1>4 DEF Apply, Book
  <2>2. /\ position[v][c] \in [quantity : Nat, avg : Nat]
        /\ tx.quantity \in Nat
    BY <1>1 DEF Positions, Transactions
  <2>3. position'[v][c].avg = position[v][c].avg /\ position[v][c].quantity > 0
    BY <2>1, <2>2
  <2> QED
    BY <1>2, <2>3 DEF AverageWithinPaid
<1>5. CASE v = u /\ c = tx.coin /\ tx.side = "BUY"
  <2> DEFINE pos == position[u][c]
             p == tx.price
  <2>1. /\ pos \in [quantity : Nat, avg : Nat]
        /\ tx.quantity \in Nat \ {0}
        /\ p \in Nat
    BY <1>1 DEF Positions, Transactions
  <2>2. position'[v][c] = apply_buy(pos, tx.quantity, p)
    BY <1>1, <1>5 DEF Apply, Book
  <2>3. p \in PaidPrices(u, c)'
    <3>1. /\ Len(ledger[u]) + 1 \in DOMAIN ledger'[u]
          /\ ledger'[u][Len(ledger[u]) + 1] = tx
      BY <1>1
    <3> QED
      BY <1>5, <3>1 DEF PaidPrices
  <2>4. PaidPrices(u, c) \subseteq Nat
    <3>1. \A i \in DOMAIN ledger[u] : ledger[u][i] \in Transactions
      BY <1>1
    <3> QED
      BY <3>1 DEF PaidPrices, Transactions
  <2>5. CASE pos.quantity = 0
    BY <1>5, <2>1, <2>2, <2>3, <2>5, AverageStaysBetween
  <2>6. CASE pos.quantity # 0
    <3>1. PICK lo, hi \in PaidPrices(u, c) : lo <= pos.avg /\ pos.avg <= hi
      BY <2>1, <2>6 DEF AverageWithinPaid
    <3>2. PICK low \in {lo, p} : low <= lo /\ low <= p
      BY <2>1, <2>4
    <3>3. PICK high \in {hi, p} : hi <= high /\ p <= high
      BY <2>1, <2>4
    <3>4. low <= pos.avg /\ pos.avg <= high
      BY <2>1, <2>4, <3>1, <3>2, <3>3
    <3>5. low <= position'[v][c].avg /\ position'[v][c].avg <= high
      BY <2>1, <2>2, <2>4, <3>2, <3>3, <3>4, AverageStaysBetween
    <3> QED
      BY <1>2, <1>5, <2>3, <3>2, <3>3, <3>5
  <2> QED
    BY <2>5, <2>6
<1> QED
  BY <1>3, <1>4, <1>5

\* The replays of the user who trades are the former ones, one step longer.
LEMMA TradeKeepsReplayable ==
  ASSUME BooksTypeOK, Replayable,
         NEW u \in Users, NEW tx \in Transactions, Affordable(u, tx), Trade(u, tx)
  PROVE  Replayable'
<1> DEFINE txs == ledger[u]
           len == Len(ledger[u])
<1>1. /\ ledger \in [Users -> Seq(Transactions)]
      /\ txs \in Seq(Transactions)
      /\ len \in Nat
      /\ cash \in [Users -> Nat]
      /\ position \in [Users -> [Coins -> Positions]]
  BY DEF BooksTypeOK
<1>2. /\ ledger'[u] = Append(txs, tx)
      /\ Len(ledger'[u]) = len + 1
  BY <1>1 DEF Trade
<1>3. Book(u)' = Apply(Book(u), tx) /\ Solvent(Apply(Book(u), tx))
  <2>1. Book(u)' = [cash     |-> Apply(Book(u), tx).cash,
                    position |-> Apply(Book(u), tx).position]
    BY <1>1 DEF Trade, Book
  <2> QED
    BY <2>1, ApplyIsSolvent
<1>4. ASSUME NEW v \in Users, v # u
      PROVE  ledger'[v] = ledger[v] /\ Book(v)' = Book(v)
  BY <1>1, <1>4 DEF Trade, Book
<1>5. \E b : IsReplay(b, ledger'[u])
  <2>1. PICK b : IsReplay(b, txs)
    BY DEF Replayable
  <2> QED
    BY <1>1, <1>2, <2>1, ReplayExtends
<1>6. ASSUME NEW b, IsReplay(b, ledger'[u]) PROVE Explains(b, u)'
  <2> DEFINE pre == [n \in 0..len |-> b[n]]
  <2>1. IsReplay(pre, txs) /\ b[len + 1] = Apply(b[len], tx)
    BY <1>1, <1>2, <1>6, ReplayRestricts
  <2>2. Explains(pre, u)
    BY <2>1 DEF Replayable
  <2>3. b[len] = Book(u) /\ \A n \in 0..len : Solvent(b[n])
    BY <1>1, <2>2 DEF Explains
  <2>4. b[len + 1] = Book(u)' /\ Solvent(b[len + 1])
    BY <1>3, <2>1, <2>3
  <2>5. \A n \in 0..(len + 1) : Solvent(b[n])
    BY <1>1, <2>3, <2>4
  <2> QED
    BY <1>2, <2>4, <2>5 DEF Explains
<1>7. ASSUME NEW v \in Users
      PROVE  /\ \E b : IsReplay(b, ledger'[v])
             /\ \A b : IsReplay(b, ledger'[v]) => Explains(b, v)'
  <2>1. CASE v = u
    BY <1>5, <1>6, <2>1
  <2>2. CASE v # u
    BY <1>4, <2>2 DEF Replayable, Explains
  <2> QED
    BY <2>1, <2>2
<1> QED
  BY <1>7 DEF Replayable

\* A trade writes rows that pass the CHECK constraints.
LEMMA TradeKeepsTypes ==
  ASSUME BooksTypeOK, NEW u \in Users, NEW tx \in Transactions, Trade(u, tx)
  PROVE  BooksTypeOK'
<1>1. Affordable(u, tx)
  BY DEF Trade
<1>2. cash' \in [Users -> Nat] /\ position' \in [Users -> [Coins -> Positions]]
  BY <1>1, ApplyIsSolvent DEF Trade, BooksTypeOK
<1>3. ledger' \in [Users -> Seq(Transactions)]
  BY DEF Trade, BooksTypeOK
<1> QED
  BY <1>2, <1>3 DEF BooksTypeOK

\* A trade keeps the whole invariant.
LEMMA TradeKeepsBooks ==
  ASSUME BooksInv, NEW u \in Users, NEW tx \in Transactions, Trade(u, tx)
  PROVE  BooksInv'
<1>1. Affordable(u, tx) /\ BooksTypeOK /\ Replayable /\ AverageWithinPaid
  BY DEF Trade, BooksInv
<1>2. BooksTypeOK'
  BY <1>1, TradeKeepsTypes
<1>3. Replayable'
  BY <1>1, TradeKeepsReplayable
<1>4. AverageWithinPaid'
  BY <1>1, ApplyKeepsAverage DEF Trade
<1> QED
  BY <1>2, <1>3, <1>4 DEF BooksInv

\* So does a step that leaves the three tables alone.
LEMMA StutterKeepsBooks ==
  ASSUME BooksInv, UNCHANGED books
  PROVE  BooksInv'
  BY DEF books, BooksInv, BooksTypeOK, Replayable, Explains, Book,
         AverageWithinPaid, PaidPrices

\* Every step of the abstract specification is a trade of well-typed values.
LEMMA LedgerNextTrades ==
  ASSUME LedgerNext
  PROVE  \E u \in Users, tx \in Transactions : Trade(u, tx)
<1>1. PICK u \in Users, side \in Sides, c \in Coins, q \in Quantities, p \in Prices :
        Trade(u, [side |-> side, coin |-> c, quantity |-> q, price |-> p,
                  total |-> compute_total(q, p)])
  BY DEF LedgerNext, TradeBy
<1> DEFINE tx == [side |-> side, coin |-> c, quantity |-> q, price |-> p,
                  total |-> compute_total(q, p)]
<1>2. q \in Nat \ {0}
  BY QuantityIsPositive
<1>3. p \in Nat
  BY PriceIsNatural
<1>4. compute_total(q, p) \in Nat /\ compute_total(q, p) >= MinTotal
  BY <1>1, <1>2, <1>3, TotalType DEF Trade
<1>5. p # 0 /\ compute_total(q, p) # 0
  BY <1>2, <1>3, <1>4, MinimumMeansPriced DEF MinTotal
<1>6. tx \in Transactions
  BY <1>2, <1>3, <1>4, <1>5 DEF Transactions
<1> QED
  BY <1>1, <1>6

\* The books are right in every state of the abstract specification.
THEOREM LedgerKeepsBooks == LedgerSpec => []BooksInv
<1>1. BooksInit => BooksInv
  BY BooksInitInv
<1>2. BooksInv /\ [LedgerNext]_books => BooksInv'
  BY LedgerNextTrades, TradeKeepsBooks, StutterKeepsBooks
<1> QED
  BY <1>1, <1>2, PTL DEF LedgerSpec
=============================================================================
