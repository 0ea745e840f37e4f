------------------------- MODULE TradeEngineProofs -------------------------
(***************************************************************************)
(* The trade engine keeps its invariants and implements the atomic ledger, *)
(* for every set of users, coins, requests, quotes and quantities.         *)
(***************************************************************************)
EXTENDS TradeEngine, LedgerProofs

Priced(r) == price[r] \in Prices /\ total(r) >= MinTotal

\* A request past the asset step trades a coin of the catalogue, or one whose
\* row it is itself about to commit.
Registered(r) == coin(r) \in assets \/ inserting[coin(r)] = r

\* What a request must have done before it waits for the portfolio row.
Prepared(r) ==
  /\ pc[r] \in {"lock"} \cup Locked => Priced(r)
  /\ pc[r] \in {"quote", "lock"} \cup Locked => Registered(r)

\* The inductive invariant.  A request that waits for the portfolio row has a
\* price that reaches the minimum amount, so that what it commits is a
\* transaction the ledger accepts; what it saw under the lock is current.
Inv ==
  /\ TypeOK
  /\ RowsAreOwned
  /\ CopiesAreCurrent
  /\ CatalogueIsTraded
  /\ \A r \in Requests : Prepared(r)

LEMMA InitInv == Init => Inv
<1> SUFFICES ASSUME Init PROVE Inv
  OBVIOUS
<1>1. BooksTypeOK
  BY BooksInitInv DEF Init, BooksInv
<1>2. TypeOK
  BY <1>1, EngineIsReal DEF Init, TypeOK, Answers, Positions, NoPosition, Summaries, NoSummary
<1>3. RowsAreOwned /\ CopiesAreCurrent
  BY DEF Init, RowsAreOwned, CopiesAreCurrent, Locked
<1>4. CatalogueIsTraded
  BY DEF Init, BooksInit, CatalogueIsTraded, Traded
<1> QED
  BY <1>2, <1>3, <1>4 DEF Inv, Init, Prepared, Locked

LEMMA OrderType ==
  ASSUME TypeOK, NEW r \in Requests, pc[r] \notin Answers
  PROVE  /\ order[r] \in Orders
         /\ user(r) \in Users
         /\ coin(r) \in Coins
         /\ order[r].side \in Sides
         /\ order[r].quantity \in Quantities
         /\ order[r].quantity \in Nat \ {0}
<1>1. order[r] \in Orders
  BY DEF TypeOK
<1>2. order[r].quantity \in Quantities
  BY <1>1 DEF Orders
<1> QED
  BY <1>1, <1>2, QuantityIsPositive DEF Orders, user, coin

\* A commit under the lock is one atomic trade of the ledger.
LEMMA CommitIsTrade ==
  ASSUME Inv, NEW r \in Requests, Commit(r)
  PROVE  /\ LedgerNext
         /\ \E tx \in Transactions : tx.coin = coin(r) /\ Trade(user(r), tx)
<1> DEFINE tx == [side |-> order[r].side, coin |-> coin(r),
                  quantity |-> order[r].quantity, price |-> price[r],
                  total |-> total(r)]
           u == user(r)
           c == coin(r)
<1>1. /\ u \in Users /\ c \in Coins /\ order[r].side \in Sides
      /\ order[r].quantity \in Quantities /\ order[r].quantity \in Nat \ {0}
  BY OrderType DEF Inv, Commit, Answers
<1>2. price[r] \in Prices /\ total(r) >= MinTotal
  BY DEF Inv, Prepared, Commit, Locked, Priced
<1>3. price[r] \in Nat \ {0} /\ total(r) \in Nat \ {0}
  <2>1. price[r] \in Nat
    BY <1>2, PriceIsNatural
  <2>2. total(r) \in Nat
    BY <1>1, <2>1, TotalType DEF total
  <2>3. price[r] # 0
    BY <1>1, <1>2, <2>1, MinimumMeansPriced DEF total
  <2> QED
    BY <1>2, <2>1, <2>2, <2>3 DEF MinTotal
<1>4. tx \in Transactions
  BY <1>1, <1>3 DEF Transactions
<1>5. seenCash[r] = cash[u] /\ seenPosition[r] = position[u][c]
  BY DEF Inv, CopiesAreCurrent, Commit, Locked
<1>6. /\ cash \in [Users -> Nat]
      /\ position \in [Users -> [Coins -> Positions]]
  BY DEF Inv, TypeOK, BooksTypeOK
<1>7. Affordable(u, tx)
  BY <1>5 DEF Commit, CanSettle, Affordable
<1>8. cash' = [cash EXCEPT ![u] = Apply(Book(u), tx).cash]
  BY <1>5 DEF Commit, NewCash, Apply, Book
<1>9. position' = [position EXCEPT ![u] = Apply(Book(u), tx).position]
  <2>1. Apply(Book(u), tx).position = [position[u] EXCEPT ![c] = NewPosition(r)]
    BY <1>1, <1>5, <1>6 DEF NewPosition, Apply, Book
  <2> QED
    BY <1>1, <1>6, <2>1 DEF Commit
<1>10. ledger' = [ledger EXCEPT ![u] = Append(@, tx)]
  BY DEF Commit
<1>11. Trade(u, tx)
  BY <1>2, <1>7, <1>8, <1>9, <1>10 DEF Trade, total
<1>12. LedgerNext
  BY <1>1, <1>2, <1>11 DEF LedgerNext, TradeBy, total
<1> QED
  BY <1>4, <1>11, <1>12

-----------------------------------------------------------------------------
(***************************************************************************)
(* Every step keeps the invariant, one conjunct and one action at a time.  *)
(***************************************************************************)

LEMMA TypeStep ==
  ASSUME Inv, [Next]_vars
  PROVE  TypeOK'
<1> USE DEF Answers, Resolving, Locked, Committed
<1> SUFFICES ASSUME Next PROVE TypeOK'
  BY DEF vars, books, locks, session, Inv, TypeOK, BooksTypeOK
<1>1. TypeOK
  BY DEF Inv
<1>2. NoPosition \in Positions /\ NoSummary \in Summaries
  BY DEF NoPosition, Positions, NoSummary, Summaries
<1>3. ASSUME NEW r \in Requests, NEW how \in Answers, Abort(r, how)
      PROVE  TypeOK'
  BY <1>1, <1>2, <1>3 DEF TypeOK, BooksTypeOK, Abort, goto, EndTransaction, CloseSession, books
<1>4. ASSUME NEW r \in Requests, Submit(r) PROVE TypeOK'
  <2>1. PICK u \in Users, side \in Sides, c \in Coins, raw \in RawQuantities :
          IF validate_quantity(raw)
          THEN /\ goto(r, "asset")
               /\ order' = [order EXCEPT ![r] =
                    [user |-> u, side |-> side, coin |-> c,
                     quantity |-> raw \div FineScale]]
          ELSE /\ goto(r, "refused")
               /\ UNCHANGED order
    BY <1>4 DEF Submit
  <2>2. CASE validate_quantity(raw)
    <3>1. raw \div FineScale \in Quantities
      BY <2>2 DEF Quantities
    <3>2. [user |-> u, side |-> side, coin |-> c, quantity |-> raw \div FineScale] \in Orders
      BY <3>1 DEF Orders
    <3> QED
      BY <1>1, <1>4, <2>1, <2>2, <3>2 DEF Submit, goto, TypeOK, BooksTypeOK, books, locks
  <2>3. CASE ~validate_quantity(raw)
    BY <1>1, <1>4, <2>1, <2>3 DEF Submit, goto, TypeOK, BooksTypeOK, books, locks
  <2> QED
    BY <2>2, <2>3
<1>5. ASSUME NEW r \in Requests, FindAsset(r) PROVE TypeOK'
  BY <1>1, <1>5 DEF FindAsset, goto, TypeOK, BooksTypeOK, books, locks, session
<1>6. ASSUME NEW r \in Requests, FetchCoin(r) PROVE TypeOK'
  <2>1. CASE Abort(r, "refused")
    BY <1>3, <2>1
  <2>2. CASE ~Abort(r, "refused")
    BY <1>1, <1>6, <2>2 DEF FetchCoin, goto, TypeOK, BooksTypeOK, books, locks, session
  <2> QED
    BY <2>1, <2>2
<1>7. ASSUME NEW r \in Requests, InsertAsset(r) PROVE TypeOK'
  BY <1>1, <1>7 DEF InsertAsset, goto, TypeOK, BooksTypeOK, books, session
<1>8. ASSUME NEW r \in Requests, FetchQuote(r) PROVE TypeOK'
  <2>1. CASE Abort(r, "refused")
    BY <1>3, <2>1
  <2>2. CASE ~Abort(r, "refused")
    <3>1. PICK raw \in RawQuotes :
            /\ raw > 0
            /\ price' = [price EXCEPT ![r] = extract_price(raw)]
            /\ goto(r, "lock")
            /\ UNCHANGED <<books, assets, locks, order, seenCash, seenPosition,
                           summary, chart>>
      BY <1>8, <2>2 DEF FetchQuote
    <3>2. extract_price(raw) \in Nat
      BY <3>1, PriceIsNatural DEF Prices
    <3> QED
      BY <1>1, <1>8, <3>1, <3>2 DEF FetchQuote, goto, TypeOK, BooksTypeOK, books, locks
  <2> QED
    BY <2>1, <2>2
<1>9. ASSUME NEW r \in Requests, LockPortfolio(r) PROVE TypeOK'
  <2>1. cash[user(r)] \in Nat
    BY <1>1, <1>9, OrderType DEF LockPortfolio, TypeOK, BooksTypeOK
  <2> QED
    BY <1>1, <1>9, <2>1 DEF LockPortfolio, goto, TypeOK, BooksTypeOK, books
<1>10. ASSUME NEW r \in Requests, ReadHolding(r) PROVE TypeOK'
  <2>1. position[user(r)][coin(r)] \in Positions
    BY <1>1, <1>10, OrderType DEF ReadHolding, TypeOK, BooksTypeOK
  <2> QED
    BY <1>1, <1>10, <2>1 DEF ReadHolding, goto, TypeOK, BooksTypeOK, books, locks
<1>11. ASSUME NEW r \in Requests, Refuse(r) PROVE TypeOK'
  BY <1>3, <1>11 DEF Refuse
<1>12. ASSUME NEW r \in Requests, Commit(r) PROVE TypeOK'
  <2>1. BooksTypeOK'
    <3>1. user(r) \in Users
      BY <1>1, <1>12, OrderType DEF Commit
    <3> QED
      BY <1>1, <1>12, <3>1, CommitIsTrade, TradeKeepsTypes DEF TypeOK
  <2>2. /\ user(r) \in Users /\ coin(r) \in Coins
        /\ cash'[user(r)] = NewCash(r)
        /\ position'[user(r)][coin(r)] = NewPosition(r)
    <3>1. user(r) \in Users /\ coin(r) \in Coins
      BY <1>1, <1>12, OrderType DEF Commit
    <3> QED
      BY <1>1, <1>12, <3>1 DEF Commit, TypeOK, BooksTypeOK
  <2>3. NewCash(r) \in Nat /\ NewPosition(r) \in Positions
    BY <2>1, <2>2 DEF BooksTypeOK
  <2> QED
    BY <1>1, <1>12, <2>1, <2>3 DEF Commit, EndTransaction, goto, TypeOK
<1>13. ASSUME NEW r \in Requests, ReadSummary(r) PROVE TypeOK'
  <2> DEFINE s == [cash  |-> seenCash[r],
                   holds |-> [c \in Coins |->
                     IF c = coin(r) /\ position[user(r)][c].quantity > 0
                     THEN seenPosition[r].quantity
                     ELSE position[user(r)][c].quantity]]
  <2>1. user(r) \in Users
    BY <1>1, <1>13, OrderType DEF ReadSummary
  <2>2. s \in Summaries
    BY <1>1, <2>1 DEF TypeOK, BooksTypeOK, Positions, Summaries
  <2> QED
    BY <1>1, <1>13, <2>2 DEF ReadSummary, goto, TypeOK, BooksTypeOK, books, locks
<1>14. ASSUME NEW r \in Requests, RecordSnapshot(r) PROVE TypeOK'
  <2>1. user(r) \in Users
    BY <1>1, <1>14, OrderType DEF RecordSnapshot
  <2> QED
    BY <1>1, <1>14, <2>1 DEF RecordSnapshot, goto, TypeOK, BooksTypeOK, books, locks, session
<1>15. ASSUME NEW r \in Requests, Answer(r) PROVE TypeOK'
  BY <1>1, <1>2, <1>15 DEF Answer, goto, CloseSession, TypeOK, BooksTypeOK, books, locks
<1>16. ASSUME NEW r \in Requests, Fail(r) PROVE TypeOK'
  BY <1>3, <1>16 DEF Fail
<1>17. ASSUME Restart PROVE TypeOK'
  BY <1>1, <1>2, <1>17 DEF Restart, Busy, TypeOK, BooksTypeOK, books
<1> QED
  BY <1>4, <1>5, <1>6, <1>7, <1>8, <1>9, <1>10, <1>11, <1>12, <1>13, <1>14, <1>15,
     <1>16, <1>17 DEF Next, Step, Wait

\* The actions that open or close no transaction and write no table, with the
\* one request they advance.
Quiet(r) ==
  \/ Submit(r) \/ FindAsset(r)
  \/ (FetchCoin(r) \/ FetchQuote(r)) /\ ~Abort(r, "refused")
  \/ ReadHolding(r) \/ ReadSummary(r) \/ RecordSnapshot(r) \/ Answer(r)

\* The ways a request can lose its transaction.
Lose(r) == \E how \in Answers : Abort(r, how)

LEMMA StepCases ==
  ASSUME Next
  PROVE  \/ Restart
         \/ \E r \in Requests :
              Quiet(r) \/ InsertAsset(r) \/ LockPortfolio(r) \/ Commit(r) \/ Lose(r)
<1>1. "refused" \in Answers /\ "failed" \in Answers
  BY DEF Answers
<1> QED
  BY <1>1 DEF Next, Step, Wait, Quiet, Lose, Refuse, Fail

\* A quiet step leaves every lock and every other request as it was, and moves
\* its own request from one await to the next.
LEMMA QuietStep ==
  ASSUME TypeOK, NEW r \in Requests, Quiet(r)
  PROVE  /\ UNCHANGED <<books, assets, locks>>
         /\ \A q \in Requests \ {r} :
              /\ pc'[q] = pc[q] /\ order'[q] = order[q] /\ price'[q] = price[q]
              /\ seenCash'[q] = seenCash[q] /\ seenPosition'[q] = seenPosition[q]
         /\ \/ pc[r] \notin Locked \cup {"quote", "lock"} /\ pc'[r] \notin Locked \cup {"quote", "lock"}
            \/ /\ pc'[r] = "quote" /\ coin(r) \in assets
               /\ pc[r] = "asset" /\ order'[r] = order[r]
            \/ /\ pc'[r] = "lock" /\ pc[r] = "quote"
               /\ order'[r] = order[r]
               /\ Priced(r)'
            \/ /\ ReadHolding(r) /\ pc'[r] = "settle"
               /\ order'[r] = order[r] /\ price'[r] = price[r]
<1> USE DEF Answers, Resolving, Locked, Committed
<1>1. CASE Submit(r)
  BY <1>1 DEF Submit, goto, TypeOK
<1>2. CASE FindAsset(r)
  BY <1>2 DEF FindAsset, goto, TypeOK, session
<1>3. CASE FetchCoin(r) /\ ~Abort(r, "refused")
  BY <1>3 DEF FetchCoin, goto, TypeOK, session
<1>4. CASE FetchQuote(r) /\ ~Abort(r, "refused")
  <2>1. PICK raw \in RawQuotes :
          /\ raw > 0 /\ compute_total(order[r].quantity, extract_price(raw)) >= MinTotal
          /\ price' = [price EXCEPT ![r] = extract_price(raw)]
          /\ goto(r, "lock")
          /\ UNCHANGED <<books, assets, locks, order, seenCash, seenPosition,
                         summary, chart>>
    BY <1>4 DEF FetchQuote
  <2>2. price'[r] = extract_price(raw) /\ order'[r] = order[r]
    BY <2>1 DEF TypeOK
  <2>3. Priced(r)'
    BY <2>1, <2>2 DEF Priced, Prices, total
  <2> QED
    BY <1>4, <2>1, <2>3 DEF FetchQuote, goto, TypeOK
<1>5. CASE ReadHolding(r)
  BY <1>5 DEF ReadHolding, goto, TypeOK
<1>6. CASE ReadSummary(r)
  BY <1>6 DEF ReadSummary, goto, TypeOK
<1>7. CASE RecordSnapshot(r)
  BY <1>7 DEF RecordSnapshot, goto, TypeOK, session
<1>8. CASE Answer(r)
  BY <1>8 DEF Answer, goto, CloseSession, TypeOK
<1> QED
  BY <1>1, <1>2, <1>3, <1>4, <1>5, <1>6, <1>7, <1>8 DEF Quiet
\* A request that loses its transaction leaves the others and the tables alone
\* and gives back whatever it had locked or inserted.
LEMMA LoseStep ==
  ASSUME TypeOK, NEW r \in Requests, Lose(r)
  PROVE  /\ UNCHANGED <<books, assets>>
         /\ pc'[r] \in Answers
         /\ \A q \in Requests \ {r} :
              /\ pc'[q] = pc[q] /\ order'[q] = order[q] /\ price'[q] = price[q]
              /\ seenCash'[q] = seenCash[q] /\ seenPosition'[q] = seenPosition[q]
         /\ EndTransaction(r)
  BY DEF Lose, Abort, goto, CloseSession, TypeOK

\* RowsAreOwned in the next state, in three parts.
LEMMA OwnedParts ==
  ASSUME \A q \in Requests : pc'[q] \in Locked => locker'[order'[q].user] = q,
         \A u \in Users, q \in Requests \cup {None} : locker'[u] = q /\ q # None =>
           pc'[q] \in Locked /\ order'[q].user = u,
         \A c \in Coins, q \in Requests \cup {None} : inserting'[c] = q /\ q # None =>
           pc'[q] \in {"quote", "lock"} \cup Locked /\ order'[q].coin = c,
         TypeOK'
  PROVE  RowsAreOwned'
<1>1. \A u \in Users : locker'[u] \in Requests \cup {None}
  BY DEF TypeOK
<1>2. \A c \in Coins : inserting'[c] \in Requests \cup {None}
  BY DEF TypeOK
<1> QED
  BY <1>1, <1>2 DEF RowsAreOwned, user, coin

LEMMA OwnedStep ==
  ASSUME Inv, [Next]_vars
  PROVE  RowsAreOwned'
<1> USE DEF Locked, Answers
<1>1. TypeOK /\ RowsAreOwned /\ TypeOK'
  BY TypeStep DEF Inv
<1>2. CASE UNCHANGED vars
  BY <1>1, <1>2 DEF RowsAreOwned, user, coin, vars, locks, session
<1>3. CASE Restart
  BY <1>1, <1>3 DEF Restart, Busy, RowsAreOwned, TypeOK
<1>4. ASSUME NEW r \in Requests, Quiet(r) PROVE RowsAreOwned'
  <2>1. ASSUME NEW q \in Requests, pc'[q] \in Locked PROVE locker'[order'[q].user] = q
    BY <1>1, <1>4, <2>1, QuietStep DEF RowsAreOwned, user, locks, ReadHolding
  <2>2. ASSUME NEW u \in Users, NEW q \in Requests, locker'[u] = q, q # None
        PROVE  pc'[q] \in Locked /\ order'[q].user = u
    <3>1. locker[u] = q /\ pc[q] \in Locked /\ order[q].user = u
      BY <1>1, <1>4, <2>2, QuietStep DEF RowsAreOwned, user, locks
    <3> QED
      BY <1>1, <1>4, <3>1, QuietStep
  <2>3. ASSUME NEW c \in Coins, NEW q \in Requests, inserting'[c] = q, q # None
        PROVE  pc'[q] \in {"quote", "lock"} \cup Locked /\ order'[q].coin = c
    <3>1. inserting[c] = q /\ pc[q] \in {"quote", "lock"} \cup Locked /\ order[q].coin = c
      BY <1>1, <1>4, <2>3, QuietStep DEF RowsAreOwned, coin, locks
    <3> QED
      BY <1>1, <1>4, <3>1, QuietStep
  <2> QED
    BY <1>1, <2>1, <2>2, <2>3, OwnedParts
<1>5. ASSUME NEW r \in Requests, InsertAsset(r) PROVE RowsAreOwned'
  <2>1. ASSUME NEW q \in Requests, pc'[q] \in Locked PROVE locker'[order'[q].user] = q
    BY <1>1, <1>5, <2>1 DEF InsertAsset, goto, session, RowsAreOwned, TypeOK, user
  <2>2. ASSUME NEW u \in Users, NEW q \in Requests, locker'[u] = q, q # None
        PROVE  pc'[q] \in Locked /\ order'[q].user = u
    BY <1>1, <1>5, <2>2 DEF InsertAsset, goto, session, RowsAreOwned, TypeOK, user
  <2>3. ASSUME NEW c \in Coins, NEW q \in Requests, inserting'[c] = q, q # None
        PROVE  pc'[q] \in {"quote", "lock"} \cup Locked /\ order'[q].coin = c
    BY <1>1, <1>5, <2>3 DEF InsertAsset, goto, session, RowsAreOwned, TypeOK, coin
  <2> QED
    BY <1>1, <2>1, <2>2, <2>3, OwnedParts
<1>6. ASSUME NEW r \in Requests, LockPortfolio(r) PROVE RowsAreOwned'
  <2>0. user(r) \in Users
    BY <1>1, <1>6, OrderType DEF LockPortfolio
  <2>1. ASSUME NEW q \in Requests, pc'[q] \in Locked PROVE locker'[order'[q].user] = q
    BY <1>1, <1>6, <2>0, <2>1, EngineIsReal DEF LockPortfolio, goto, RowsAreOwned, TypeOK, user
  <2>2. ASSUME NEW u \in Users, NEW q \in Requests, locker'[u] = q, q # None
        PROVE  pc'[q] \in Locked /\ order'[q].user = u
    BY <1>1, <1>6, <2>0, <2>2 DEF LockPortfolio, goto, RowsAreOwned, TypeOK, user
  <2>3. ASSUME NEW c \in Coins, NEW q \in Requests, inserting'[c] = q, q # None
        PROVE  pc'[q] \in {"quote", "lock"} \cup Locked /\ order'[q].coin = c
    BY <1>1, <1>6, <2>3 DEF LockPortfolio, goto, RowsAreOwned, TypeOK, coin
  <2> QED
    BY <1>1, <2>1, <2>2, <2>3, OwnedParts
<1>7. ASSUME NEW r \in Requests, EndTransaction(r),
             pc'[r] \notin Locked,
             \A q \in Requests \ {r} : pc'[q] = pc[q] /\ order'[q] = order[q]
      PROVE  RowsAreOwned'
  <2>1. ASSUME NEW q \in Requests, pc'[q] \in Locked PROVE locker'[order'[q].user] = q
    <3>1. q # r /\ user(q) \in Users /\ locker[user(q)] = q
      BY <1>1, <1>7, <2>1, OrderType DEF RowsAreOwned
    <3> QED
      BY <1>7, <3>1 DEF EndTransaction, user
  <2>2. ASSUME NEW u \in Users, NEW q \in Requests, locker'[u] = q, q # None
        PROVE  pc'[q] \in Locked /\ order'[q].user = u
    BY <1>1, <1>7, <2>2, EngineIsReal DEF EndTransaction, RowsAreOwned, user
  <2>3. ASSUME NEW c \in Coins, NEW q \in Requests, inserting'[c] = q, q # None
        PROVE  pc'[q] \in {"quote", "lock"} \cup Locked /\ order'[q].coin = c
    BY <1>1, <1>7, <2>3, EngineIsReal DEF EndTransaction, RowsAreOwned, coin
  <2> QED
    BY <1>1, <2>1, <2>2, <2>3, OwnedParts
<1>8. ASSUME NEW r \in Requests, Commit(r) PROVE RowsAreOwned'
  <2>1. pc'[r] = "summary" /\ \A q \in Requests \ {r} : pc'[q] = pc[q] /\ order'[q] = order[q]
    BY <1>1, <1>8 DEF Commit, goto, TypeOK
  <2> QED
    BY <1>7, <1>8, <2>1 DEF Commit
<1>9. ASSUME NEW r \in Requests, Lose(r) PROVE RowsAreOwned'
  BY <1>1, <1>7, <1>9, LoseStep
<1> QED
  BY <1>2, <1>3, <1>4, <1>5, <1>6, <1>8, <1>9, StepCases

LEMMA CopiesStep ==
  ASSUME Inv, [Next]_vars
  PROVE  CopiesAreCurrent'
<1> USE DEF Locked, Answers
<1>1. TypeOK /\ BooksTypeOK /\ RowsAreOwned /\ CopiesAreCurrent
  BY DEF Inv, TypeOK
<1>2. CASE UNCHANGED vars
  BY <1>1, <1>2 DEF CopiesAreCurrent, user, coin, vars, books, session
<1>3. CASE Restart
  BY <1>1, <1>3 DEF Restart, Busy, CopiesAreCurrent, TypeOK
<1>4. ASSUME NEW r \in Requests, Quiet(r) PROVE CopiesAreCurrent'
  <2>1. CASE ReadHolding(r)
    BY <1>1, <2>1, OrderType DEF ReadHolding, goto, books, CopiesAreCurrent, TypeOK, user, coin
  <2>2. CASE ~ReadHolding(r)
    BY <1>1, <1>4, <2>2, QuietStep DEF books, CopiesAreCurrent, user, coin
  <2> QED
    BY <2>1, <2>2
<1>5. ASSUME NEW r \in Requests, InsertAsset(r) PROVE CopiesAreCurrent'
  BY <1>1, <1>5 DEF InsertAsset, goto, books, session, CopiesAreCurrent, TypeOK, user, coin
<1>6. ASSUME NEW r \in Requests, LockPortfolio(r) PROVE CopiesAreCurrent'
  BY <1>1, <1>6 DEF LockPortfolio, goto, books, CopiesAreCurrent, TypeOK, user, coin
<1>7. ASSUME NEW r \in Requests, Commit(r) PROVE CopiesAreCurrent'
  <2>1. ASSUME NEW q \in Requests \ {r}, pc[q] \in Locked
        PROVE  /\ user(q) # user(r) /\ user(q) \in Users
               /\ cash'[user(q)] = cash[user(q)] /\ position'[user(q)] = position[user(q)]
    BY <1>1, <1>7, <2>1, OrderType DEF Commit, RowsAreOwned, BooksTypeOK
  <2>2. /\ pc'[r] = "summary"
        /\ \A q \in Requests \ {r} :
             /\ pc'[q] = pc[q] /\ order'[q] = order[q]
             /\ seenCash'[q] = seenCash[q] /\ seenPosition'[q] = seenPosition[q]
    BY <1>1, <1>7 DEF Commit, goto, TypeOK
  <2> QED
    BY <1>1, <2>1, <2>2 DEF CopiesAreCurrent, user, coin
<1>8. ASSUME NEW r \in Requests, Lose(r) PROVE CopiesAreCurrent'
  BY <1>1, <1>8, LoseStep DEF books, CopiesAreCurrent, user, coin
<1> QED
  BY <1>2, <1>3, <1>4, <1>5, <1>6, <1>7, <1>8, StepCases
\* A commit adds the traded coin to the catalogue and to the traded coins.
LEMMA CatalogueStep ==
  ASSUME Inv, [Next]_vars
  PROVE  CatalogueIsTraded'
<1> USE DEF Locked, Answers
<1>1. TypeOK /\ BooksTypeOK /\ RowsAreOwned /\ CatalogueIsTraded
  BY DEF Inv, TypeOK
<1>2. ASSUME UNCHANGED <<books, assets>> PROVE CatalogueIsTraded'
  BY <1>1, <1>2 DEF books, CatalogueIsTraded, Traded
<1>3. ASSUME NEW r \in Requests, Commit(r) PROVE CatalogueIsTraded'
  <2> DEFINE u == user(r)
             txs == ledger[u]
  <2>1. u \in Users /\ coin(r) \in Coins /\ pc[r] = "settle" /\ Registered(r)
    BY <1>1, <1>3, OrderType DEF Commit, Inv, Prepared
  <2>2. assets' = assets \cup {coin(r)}
    <3>1. \A c \in Coins : inserting[c] = r => c = coin(r)
      BY <1>1, EngineIsReal DEF RowsAreOwned
    <3> QED
      BY <1>3, <2>1, <3>1 DEF Commit, Registered
  <2>3. PICK tx \in Transactions : tx.coin = coin(r) /\ Trade(u, tx)
    BY <1>3, CommitIsTrade
  <2>4. /\ ledger' = [ledger EXCEPT ![u] = Append(txs, tx)]
        /\ ledger \in [Users -> Seq(Transactions)]
    BY <1>1, <2>1, <2>3 DEF Trade, BooksTypeOK
  <2>5. /\ DOMAIN Append(txs, tx) = 1..(Len(txs) + 1)
        /\ DOMAIN txs = 1..Len(txs)
        /\ Len(txs) \in Nat
        /\ Append(txs, tx)[Len(txs) + 1] = tx
        /\ \A i \in 1..Len(txs) : Append(txs, tx)[i] = txs[i]
    BY <2>1, <2>4
  <2>6. ASSUME NEW c \in Coins PROVE Traded(c)' <=> (Traded(c) \/ c = coin(r))
    <3>1. ASSUME Traded(c) PROVE Traded(c)'
      BY <2>1, <2>4, <2>5, <3>1 DEF Traded
    <3>2. ASSUME c = coin(r) PROVE Traded(c)'
      <4>1. Len(txs) + 1 \in DOMAIN ledger'[u] /\ ledger'[u][Len(txs) + 1] = tx
        BY <2>1, <2>4, <2>5
      <4> QED
        BY <2>1, <2>3, <3>2, <4>1 DEF Traded
    <3>3. ASSUME Traded(c)', c # coin(r) PROVE Traded(c)
      <4>1. PICK v \in Users : \E i \in DOMAIN ledger'[v] : ledger'[v][i].coin = c
        BY <3>3 DEF Traded
      <4>2. CASE v # u
        BY <2>1, <2>4, <4>1, <4>2 DEF Traded
      <4>3. CASE v = u
        <5>1. PICK i \in 1..(Len(txs) + 1) : Append(txs, tx)[i].coin = c
          BY <2>1, <2>4, <2>5, <4>1, <4>3
        <5>2. i \in 1..Len(txs)
          BY <2>3, <2>5, <3>3, <5>1
        <5> QED
          BY <2>1, <2>5, <5>1, <5>2 DEF Traded
      <4> QED
        BY <4>2, <4>3
    <3> QED
      BY <3>1, <3>2, <3>3
  <2> QED
    BY <1>1, <2>1, <2>2, <2>6 DEF CatalogueIsTraded
<1>4. Restart => UNCHANGED <<books, assets>>
  BY DEF Restart
<1>5. \A r \in Requests : Quiet(r) \/ Lose(r) => UNCHANGED <<books, assets>>
  BY <1>1, QuietStep, LoseStep
<1>6. \A r \in Requests : InsertAsset(r) \/ LockPortfolio(r) => UNCHANGED <<books, assets>>
  BY DEF InsertAsset, LockPortfolio
<1> QED
  BY <1>2, <1>3, <1>4, <1>5, <1>6, StepCases DEF vars

\* Nobody takes away the price or the asset row a request has prepared.
LEMMA PreparedStep ==
  ASSUME Inv, [Next]_vars
  PROVE  \A r \in Requests : Prepared(r)'
<1> USE DEF Locked, Answers, Prepared
<1>1. TypeOK /\ RowsAreOwned
  BY DEF Inv
<1> SUFFICES ASSUME NEW q \in Requests
             PROVE  Prepared(q)'
  OBVIOUS
<1>2. Prepared(q)
  BY DEF Inv
<1>3. CASE UNCHANGED vars
  BY <1>2, <1>3 DEF vars, locks, session, Priced, Registered, total, coin
<1>4. CASE Restart
  BY <1>1, <1>4 DEF Restart, Busy, TypeOK
<1>5. ASSUME NEW r \in Requests, Quiet(r)
      PROVE  Prepared(q)'
  <2>1. CASE q # r
    BY <1>1, <1>2, <1>5, <2>1, QuietStep DEF locks, Priced, Registered, total, coin
  <2>2. CASE q = r
    <3>1. CASE ReadHolding(r)
      BY <1>1, <1>2, <2>2, <3>1 DEF ReadHolding, goto, locks, Priced, Registered, total, coin
    <3>2. CASE ~ReadHolding(r)
      BY <1>1, <1>2, <1>5, <2>2, <3>2, QuietStep DEF locks, Registered, coin
    <3> QED
      BY <3>1, <3>2
  <2> QED
    BY <2>1, <2>2
<1>6. ASSUME NEW r \in Requests, InsertAsset(r)
      PROVE  Prepared(q)'
  <2>1. coin(r) \in Coins
    BY <1>1, <1>6, OrderType DEF InsertAsset
  <2> QED
    BY <1>1, <1>2, <1>6, <2>1, EngineIsReal
       DEF InsertAsset, goto, session, TypeOK, Priced, Registered, total, coin
<1>7. ASSUME NEW r \in Requests, LockPortfolio(r)
      PROVE  Prepared(q)'
  BY <1>1, <1>2, <1>7 DEF LockPortfolio, goto, TypeOK, Priced, Registered, total, coin
<1>8. ASSUME NEW r \in Requests, EndTransaction(r), assets \subseteq assets',
             pc'[r] \notin {"quote", "lock"} \cup Locked,
             \A p \in Requests \ {r} :
               pc'[p] = pc[p] /\ order'[p] = order[p] /\ price'[p] = price[p]
      PROVE  Prepared(q)'
  <2>1. pc'[q] \in {"quote", "lock"} \cup Locked => q # r /\ coin(q) \in Coins
    BY <1>1, <1>8, OrderType
  <2> QED
    BY <1>2, <1>8, <2>1 DEF EndTransaction, Priced, Registered, total, coin
<1>9. ASSUME NEW r \in Requests, Commit(r)
      PROVE  Prepared(q)'
  <2>1. pc'[r] = "summary" /\ \A p \in Requests \ {r} :
          pc'[p] = pc[p] /\ order'[p] = order[p] /\ price'[p] = price[p]
    BY <1>1, <1>9 DEF Commit, goto, TypeOK
  <2> QED
    BY <1>8, <1>9, <2>1 DEF Commit
<1>10. ASSUME NEW r \in Requests, Lose(r)
       PROVE  Prepared(q)'
  BY <1>1, <1>8, <1>10, LoseStep
<1> QED
  BY <1>3, <1>4, <1>5, <1>6, <1>7, <1>9, <1>10, StepCases

-----------------------------------------------------------------------------
(***************************************************************************)
(* The theorems.                                                           *)
(***************************************************************************)

\* Every reachable state satisfies the inductive invariant: types, row
\* ownership, current copies, catalogue, and orders ready to be committed.
THEOREM EngineInvariant == Spec => []Inv
<1>1. Init => Inv
  BY InitInv
<1>2. Inv /\ [Next]_vars => Inv'
  BY TypeStep, OwnedStep, CopiesStep, CatalogueStep, PreparedStep DEF Inv
<1> QED
  BY <1>1, <1>2, PTL DEF Spec

\* No trade makes the database refuse a row: every table keeps its CHECK
\* constraints and every request its types.
THEOREM TypeSafety == Spec => []TypeOK
<1>1. Inv => TypeOK
  BY DEF Inv
<1> QED
  BY <1>1, EngineInvariant, PTL

\* Row locks and uncommitted asset rows belong to the one request that is
\* between taking them and committing, through refusals, failures and restarts.
THEOREM Ownership == Spec => []RowsAreOwned
<1>1. Inv => RowsAreOwned
  BY DEF Inv
<1> QED
  BY <1>1, EngineInvariant, PTL

\* What execute_trade checks and overwrites under the lock is never stale.
THEOREM NoStaleCopies == Spec => []CopiesAreCurrent
<1>1. Inv => CopiesAreCurrent
  BY DEF Inv
<1> QED
  BY <1>1, EngineInvariant, PTL

\* get_or_create_asset leaves a row exactly for curated and traded coins.
THEOREM Catalogue == Spec => []CatalogueIsTraded
<1>1. Inv => CatalogueIsTraded
  BY DEF Inv
<1> QED
  BY <1>1, EngineInvariant, PTL

\* Refinement: whatever the interleaving of the requests, each trade happens
\* atomically at its commit and no other step touches the books.
THEOREM EngineImplementsLedger == Spec => LedgerSpec
<1>1. Init => BooksInit
  BY DEF Init
<1>2. Inv /\ [Next]_vars => [LedgerNext]_books
  <2> SUFFICES ASSUME Inv, [Next]_vars PROVE LedgerNext \/ UNCHANGED books
    OBVIOUS
  <2>1. CASE UNCHANGED vars
    BY <2>1 DEF vars
  <2>2. CASE Restart
    BY <2>2 DEF Restart
  <2>3. ASSUME NEW r \in Requests, Commit(r) PROVE LedgerNext
    BY <2>3, CommitIsTrade
  <2>4. ASSUME NEW r \in Requests,
               Quiet(r) \/ InsertAsset(r) \/ LockPortfolio(r) \/ Lose(r)
        PROVE  UNCHANGED books
    BY <2>4, QuietStep, LoseStep DEF Inv, InsertAsset, LockPortfolio
  <2> QED
    BY <2>1, <2>2, <2>3, <2>4, StepCases
<1> QED
  BY <1>1, <1>2, EngineInvariant, PTL DEF Spec, LedgerSpec

\* Under every interleaving, failure and restart the stored books are exactly
\* what the user's transactions say.
THEOREM EngineKeepsBooks == Spec => []BooksMatchLedger
<1>1. BooksInv => BooksMatchLedger
  BY BooksInvImplies
<1> QED
  BY <1>1, EngineImplementsLedger, LedgerKeepsBooks, PTL

\* Simultaneous purchases or sales never overdraw a portfolio.
THEOREM EngineNeverOverdraws == Spec => []NeverOverdrawn
<1>1. BooksInv => NeverOverdrawn
  BY BooksInvImplies
<1> QED
  BY <1>1, EngineImplementsLedger, LedgerKeepsBooks, PTL

\* The average price of an open position stays within the prices paid.
THEOREM EngineKeepsAverage == Spec => []AverageWithinPaid
<1>1. BooksInv => AverageWithinPaid
  BY DEF BooksInv
<1> QED
  BY <1>1, EngineImplementsLedger, LedgerKeepsBooks, PTL
=============================================================================
