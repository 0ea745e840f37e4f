------------------------------- MODULE Ledger -------------------------------
(***************************************************************************)
(* What the trade engine promises: every accepted trade happens at one     *)
(* instant, on one user's books, and the books are always exactly what the *)
(* user's transactions, replayed in order from the initial balance, give.  *)
(*                                                                         *)
(* The variables are the three tables a trade writes: portfolios           *)
(* (cash_balance), holdings (quantity, avg_buy_price) and transactions.  A *)
(* holdings row that does not exist is the zero position: execute_trade    *)
(* treats the two alike.                                                   *)
(***************************************************************************)
EXTENDS TradeMath, Sequences

CONSTANTS
  Users,            \* users with a portfolio
  Coins,            \* CoinGecko ids a request may name
  InitialBalance,   \* cash of a new portfolio, in cents
  RawQuantities,    \* quantities a client may ask for, raw
  RawQuotes         \* quotes CoinGecko may give, raw

ASSUME BooksAreReal ==
  /\ InitialBalance \in Nat
  /\ RawQuantities \subseteq Int
  /\ RawQuotes \subseteq Int

VARIABLES
  cash,       \* portfolios.cash_balance of each user
  position,   \* holdings row of each user and coin
  ledger      \* transactions of each user, in commit order

books == <<cash, position, ledger>>

Sides == {"BUY", "SELL"}
Quantities == {raw \div FineScale : raw \in {x \in RawQuantities : validate_quantity(x)}}
Prices == {extract_price(raw) : raw \in {x \in RawQuotes : x > 0}}
Positions == [quantity : Nat, avg : Nat]
\* Rows of transactions, with the CHECK constraints of the table.
Transactions ==
  [side : Sides, coin : Coins, quantity : Nat \ {0}, price : Nat \ {0},
   total : Nat \ {0}]

NoPosition == [quantity |-> 0, avg |-> 0]

-----------------------------------------------------------------------------
(***************************************************************************)
(* Replaying transactions.                                                 *)
(***************************************************************************)

NewBook == [cash |-> InitialBalance, position |-> [c \in Coins |-> NoPosition]]

\* The effect of one transaction row on the books of its user.
Apply(book, tx) ==
  IF tx.side = "BUY"
  THEN [cash     |-> book.cash - tx.total,
        position |-> [book.position EXCEPT
                        ![tx.coin] = apply_buy(@, tx.quantity, tx.price)]]
  ELSE [cash     |-> book.cash + tx.total,
        position |-> [book.position EXCEPT
                        ![tx.coin].quantity = @ - tx.quantity]]

\* Replay(txs)[n] is the book after the first n transactions of txs.
Replay(txs) ==
  LET book[n \in 0..Len(txs)] ==
        IF n = 0 THEN NewBook ELSE Apply(book[n - 1], txs[n])
  IN  book

Book(u) == [cash |-> cash[u], position |-> position[u]]

\* A book without debt: no negative cash and no negative quantity.
Solvent(book) ==
  /\ book.cash >= 0
  /\ \A c \in Coins : book.position[c].quantity >= 0

\* What user u ever paid for coin c.
PaidPrices(u, c) ==
  {ledger[u][i].price : i \in {j \in DOMAIN ledger[u] :
                                 ledger[u][j].side = "BUY" /\ ledger[u][j].coin = c}}

-----------------------------------------------------------------------------
(***************************************************************************)
(* The abstract specification: atomic trades.                              *)
(***************************************************************************)

BooksInit ==
  /\ cash = [u \in Users |-> InitialBalance]
  /\ position = [u \in Users |-> [c \in Coins |-> NoPosition]]
  /\ ledger = [u \in Users |-> << >>]

\* A purchase needs the cash, a sale the coins.
Affordable(u, tx) ==
  IF tx.side = "BUY"
  THEN cash[u] >= tx.total
  ELSE position[u][tx.coin].quantity >= tx.quantity

Trade(u, tx) ==
  /\ tx.total = compute_total(tx.quantity, tx.price)
  /\ tx.total >= MinTotal
  /\ Affordable(u, tx)
  /\ cash' = [cash EXCEPT ![u] = Apply(Book(u), tx).cash]
  /\ position' = [position EXCEPT ![u] = Apply(Book(u), tx).position]
  /\ ledger' = [ledger EXCEPT ![u] = Append(@, tx)]

\* Some trade of user u, at any validated quantity and any quoted price.
TradeBy(u) ==
  \E side \in Sides, c \in Coins, q \in Quantities, p \in Prices :
    Trade(u, [side |-> side, coin |-> c, quantity |-> q, price |-> p,
              total |-> compute_total(q, p)])

LedgerNext == \E u \in Users : TradeBy(u)

LedgerSpec == BooksInit /\ [][LedgerNext]_books

-----------------------------------------------------------------------------
(***************************************************************************)
(* Properties of the books.                                                *)
(***************************************************************************)

\* Types and CHECK constraints of the three tables: cash_balance >= 0,
\* quantity >= 0, avg_buy_price >= 0, and positive transaction rows.
BooksTypeOK ==
  /\ cash \in [Users -> Nat]
  /\ position \in [Users -> [Coins -> Positions]]
  /\ ledger \in [Users -> Seq(Transactions)]

\* The stored cash and positions, average price included, are what the user's
\* transactions say: models/holding.py keeps holdings "derived from
\* transactions but stored explicitly", so a lost update, a trade applied
\* twice or a row written without its transaction breaks the equality.
BooksMatchLedger ==
  \A u \in Users : Replay(ledger[u])[Len(ledger[u])] = Book(u)

\* No point of the history is overdrawn: replaying the transactions in commit
\* order never passes through negative cash or a negative quantity (two
\* simultaneous purchases cannot exceed the balance).
NeverOverdrawn ==
  \A u \in Users : \A n \in 0..Len(ledger[u]) : Solvent(Replay(ledger[u])[n])

\* The average price of an open position, rounded at every purchase, stays
\* between two prices the user really paid for that coin.
AverageWithinPaid ==
  \A u \in Users, c \in Coins :
    position[u][c].quantity > 0 =>
      \E lo, hi \in PaidPrices(u, c) :
        lo <= position[u][c].avg /\ position[u][c].avg <= hi
=============================================================================
