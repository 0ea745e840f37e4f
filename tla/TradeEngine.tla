---------------------------- MODULE TradeEngine ----------------------------
(***************************************************************************)
(* execute_trade (trade_service.py) as it really runs: several requests,   *)
(* possibly of one user, interleave at every await.  A request resolves    *)
(* the asset, fetches the quote, takes the row lock of the user's          *)
(* portfolio, reads the rows, checks, writes and commits; then it values   *)
(* the portfolio, records a forced snapshot and answers.                   *)
(*                                                                         *)
(* The database is PostgreSQL under READ COMMITTED: a statement sees the   *)
(* rows committed when it starts, SELECT ... FOR UPDATE waits for the      *)
(* row's owner and then reads its committed values, an INSERT waits while  *)
(* another transaction has the same unique key in flight, and a rollback   *)
(* undoes everything the transaction wrote.  Writes are flushed at         *)
(* commit(), so nothing of a trade is visible to others before Commit.     *)
(***************************************************************************)
EXTENDS Ledger, FiniteSets

CONSTANTS
  Requests,    \* concurrent POST /trades/* requests the server handles
  Curated,     \* coins whose asset row exists from start-up
  Listed,      \* coins CoinGecko knows
  None,        \* no owner, no order
  MaxTrades    \* bound: trades per user, committed or under way

ASSUME EngineIsReal ==
  /\ Curated \subseteq Coins
  /\ Listed \subseteq Coins
  /\ None \notin Requests

VARIABLES
  assets,      \* committed rows of assets
  inserting,   \* per coin: the request with an uncommitted assets row, or None
  locker,      \* per user: the request that owns the portfolio row lock, or None
  pc,          \* per request: what it does next, or how it was answered
  order,       \* per request: what it asked for, or None
  price,       \* per request: the price it resolved
  seenCash,    \* per request: the portfolio.cash_balance its session holds
  seenPosition,\* per request: the traded holding its session holds
  summary,     \* per request: the portfolio summary it built
  chart        \* per user: portfolio_snapshots recorded by trades

session == <<order, price, seenCash, seenPosition, summary>>
locks == <<inserting, locker>>
vars == <<books, assets, locks, pc, session, chart>>

Orders == [user : Users, side : Sides, coin : Coins, quantity : Quantities]

\* A portfolio summary: its cash and the quantity it shows per coin.
Summaries == [cash : Nat, holds : [Coins -> Nat]]
NoSummary == [cash |-> 0, holds |-> [c \in Coins |-> 0]]

\* Answers: 201, a 4xx refusal, or a 5xx / lost connection.
Answers == {"new", "created", "refused", "failed"}
\* The awaits of the transaction before it owns the portfolio row ...
Resolving == {"asset", "coin", "insert", "quote", "lock"}
\* ... while it owns it ...
Locked == {"holding", "settle"}
\* ... and after the trade is committed.
Committed == {"summary", "snapshot", "invalidate"}

user(r) == order[r].user
coin(r) == order[r].coin
total(r) == compute_total(order[r].quantity, price[r])

Busy == {r \in Requests : pc[r] \notin Answers}

Init ==
  /\ BooksInit
  /\ assets = Curated
  /\ inserting = [c \in Coins |-> None]
  /\ locker = [u \in Users |-> None]
  /\ pc = [r \in Requests |-> "new"]
  /\ order = [r \in Requests |-> None]
  /\ price = [r \in Requests |-> 0]
  /\ seenCash = [r \in Requests |-> 0]
  /\ seenPosition = [r \in Requests |-> NoPosition]
  /\ summary = [r \in Requests |-> NoSummary]
  /\ chart = [u \in Users |-> << >>]

goto(r, label) == pc' = [pc EXCEPT ![r] = label]

\* A plausible bug: the end of a transaction forgets its uncommitted asset row.
EndTransaction_KeepsInsert(r) ==
  /\ locker' = [u \in Users |-> IF locker[u] = r THEN None ELSE locker[u]]
  /\ UNCHANGED inserting

\* The request's transaction is over: its row locks and its uncommitted asset
\* row are released.
EndTransaction(r) ==
  /\ inserting' = [c \in Coins |-> IF inserting[c] = r THEN None ELSE inserting[c]]
  /\ locker' = [u \in Users |-> IF locker[u] = r THEN None ELSE locker[u]]

\* The session is closed: nothing of what it had loaded survives.
CloseSession(r) ==
  /\ order' = [order EXCEPT ![r] = None]
  /\ price' = [price EXCEPT ![r] = 0]
  /\ seenCash' = [seenCash EXCEPT ![r] = 0]
  /\ seenPosition' = [seenPosition EXCEPT ![r] = NoPosition]
  /\ summary' = [summary EXCEPT ![r] = NoSummary]

\* An exception leaves the handler: get_db rolls back, the client gets an error.
Abort(r, how) ==
  /\ goto(r, how)
  /\ EndTransaction(r)
  /\ CloseSession(r)
  /\ UNCHANGED <<books, assets, chart>>

-----------------------------------------------------------------------------
(***************************************************************************)
(* Plausible bugs.  No action uses them: each takes the place of the       *)
(* definition it is named after, to show that a property can fail.         *)
(***************************************************************************)

\* The minimum amount of one cent is forgotten.
FetchQuote_NoMinimum(r) ==
  /\ pc[r] = "quote"
  /\ \E raw \in RawQuotes :
       IF raw > 0
       THEN /\ price' = [price EXCEPT ![r] = extract_price(raw)]
            /\ goto(r, "lock")
            /\ UNCHANGED <<books, assets, locks, order, seenCash, seenPosition,
                           summary, chart>>
       ELSE Abort(r, "refused")

\* The portfolio row is read without FOR UPDATE.
LockPortfolio_PlainSelect(r) ==
  /\ pc[r] = "lock"
  /\ seenCash' = [seenCash EXCEPT ![r] = cash[user(r)]]
  /\ goto(r, "holding")
  /\ UNCHANGED <<books, assets, locks, order, price, seenPosition, summary, chart>>

\* A sale is not compared with the quantity held.
CanSettle_SellUnchecked(r) ==
  order[r].side = "BUY" => seenCash[r] >= total(r)

\* A sale also resets the average price.
NewPosition_SellResetsAverage(r) ==
  IF order[r].side = "BUY"
  THEN apply_buy(seenPosition[r], order[r].quantity, price[r])
  ELSE [quantity |-> seenPosition[r].quantity - order[r].quantity, avg |-> 0]

\* A refused trade answers without rolling its transaction back.
Refuse_NoRollback(r) ==
  /\ pc[r] = "settle"
  /\ seenCash[r] < total(r)
  /\ goto(r, "refused")
  /\ CloseSession(r)
  /\ UNCHANGED <<books, assets, locks, chart>>

\* The new asset row is committed at once, outside the trade's transaction.
InsertAsset_CommittedAtOnce(r) ==
  /\ pc[r] = "insert"
  /\ assets' = assets \cup {coin(r)}
  /\ goto(r, "quote")
  /\ UNCHANGED <<books, locks, session, chart>>

-----------------------------------------------------------------------------
(***************************************************************************)
(* Before the lock: validation, asset, quote.                              *)
(***************************************************************************)

\* A client sends a trade.
Submit(r) ==
  /\ pc[r] \in Answers
  /\ \E u \in Users, side \in Sides, c \in Coins, raw \in RawQuantities :
       /\ Len(ledger[u]) + Cardinality({b \in Busy : user(b) = u}) < MaxTrades
       /\ IF validate_quantity(raw)
          THEN /\ goto(r, "asset")
               /\ order' = [order EXCEPT ![r] =
                    [user |-> u, side |-> side, coin |-> c,
                     quantity |-> raw \div FineScale]]
          ELSE /\ goto(r, "refused")
               /\ UNCHANGED order
  /\ UNCHANGED <<books, assets, locks, price, seenCash, seenPosition, summary, chart>>

\* get_asset_by_coin_id: the row is committed, or the coin must be looked up.
FindAsset(r) ==
  /\ pc[r] = "asset"
  /\ goto(r, IF coin(r) \in assets THEN "quote" ELSE "coin")
  /\ UNCHANGED <<books, assets, locks, session, chart>>

\* get_coin: CoinGecko confirms that the coin exists, or answers 404.
FetchCoin(r) ==
  /\ pc[r] = "coin"
  /\ \/ /\ coin(r) \in Listed
        /\ goto(r, "insert")
        /\ UNCHANGED <<books, assets, locks, session, chart>>
     \/ /\ coin(r) \notin Listed
        /\ Abort(r, "refused")

\* The SAVEPOINT insert waits for a concurrent insert of the same coin.  If
\* that one was committed, the IntegrityError is caught and its row re-read.
InsertAsset(r) ==
  /\ pc[r] = "insert"
  /\ inserting[coin(r)] = None
  /\ inserting' = IF coin(r) \in assets
                  THEN inserting
                  ELSE [inserting EXCEPT ![coin(r)] = r]
  /\ goto(r, "quote")
  /\ UNCHANGED <<books, assets, locker, session, chart>>

\* get_simple_prices, extract_price, compute_total and the minimum amount.
FetchQuote(r) ==
  /\ pc[r] = "quote"
  /\ \E raw \in RawQuotes :
       IF raw > 0 /\ compute_total(order[r].quantity, extract_price(raw)) >= MinTotal
       THEN /\ price' = [price EXCEPT ![r] = extract_price(raw)]
            /\ goto(r, "lock")
            /\ UNCHANGED <<books, assets, locks, order, seenCash, seenPosition,
                           summary, chart>>
       ELSE Abort(r, "refused")

-----------------------------------------------------------------------------
(***************************************************************************)
(* Under the lock: portfolio row, holding row, checks, commit.             *)
(***************************************************************************)

\* get_portfolio(for_update=True): waits for the row, then reads it.
LockPortfolio(r) ==
  /\ pc[r] = "lock"
  /\ locker[user(r)] = None
  /\ locker' = [locker EXCEPT ![user(r)] = r]
  /\ seenCash' = [seenCash EXCEPT ![r] = cash[user(r)]]
  /\ goto(r, "holding")
  /\ UNCHANGED <<books, assets, inserting, order, price, seenPosition, summary, chart>>

\* The holding row is read and locked.  Only a trade that owns the portfolio
\* row locks a holding of that portfolio, so it never waits here.
ReadHolding(r) ==
  /\ pc[r] = "holding"
  /\ seenPosition' = [seenPosition EXCEPT ![r] = position[user(r)][coin(r)]]
  /\ goto(r, "settle")
  /\ UNCHANGED <<books, assets, locks, order, price, seenCash, summary, chart>>

CanSettle(r) ==
  IF order[r].side = "BUY"
  THEN seenCash[r] >= total(r)
  ELSE seenPosition[r].quantity >= order[r].quantity

NewCash(r) ==
  IF order[r].side = "BUY" THEN seenCash[r] - total(r) ELSE seenCash[r] + total(r)

NewPosition(r) ==
  IF order[r].side = "BUY"
  THEN apply_buy(seenPosition[r], order[r].quantity, price[r])
  ELSE [seenPosition[r] EXCEPT !.quantity = @ - order[r].quantity]

\* INSUFFICIENT_FUNDS or INSUFFICIENT_HOLDINGS.
Refuse(r) ==
  /\ pc[r] = "settle"
  /\ ~CanSettle(r)
  /\ Abort(r, "refused")

\* The rows are written with the values computed in memory, the transaction
\* row is added, and everything is committed at once.  expire_on_commit is
\* off: the session keeps its copies of the portfolio and of the holding.
Commit(r) ==
  /\ pc[r] = "settle"
  /\ CanSettle(r)
  /\ cash' = [cash EXCEPT ![user(r)] = NewCash(r)]
  /\ position' = [position EXCEPT ![user(r)][coin(r)] = NewPosition(r)]
  /\ ledger' = [ledger EXCEPT ![user(r)] =
       Append(@, [side |-> order[r].side, coin |-> coin(r),
                  quantity |-> order[r].quantity, price |-> price[r],
                  total |-> total(r)])]
  /\ assets' = assets \cup {c \in Coins : inserting[c] = r}
  /\ seenCash' = [seenCash EXCEPT ![r] = NewCash(r)]
  /\ seenPosition' = [seenPosition EXCEPT ![r] = NewPosition(r)]
  /\ EndTransaction(r)
  /\ goto(r, "summary")
  /\ UNCHANGED <<order, price, summary, chart>>

-----------------------------------------------------------------------------
(***************************************************************************)
(* After the commit: summary, forced snapshot, answer.                     *)
(***************************************************************************)

\* build_portfolio_summary.  Rows the session already holds keep their
\* in-memory values (no populate_existing here): the cash and the traded
\* holding are its own, the other holdings are read afresh.  Only rows whose
\* committed quantity is positive are returned.
ReadSummary(r) ==
  /\ pc[r] = "summary"
  /\ summary' = [summary EXCEPT ![r] =
       [cash  |-> seenCash[r],
        holds |-> [c \in Coins |->
                    IF c = coin(r) /\ position[user(r)][c].quantity > 0
                    THEN seenPosition[r].quantity
                    ELSE position[user(r)][c].quantity]]]
  /\ goto(r, "snapshot")
  /\ UNCHANGED <<books, assets, locks, order, price, seenCash, seenPosition, chart>>

\* record_snapshot(force=True), committed on its own.
RecordSnapshot(r) ==
  /\ pc[r] = "snapshot"
  /\ chart' = [chart EXCEPT ![user(r)] = Append(@, summary[r])]
  /\ goto(r, "invalidate")
  /\ UNCHANGED <<books, assets, locks, session>>

\* invalidate_ranking_cache and the 201 answer, without an await between them.
\* The ranking cache itself is not a variable of this module.
Answer(r) ==
  /\ pc[r] = "invalidate"
  /\ goto(r, "created")
  /\ CloseSession(r)
  /\ UNCHANGED <<books, assets, locks, chart>>

-----------------------------------------------------------------------------
(***************************************************************************)
(* Failures.                                                               *)
(***************************************************************************)

\* CoinGecko or the database fails at an await: any await but the last, after
\* which nothing can raise.
Fail(r) ==
  /\ pc[r] \in Resolving \cup Locked \cup {"summary", "snapshot"}
  /\ Abort(r, "failed")

\* The backend process stops and starts again: every request under way is
\* lost, PostgreSQL rolls its transaction back.
Restart ==
  /\ Busy # {}
  /\ pc' = [r \in Requests |-> IF r \in Busy THEN "failed" ELSE pc[r]]
  /\ inserting' = [c \in Coins |-> None]
  /\ locker' = [u \in Users |-> None]
  /\ order' = [r \in Requests |-> None]
  /\ price' = [r \in Requests |-> 0]
  /\ seenCash' = [r \in Requests |-> 0]
  /\ seenPosition' = [r \in Requests |-> NoPosition]
  /\ summary' = [r \in Requests |-> NoSummary]
  /\ UNCHANGED <<books, assets, chart>>

-----------------------------------------------------------------------------

\* What the handler does when the database and CoinGecko answer.
Step(r) ==
  \/ FindAsset(r) \/ FetchCoin(r) \/ FetchQuote(r)
  \/ ReadHolding(r) \/ Refuse(r) \/ Commit(r)
  \/ ReadSummary(r) \/ RecordSnapshot(r) \/ Answer(r)

Wait(r) == InsertAsset(r) \/ LockPortfolio(r)

Next ==
  \/ \E r \in Requests : Submit(r) \/ Step(r) \/ Wait(r) \/ Fail(r)
  \/ Restart

Spec == Init /\ [][Next]_vars

\* Every await of a handler ends: queries and CoinGecko calls have timeouts.
\* PostgreSQL queues the waiters of a row or of a unique key, so a waiter is
\* served although the lock is taken again and again: strong fairness.
Fairness ==
  \A r \in Requests :
    /\ WF_vars(Step(r))
    /\ SF_vars(InsertAsset(r))
    /\ SF_vars(LockPortfolio(r))

FairSpec == Spec /\ Fairness

-----------------------------------------------------------------------------
(***************************************************************************)
(* Properties.                                                             *)
(***************************************************************************)

\* Types, the CHECK constraints of the tables a trade writes, and that a
\* request under way has an order: no trade can make the database refuse a row.
TypeOK ==
  /\ BooksTypeOK
  /\ assets \subseteq Coins
  /\ inserting \in [Coins -> Requests \cup {None}]
  /\ locker \in [Users -> Requests \cup {None}]
  /\ pc \in [Requests -> Answers \cup Resolving \cup Locked \cup Committed]
  /\ order \in [Requests -> Orders \cup {None}]
  /\ \A r \in Requests : pc[r] \notin Answers => order[r] \in Orders
  /\ price \in [Requests -> Nat]
  /\ seenCash \in [Requests -> Nat]
  /\ seenPosition \in [Requests -> Positions]
  /\ summary \in [Requests -> Summaries]
  /\ chart \in [Users -> Seq(Summaries)]

\* A row lock is owned exactly by the request that is between taking it and
\* committing: two requests are never past the lock of one portfolio, no lock
\* survives a refusal, a failure or a restart, and an uncommitted asset row
\* belongs to a request that is still trading that coin.
RowsAreOwned ==
  /\ \A r \in Requests : pc[r] \in Locked => locker[user(r)] = r
  /\ \A u \in Users : locker[u] # None =>
       pc[locker[u]] \in Locked /\ user(locker[u]) = u
  /\ \A c \in Coins : inserting[c] # None =>
       pc[inserting[c]] \in {"quote", "lock"} \cup Locked /\ coin(inserting[c]) = c

\* What a request checks and overwrites is what the tables hold: the cash it
\* read with the lock, and the holding it read after, are still current when
\* it decides, whatever other requests committed while it waited.
CopiesAreCurrent ==
  \A r \in Requests :
    /\ pc[r] \in Locked => seenCash[r] = cash[user(r)]
    /\ pc[r] = "settle" => seenPosition[r] = position[user(r)][coin(r)]

Traded(c) ==
  \E u \in Users : \E i \in DOMAIN ledger[u] : ledger[u][i].coin = c

\* The catalogue is the curated coins and the coins somebody really traded: a
\* coin registered on the fly by a trade that is then refused, fails or dies
\* leaves no row, and two first trades of one coin leave one.
CatalogueIsTraded ==
  assets = Curated \cup {c \in Coins : Traded(c)}

\* Every trade request is answered: waiting for a portfolio row or for a
\* concurrent asset insert never lasts forever, whatever the other requests
\* do (the constant lock order of execute_trade, "no deadlock").
EveryRequestAnswered ==
  \A r \in Requests : (pc[r] \notin Answers) ~> (pc[r] \in Answers)

\* The summary sent with a trade, and stored in the chart, shows one state of
\* the portfolio: the books after some prefix of the user's transactions
\* (trade_service.py: "the fresh portfolio summary is returned").
SummaryIsAState ==
  \A r \in Requests : pc[r] \in {"snapshot", "invalidate"} =>
    \E n \in 0..Len(ledger[user(r)]) :
      LET book == Replay(ledger[user(r)])[n]
      IN  /\ summary[r].cash = book.cash
          /\ \A c \in Coins : summary[r].holds[c] = book.position[c].quantity

\* While the price does not move, a user who sold everything owns at most the
\* initial balance (README: the minimum of one cent makes it impossible to
\* exploit the rounding).  Meant for a configuration with a single quote.
FlatUserGainsNothing ==
  \A u \in Users :
    (\A c \in Coins : position[u][c].quantity = 0) => cash[u] <= InitialBalance
=============================================================================
