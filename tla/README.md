# Crypto Arena: TLA+ models, checks and proofs

Crypto Arena is a trading game. Players get a fictional cash balance, buy and
sell crypto at CoinGecko prices, and are ranked by performance. The backend is
FastAPI with asyncio, SQLAlchemy and PostgreSQL; the frontend is React.

This directory holds TLA+ modules translated from the code under `src/`, the
TLC configurations that check small instances, and TLAPS proofs that hold for
every value of the constants. `PROJECT.json` maps each definition to the lines
it stands for, and lists the hazards, runs, mutants and theorems.

1. [Parts of the system](#1-parts-of-the-system)
2. [Modules](#2-modules)
3. [Runs](#3-runs)
4. [Fairness](#4-fairness)
5. [Proofs](#5-proofs)
6. [Where the code and its comments disagree](#6-where-the-code-and-its-comments-disagree)
7. [Not modelled](#7-not-modelled)
8. [Plan](#8-plan)

## 1. Parts of the system

Paths are relative to `src/backend/app` and `src/frontend/src`.

### Backend

| Component | State | Operations | Hard behaviour | What makes it correct |
|---|---|---|---|---|
| **Trade engine** `services/trade_service.py` | rows of `portfolios`, `holdings`, `transactions`; the copies in the session | `execute_trade` (buy, sell): asset, quote, row lock, checks, commit, summary, snapshot | one user's requests interleave at every await; failure or restart between any two; rounding | books equal to the replayed transactions, never overdrawn, each trade atomic, every request answered |
| **Asset catalogue** `services/asset_service.py` | rows of `assets` | `get_or_create_asset` inside a SAVEPOINT | two first trades of one coin; the first inserter rolls back later | exactly the curated and the traded coins |
| **Valuation** `services/portfolio_service.py` | none of its own | `value_portfolio`, `build_portfolio_summary`, `get_portfolio` | two reads in two statements; missing prices; session copies | a summary is a state the portfolio had |
| **Snapshots** `services/portfolio_service.py` | rows of `portfolio_snapshots` | `record_snapshot` (hourly or forced) | check-then-insert without a lock | at most one unforced point an hour; a point is a real state |
| **Database sessions** `database/session.py` | the transaction, the identity map | `get_db`: rollback on error, close | copies survive a commit (`expire_on_commit=False`) | nothing of a failed request stays |
| **Leaderboard** `services/leaderboard_service.py` | `_ranking_cache`, one entry | `compute_ranking`, `paginate_ranking`, `invalidate_ranking_cache` | computation spans three awaits, invalidation in between | rows made of committed books; fair order; bounded staleness |
| **TTL cache** `services/cache.py` | entries with an expiry | `get`, `get_stale`, `set`, `delete` | limit on entries, stale fallback | a stale value is never served as fresh; the limit holds |
| **CoinGecko client** `services/coingecko_service.py` | caches, in-flight futures, semaphore | prices, markets, detail, history, retries | single flight, leader failure or cancellation, batches all stale or none | every waiter ends with an answer of its own |
| **Accounts** `services/auth_service.py`, `routers/auth.py`, `routers/profile.py` | rows of `users` | register, log in, rename, OAuth link or create | check-then-write over unique keys, a slow hash in between | unique e-mail and username; one portfolio per user |
| **Neon Auth verifier** `services/neon_auth_service.py` | JWKS and time of last refresh | `verify`, refresh throttle, lock | key rotation, concurrent refreshes | at most one refresh a minute; a rotated key is found in the end |
| **Start-up** `database/init_db.py`, `migrations.py`, `seed.py`, `main.py` | schema and curated rows | idempotent scripts | none while serving | gives the initial state of the models |
| **HTTP plumbing** `middleware/`, `exceptions.py`, `routers/health.py` | none | error to status mapping | none | the answer's class: 201, 4xx, 5xx |

### Frontend

| Component | State | Operations | Hard behaviour | What makes it correct |
|---|---|---|---|---|
| **Session** `context/`, `services/apiClient.ts`, the sign-in pages, the route guards | token in localStorage, `AppState`, requests in flight | restore, login, register, Google/GitHub sign-in, logout, rename, 401 handling | every request may be answered after the session it belongs to | the user and the portfolio shown belong to the token; no page blank, no spinner for ever |
| **Data hooks** `hooks/` | last result per hook, superseded requests | `useAsync`, `usePortfolio`, `useDebounce` | answers out of order, unmount, an aborted request that had settled | only the latest request is shown as an answer |
| **Trade form** `components/trade/`, `pages/CryptoDetailPage.tsx`, `utils/validation.ts` | text, side, dialog, trade in flight | type, fill, submit, confirm, dismiss | coin, price and portfolio change behind the form; a failed answer for a trade that was made | orders checked, sent once (for the coin shown they are not: section 6); the summary is the outcome |
| **Pages** `pages/`, `components/` | page number, order, range, filter, search, sort | pagination, selects, search, retry, the fetch after a rename | list, filter, text and debounced text change at different moments; errors hidden behind old rows | never blank, a way on after a failure, sorted; the right question is asked in the end |

### How they interact

- A **trade** calls the catalogue, the CoinGecko client, then valuation and
  snapshots in the same database session, and finally invalidates the ranking
  cache. Its only mutual exclusion is `SELECT ... FOR UPDATE` on the user's
  portfolio row.
- The **ranking** reads every portfolio and holding, asks CoinGecko for prices,
  and stores its result in a cache of the process. It takes no lock and never
  looks back at whether it was invalidated meanwhile.
- **Registration** and **renaming** also invalidate the ranking.
- The **frontend** sends one request per action, and pushes the portfolio a
  trade returned into the shared state that `usePortfolio` also refreshes.
- The **CoinGecko client** stands between all of them and the quotes: trades,
  rankings and the market pages wait for the same semaphore and share its cache.

## 2. Modules

```
TradeMath            arithmetic, rounding
  Ledger             atomic trades (abstract)       <- LedgerProofs
    TradeEngine      execute_trade, await by await  <- TradeEngineProofs
      MCTradeEngine
    Leaderboard      ranking cache beside trades    <- LeaderboardProofs
      MCLeaderboard
CoinGecko            cache, single flight, retries  <- CoinGeckoProofs
  MCCoinGecko
LatestAnswer         promise of a hook (abstract)
  UseAsync           the hook and its requests      <- UseAsyncProofs
    Pages            list pages, two hooks          <- PagesProofs
      MCPages
    CoinPage         page of a coin, trade form     <- CoinPageProofs
      MCCoinPage
TradeForm            what the form computes
    CoinPage
Session              token, AppState, guards        <- SessionProofs
  MCSession
```

`A` above an indented `B` is extended or instantiated by `B`. A module of proofs
extends the one it stands beside; `TradeEngineProofs` and `LeaderboardProofs` also
use `LedgerProofs`, which has the arithmetic of `TradeMath`, `PagesProofs`
instantiates `UseAsyncProofs` for each of its hooks, and `CoinPageProofs` has the
lemmas about `TradeForm`.

### TradeMath

The pure helpers of `trade_service.py`. A `Decimal` column is an integer that
counts its last stored decimal: cents, 1e-8 coin, 1e-8 EUR. What arrives from
outside (a requested quantity, a quote) is finer, so it is counted in
`1/FineScale` of a stored unit; this keeps the rounding of `extract_price` and
the "at most 8 decimals" test of `validate_quantity` real. `CentScale` is the
number of quantity-times-price units in a cent, 10^14 in the code and small in
the runs. A value that is not finite or missing is refused by the code like one
that is not positive, and is represented by such a value. A quote too small for
the 8 decimals really becomes the price 0: it is the minimum amount that
refuses it.

### Ledger

The abstract specification. Its variables are the three tables a trade writes:
`cash` (`portfolios.cash_balance`), `position` (`holdings`) and `ledger`
(`transactions`). `TradeBy(u)` is one atomic trade. A missing holdings row is
the zero position, which `execute_trade` treats alike.

`Replay(txs)[n]` is the book after the first `n` transactions. The books are
not declared equal to it: the tables are updated incrementally, as in the code,
and the equality is a property.

### TradeEngine

Every await of `execute_trade` is a step of a request:

| `pc` | Action | Code |
|---|---|---|
| `new`, or answered | `Submit` | request validation, `validate_quantity` |
| `asset` | `FindAsset` | `get_asset_by_coin_id` |
| `coin` | `FetchCoin` | `get_coin`: 404 for an unknown coin |
| `insert` | `InsertAsset` | SAVEPOINT insert; waits for a concurrent insert of the coin |
| `quote` | `FetchQuote` | `get_simple_prices`, `extract_price`, `compute_total`, the minimum |
| `lock` | `LockPortfolio` | `get_portfolio(for_update=True)` |
| `holding` | `ReadHolding` | the locked holding row |
| `settle` | `Refuse`, `Commit` | checks, writes, `commit()` |
| `summary` | `ReadSummary` | `build_portfolio_summary` on the session's copies |
| `snapshot` | `RecordSnapshot` | `record_snapshot(force=True)` |
| `invalidate` | `Answer` | `invalidate_ranking_cache`, 201 |
| any but the last | `Fail` | an exception; `get_db` rolls back |
| any | `Restart` | the process stops; PostgreSQL rolls back |

`locker` and `inserting` are what PostgreSQL knows of the row locks and of the
uncommitted asset rows. `seenCash` and `seenPosition` are the session's copies:
the request decides and writes with them, not with the tables. After the commit
they survive (`expire_on_commit=False`), which is why `ReadSummary` mixes them
with fresh rows. The database itself is external: READ COMMITTED statements,
row locks, unique keys and rollback, as the code relies on them.

### Leaderboard

A trade here is one step of `Ledger`, which `EngineImplementsLedger` justifies,
followed by the end of its request: `EndTrade` invalidates and answers,
`FailTrade` is a summary or snapshot that failed, after which nothing is
invalidated. A reader goes through `Open` (cache miss), `ReadPortfolios`,
`ReadHoldings` and `Store`, one per await of `compute_ranking`; there is no
single flight, so several may compute at once. A price fetch returns a quote
for any subset of the coins, none at all when CoinGecko is down, and a holding
without a quote counts at its average price. `performance` rounds to two
decimals as the code does, and `ahead` is the sort key. `began` is a ghost: the
transactions that were committed when the computation began. It only serves
`RowsAreReal`.

### CoinGecko

The tasks of one event loop: a step runs from one await to the next. A request
asks for one key (`_get_json`: market pages, coins, charts, searches) or for the
prices of several coins (`get_simple_prices`).

| Step | Code |
|---|---|
| `AskKey`, `get_simple_prices` | look up the cache, join the fetch in flight or lead one; the missing coins, batch by batch |
| `Acquire` | the semaphore admits the one that waits longest and the call is sent |
| `Receive` | status 200: store, resolve the future, forget it; or the next batch |
| `Refuse`, `Fail`, `WakeUp` | a status that is not retried; one that is, with its sleep outside the semaphore |
| `FallBack` | the stale value of a key; of a batch only when every coin has one |
| `Cancel`, `CancelFollower`, `Resume` | cancellation of a leader or of a follower; a follower runs again |
| `Expire`, `Move` | an entry's lifetime ends; the market moves |

The cache is a dictionary whose entries keep their place in the order of storing,
so `evict` drops the expired ones and, when that makes no room, the one that comes
first. The prices of a batch are stored one by one in any order. What is cached
is named by the state of the market it describes, a counter, which is
enough to say which of two answers is older. `newest`, `floor`, `asked` and
`unlisted` are ghosts.

### LatestAnswer and UseAsync

`LatestAnswer` is what a page may rely on: one question at a time, and what is
shown as its answer answers it; an older answer stays on screen only while the
question is open or was refused. `UseAsync` is the hook itself with the requests
it gave up: `abort()` does not help when a request had settled already, and only
the `active` flag keeps its callbacks from being applied. `KeepsItsPromise` is
the refinement, checked in both hooks of `Pages` and proved for every set of
parameters. `Refetch` may come at any time: the pages call it after an error, and
the profile after a saved rename.

### Pages

Ten sections, each with its main hook (`list`), and on the markets page a second
one (`remote`), the CoinGecko search that is on when nothing listed matches.
A view is the set of blocks that the conditions of the JSX let through
(`MarketsView`, `LeaderboardView`, ...), so "blank" is the empty set. A render
and the effects it triggers are one step; `RemoteRenders` gives the second hook
its text on every step, as every render does. The sort column and direction
influence nothing but the order of the rows, so they are quantified in
`TableIsSorted` and are no variables. `Renamed` is the end of a rename that was
saved: the profile fetches itself again, over the data it shows.

### TradeForm and CoinPage

`TradeForm` has the pure functions of the form, on quantities counted in their
last decimal and money in cents; `NaN`, the text that cannot be read and the text
`String()` writes with an exponent are kept. `CoinPage` adds the page: the coin of
the URL, the hook with the coin on screen and its price, the form keyed by that
coin, the portfolio shown, the requests in flight and the server.

Each answer to the hook brings one of the coin's `Quotes`, so that on the way back
to the coin on screen the form stays and its price changes under it
(`CoinAnswers`, `Overtaken`). The hook keeps the previous coin while another one
loads and when that one fails, and with it the previous coin's form; `confirm`
sends `Trade(url, form)` all the same, with the ghost `shown` for the coin that the
form names.

The server handles a request in one step (what `TradeEngine` shows of it) with the
arithmetic of `TradeMath`: `Settled` rounds the total half up to the cent before it
moves the cash, and `Allowed` has the checks, the maximum quantity included. A
refused order changes nothing, so its answer is the `Fail` of a request that was
not served. An answer is delivered, or lost, in a step of its own. `Left` is what
leaving does to a request: the refresh sent on opening is aborted, the one of the
retry button has no signal and goes on, and so does a trade.

A portfolio is named by its place in the server's history, so "older" has a
meaning. `shown`, `checked`, `changed` and `excuses` are ghosts that record what
the user saw when the order was confirmed and why the page may be behind.

### Session

One browser tab. Actions are what the user does (`SubmitLogin`,
`SubmitRegistration`, `SocialSignIn`, `Prefill`, `Rename`, `Trade`, `Refresh`,
`Logout`, `Navigate`, `Load`) and the answers of requests (`LoggedIn`,
`Restored`, `GotPortfolio`, `Renamed`, `Refused`, ...). `Renders` does what
React does after a dispatch: when the guards redirect, or restoring ends, the page
left aborts its requests and the next one sends its own (`Mounts`), otherwise the
page stays (`Stays`). The reducer's branches keep their
names. A request remembers the token it was sent with; `old` and `stray` are
ghosts that tell the answers of an earlier session apart.

## 3. Runs

| Run | Checks | Result |
|---|---|---|
| `trade` | `TypeOK`, `BooksMatchLedger`, `NeverOverdrawn`, `AverageWithinPaid`, `RowsAreOwned`, `CopiesAreCurrent`, `CatalogueIsTraded`, refinement of `LedgerSpec` | pass, 252,988 states |
| `trade_liveness` | `EveryRequestAnswered` | pass, 21,775 states |
| `torn_summary` | `SummaryIsAState` | violated, see section 6 |
| `rounding` | `FlatUserGainsNothing` | violated, see section 6 |
| `leaderboard` | `LeaderboardTypeOK`, `RankingIsFair`, `RowsAreReal`, `StaleRankingsDieOut` | pass, 145,622 states |
| `stale_ranking` | `RankingShowsAnsweredTrades` | violated, see section 6 |
| `coingecko` | `CoinGeckoTypeOK`, `SingleFlight`, `AnswersNeverGoBack`, `NoSilentGap`, `KeysLastTheirTTL`, `EveryRequestEnds` | pass, 418,242 states |
| `pages` | `PagesTypeOK`, `NeverBlank`, `FailureIsNotADeadEnd`, `TableIsSorted`, `ListKeepsItsPromise`, `RemoteKeepsItsPromise`, `SearchSettles` | pass, 112,119 states |
| `coin_page` | `CoinPageTypeOK`, `OneTradePerForm`, `OrdersWereChecked`, `PreviewIsTheOutcome`, `ShownPortfolioIsCurrent`, `FormIsFreedAgain` | pass, 685,746 states |
| `wrong_coin` | `OrderIsForTheCoinShown` | violated, see section 6 |
| `session` | `SessionTypeOK`, `IdentityFollowsToken`, `PortfolioFollowsUser`, `NoBlankPage`, `SpinnersEnd` | pass, 96,541 states |
| `logout_undone` | `LoggedOutStaysOut` | violated, see section 6 |

Each property of a passing run has a mutant in `PROJECT.json`: a plausible bug
in a mapped definition (the lock is dropped, a sale is not compared with the
quantity, a refusal does not roll back, an average is not weighted) under which
that same run finds the property violated. The mutated definitions stand in the
modules, are named `<definition>_<bug>`, and no action uses them.

**trade.** One user with two concurrent requests: every conflict the portfolio
lock must resolve is between two requests of one user. Three coins cover the
catalogue: `btc` curated, `sol` known to CoinGecko but without a row, `xyz`
unknown. Raw quantities 4, 6 and 8 are one unit, a quantity with too many
decimals, and two units; the raw quotes 1, 12 and 28 are one that rounds to the
price 0 and two whose totals and averages have to be rounded. Seven cents are
too few for two purchases at the high price, so a purchase that loses the race
must be refused. `MaxTrades = 3` allows buy, buy, sell: both branches of the
average and a sale against it. Requests are interchangeable (`RequestSymmetry`).

**trade_liveness.** Two users and one unregistered coin, so that each waits for
the other's asset insert and for its own portfolio row. Two requests are enough
for a cycle, as every wait is for one owner. No symmetry, which would be
unsound here.

**leaderboard.** Two readers and two players, with two trades in all, so that
each can fall before, between or after a reader's two statements. The initial
balance 20,000 makes a gain of one cent half a hundredth of a percent: players
of different wealth do tie on the rounded percentage, and the second sort key
is exercised.

`MaxTrades` ends the trading; what remains is whether the rankings stored late,
or never invalidated after a `FailTrade`, die out. The TTL is two ticks so that
it is longer than any single step.

**coingecko.** Three requests: two that may ask for the one key, which is what
leading and following needs, and one for the prices of two coins, in one batch.
One of the coins may be missing from an answer. The cache has two entries for
three keys, so a full cache evicts both expired entries and fresh ones. One
retry, two slots, one move of the market: enough for an answer that is older
than another.

**pages.** Two orders (or ranges), page numbers up to three, two pages in all,
page size two: the first page of the market is full and the last is not. Three
coins with one unknown figure, so that sorting meets minus infinity; a text that
finds a listed coin and one that finds none, so that the remote search goes on
and off. One superseded request per hook may still settle.

**coin_page.** Two coins, one without a quote, the other with two prices. A cent is
two units of quantity times price, so that half a coin at the price 3 is a cent and
a half: its total is rounded up by the server, and the preview must agree. At the
price 6 it costs more than there is. Half a coin and the whole cash
are what can be typed or filled in. Two trades and two requests in flight: a
second order while the first, or a refresh, is under way; one superseded request
of the coin's hook.

**wrong_coin.** The same instance.

**session.** Two users and two tokens: the session of another user, or a later
session of the same one. Two requests in flight are the least that lets one
session's request be answered in another. Private pages without a portfolio
behave alike and are one.

The bounds are `MaxTrades` (`Submit`, `CommitTrade`, `confirm`), `MaxRequests`,
`MaxLogins`, `MaxAbandoned`, `MaxNumber`, `MaxMoves` and the TTL. They are
guards of the actions that begin something, never of those that end it; where a
page sends a request by itself the bound stands on the action that opens it.
The one exception is the token of `SignIn`: once `MaxLogins` are issued, a
Google or GitHub sign-in under way can only fail.
Deadlock checking is off because a run ends once its trades, logins or moves are
used up and every request is answered.

## 4. Fairness

- `TradeEngine!Fairness`: weak fairness of `Step(r)`: a handler continues when
  its await is over, and database queries and CoinGecko calls end. Strong
  fairness of `InsertAsset(r)` and `LockPortfolio(r)`: PostgreSQL queues the
  waiters of a row lock and of a unique key, so a waiter is served although the
  lock is taken again and again by others. Nothing is assumed of `Submit`,
  `Fail` and `Restart`: clients need not ask and failures need not happen.
- `Leaderboard!FairSpec`: weak fairness of `Tick` only: time passes. Readers
  and trades may stop anywhere; the property holds because an entry that is not
  replaced expires, and because a computation that began after the last trade
  reads the final books. A reader that began before it and never ends never
  stores; one that stores late is covered by the TTL.

- `CoinGecko!FairSpec`: weak fairness of `Progress(r)`: the event loop runs
  every task that can run, sleeps are over, and httpx times out
  (`COINGECKO_TIMEOUT_SECONDS`), so a call ends in one way or another. Nothing
  is assumed of cancellations, expiries or the market.
- `Pages!FairSpec`: for each text, weak fairness of `Debounce` while that text is
  in the box: a timer fires unless the next keystroke resets it. Nothing is assumed
  of clicks and answers.
- `CoinPage!FairSpec`, `Session!FairSpec`: weak fairness of `Answer(s)` for each
  request in flight: `fetch` resolves or rejects in the end. Which of the answers
  it is, is left open.

## 5. Proofs

### Assumptions

Each module names what it assumes of its constants, and TLC evaluates it on the
instances it checks.

| Assumption | What it says |
|---|---|
| `ScalesAreReal`, `BooksAreReal`, `EngineIsReal` | scales are positive integers, the maximum quantity and the initial balance natural numbers, raw values integers, curated and listed coins are coins |
| `LeaderboardIsReal` | finitely many users and coins (they are rows of tables), a positive initial balance (performance divides by it), usernames in a strict order |
| `CoinGeckoAssumption` | positive limits, keys that are no coins, finite sets of coins asked for |
| `ListingIsReal` | finitely many coins on a page, each with its own place, and figures that are numbers or unknown |
| `PagesAssumption`, `CoinPageAssumption`, `TradeFormAssumption`, `SessionAssumption` | a first page and order, quotes that are natural numbers or missing, typed texts with integer values, percentages up to 100, server prices that are positive, positive bounds |
| `NoneIsNothing`, `NoneIsNoRanking`, the rest of the above | the marks `None` and `NaN` differ from what they stand in for |
| `NothingIsNoParam` | a hypothesis of the theorems about `UseAsync`: no dependency is `Nothing`; `NothingIsAsked` shows it for both hooks of `Pages` |

Where nothing is said of them, users, coins, requests, readers and texts are
arbitrary sets, finite or not.

### The argument

Every safety property that follows is proved from an inductive invariant: `Init`
gives it, every action keeps it, it gives the property.

1. **LedgerProofs.** `TotalRounding`: the cash a trade moves is within half a
   cent of quantity times price. `AverageStaysBetween`: a purchase keeps the
   average between any bounds of the price paid and of the average before; the
   rounding cannot push it outside, because the bounds are whole units.
   `LedgerKeepsBooks`: the ledger of atomic trades always satisfies `BooksInv`:
   types, the replay equality, solvency of every prefix, and the average within
   the prices paid. `Replay` is a recursive function, and for TLAPS such a
   function is whatever satisfies its equation. `ReplayExtends` builds, for an
   appended transaction, the extended function; it needs the replay of the
   shorter history to exist, so the invariant carries that fact (`Replayable`)
   along with the four properties.
2. **TradeEngineProofs.** The inductive invariant `Inv` is `TypeOK`,
   `RowsAreOwned`, `CopiesAreCurrent`, `CatalogueIsTraded`, and `Prepared(r)`
   for every request. None of the first four is inductive alone. The copies
   stay current only because no other request can commit for that user, which
   needs the ownership of the lock; the catalogue stays exact only because an
   uncommitted row belongs to a request that still trades that coin; and the
   types of what `Commit` writes need `Prepared`: past its quote, a request's
   quantity and price are among `Quantities` and `Prices` and its total reaches
   the minimum. One lemma per conjunct covers all the actions, with the actions
   that leave the conjunct's variables alone grouped in `QuietStep`.
3. `CommitIsTrade`: under the invariant, the cash and the position a commit
   computes from its copies are those of an atomic `Trade`. Every other step
   leaves the three tables alone, so `EngineImplementsLedger` follows, and the
   ledger's properties carry over: `EngineKeepsBooks`, `EngineNeverOverdraws`,
   `EngineKeepsAverage`.
4. **LeaderboardProofs.** `Inv` adds to the types and to `BooksInv` what each
   reader holds (`ReaderOK`): after its first statement, the cash of every player
   after some number of trades, no fewer than when it began; after its second, the
   holdings after the same or a later number. A trade only appends to a history
   and the replay of a prefix stays what it was (`TradeExtendsHistory`, from
   `ReplayIsUnique`), so what is real stays real. `CachedOK` says the same of the
   cached ranking, and that its ranks come from its values. `RankingsAreReal` is
   read off. `RankingsAreFair` is arithmetic: the sums are natural numbers, the
   rounding of the percentage is monotone, `ahead` is a strict order on finitely
   many players, so the ranks are one to their number, each given once
   (`RanksAreFair`), and each falls on one page (`OnePage`).
5. **CoinGeckoProofs.** `Steady` is `TablesOK` (types), `CacheOK` (an entry is the
   newest answer to its key, and not fresh while the key is fetched), `QueueOK`
   (the semaphore's queue holds the queued requests, each once), `FlightOK` (the
   in-flight table names the one leader of a key, and who follows has a leader) and
   `TasksOK` (a price request accounts for all its coins; an answer on its way is
   between what was known when its request began and what is newest now). They need
   each other: an answer may be cached as the newest because its key had one
   flight, and it had one flight because a request fetches only what is not fresh.
   `Becomes` and its lemma treat the steps that change one task.
6. **UseAsyncProofs.** `UseAsyncTypes` is inductive as it stands, and makes
   `LatestAnswerShown` inductive: a success is only ever written with the
   parameters of the run that is active. `HookImplementsPromise` maps a run to
   `Ask` or `Stop` (`RunAsksOrStops`), an answer to `Answered`, a failure to
   `Refused`, and a late answer to a stutter.
7. **PagesProofs.** Every step of the pages is, for each of the two hooks, a step
   of `UseAsync`, a component mounted anew, or none (`ListSteps`, `RemoteSteps`),
   so that what `UseAsyncProofs` shows of a hook carries over to both instances:
   types and the refinements `ListPromiseKept` and `RemotePromiseKept`.
   `AsksWhatItCan` adds which orders and pages each section can ask for. That no
   view is empty (`NeverBlankHolds`) needs `SearchIsCurrent` besides: what the search
   hook asks is what the last render computed. What a failure leaves to the user
   (`FailuresHaveAWayOut`) needs `HasTurned`: the leaderboard fetches behind its rows
   only when it has more than one page, so that a button is left. `TablesAreSorted` is about data: the
   comparator orders the coins strictly, unknown figures and ties included
   (`ColumnsOrderCoins`), a finite set so ordered has a sorted sequence
   (`SetsAreSorted`, by counting predecessors), and that sequence leaves nothing out
   (`SortedIsWhole`).
8. **CoinPageProofs.** `SubmittedTradesArePayable` and `QuickFillIsAccepted` are
   about the form's computations: what it lets through is covered by what it
   shows, and what a quick button fills in passes its checks, for every percentage
   up to 100, provided the quantity is written without an exponent and reaches the
   minimum. The total the server moves is what the page shows of it, and
   covered whenever the unrounded one is, because the cash is whole cents
   (`RoundedTotals`): `PreviewKeepsItsWord` needs only the types besides.
   On them rest the invariants of the page. `PageTyped` counts the orders
   not handled yet, which leave room in the server's history. `DialogIsChecked`: an
   open dialog shows an order that passes the checks on the portfolio shown, or
   something changed behind it (the text, the side, the price or the portfolio).
   `FormHasItsTrade`: a form waits exactly when one
   live request is its trade, and keeps its dialog meanwhile.
   `PortfolioIsExcused`: a portfolio that is not the server's newest is shown only
   while the trade that brings the newest is on its way, or for a recorded excuse.
9. **SessionProofs.** `Typed`: what each request carries, in particular that one
   which is not of an earlier session carries the stored token. `Belongs`: the
   restoring request is alone, a good request of the session in flight means that
   a user is shown, and each slice of the state is the stored token's or marked
   `stray`; `IdentityIsTheTokens` and `PortfolioIsTheUsers` need all of it.
   `Waiting`: every spinner has its one request, and a page without its data has a
   request or an error; with `GuardsHold` (the page on screen is one the guards let
   through) it gives `NoPageIsBlank`.

So for any number of users, coins, requests and trades, under every interleaving,
failure and restart of the model: no update is lost, nothing is overdrawn at any
point of the history, no CHECK constraint refuses a commit, and the catalogue holds
exactly the curated and the traded coins. Rankings are made of committed books and
ordered fairly, a key of CoinGecko has one flight whose end reaches everybody who
waits for it, and answers go forward only. In the browser the user and the portfolio
shown are the session's, an order was checked and its summary is its outcome, no
page is blank, and a failure leaves a way on, with the exceptions the properties name.

### Induction over data

TLAPS cannot instantiate the library's induction theorems, so the three recursive
functions are handled without them. `LeastNatural` takes the least exception of a
claim about natural numbers (`NatLessThanWellFounded`, `WFMin`) and contradicts it.
That a recursive function over finite sets exists at all (`SumExists` for `sumOver`,
its counterpart for `putAll`) is the claim "some function is right on every set of
fewer than n elements". Uniqueness (`ReplayIsUnique`) follows the same way.

### Only model-checked

- The liveness properties of every module, and with them `StaleRankingsDieOut`,
  `EveryRequestAnswered`, `EveryRequestEnds`, `SearchSettles`, `SpinnersEnd` and
  `FormIsFreedAgain`: liveness under fairness is outside TLAPS.
- The violated statements: a counterexample needs no proof.

Every other invariant and action property that a run checks is a theorem.

## 6. Where the code and its comments disagree

1. **A trade's summary can show a portfolio that never existed**
   (`torn_summary`). `execute_trade` builds it after the commit has released
   the portfolio lock. Rows the session holds keep its own values (the cash,
   the traded holding) while the other holdings are read afresh, so a trade of
   another coin committed in between is half visible: its coins are there and
   its cost is not. The answer and the stored chart point are both wrong.
   `trade_service.py` says "everything is committed atomically and the fresh
   portfolio summary is returned".
2. **Rounding can be worth a cent** (`rounding`). At one constant price, two
   purchases of one unit each round down and one sale of two units rounds up.
   The gain is below one cent per rounded trade (`TotalRounding` bounds it),
   but `src/README.md` says that the rounding cannot be exploited. The run
   scales a cent down to ten units so that the sub-cent remainders that real
   prices have appear with small numbers.
3. **A trade can be missing from the ranking for a whole TTL**
   (`stale_ranking`). A computation that read the tables before a trade stores
   its result after the trade's invalidation, and nothing invalidates again.
   The run allows no failure at all. `leaderboard_service.py` says that the
   ranking is "invalidated after each trade". `StaleRankingsDieOut` shows that
   the TTL bounds the damage.

4. **A logout can be undone** (`logout_undone`). A rename that is answered after
   the logout calls `updateUser`, and `SET_USER` authenticates the user again
   without a token; the private pages open again. `docs/DEMO.md` says "Jeton
   supprimé, toast, redirection `/login`; `/dashboard` redirige vers `/login`".
5. **An order can be for another coin than the form names** (`wrong_coin`). The
   history leads from one coin to another. Until the other is loaded, the page
   shows the previous coin with its form; when it cannot be loaded the page shows
   it for good, because the error is only shown without data
   (`CryptoDetailPage.tsx:68`), and there is no retry. The title, the button and
   the dialog name the previous coin, the price and the holding are the previous
   coin's, and `handleTrade` sends the coin of the URL (line 56): the player buys
   or sells a coin that is nowhere on the page. The dialog asks to buy or sell the
   quantity of the coin it names (`TransactionForm.tsx:181-182`), and
   `docs/DEMO.md:19` has "Acheter BTC" followed by a confirmation.

Smaller ones, read in the code and not given a run of their own:

- `AppProvider.tsx:39` keeps the token on a network error, but an answer that
  breaks off in its body is no `ApiError` and drops it (`Rejected` models both).
- `MarketsPage.tsx:68` searches CoinGecko "after debouncing", but with the list
  changing under an old debounced text it may ask for an earlier text;
  `SearchSettles` shows that this ends with the timer.
- `schemas/auth.py:9` keeps 64 characters "under bcrypt's 72-byte limit even with
  multi-byte characters": 64 characters can take 256 bytes.
- `coingecko_service.py:195`: a follower cancelled together with its leader takes
  the leader's cancellation for the only one and asks again for nobody.
- A portfolio answer of an earlier session, or one overtaken by a trade's, is
  applied (`stray`, `excuses`): the properties name these cases and show that
  there are no others.
- `docs/DEMO.md:25` promises a message and a "Réessayer" button after an error of the
  API. The leaderboard (a later page), the chart (another range), the coin page
  (another coin) and the profile (the fetch after a rename) hide the error behind
  what they showed before, and the rank card has a message without the button:
  `FailureIsNotADeadEnd` names them. After the rename nothing but leaving the
  page, or renaming again, brings the new name.
- `validation.ts:65` calls `validateTrade` a mirror of the backend's rules; it has no
  maximum quantity (`trade_service.py:51`). `PreviewIsTheOutcome` is about the
  quantities below it.
- The page shows the balance of a purchase without rounding its total, then rounds
  for display: when the total is exactly half a cent over, both the total and the
  balance shown are rounded up, and the balance is one cent more than what is left.
  Below one euro `formatCurrency` shows four or eight decimals, which the account
  does not have.
- `OrdersWereChecked` is about the coin shown, and excepts what changed behind the
  dialog: `confirm` checks neither the fields, which can still be edited with the
  keyboard, nor the price and the portfolio again. The server does.
- `coingecko_service.py:84` says that all parts share "the same quote for the
  duration of the TTL". Price batches have no single flight, so of two requests that
  both miss a coin the second overwrites a fresh quote that was used already
  (`Receive` in `CoinGecko`). What is cached under a key does last (`KeysLastTheirTTL`).
- A 401 to a request of an earlier session ends the present one:
  `handleUnauthorized` does not ask whose token was refused (`Refused`).
- On page 1 of the leaderboard the podium is drawn from the rows on screen, which
  may still be those of page 2.

## 7. Not modelled

- Password hashing, JWT signing and signature verification: cryptography.
- Accounts and the Neon Auth verifier: check-then-write over unique keys that the
  database decides, and a key set behind a library. `Session` sees their answers.
- `GET /portfolio`: two statements and an hourly throttle of snapshots.
- Display data: names, images, icons, formatting, what a chart or a row draws;
  toasts and the drawer; the landing page and the page of an unknown route.
- Several tabs that share localStorage, a browser without localStorage, a page
  restored from the back-forward cache.
- Floating-point rounding in the browser: quantities and totals are exact in
  `TradeForm`.
- The size of the connection pool. A timeout of the pool is one more failure at
  an await, which `Fail` covers.
- The wall-clock age of a quote. A trade that waits for the lock settles at the
  quote it fetched before; nothing in the repository bounds that age.
- PostgreSQL itself is assumed to keep its promises; it is described in the
  header of `TradeEngine`.
- Several backend processes: the deployment runs one, and the ranking cache is
  local to it.
- Start-up, migrations, seeding and HTTP plumbing (section 1).

## 8. Plan

In this order:

| Module | Question | Theorems |
|---|---|---|
| `LedgerProofs` | what the rounding can be worth in all | a bound on the gain of a user without open position, by the number of trades |
| `Valuation` over `Ledger` | `GET /portfolio` in two statements; hourly snapshots as check-then-insert | at most one unforced snapshot an hour (`docs/API.md`) |
| `Accounts` | registration, rename, OAuth link and create as check-then-write over unique keys | exact-case uniqueness |
| `Jwks` | refresh throttle and lock | at most one refresh a minute |

The leaderboard also gets the invalidations of registration and renaming once
`Accounts` exists.
