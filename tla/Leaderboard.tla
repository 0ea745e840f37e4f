---------------------------- MODULE Leaderboard ----------------------------
(***************************************************************************)
(* The ranking of leaderboard_service.py beside the trades that change it. *)
(* A ranking is computed from two SELECT statements and one price fetch,   *)
(* three awaits, and is then stored in a process-wide cache for a TTL.     *)
(* A trade invalidates the cache when it ends, well after its commit.      *)
(*                                                                         *)
(* A trade is here one step of Ledger (TradeEngineProofs proves that the   *)
(* engine implements it); the steps from its commit to its end are kept.   *)
(***************************************************************************)
EXTENDS Ledger, FiniteSets

CONSTANTS
  Readers,     \* concurrent GET requests that need the ranking
  NameOrder,   \* position of each user in the order of lower-case usernames
  TTL,         \* LEADERBOARD_CACHE_TTL, in clock ticks
  None,        \* no ranking
  MayFail,     \* whether requests may fail after their first await
  MaxTrades    \* bound: trades of all users together

ASSUME LeaderboardIsReal ==
  /\ IsFiniteSet(Users) /\ IsFiniteSet(Coins)
  /\ InitialBalance > 0
  /\ NameOrder \in [Users -> Nat]
  /\ \A u, v \in Users : NameOrder[u] = NameOrder[v] => u = v
  /\ TTL \in Nat \ {0}
  /\ MayFail \in BOOLEAN

VARIABLES
  ending,      \* per user: trades committed whose request has not ended
  cached,      \* the ranking in _ranking_cache, or None
  left,        \* ticks before the cached ranking expires
  pc,          \* per reader: the await it is at, or "idle"
  readCash,    \* per reader: cash_balance of every portfolio it read
  readHeld,    \* per reader: every holding it read
  began        \* per reader: transactions of every user when it missed the cache

reader == <<pc, readCash, readHeld, began>>
vars == <<books, ending, cached, left, reader>>

Awaits == {"idle", "portfolios", "holdings", "prices"}

NoCash == [u \in Users |-> 0]
NoHoldings == [u \in Users |-> [c \in Coins |-> NoPosition]]

\* Ranking: the entries, and the ghost of the reader that computed them.
Rankings ==
  [cash : [Users -> Nat], held : [Users -> [Coins -> Positions]],
   value : [Users -> Nat], rank : [Users -> 1..Cardinality(Users)],
   began : [Users -> Nat]]

ASSUME NoneIsNoRanking == None \notin Rankings

-----------------------------------------------------------------------------
(***************************************************************************)
(* Valuing and ranking (pure).  A value is exact: it is counted in         *)
(* quantity units times raw price units.                                   *)
(***************************************************************************)

\* What the price fetch returns: a raw quote for some coins, and for the others
\* none; when CoinGecko is down it returns none at all.
Quotes == UNION {[live -> {x \in RawQuotes : x > 0}] : live \in SUBSET Coins}

\* A holding without a live price counts at its average purchase price.
unitPrice(quotes, c, pos) ==
  IF c \in DOMAIN quotes THEN quotes[c] ELSE pos.avg * FineScale

\* The sum of f over the finite set S, as a function of the subsets of S.
sumOver(f, S) ==
  LET sum[T \in SUBSET S] ==
        IF T = {} THEN 0
        ELSE LET x == CHOOSE x \in T : TRUE IN f[x] + sum[T \ {x}]
  IN  sum[S]

worth(money, held, quotes) ==
  money * CentScale * FineScale
    + sumOver([c \in Coins |-> held[c].quantity * unitPrice(quotes, c, held[c])], Coins)

\* n / d with d > 0, rounded half away from zero: ROUND_HALF_UP on signed values.
SignedHalfUp(n, d) == IF n >= 0 THEN HalfUp(n, d) ELSE 0 - HalfUp(0 - n, d)

\* performance_pct, in hundredths of a percent.
performance(value) ==
  LET initial == InitialBalance * CentScale * FineScale
  IN  SignedHalfUp((value - initial) * 10000, initial)

\* A plausible bug: ties of the rounded percentage fall back on the name only.
ahead_NameOnly(value, u, v) ==
  \/ performance(value[u]) > performance(value[v])
  \/ /\ performance(value[u]) = performance(value[v])
     /\ NameOrder[u] < NameOrder[v]

\* The sort key (-performance_pct, -portfolio_value, username.lower()).
ahead(value, u, v) ==
  \/ performance(value[u]) > performance(value[v])
  \/ /\ performance(value[u]) = performance(value[v])
     /\ \/ value[u] > value[v]
        \/ value[u] = value[v] /\ NameOrder[u] < NameOrder[v]

\* A plausible bug: positions are enumerated from 0.
ranks_FromZero(value) == [u \in Users |-> Cardinality({v \in Users : ahead(value, v, u)})]

ranks(value) == [u \in Users |-> 1 + Cardinality({v \in Users : ahead(value, v, u)})]

\* paginate_ranking: the slice [start, start + page_size) of the sorted entries.
pageOf(rank, page, page_size) ==
  {u \in Users : rank[u] > (page - 1) * page_size /\ rank[u] <= page * page_size}

-----------------------------------------------------------------------------
(***************************************************************************)
(* Plausible bugs.  No action uses them: each takes the place of the       *)
(* definition it is named after, to show that a property can fail.         *)
(***************************************************************************)

\* A hit renews the entry for another TTL.
Open_SlidingTTL(k) ==
  /\ pc[k] = "idle"
  /\ IF left > 0
     THEN left' = TTL /\ UNCHANGED <<pc, began>>
     ELSE /\ pc' = [pc EXCEPT ![k] = "portfolios"]
          /\ began' = [began EXCEPT ![k] = [u \in Users |-> Len(ledger[u])]]
          /\ UNCHANGED left
  /\ UNCHANGED <<books, ending, cached, readCash, readHeld>>

\* The portfolios are taken from the cached ranking when there is one.
ReadPortfolios_Memoised(k) ==
  /\ pc[k] = "portfolios"
  /\ pc' = [pc EXCEPT ![k] = "holdings"]
  /\ readCash' = [readCash EXCEPT ![k] =
       IF cached = None THEN cash ELSE cached.cash]
  /\ UNCHANGED <<books, ending, cached, left, readHeld, began>>

-----------------------------------------------------------------------------
(***************************************************************************)
(* Trades.                                                                 *)
(***************************************************************************)

Init ==
  /\ BooksInit
  /\ ending = [u \in Users |-> 0]
  /\ cached = None
  /\ left = 0
  /\ pc = [k \in Readers |-> "idle"]
  /\ readCash = [k \in Readers |-> NoCash]
  /\ readHeld = [k \in Readers |-> NoHoldings]
  /\ began = [k \in Readers |-> NoCash]

\* A trade commits; its summary and its snapshot are still to come.
CommitTrade(u) ==
  /\ sumOver([v \in Users |-> Len(ledger[v])], Users) < MaxTrades
  /\ TradeBy(u)
  /\ ending' = [ending EXCEPT ![u] = @ + 1]
  /\ UNCHANGED <<cached, left, reader>>

\* invalidate_ranking_cache, then the 201 answer.
EndTrade(u) ==
  /\ ending[u] > 0
  /\ ending' = [ending EXCEPT ![u] = @ - 1]
  /\ cached' = None
  /\ left' = 0
  /\ UNCHANGED <<books, reader>>

\* The summary or the snapshot fails: the trade stands, nothing is invalidated.
FailTrade(u) ==
  /\ MayFail
  /\ ending[u] > 0
  /\ ending' = [ending EXCEPT ![u] = @ - 1]
  /\ UNCHANGED <<books, cached, left, reader>>

-----------------------------------------------------------------------------
(***************************************************************************)
(* compute_ranking.                                                        *)
(***************************************************************************)

\* No fresh entry: the reader starts computing, whoever else already does.  A
\* fresh entry is served at once, which changes nothing here.
Open(k) ==
  /\ pc[k] = "idle"
  /\ left = 0
  /\ pc' = [pc EXCEPT ![k] = "portfolios"]
  /\ began' = [began EXCEPT ![k] = [u \in Users |-> Len(ledger[u])]]
  /\ UNCHANGED <<books, ending, cached, left, readCash, readHeld>>

\* First statement: every user with its portfolio.
ReadPortfolios(k) ==
  /\ pc[k] = "portfolios"
  /\ pc' = [pc EXCEPT ![k] = "holdings"]
  /\ readCash' = [readCash EXCEPT ![k] = cash]
  /\ UNCHANGED <<books, ending, cached, left, readHeld, began>>

\* Second statement: every open holding.
ReadHoldings(k) ==
  /\ pc[k] = "holdings"
  /\ pc' = [pc EXCEPT ![k] = "prices"]
  /\ readHeld' = [readHeld EXCEPT ![k] = position]
  /\ UNCHANGED <<books, ending, cached, left, readCash, began>>

\* The prices arrive; valuing, sorting and storing take no further await.
Store(k) ==
  /\ pc[k] = "prices"
  /\ \E quotes \in Quotes :
       LET value == [u \in Users |-> worth(readCash[k][u], readHeld[k][u], quotes)]
       IN  cached' = [cash |-> readCash[k], held |-> readHeld[k], value |-> value,
                      rank |-> ranks(value), began |-> began[k]]
  /\ left' = TTL
  /\ pc' = [pc EXCEPT ![k] = "idle"]
  /\ readCash' = [readCash EXCEPT ![k] = NoCash]
  /\ readHeld' = [readHeld EXCEPT ![k] = NoHoldings]
  /\ began' = [began EXCEPT ![k] = NoCash]
  /\ UNCHANGED <<books, ending>>

\* The database fails or the client leaves: the reader's request ends.
FailReader(k) ==
  /\ MayFail
  /\ pc[k] # "idle"
  /\ pc' = [pc EXCEPT ![k] = "idle"]
  /\ readCash' = [readCash EXCEPT ![k] = NoCash]
  /\ readHeld' = [readHeld EXCEPT ![k] = NoHoldings]
  /\ began' = [began EXCEPT ![k] = NoCash]
  /\ UNCHANGED <<books, ending, cached, left>>

\* The clock moves on.  An expired entry is never read again: get() hides it.
Tick ==
  /\ left > 0
  /\ left' = left - 1
  /\ cached' = IF left = 1 THEN None ELSE cached
  /\ UNCHANGED <<books, ending, reader>>

Next ==
  \/ \E u \in Users : CommitTrade(u) \/ EndTrade(u) \/ FailTrade(u)
  \/ \E k \in Readers :
       \/ Open(k) \/ ReadPortfolios(k) \/ ReadHoldings(k) \/ Store(k)
       \/ FailReader(k)
  \/ Tick

Spec == Init /\ [][Next]_vars

\* Time passes.
FairSpec == Spec /\ WF_vars(Tick)
-----------------------------------------------------------------------------
(***************************************************************************)
(* Properties.                                                             *)
(***************************************************************************)

\* Types; a cached ranking is one that has time left.
LeaderboardTypeOK ==
  /\ BooksTypeOK
  /\ ending \in [Users -> Nat]
  /\ cached \in Rankings \cup {None}
  /\ left \in 0..TTL
  /\ cached = None <=> left = 0
  /\ pc \in [Readers -> Awaits]
  /\ readCash \in [Readers -> [Users -> Nat]]
  /\ readHeld \in [Readers -> [Users -> [Coins -> Positions]]]
  /\ began \in [Readers -> [Users -> Nat]]

\* Nobody is ranked above a richer player, although the sort compares rounded
\* percentages first, and the pages of any size show every player exactly once.
RankingIsFair ==
  cached # None =>
    /\ \A u, v \in Users : cached.value[u] > cached.value[v] => cached.rank[u] < cached.rank[v]
    /\ \A size \in 1..(Cardinality(Users) + 1), u \in Users :
         Cardinality({page \in 1..Cardinality(Users) : u \in pageOf(cached.rank, page, size)}) = 1

\* Every row of a ranking is made of committed books: its cash after some n
\* trades of the player, its holdings after m >= n of them, and no trade that
\* was committed before the computation began is missing.
RowsAreReal ==
  cached # None =>
    \A u \in Users : \E n, m \in cached.began[u]..Len(ledger[u]) :
      /\ n <= m
      /\ cached.cash[u] = Replay(ledger[u])[n].cash
      /\ cached.held[u] = Replay(ledger[u])[m].position

\* A fresh ranking shows the books as they are.
RankingIsCurrent == cached # None => cached.cash = cash /\ cached.held = position

\* However late a computation stores, and whatever trade failed to invalidate,
\* a stale ranking does not survive its TTL: once nobody trades any more, every
\* ranking that is served shows the final books.
StaleRankingsDieOut == <>[]RankingIsCurrent

\* When no trade is between its commit and its answer, a served ranking shows
\* every trade (leaderboard_service.py: "invalidated after each trade").
RankingShowsAnsweredTrades ==
  (\A u \in Users : ending[u] = 0) => RankingIsCurrent
=============================================================================
