------------------------------- MODULE Pages -------------------------------
(***************************************************************************)
(* The list pages of the frontend: markets, leaderboard, history, profile, *)
(* the sections of the dashboard and the chart of a coin.                  *)
(*                                                                         *)
(* A section is a component with one main useAsync hook (list); markets    *)
(* has a second one (remote), the CoinGecko search that runs when nothing  *)
(* listed matches what was typed.  Sections share no state and are mounted *)
(* anew when they are opened, so one section on screen at a time stands    *)
(* for a page that shows several.                                          *)
(***************************************************************************)
EXTENDS Integers, FiniteSets, SequencesExt

CONSTANTS
  Orders,        \* pairs of CoinGecko order and rows per page; ranges of the chart
  DefaultOrder,
  MaxNumber,     \* bound on the page number
  TotalPages,    \* total_pages of the leaderboard and of the history
  PageSize,      \* rows of a full page of the market
  Listed,        \* [Orders \X (1..MaxNumber) -> set of coins]
  Rising, Falling,
  Figures,       \* [SortKey -> [coins -> figure or None]]
  Place,         \* [coins -> place in CoinGecko's answers]
  Texts,         \* what may be typed in the search box, "" included
  Long,          \* texts of two characters or more
  Named,         \* [Texts -> set of coins]: those whose name or symbol has it
  Bare,          \* pairs of a section and a question answered with too little to draw
  MaxAbandoned,  \* bound on superseded requests not settled yet
  None

Numbers == 1 .. MaxNumber

Questions == Orders \X Numbers

VARIABLES
  section,       \* component on screen
  order, number, \* MarketsPage order x perPage; page of the paged sections
  search,        \* text in the search box
  debounced,     \* useDebounce(search, 400)
  filter,        \* variation filter
  list,          \* the section's own hook
  remote         \* useCoinSearch

vars == <<section, order, number, search, debounced, filter, list, remote>>

List == INSTANCE UseAsync WITH Params <- Questions, Nothing <- None, hook <- list

Remote == INSTANCE UseAsync WITH Params <- Long, Nothing <- None, hook <- remote

\* Four of them are cards of the dashboard, "chart" is on the page of a coin.
Sections ==
  {"markets", "leaderboard", "history", "profile", "rank", "chart",
   "performance", "trending", "top coins", "latest"}

Paged == {"markets", "leaderboard", "history"}

Filters == {"all", "gainers", "losers"}

ASSUME PagesAssumption ==
  /\ DefaultOrder \in Orders /\ MaxNumber \in Nat \ {0}
  /\ TotalPages \in 1 .. MaxNumber
  /\ "" \in Texts /\ Long \subseteq Texts \ {""}
  /\ Bare \subseteq Sections \X Questions
  /\ None \notin Questions \cup Texts \cup Int

\* Every listed coin has its own place, and in every column a figure or none.
ASSUME ListingIsReal ==
  \A q \in Questions :
    /\ IsFiniteSet(Listed[q])
    /\ \A c \in Listed[q] :
         /\ Place[c] \in Nat
         /\ \A key \in DOMAIN Figures : Figures[key][c] \in Int \cup {None}
         /\ \A d \in Listed[q] : Place[c] = Place[d] => c = d

-----------------------------------------------------------------------------
(* What the markets page derives from its state on every render.           *)

visibleCoins(l, s, f) ==
  IF l.data = None THEN {}
  ELSE {c \in Listed[l.data] :
          /\ s # "" => c \in Named[s]
          /\ f = "gainers" => c \in Rising
          /\ f = "losers" => c \in Falling}

-----------------------------------------------------------------------------
(* The table is sorted in the browser.  The column and the direction chosen *)
(* influence nothing else, so they are no variable: what is said of the    *)
(* table is said for each of them.                                         *)

SortKey == DOMAIN Figures

DEFAULT_DIRECTION(key) == IF key \in {"market_cap_rank", "name"} THEN "asc" ELSE "desc"

handleSort(sort, key) ==
  IF sort.key = key
  THEN [sort EXCEPT !.direction = IF @ = "asc" THEN "desc" ELSE "asc"]
  ELSE [key |-> key, direction |-> DEFAULT_DIRECTION(key)]

before_NullIsZero(a, b, key) ==
  LET figure(c) == IF Figures[key][c] = None THEN 0 ELSE Figures[key][c]
  IN figure(a) < figure(b)

\* compareCoins(a, b, key) < 0: an unknown figure is minus infinity.  Two unknown
\* ones compare as NaN, which sort() takes for equal.
before(a, b, key) ==
  /\ Figures[key][b] # None
  /\ Figures[key][a] = None \/ Figures[key][a] < Figures[key][b]

\* sort() is stable, so coins that compare equal stay as CoinGecko placed them.
precedes(a, b, key) ==
  before(a, b, key) \/ (~before(b, a, key) /\ Place[a] < Place[b])

\* A descending table is the ascending one backwards.
sortedCoins(coins, sort) ==
  LET sorted == CHOOSE s \in [1 .. Cardinality(coins) -> coins] :
                  \A i, j \in DOMAIN s : i < j => precedes(s[i], s[j], sort.key)
  IN IF sort.direction = "asc" THEN sorted ELSE Reverse(sorted)

remoteSearchActive(l, s, d, f) ==
  d \in Long /\ l.data # None /\ visibleCoins(l, s, f) = {}

remoteQuery_Undebounced(l, s, d, f) ==
  IF remoteSearchActive(l, s, d, f) /\ s \in Long THEN s ELSE None

\* useCoinSearch is disabled under two characters.
remoteQuery(l, s, d, f) == IF remoteSearchActive(l, s, d, f) THEN d ELSE None

\* Every render gives the search hook its text: r is the hook before it.
RemoteRenders(r) ==
  remote' = IF section' = "markets"
            THEN Remote!rendered(r, remoteQuery(list', search', debounced', filter'))
            ELSE Remote!mounted(None)

-----------------------------------------------------------------------------
(* What each section shows: the blocks of its JSX, by condition.           *)

Show(condition, block) == IF condition THEN {block} ELSE {}

waits(l) == List!loading(l) /\ l.data = None

MarketsView(l, r, s, d, f) ==
  LET rows == visibleCoins(l, s, f)
      active == remoteSearchActive(l, s, d, f)
  IN Show(waits(l), "spinner")
     \cup Show(List!error(l), "retry")
     \cup Show(l.data # None /\ rows # {}, "rows")
     \cup Show(l.data # None /\ rows = {} /\ ~active, "no match")
     \cup Show(active /\ Remote!loading(r), "remote spinner")
     \cup Show(active /\ Remote!error(r), "remote retry")
     \cup Show(active /\ r.status = "success", "remote rows")

\* The components drawn with an answer: with too little data, the two charts and
\* the table of transactions say so instead.
Drawn(s, l) == Show(l.data # None, IF <<s, l.data>> \in Bare THEN "empty" ELSE "rows")

PriceChart(l) == Drawn("chart", l)

PerformanceChart(l) == Drawn("performance", l)

TransactionHistory(s, l) == Drawn(s, l)

LeaderboardTable(l) == Show(l.data # None, "rows")

Podium(l, n) == Show(l.data # None /\ n = 1, "podium")

TrendingList(l) == Show(l.data # None, "rows")

LeaderboardView(l) ==
  Show(waits(l), "spinner")
  \cup Show(List!error(l) /\ l.data = None, "retry")
  \cup Podium(l, number) \cup LeaderboardTable(l)

HistoryView(l) ==
  Show(waits(l), "spinner")
  \cup Show(List!error(l), "retry")
  \cup TransactionHistory("history", l)

ProfileView(l) ==
  Show(waits(l), "spinner")
  \cup Show(List!error(l) /\ l.data = None, "retry")
  \cup Show(l.data # None, "rows")

\* A card of the dashboard, rows being what its component draws.
DashboardCard(l, rows) ==
  Show(waits(l), "spinner") \cup Show(List!error(l), "retry") \cup rows

\* The card with the player's rank shows the error without a way to retry.
RankView(l) ==
  Show(waits(l), "spinner")
  \cup Show(List!error(l), "message")
  \cup Show(l.data # None, "rows")

\* The chart of a coin: a range that failed leaves the one before in its place.
ChartView(l) ==
  Show(waits(l), "spinner")
  \cup Show(List!error(l) /\ l.data = None, "retry")
  \cup PriceChart(l)

View ==
  CASE section = "markets"     -> MarketsView(list, remote, search, debounced, filter)
    [] section = "leaderboard" -> LeaderboardView(list)
    [] section = "history"     -> HistoryView(list)
    [] section = "profile"     -> ProfileView(list)
    [] section = "rank"        -> RankView(list)
    [] section = "chart"       -> ChartView(list)
    [] section = "performance" -> DashboardCard(list, PerformanceChart(list))
    [] section = "trending"    -> DashboardCard(list, TrendingList(list))
    [] section = "top coins"   -> DashboardCard(list, Show(list.data # None, "rows"))
    [] section = "latest"      -> DashboardCard(list, TransactionHistory("latest", list))

-----------------------------------------------------------------------------
(* The pagination buttons.  Markets only know whether the page shown is    *)
(* full; the others know how many pages there are.                         *)

marketsHasNext(l) == l.data # None /\ Cardinality(Listed[l.data]) = PageSize

totalHasNext_FromData(l, n) == l.data # None /\ l.data[2] < TotalPages

totalHasNext(l, n) == l.data # None /\ n < TotalPages

paginationShown(s, l) == s = "markets" \/ (l.data # None /\ TotalPages > 1)

disabled(s, l, text) == List!loading(l) \/ (s = "markets" /\ text # "")

PreviousEnabled ==
  section \in Paged /\ paginationShown(section, list)
  /\ ~disabled(section, list, search) /\ number > 1

NextEnabled ==
  section \in Paged /\ paginationShown(section, list)
  /\ ~disabled(section, list, search)
  /\ IF section = "markets" THEN marketsHasNext(list) ELSE totalHasNext(list, number)

-----------------------------------------------------------------------------
(* Actions.                                                                *)

Mount(s) ==
  /\ section' = s
  /\ order' = DefaultOrder /\ number' = 1
  /\ search' = "" /\ debounced' = "" /\ filter' = "all"
  /\ list' = List!mounted(<<DefaultOrder, 1>>)

Init ==
  /\ section \in Sections
  /\ order = DefaultOrder /\ number = 1
  /\ search = "" /\ debounced = "" /\ filter = "all"
  /\ list = List!mounted(<<DefaultOrder, 1>>)
  /\ remote = Remote!mounted(None)

\* A link of the sidebar; the page that is left is unmounted.
Open(s) ==
  /\ s # section
  /\ Mount(s)
  /\ RemoteRenders(remote)

\* The page of a coin is opened by what names one: a row of the market, a result
\* of CoinGecko, a transaction, a trending or top coin.
CryptoRow == section = "markets" /\ visibleCoins(list, search, filter) # {}

CoinSearchResult == "remote rows" \in View

TransactionRow == section \in {"history", "latest"} /\ "rows" \in View

CoinLink == section \in {"trending", "top coins"} /\ "rows" \in View

handleSelect ==
  /\ CryptoRow \/ CoinSearchResult \/ TransactionRow \/ CoinLink
  /\ Open("chart")

\* The bound on requests nobody waits for.
WithinBound(h) == Cardinality(h.abandoned) <= MaxAbandoned

changePage_NoRefetch(n) ==
  /\ number' = n
  /\ UNCHANGED <<section, order, search, debounced, filter, list>>
  /\ RemoteRenders(remote)

changePage(n) ==
  /\ number' = n
  /\ list' = List!rendered(list, <<order, n>>)
  /\ UNCHANGED <<section, order, search, debounced, filter>>
  /\ RemoteRenders(remote)

Previous == PreviousEnabled /\ changePage(number - 1)

Following == NextEnabled /\ number < MaxNumber /\ changePage(number + 1)

\* The selects of the markets page: a new order starts at page 1.
SelectOrder(o) ==
  /\ section = "markets" /\ o # order
  /\ order' = o /\ number' = 1
  /\ list' = List!rendered(list, <<o, 1>>)
  /\ WithinBound(list')
  /\ UNCHANGED <<section, search, debounced, filter>>
  /\ RemoteRenders(remote)

\* The range buttons of the chart.
SelectRange(o) ==
  /\ section = "chart" /\ o # order
  /\ order' = o
  /\ list' = List!rendered(list, <<o, number>>)
  /\ WithinBound(list')
  /\ UNCHANGED <<section, number, search, debounced, filter>>
  /\ RemoteRenders(remote)

SelectFilter(f) ==
  /\ section = "markets" /\ f # filter
  /\ filter' = f
  /\ UNCHANGED <<section, order, number, search, debounced, list>>
  /\ RemoteRenders(remote)
  /\ WithinBound(remote')

Type(t) ==
  /\ section = "markets" /\ t # search
  /\ search' = t
  /\ UNCHANGED <<section, order, number, debounced, filter, list>>
  /\ RemoteRenders(remote)
  /\ WithinBound(remote')

Debounce_OncePerSearch ==
  /\ section = "markets" /\ debounced # search /\ remote.wanted = None
  /\ debounced' = search
  /\ UNCHANGED <<section, order, number, search, filter, list>>
  /\ RemoteRenders(remote)

\* The timer of the last keystroke fires.
Debounce ==
  /\ section = "markets" /\ debounced # search
  /\ debounced' = search
  /\ UNCHANGED <<section, order, number, search, filter, list>>
  /\ RemoteRenders(remote)

Retry ==
  /\ "retry" \in View
  /\ List!Refetch
  /\ UNCHANGED <<section, order, number, search, debounced, filter>>
  /\ RemoteRenders(remote)

\* submitUsername of the profile: a saved rename fetches the profile again.
Renamed ==
  /\ section = "profile" /\ list.data # None
  /\ List!Refetch
  /\ WithinBound(list')
  /\ UNCHANGED <<section, order, number, search, debounced, filter>>
  /\ RemoteRenders(remote)

RetrySearch ==
  /\ section = "markets" /\ "remote retry" \in View
  /\ Remote!Refetch
  /\ UNCHANGED <<section, order, number, search, debounced, filter, list>>

ListAnswers ==
  /\ List!Succeed \/ List!Fail
  /\ UNCHANGED <<section, order, number, search, debounced, filter>>
  /\ RemoteRenders(remote)

RemoteAnswers ==
  /\ Remote!Succeed \/ Remote!Fail
  /\ UNCHANGED <<section, order, number, search, debounced, filter, list>>

\* Requests that were aborted after they had been settled.
ListAnswersLate ==
  /\ \E q \in Questions : List!SettleLate(q)
  /\ UNCHANGED <<section, order, number, search, debounced, filter>>
  /\ RemoteRenders(remote)

RemoteAnswersLate ==
  /\ \E t \in Long : Remote!SettleLate(t)
  /\ UNCHANGED <<section, order, number, search, debounced, filter, list>>

Next ==
  \/ \E s \in Sections \ {"chart"} : Open(s)
  \/ handleSelect
  \/ Previous \/ Following
  \/ \E o \in Orders : SelectOrder(o) \/ SelectRange(o)
  \/ \E f \in Filters : SelectFilter(f)
  \/ \E t \in Texts : Type(t)
  \/ Debounce
  \/ Retry \/ RetrySearch \/ Renamed
  \/ ListAnswers \/ RemoteAnswers
  \/ ListAnswersLate \/ RemoteAnswersLate

Spec == Init /\ [][Next]_vars

\* The timer of a text fires unless another text is typed before.
FairSpec == Spec /\ \A t \in Texts : WF_vars(search = t /\ Debounce)

-----------------------------------------------------------------------------
\* Every variable has its type.
PagesTypeOK ==
  /\ section \in Sections /\ order \in Orders /\ number \in Numbers
  /\ search \in Texts /\ debounced \in Texts /\ filter \in Filters
  /\ List!UseAsyncTypeOK /\ Remote!UseAsyncTypeOK
  /\ list.wanted = <<order, number>>

\* The rows shown as an answer are those of the page, order and section on
\* screen, although answers of superseded pages arrive in any order.
ListKeepsItsPromise == List!KeepsItsPromise

\* The CoinGecko results shown as an answer are those of the text asked last,
\* through typing, filtering, page loads and late answers.
RemoteKeepsItsPromise == Remote!KeepsItsPromise

\* Every section always shows something: a spinner, an error or rows.  On the
\* markets page the three must agree on when the remote search is on.
NeverBlank == View # {}

\* After a failure the page offers a retry, with four exceptions.  The leaderboard
\* and the chart hide the error of a later page or range, and leave another page or
\* range to choose.  The rank card shows its error without a retry.  The profile
\* hides the error of its fetch after a rename, and keeps the old name.
FailureIsNotADeadEnd ==
  List!error(list) =>
    \/ "retry" \in View
    \/ section = "leaderboard" /\ (PreviousEnabled \/ NextEnabled)
    \/ section = "chart" /\ list.data # None
    \/ section = "rank" /\ "message" \in View
    \/ section = "profile" /\ list.data # None

\* Wherever the clicks on the headers led, the table has every visible coin once, in
\* the order of the active column, and a coin whose figure is unknown comes after
\* all others in a descending table and before them in an ascending one.
TableIsSorted ==
  \A old \in [key : SortKey, direction : {"asc", "desc"}], key \in SortKey :
    LET sort == handleSort(old, key)
        rows == sortedCoins(visibleCoins(list, search, filter), sort)
        up   == IF sort.direction = "asc" THEN rows ELSE Reverse(rows)
    IN /\ ToSet(rows) = visibleCoins(list, search, filter) /\ IsInjective(rows)
       /\ \A i, j \in 1 .. Len(up) : i < j =>
            /\ Figures[key][up[j]] = None => Figures[key][up[i]] = None
            /\ Figures[key][up[i]] # None => Figures[key][up[i]] <= Figures[key][up[j]]

\* Once the user stops typing, the only text ever asked of CoinGecko is the one
\* in the search box, whatever pages and filters are selected meanwhile.
SearchSettles ==
  \A t \in Texts : <>[](section = "markets" /\ search = t)
                     => <>[](remote.wanted \in {None, t})
=============================================================================
