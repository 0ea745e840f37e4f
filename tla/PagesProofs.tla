---------------------------- MODULE PagesProofs ----------------------------
(***************************************************************************)
(* The list pages, for every catalogue of coins, every number of pages and *)
(* every text that may be typed: types, both hooks implement what their    *)
(* component is promised, no page is ever blank, and a failed request      *)
(* leaves a way out.                                                       *)
(*                                                                         *)
(* What one step does to a hook is taken from UseAsyncProofs: every step   *)
(* of the pages is, for each of the two hooks, a step of UseAsync, no step *)
(* at all, or a component mounted anew.                                    *)
(***************************************************************************)
EXTENDS Pages, FiniteSetTheorems, TLAPS

\* What is proved of any hook, for the section's own ...
ListFacts ==
  INSTANCE UseAsyncProofs WITH Params <- Questions, Nothing <- None, hook <- list

\* ... and for the CoinGecko search.
RemoteFacts ==
  INSTANCE UseAsyncProofs WITH Params <- Long, Nothing <- None, hook <- remote

\* What every section asks first.
FirstQuestion == <<DefaultOrder, 1>>

\* The hooks have their types, and a success answers the question asked last.
ListOK == List!UseAsyncTypeOK /\ List!ShowsTheLatestAnswer

\* The same of the search.
RemoteOK == Remote!UseAsyncTypeOK /\ Remote!ShowsTheLatestAnswer

\* No question, and no text asked of CoinGecko, is nothing.
LEMMA NothingIsAsked ==
  ListFacts!NothingIsNoParam /\ RemoteFacts!NothingIsNoParam
BY PagesAssumption DEF ListFacts!NothingIsNoParam, RemoteFacts!NothingIsNoParam

\* There is a first page, and a first question.
LEMMA FirstPage ==
  /\ MaxNumber \in Nat \ {0} /\ TotalPages \in Nat \ {0} /\ TotalPages <= MaxNumber
  /\ DefaultOrder \in Orders /\ 1 \in Numbers /\ FirstQuestion \in Questions
<1>1. MaxNumber \in Nat \ {0} /\ TotalPages \in 1 .. MaxNumber /\ DefaultOrder \in Orders
  BY PagesAssumption
<1>2. 1 \in Numbers
  BY <1>1 DEF Numbers
<1> QED
  BY <1>1, <1>2 DEF FirstQuestion, Questions

\* The section's hook keeps what is proved of it, ...
LEMMA ListKept ==
  ASSUME ListOK, [List!Next]_list
  PROVE  ListOK' /\ [List!Promise!Next]_(List!Promise!vars)
<1>1. ListFacts!HookInv
  BY DEF ListOK, List!UseAsyncTypeOK, List!ShowsTheLatestAnswer, List!Hooks, List!Statuses,
         ListFacts!HookInv, ListFacts!UseAsyncTypeOK, ListFacts!ShowsTheLatestAnswer,
         ListFacts!Hooks, ListFacts!Statuses
<1>2. [ListFacts!Next]_list
  BY DEF List!Next, List!Rerun, List!Refetch, List!Settle, List!Succeed, List!Fail,
         List!SettleLate, List!run, List!cleanup, List!loading, List!error,
         ListFacts!Next, ListFacts!Rerun, ListFacts!Refetch, ListFacts!Settle,
         ListFacts!Succeed, ListFacts!Fail, ListFacts!SettleLate, ListFacts!run,
         ListFacts!cleanup, ListFacts!loading, ListFacts!error
<1>3. ListFacts!HookInv'
  BY <1>1, <1>2, NothingIsAsked, ListFacts!HookStep
<1>4. ListOK'
  BY <1>3
  DEF ListOK, List!UseAsyncTypeOK, List!ShowsTheLatestAnswer, List!Hooks, List!Statuses,
      ListFacts!HookInv, ListFacts!UseAsyncTypeOK, ListFacts!ShowsTheLatestAnswer,
      ListFacts!Hooks, ListFacts!Statuses
<1>5. [ListFacts!Promise!Next]_(ListFacts!Promise!vars)
  BY <1>1, <1>2, NothingIsAsked, ListFacts!PromiseStep
<1>6. [List!Promise!Next]_(List!Promise!vars)
  BY <1>5
  DEF List!Promise!Next, List!Promise!vars, List!Promise!Ask, List!Promise!Stop,
      List!Promise!Answered, List!Promise!Refused, List!Promise!Restart,
      ListFacts!Promise!Next, ListFacts!Promise!vars, ListFacts!Promise!Ask,
      ListFacts!Promise!Stop, ListFacts!Promise!Answered, ListFacts!Promise!Refused,
      ListFacts!Promise!Restart
<1> QED
  BY <1>4, <1>6

\* ... a section that is opened starts it anew, ...
LEMMA ListMounted ==
  ASSUME NEW q \in Questions
  PROVE  /\ list = List!mounted(q) => ListOK /\ List!Promise!Init
         /\ list' = List!mounted(q) => ListOK' /\ List!Promise!Next
<1>1. q # None
  BY PagesAssumption
<1>2. ASSUME list = List!mounted(q)  PROVE ListOK /\ List!Promise!Init
  BY <1>1, <1>2
  DEF ListOK, List!mounted, List!UseAsyncTypeOK, List!ShowsTheLatestAnswer, List!Hooks,
      List!Statuses, List!Promise!Init
<1>3. ASSUME list' = List!mounted(q)  PROVE ListOK' /\ List!Promise!Next
  BY <1>1, <1>3
  DEF ListOK, List!mounted, List!UseAsyncTypeOK, List!ShowsTheLatestAnswer, List!Hooks,
      List!Statuses, List!Promise!Next, List!Promise!Restart
<1> QED
  BY <1>2, <1>3

\* ... and so does the search.
LEMMA RemoteKept ==
  ASSUME RemoteOK, [Remote!Next]_remote
  PROVE  RemoteOK' /\ [Remote!Promise!Next]_(Remote!Promise!vars)
<1>1. RemoteFacts!HookInv
  BY DEF RemoteOK, Remote!UseAsyncTypeOK, Remote!ShowsTheLatestAnswer, Remote!Hooks,
         Remote!Statuses, RemoteFacts!HookInv, RemoteFacts!UseAsyncTypeOK,
         RemoteFacts!ShowsTheLatestAnswer, RemoteFacts!Hooks, RemoteFacts!Statuses
<1>2. [RemoteFacts!Next]_remote
  BY DEF Remote!Next, Remote!Rerun, Remote!Refetch, Remote!Settle, Remote!Succeed, Remote!Fail,
         Remote!SettleLate, Remote!run, Remote!cleanup, Remote!loading, Remote!error,
         RemoteFacts!Next, RemoteFacts!Rerun, RemoteFacts!Refetch, RemoteFacts!Settle,
         RemoteFacts!Succeed, RemoteFacts!Fail, RemoteFacts!SettleLate, RemoteFacts!run,
         RemoteFacts!cleanup, RemoteFacts!loading, RemoteFacts!error
<1>3. RemoteFacts!HookInv'
  BY <1>1, <1>2, NothingIsAsked, RemoteFacts!HookStep
<1>4. RemoteOK'
  BY <1>3
  DEF RemoteOK, Remote!UseAsyncTypeOK, Remote!ShowsTheLatestAnswer, Remote!Hooks,
      Remote!Statuses, RemoteFacts!HookInv, RemoteFacts!UseAsyncTypeOK,
      RemoteFacts!ShowsTheLatestAnswer, RemoteFacts!Hooks, RemoteFacts!Statuses
<1>5. [RemoteFacts!Promise!Next]_(RemoteFacts!Promise!vars)
  BY <1>1, <1>2, NothingIsAsked, RemoteFacts!PromiseStep
<1>6. [Remote!Promise!Next]_(Remote!Promise!vars)
  BY <1>5
  DEF Remote!Promise!Next, Remote!Promise!vars, Remote!Promise!Ask, Remote!Promise!Stop,
      Remote!Promise!Answered, Remote!Promise!Refused, Remote!Promise!Restart,
      RemoteFacts!Promise!Next, RemoteFacts!Promise!vars, RemoteFacts!Promise!Ask,
      RemoteFacts!Promise!Stop, RemoteFacts!Promise!Answered, RemoteFacts!Promise!Refused,
      RemoteFacts!Promise!Restart
<1> QED
  BY <1>4, <1>6

\* A section without a search of its own has one that asks nothing.
LEMMA RemoteMounted ==
  /\ remote = Remote!mounted(None) => RemoteOK /\ Remote!Promise!Init
  /\ remote' = Remote!mounted(None) => RemoteOK' /\ Remote!Promise!Next
<1>1. ASSUME remote = Remote!mounted(None)  PROVE RemoteOK /\ Remote!Promise!Init
  BY <1>1
  DEF RemoteOK, Remote!mounted, Remote!UseAsyncTypeOK, Remote!ShowsTheLatestAnswer,
      Remote!Hooks, Remote!Statuses, Remote!Promise!Init
<1>2. ASSUME remote' = Remote!mounted(None)  PROVE RemoteOK' /\ Remote!Promise!Next
  BY <1>2
  DEF RemoteOK, Remote!mounted, Remote!UseAsyncTypeOK, Remote!ShowsTheLatestAnswer,
      Remote!Hooks, Remote!Statuses, Remote!Promise!Next, Remote!Promise!Restart
<1> QED
  BY <1>1, <1>2

-----------------------------------------------------------------------------
(* What a step does to the section's hook.                                 *)

\* What a section can ask for: only the markets and the chart have other orders or
\* ranges, only three sections have other pages, and two of them know how many.
Askable(s) ==
  {q \in Questions :
     /\ s \notin {"markets", "chart"} => q[1] = DefaultOrder
     /\ s \notin Paged => q[2] = 1
     /\ s \in {"leaderboard", "history"} => q[2] <= TotalPages}

\* The section asks for, and shows, what it can ask for.
AsksWhatItCan ==
  /\ list.wanted \in Askable(section)
  /\ list.data \in Askable(section) \cup {None}

\* The inductive invariant behind the types.
PagesSteady == PagesTypeOK /\ ListOK /\ RemoteOK /\ AsksWhatItCan

\* Every section asks its first question first.
LEMMA FirstIsAskable ==
  ASSUME NEW s
  PROVE  FirstQuestion \in Askable(s)
BY FirstPage DEF FirstQuestion, Askable, Questions

\* Opening a section.
Opens == \E s \in Sections : Mount(s)

\* Another page, order or range; or the same again.
Turns ==
  /\ section' = section
  /\ \E q \in Askable(section) : /\ q = <<order', number'>>
                                 /\ list' = List!rendered(list, q)

\* Anything else leaves the question alone.  The leaderboard asks it again only as
\* long as it has nothing to show.
Stays ==
  /\ UNCHANGED <<section, order, number>>
  /\ \/ list' = list
     \/ List!Settle
     \/ List!Refetch /\ (section = "leaderboard" => list.data = None)

\* The buttons stay within the pages there are.
LEMMA PagingTurns ==
  ASSUME PagesSteady, Previous \/ Following
  PROVE  Turns
<1>1. /\ list.wanted = <<order, number>> /\ order \in Orders /\ number \in Numbers
      /\ <<order, number>> \in Askable(section)
  BY DEF PagesSteady, PagesTypeOK, AsksWhatItCan
<1>2. CASE Previous
  <2>1. section \in Paged /\ number - 1 \in Numbers
    BY <1>1, <1>2, FirstPage DEF Previous, PreviousEnabled, Numbers
  <2>2. <<order, number - 1>> \in Askable(section)
    BY <1>1, <2>1, FirstPage DEF Askable, Questions, Numbers
  <2> QED
    BY <1>2, <2>2 DEF Previous, changePage, Turns
<1>3. CASE Following
  <2>1. section \in Paged /\ number + 1 \in Numbers
    BY <1>1, <1>3, FirstPage DEF Following, NextEnabled, Numbers
  <2>2. section # "markets" => number + 1 <= TotalPages
    BY <1>1, <1>3, FirstPage DEF Following, NextEnabled, totalHasNext, Numbers
  <2>3. <<order, number + 1>> \in Askable(section)
    BY <1>1, <2>1, <2>2, FirstPage DEF Askable, Questions, Numbers, Paged
  <2> QED
    BY <1>3, <2>3 DEF Following, changePage, Turns
<1> QED
  BY <1>2, <1>3

\* So do the selects and the range buttons.
LEMMA SelectingTurns ==
  ASSUME PagesSteady, \E o \in Orders : SelectOrder(o) \/ SelectRange(o)
  PROVE  Turns
<1>1. /\ list.wanted = <<order, number>> /\ number \in Numbers
      /\ <<order, number>> \in Askable(section)
  BY DEF PagesSteady, PagesTypeOK, AsksWhatItCan
<1>2. ASSUME NEW o \in Orders, SelectOrder(o)  PROVE Turns
  <2>1. <<o, 1>> \in Askable(section)
    BY <1>2, FirstPage DEF SelectOrder, Askable, Questions, Numbers, Paged
  <2> QED
    BY <1>2, <2>1 DEF SelectOrder, Turns
<1>3. ASSUME NEW o \in Orders, SelectRange(o)  PROVE Turns
  <2>1. <<o, number>> \in Askable(section)
    BY <1>1, <1>3 DEF SelectRange, Askable, Questions, Paged
  <2> QED
    BY <1>3, <2>1 DEF SelectRange, Turns
<1> QED
  BY <1>2, <1>3

\* Every step is one of the three.
LEMMA ThreeKindsOfSteps ==
  ASSUME PagesSteady, Next
  PROVE  Opens \/ Turns \/ Stays
<1>1. ASSUME NEW s \in Sections, Open(s)  PROVE Opens
  BY <1>1 DEF Open, Opens
<1>2. CASE handleSelect
  BY <1>1, <1>2 DEF handleSelect, Sections
<1>3. CASE \/ \E f \in Filters : SelectFilter(f)
           \/ \E t \in Texts : Type(t)
           \/ Debounce \/ RetrySearch \/ RemoteAnswers \/ RemoteAnswersLate
  BY <1>3
  DEF SelectFilter, Type, Debounce, RetrySearch, RemoteAnswers, RemoteAnswersLate, Stays
<1>4. CASE ListAnswers \/ ListAnswersLate
  BY <1>4 DEF ListAnswers, ListAnswersLate, Stays, List!Settle
<1>5. CASE Retry
  <2>1. section = "leaderboard" => View = LeaderboardView(list)
    BY DEF View
  <2>2. "retry" \in LeaderboardView(list) => list.data = None
    BY DEF LeaderboardView, Podium, LeaderboardTable, Show
  <2> QED
    BY <1>5, <2>1, <2>2 DEF Retry, Stays
<1>6. CASE Renamed
  BY <1>6 DEF Renamed, Stays
<1> QED
  BY <1>1, <1>2, <1>3, <1>4, <1>5, <1>6, PagingTurns, SelectingTurns DEF Next

\* For the hook that is a step of its own, or a section that starts anew.
LEMMA ListSteps ==
  ASSUME PagesSteady, [Next]_vars
  PROVE  list' = List!mounted(FirstQuestion) \/ [List!Next]_list
<1>1. CASE Opens
  BY <1>1 DEF Opens, Mount, FirstQuestion
<1>2. CASE Turns
  BY <1>2 DEF Turns, Askable, List!rendered, List!Next, List!Rerun
<1>3. CASE Stays
  BY <1>3 DEF Stays, List!Next
<1>4. CASE UNCHANGED vars
  BY <1>4 DEF vars
<1> QED
  BY <1>1, <1>2, <1>3, <1>4, ThreeKindsOfSteps

\* What is asked, and what is shown, after a step.
LEMMA AsksStep ==
  ASSUME PagesSteady, Next
  PROVE  /\ AsksWhatItCan' /\ list'.wanted = <<order', number'>>
         /\ order' \in Orders /\ number' \in Numbers /\ section' \in Sections
<1>1. /\ list.wanted = <<order, number>> /\ list \in List!Hooks /\ order \in Orders
      /\ number \in Numbers /\ section \in Sections
      /\ list.wanted \in Askable(section) /\ list.data \in Askable(section) \cup {None}
  BY DEF PagesSteady, PagesTypeOK, AsksWhatItCan, List!UseAsyncTypeOK
<1>2. CASE Opens
  <2>1. PICK s \in Sections : Mount(s)
    BY <1>2 DEF Opens
  <2>2. list'.wanted = FirstQuestion /\ list'.data = None /\ section' = s
    BY <2>1 DEF Mount, List!mounted, FirstQuestion
  <2> QED
    BY <2>1, <2>2, FirstIsAskable, FirstPage
    DEF Mount, AsksWhatItCan, FirstQuestion, Numbers
<1>3. CASE Turns
  <2>1. PICK q \in Askable(section) : q = <<order', number'>> /\ list' = List!rendered(list, q)
    BY <1>3 DEF Turns
  <2>2. list'.wanted = q /\ list'.data \in {list.data, None}
    BY <2>1 DEF List!rendered, List!run
  <2>3. order' \in Orders /\ number' \in Numbers
    BY <2>1 DEF Askable, Questions
  <2> QED
    BY <1>1, <1>3, <2>1, <2>2, <2>3 DEF Turns, AsksWhatItCan
<1>4. CASE Stays
  <2>1. list'.wanted = list.wanted /\ list'.data \in {list.data, list.wanted, None}
    <3>1. CASE list' = list
      BY <3>1
    <3>2. CASE List!Refetch
      BY <3>2 DEF List!Refetch, List!run
    <3>3. CASE List!Succeed \/ List!Fail
      BY <1>1, <3>3 DEF List!Succeed, List!Fail, List!Hooks
    <3>4. CASE \E q \in Questions : List!SettleLate(q)
      BY <1>1, <3>4 DEF List!SettleLate, List!Hooks
    <3> QED
      BY <1>4, <3>1, <3>2, <3>3, <3>4 DEF Stays, List!Settle
  <2> QED
    BY <1>1, <1>4, <2>1 DEF Stays, AsksWhatItCan
<1> QED
  BY <1>2, <1>3, <1>4, ThreeKindsOfSteps

-----------------------------------------------------------------------------
(* What a step does to the search.                                         *)

\* The search asks for a text of two characters or more, or nothing.
LEMMA QueryType ==
  ASSUME NEW l, NEW s, NEW d, NEW f
  PROVE  remoteQuery(l, s, d, f) \in Long \cup {None}
BY DEF remoteQuery, remoteSearchActive

\* A render is a step of the search, or an end of it.
LEMMA RenderSteps ==
  ASSUME RemoteRenders(remote)
  PROVE  /\ remote' = Remote!mounted(None) \/ [Remote!Next]_remote
         /\ section' = "markets" =>
              remote'.wanted = remoteQuery(list', search', debounced', filter')
<1> DEFINE q == remoteQuery(list', search', debounced', filter')
<1>1. q \in Long \cup {None}
  BY QueryType
<1>2. remote' = IF section' = "markets" THEN Remote!rendered(remote, q)
                ELSE Remote!mounted(None)
  BY DEF RemoteRenders
<1> HIDE DEF q
<1>3. CASE section' = "markets"
  BY <1>1, <1>2, <1>3 DEF q, Remote!rendered, Remote!run, Remote!Next, Remote!Rerun
<1> QED
  BY <1>2, <1>3 DEF q

\* Steps that end in a render, and those that only concern the search.
Draws == RemoteRenders(remote)

\* The others.
Searches ==
  /\ UNCHANGED <<section, order, number, search, debounced, filter, list>>
  /\ Remote!Refetch \/ Remote!Settle

\* Every step is one of the two.
LEMMA TwoKindsOfSteps ==
  ASSUME Next
  PROVE  Draws \/ Searches
<1>1. CASE RetrySearch \/ RemoteAnswers \/ RemoteAnswersLate
  BY <1>1 DEF RetrySearch, RemoteAnswers, RemoteAnswersLate, Searches, Remote!Settle
<1>2. CASE \/ \E s \in Sections \ {"chart"} : Open(s)
           \/ handleSelect \/ Previous \/ Following
           \/ \E o \in Orders : SelectOrder(o) \/ SelectRange(o)
           \/ \E f \in Filters : SelectFilter(f)
           \/ \E t \in Texts : Type(t)
           \/ Debounce \/ Retry \/ Renamed \/ ListAnswers \/ ListAnswersLate
  BY <1>2
  DEF Open, handleSelect, Previous, Following, changePage, SelectOrder, SelectRange,
      SelectFilter, Type, Debounce, Retry, Renamed, ListAnswers, ListAnswersLate, Draws
<1> QED
  BY <1>1, <1>2 DEF Next

\* For the search that is a step of its own, or its end.
LEMMA RemoteSteps ==
  ASSUME [Next]_vars
  PROVE  remote' = Remote!mounted(None) \/ [Remote!Next]_remote
<1>1. CASE UNCHANGED vars
  BY <1>1 DEF vars
<1>2. CASE Searches
  BY <1>2 DEF Searches, Remote!Next
<1> QED
  BY <1>1, <1>2, RenderSteps, TwoKindsOfSteps DEF Draws

-----------------------------------------------------------------------------
(* Types and promises.                                                     *)

\* The text, the filter and the debounced text stay what they may be.
LEMMA FieldTypes ==
  ASSUME PagesTypeOK, Next
  PROVE  search' \in Texts /\ debounced' \in Texts /\ filter' \in Filters
<1>1. search \in Texts /\ debounced \in Texts /\ filter \in Filters
      /\ "" \in Texts /\ "all" \in Filters
  BY PagesAssumption DEF PagesTypeOK, Filters
<1>2. CASE (\E s \in Sections \ {"chart"} : Open(s)) \/ handleSelect
  BY <1>1, <1>2 DEF Open, handleSelect, Mount
<1>3. CASE \/ Previous \/ Following
           \/ \E o \in Orders : SelectOrder(o) \/ SelectRange(o)
           \/ Retry \/ RetrySearch \/ Renamed \/ ListAnswers \/ RemoteAnswers
           \/ ListAnswersLate \/ RemoteAnswersLate
  BY <1>1, <1>3
  DEF Previous, Following, changePage, SelectOrder, SelectRange, Retry, RetrySearch, Renamed,
      ListAnswers, RemoteAnswers, ListAnswersLate, RemoteAnswersLate
<1>4. CASE \/ \E f \in Filters : SelectFilter(f)
           \/ \E t \in Texts : Type(t)
           \/ Debounce
  BY <1>1, <1>4 DEF SelectFilter, Type, Debounce
<1> QED
  BY <1>2, <1>3, <1>4 DEF Next

\* The first state is such a state, ...
LEMMA SteadyInit == Init => PagesSteady
<1> SUFFICES ASSUME Init  PROVE PagesSteady
  OBVIOUS
<1>1. FirstQuestion \in Questions /\ list = List!mounted(FirstQuestion)
  BY FirstPage DEF Init, FirstQuestion
<1>2. ListOK /\ RemoteOK
  BY <1>1, ListMounted, RemoteMounted DEF Init
<1>3. list.wanted = FirstQuestion /\ list.data = None
  BY <1>1 DEF List!mounted
<1>4. AsksWhatItCan
  BY <1>3, FirstIsAskable DEF AsksWhatItCan
<1>5. PagesTypeOK
  BY <1>2, <1>3, PagesAssumption, FirstPage
  DEF Init, PagesTypeOK, ListOK, RemoteOK, FirstQuestion, Filters, Numbers
<1> QED
  BY <1>2, <1>4, <1>5 DEF PagesSteady

\* ... every step leaves one, ...
LEMMA SteadyStep ==
  ASSUME PagesSteady, [Next]_vars
  PROVE  PagesSteady'
<1>1. ListOK'
  <2>1. FirstQuestion \in Questions
    BY FirstPage
  <2> QED
    BY <2>1, ListSteps, ListKept, ListMounted DEF PagesSteady
<1>2. RemoteOK'
  BY RemoteSteps, RemoteKept, RemoteMounted DEF PagesSteady
<1>3. CASE Next
  <2>1. PagesTypeOK'
    BY <1>1, <1>2, <1>3, AsksStep, FieldTypes DEF PagesSteady, PagesTypeOK, ListOK, RemoteOK
  <2> QED
    BY <1>1, <1>2, <1>3, <2>1, AsksStep DEF PagesSteady
<1>4. CASE UNCHANGED vars
  <2>1. PagesTypeOK' /\ AsksWhatItCan'
    BY <1>1, <1>2, <1>4
    DEF vars, PagesSteady, PagesTypeOK, AsksWhatItCan, ListOK, RemoteOK
  <2> QED
    BY <1>1, <1>2, <2>1 DEF PagesSteady
<1> QED
  BY <1>3, <1>4

\* ... and so there is no other.
LEMMA AlwaysSteady == Spec => []PagesSteady
BY SteadyInit, SteadyStep, PTL DEF Spec

\* The pages keep their types, and the section's hook asks for the order and the
\* page that the controls show.
THEOREM PagesTypes == Spec => []PagesTypeOK
<1>1. PagesSteady => PagesTypeOK
  BY DEF PagesSteady
<1> QED
  BY <1>1, AlwaysSteady, PTL

\* Whatever is clicked and however late answers come, rows shown as an answer are
\* those of the section, the page and the order on screen.
THEOREM ListPromiseKept == Spec => ListKeepsItsPromise
<1>1. FirstQuestion \in Questions
  BY FirstPage
<1>2. Init => List!Promise!Init
  BY <1>1, ListMounted DEF Init, FirstQuestion
<1>3. PagesSteady /\ [Next]_vars => [List!Promise!Next]_(List!Promise!vars)
  BY <1>1, ListSteps, ListKept, ListMounted DEF PagesSteady
<1> QED
  BY <1>2, <1>3, AlwaysSteady, PTL
  DEF Spec, ListKeepsItsPromise, List!KeepsItsPromise, List!Promise!Spec

\* CoinGecko's results are those of the text asked last, through typing, filtering,
\* page loads and late answers.
THEOREM RemotePromiseKept == Spec => RemoteKeepsItsPromise
<1>1. Init => Remote!Promise!Init
  BY RemoteMounted DEF Init
<1>2. PagesSteady /\ [Next]_vars => [Remote!Promise!Next]_(Remote!Promise!vars)
  BY RemoteSteps, RemoteKept, RemoteMounted DEF PagesSteady
<1> QED
  BY <1>1, <1>2, AlwaysSteady, PTL
  DEF Spec, RemoteKeepsItsPromise, Remote!KeepsItsPromise, Remote!Promise!Spec

-----------------------------------------------------------------------------
(* What is on screen.                                                      *)

\* The search asks what the render says it asks.
SearchIsCurrent ==
  section = "markets" => remote.wanted = remoteQuery(list, search, debounced, filter)

\* A text that was typed is no longer asked for once the table has a row.
LEMMA SearchStep ==
  ASSUME PagesSteady, SearchIsCurrent, [Next]_vars
  PROVE  SearchIsCurrent'
<1>1. CASE Draws
  BY <1>1, RenderSteps DEF Draws, SearchIsCurrent
<1>2. CASE Searches
  <2>1. remote \in Remote!Hooks
    BY DEF PagesSteady, PagesTypeOK, Remote!UseAsyncTypeOK
  <2>2. remote'.wanted = remote.wanted
    <3>1. CASE Remote!Refetch
      BY <3>1 DEF Remote!Refetch, Remote!run
    <3>2. CASE Remote!Succeed \/ Remote!Fail
      BY <2>1, <3>2 DEF Remote!Succeed, Remote!Fail, Remote!Hooks
    <3>3. CASE \E t \in Long : Remote!SettleLate(t)
      BY <2>1, <3>3 DEF Remote!SettleLate, Remote!Hooks
    <3> QED
      BY <1>2, <3>1, <3>2, <3>3 DEF Searches, Remote!Settle
  <2> QED
    BY <1>2, <2>2
    DEF Searches, SearchIsCurrent, remoteQuery, remoteSearchActive, visibleCoins
<1>3. CASE UNCHANGED vars
  BY <1>3 DEF vars, SearchIsCurrent, remoteQuery, remoteSearchActive, visibleCoins
<1> QED
  BY <1>1, <1>2, <1>3, TwoKindsOfSteps

\* Nothing has been typed at first.
LEMMA SearchInit == Init => SearchIsCurrent
<1> SUFFICES ASSUME Init  PROVE remote.wanted = None /\ debounced \notin Long
  BY DEF SearchIsCurrent, remoteQuery, remoteSearchActive
<1>1. "" \notin Long
  BY PagesAssumption
<1> QED
  BY <1>1 DEF Init, Remote!mounted

\* The section's hook has asked, and is waiting, refused or answered.
LEMMA ListStates ==
  ASSUME PagesSteady
  PROVE  /\ list.wanted \in Questions
         /\ \/ list.status = "loading"
            \/ list.status = "error"
            \/ list.status = "success" /\ list.data = list.wanted /\ list.data # None
<1>1. list.wanted = <<order, number>> /\ <<order, number>> \in Questions
  BY DEF PagesSteady, PagesTypeOK, Questions
<1>2. list.wanted # None
  BY <1>1, PagesAssumption
<1> QED
  BY <1>1, <1>2
  DEF PagesSteady, ListOK, List!UseAsyncTypeOK, List!ShowsTheLatestAnswer, List!Hooks,
      List!Statuses

\* The markets page shows its rows, that there are none, or the state of the search.
LEMMA MarketsShowSomething ==
  ASSUME PagesSteady, SearchIsCurrent, section = "markets"
  PROVE  MarketsView(list, remote, search, debounced, filter) # {}
<1> DEFINE active == remoteSearchActive(list, search, debounced, filter)
           rows   == visibleCoins(list, search, filter)
<1>1. CASE list.data = None
  BY <1>1, ListStates DEF MarketsView, waits, List!loading, List!error, Show
<1>2. CASE list.data # None /\ (rows # {} \/ ~active)
  BY <1>2 DEF MarketsView, Show
<1>3. CASE active
  <2>1. debounced \in Long /\ remote.wanted = debounced
    BY <1>3 DEF SearchIsCurrent, remoteQuery, remoteSearchActive
  <2>2. remote.status # "idle"
    BY <2>1, PagesAssumption DEF PagesSteady, RemoteOK, Remote!UseAsyncTypeOK
  <2>3. remote.status \in {"loading", "error", "success"}
    BY <2>2 DEF PagesSteady, RemoteOK, Remote!UseAsyncTypeOK, Remote!Hooks, Remote!Statuses
  <2> QED
    BY <1>3, <2>3 DEF MarketsView, Show, Remote!loading, Remote!error
<1> QED
  BY <1>1, <1>2, <1>3

\* The other sections show that they wait, that they failed, or what they have.
LEMMA OthersShowSomething ==
  ASSUME PagesSteady, section # "markets"
  PROVE  View # {}
<1>1. section \in Sections \ {"markets"}
  BY DEF PagesSteady, PagesTypeOK
<1>2. \/ waits(list) \/ List!error(list) \/ list.data # None
  BY ListStates DEF waits, List!loading, List!error
<1>3. ASSUME NEW s  PROVE list.data # None => Drawn(s, list) # {}
  BY DEF Drawn, Show
<1>4. /\ waits(list) \/ List!error(list) \/ list.data # None => LeaderboardView(list) # {}
      /\ waits(list) \/ List!error(list) \/ list.data # None => ProfileView(list) # {}
      /\ waits(list) \/ List!error(list) \/ list.data # None => RankView(list) # {}
  BY DEF LeaderboardView, LeaderboardTable, ProfileView, RankView, Show
<1>5. HistoryView(list) # {} /\ ChartView(list) # {}
  BY <1>2, <1>3 DEF HistoryView, ChartView, TransactionHistory, PriceChart, Show
<1>6. ASSUME NEW rows, list.data # None => rows # {}  PROVE DashboardCard(list, rows) # {}
  BY <1>2, <1>6 DEF DashboardCard, Show
<1>7. /\ DashboardCard(list, PerformanceChart(list)) # {}
      /\ DashboardCard(list, TrendingList(list)) # {}
      /\ DashboardCard(list, Show(list.data # None, "rows")) # {}
      /\ DashboardCard(list, TransactionHistory("latest", list)) # {}
  BY <1>3, <1>6 DEF PerformanceChart, TrendingList, TransactionHistory, Show
<1> QED
  BY <1>1, <1>2, <1>4, <1>5, <1>7 DEF View, Sections

\* No section is ever blank: it waits, or it has rows, or it says that it has none
\* or why not.  On the markets page that takes the search, which must be asking
\* whenever the table leaves the screen to it.
THEOREM NeverBlankHolds == Spec => []NeverBlank
<1>1. PagesSteady /\ SearchIsCurrent => NeverBlank
  <2> SUFFICES ASSUME PagesSteady, SearchIsCurrent  PROVE View # {}
    BY DEF NeverBlank
  <2>1. section = "markets" => View = MarketsView(list, remote, search, debounced, filter)
    BY DEF View
  <2> QED
    BY <2>1, MarketsShowSomething, OthersShowSomething
<1> QED
  BY <1>1, SearchInit, SearchStep, AlwaysSteady, PTL DEF Spec

\* Only the leaderboard, the chart and the profile hide an error, over what they had
\* to show before; the rank card says it and no more.
LEMMA RetryIsOffered ==
  ASSUME PagesSteady, List!error(list), section # "rank",
         section \notin {"leaderboard", "profile", "chart"} \/ list.data = None
  PROVE  "retry" \in View
<1>1. section \in Sections \ {"rank"}
  BY DEF PagesSteady, PagesTypeOK
<1>2. /\ "retry" \in MarketsView(list, remote, search, debounced, filter)
      /\ "retry" \in HistoryView(list)
      /\ \A rows : "retry" \in DashboardCard(list, rows)
  BY DEF MarketsView, HistoryView, DashboardCard, Show
<1>3. list.data = None => /\ "retry" \in LeaderboardView(list)
                          /\ "retry" \in ProfileView(list)
                          /\ "retry" \in ChartView(list)
  BY DEF LeaderboardView, ProfileView, ChartView, Show
<1> QED
  BY <1>1, <1>2, <1>3 DEF View, Sections

\* A leaderboard that has rows and fetches has turned a page.
HasTurned ==
  (section = "leaderboard" /\ list.data # None /\ list.status # "success") => TotalPages > 1

\* Its pages are fetched once, and the next one is another page.
LEMMA HasTurnedStep ==
  ASSUME PagesSteady, HasTurned, [Next]_vars
  PROVE  HasTurned'
<1>1. CASE Opens
  <2>1. list' = List!mounted(FirstQuestion)
    BY <1>1 DEF Opens, Mount, FirstQuestion
  <2>2. list'.data = None
    BY <2>1 DEF List!mounted
  <2> QED
    BY <2>2 DEF HasTurned
<1>2. CASE Turns
  <2>1. PICK q \in Askable(section) : list' = List!rendered(list, q)
    BY <1>2 DEF Turns
  <2>2. CASE q = list.wanted
    BY <1>2, <2>1, <2>2 DEF Turns, List!rendered, HasTurned
  <2>3. CASE q # list.wanted
    <3>1. ASSUME section = "leaderboard"  PROVE TotalPages > 1
      <4>1. PICK m \in Numbers : list.wanted = <<DefaultOrder, m>> /\ m <= TotalPages
        BY <3>1 DEF PagesSteady, AsksWhatItCan, Askable, Questions
      <4>2. PICK n \in Numbers : q = <<DefaultOrder, n>> /\ n <= TotalPages
        BY <3>1 DEF Askable, Questions
      <4> QED
        BY <2>3, <4>1, <4>2, FirstPage DEF Numbers
    <3> QED
      BY <1>2, <3>1 DEF Turns, HasTurned
  <2> QED
    BY <2>2, <2>3
<1>3. CASE Stays
  <2>1. list \in List!Hooks
    BY DEF PagesSteady, PagesTypeOK, List!UseAsyncTypeOK
  <2>2. CASE list' = list
    BY <1>3, <2>2 DEF Stays, HasTurned
  <2>3. CASE List!Settle
    BY <1>3, <2>1, <2>3
    DEF Stays, List!Settle, List!Succeed, List!Fail, List!SettleLate, List!loading, List!Hooks,
        HasTurned
  <2>4. CASE List!Refetch /\ (section = "leaderboard" => list.data = None)
    BY <1>3, <2>4 DEF Stays, List!Refetch, List!run, HasTurned
  <2> QED
    BY <1>3, <2>2, <2>3, <2>4 DEF Stays
<1>4. CASE UNCHANGED vars
  BY <1>4 DEF vars, HasTurned
<1> QED
  BY <1>1, <1>2, <1>3, <1>4, ThreeKindsOfSteps

\* Nothing is there to turn at first.
LEMMA HasTurnedInit == Init => HasTurned
<1>1. Init => list = List!mounted(FirstQuestion)
  BY DEF Init, FirstQuestion
<1>2. list = List!mounted(FirstQuestion) => list.data = None
  BY DEF List!mounted
<1> QED
  BY <1>1, <1>2 DEF HasTurned

\* After a failure a leaderboard with rows has a button to leave by.
LEMMA LeaderboardHasPages ==
  ASSUME PagesSteady, HasTurned, List!error(list), section = "leaderboard", list.data # None
  PROVE  PreviousEnabled \/ NextEnabled
<1>1. number \in Numbers /\ TotalPages > 1 /\ ~List!loading(list)
  BY DEF PagesSteady, PagesTypeOK, HasTurned, List!error, List!loading
<1>2. number > 1 \/ number < TotalPages
  BY <1>1, FirstPage DEF Numbers
<1> QED
  BY <1>1, <1>2 DEF PreviousEnabled, NextEnabled, Paged, paginationShown, disabled, totalHasNext

\* The rank card says that its request failed.
LEMMA RankSaysSo ==
  ASSUME List!error(list), section = "rank"
  PROVE  "message" \in View
BY DEF View, RankView, Show

\* After a failure the page offers a retry; the leaderboard a button to another page;
\* the chart its ranges; the rank card its message; and the profile, whose name was
\* changed, only what it showed before.
THEOREM FailuresHaveAWayOut == Spec => []FailureIsNotADeadEnd
<1>1. PagesSteady /\ HasTurned => FailureIsNotADeadEnd
  BY RetryIsOffered, LeaderboardHasPages, RankSaysSo DEF FailureIsNotADeadEnd
<1> QED
  BY <1>1, HasTurnedInit, HasTurnedStep, AlwaysSteady, PTL DEF Spec

-----------------------------------------------------------------------------
(* The table.                                                              *)

\* R is a strict order of all the elements of S.
IsStrictOrder(R, S) ==
  \A x, y, z \in S :
    /\ <<x, x>> \notin R
    /\ x # y => <<x, y>> \in R \/ <<y, x>> \in R
    /\ <<x, y>> \in R /\ <<y, z>> \in R => <<x, z>> \in R

\* s has the elements of S in this order.
Sorts(s, R, S) ==
  /\ s \in [1 .. Cardinality(S) -> S]
  /\ \A i, j \in 1 .. Cardinality(S) : i < j => <<s[i], s[j]>> \in R

\* A finite set has its elements in order: the place of each is the number of those
\* before it, and as no two have the same place every place is taken.
LEMMA SetsAreSorted ==
  ASSUME NEW S, IsFiniteSet(S), NEW R, IsStrictOrder(R, S)
  PROVE  \E s : Sorts(s, R, S)
<1> DEFINE n == Cardinality(S)
           first(x) == {y \in S : <<y, x>> \in R}
           place == [x \in S |-> 1 + Cardinality(first(x))]
<1>1. n \in Nat
  BY FS_CardinalityType
<1>2. ASSUME NEW x \in S
      PROVE  /\ IsFiniteSet(first(x)) /\ Cardinality(first(x)) \in Nat
             /\ Cardinality(first(x)) + 1 <= n
  <2>1. first(x) \in SUBSET S /\ first(x) \subseteq S \ {x}
    BY DEF IsStrictOrder
  <2>2. IsFiniteSet(S \ {x}) /\ Cardinality(S \ {x}) = n - 1
    BY FS_RemoveElement
  <2> HIDE DEF first
  <2>3. IsFiniteSet(first(x)) /\ Cardinality(first(x)) <= Cardinality(S \ {x})
    BY <2>1, <2>2, FS_Subset
  <2>4. Cardinality(first(x)) \in Nat
    BY <2>3, FS_CardinalityType
  <2> QED
    BY <1>1, <2>2, <2>3, <2>4
<1>3. ASSUME NEW x \in S, NEW y \in S, <<x, y>> \in R
      PROVE  place[x] < place[y]
  <2>1. first(x) \in SUBSET (first(y) \ {x}) /\ x \in first(y)
    BY <1>3 DEF IsStrictOrder
  <2>2. /\ IsFiniteSet(first(y)) /\ Cardinality(first(y)) \in Nat
        /\ Cardinality(first(x)) \in Nat
    BY <1>2
  <2> HIDE DEF first
  <2>3. IsFiniteSet(first(y) \ {x}) /\ Cardinality(first(y) \ {x}) = Cardinality(first(y)) - 1
    BY <2>1, <2>2, FS_RemoveElement
  <2>4. Cardinality(first(x)) <= Cardinality(first(y) \ {x})
    BY <2>1, <2>3, FS_Subset
  <2> QED
    BY <2>2, <2>3, <2>4
<1>4. \A x \in S : place[x] \in 1 .. n
  <2> HIDE DEF first
  <2> QED
    BY <1>1, <1>2
<1>5. place \in [S -> 1 .. n]
  BY <1>4
<1> HIDE DEF place, first
<1>6. \A x, y \in S : place[x] = place[y] => x = y
  <2> SUFFICES ASSUME NEW x \in S, NEW y \in S, x # y  PROVE place[x] # place[y]
    OBVIOUS
  <2>1. place[x] \in Int /\ place[y] \in Int
    BY <1>1, <1>4
  <2>2. place[x] < place[y] \/ place[y] < place[x]
    BY <1>3 DEF IsStrictOrder
  <2> QED
    BY <2>1, <2>2
<1>7. place \in Injection(S, 1 .. n)
  BY <1>5, <1>6 DEF Injection, IsInjective
<1>8. IsFiniteSet(1 .. n) /\ Cardinality(1 .. n) = n
  BY <1>1, FS_Interval
<1>9. place \in Surjection(S, 1 .. n)
  BY <1>7, <1>8, FS_Injection
<1>10. \A i \in 1 .. n : \E x \in S : place[x] = i
  BY <1>9 DEF Surjection
<1> DEFINE s == [i \in 1 .. n |-> CHOOSE x \in S : place[x] = i]
<1>11. \A i \in 1 .. n : s[i] \in S /\ place[s[i]] = i
  BY <1>10
<1>12. s \in [1 .. n -> S]
  BY <1>11
<1> HIDE DEF s
<1>13. ASSUME NEW i \in 1 .. n, NEW j \in 1 .. n, i < j  PROVE <<s[i], s[j]>> \in R
  <2>1. s[i] \in S /\ s[j] \in S /\ place[s[i]] = i /\ place[s[j]] = j
    BY <1>11
  <2>2. s[i] # s[j] /\ <<s[j], s[i]>> \notin R
    BY <1>1, <1>3, <1>13, <2>1
  <2> QED
    BY <2>1, <2>2 DEF IsStrictOrder
<1> QED
  BY <1>12, <1>13 DEF Sorts

\* A sequence in order has every element of the set, once.
LEMMA SortedIsWhole ==
  ASSUME NEW S, IsFiniteSet(S), NEW R, IsStrictOrder(R, S), NEW s, Sorts(s, R, S)
  PROVE  /\ Cardinality(S) \in Nat /\ s \in Seq(S) /\ Len(s) = Cardinality(S)
         /\ ToSet(s) = S /\ IsInjective(s)
<1> DEFINE n == Cardinality(S)
<1>1. n \in Nat /\ IsFiniteSet(1 .. n) /\ Cardinality(1 .. n) = n
  <2>1. n \in Nat
    BY FS_CardinalityType
  <2> QED
    BY <2>1, FS_Interval
<1>2. s \in [1 .. n -> S] /\ \A i, j \in 1 .. n : i < j => <<s[i], s[j]>> \in R
  BY DEF Sorts
<1> HIDE DEF n
<1>3. \A i, j \in 1 .. n : s[i] = s[j] => i = j
  <2> SUFFICES ASSUME NEW i \in 1 .. n, NEW j \in 1 .. n, i < j  PROVE s[i] # s[j]
    BY <1>1
  <2> QED
    BY <1>2 DEF IsStrictOrder
<1>4. s \in Injection(1 .. n, S) /\ IsInjective(s)
  BY <1>2, <1>3 DEF Injection, IsInjective
<1>5. s \in Surjection(1 .. n, S)
  BY <1>1, <1>4, FS_Injection DEF n
<1>6. ToSet(s) = S
  BY <1>2, <1>5 DEF ToSet, Surjection
<1>7. s \in Seq(S) /\ Len(s) = n
  BY <1>1, <1>2
<1> QED
  BY <1>1, <1>4, <1>6, <1>7 DEF n

\* The pairs of coins of which the first precedes the second in a column.
Precedence(coins, key) == {p \in coins \X coins : precedes(p[1], p[2], key)}

\* What a column does with unknown figures and ties, it still orders the coins.
LEMMA ColumnsOrderCoins ==
  ASSUME NEW q \in Questions, NEW coins \in SUBSET Listed[q], NEW key \in SortKey
  PROVE  /\ IsFiniteSet(coins)
         /\ IsStrictOrder(Precedence(coins, key), coins)
<1>1. IsFiniteSet(coins)
  BY ListingIsReal, FS_Subset
<1>2. None \notin Int
  BY PagesAssumption
<1>3. /\ \A c \in coins : Place[c] \in Nat /\ Figures[key][c] \in Int \cup {None}
      /\ \A c, d \in coins : Place[c] = Place[d] => c = d
  BY ListingIsReal DEF SortKey
<1>4. \A x, y, z \in coins :
        /\ ~precedes(x, x, key)
        /\ x # y => precedes(x, y, key) \/ precedes(y, x, key)
        /\ precedes(x, y, key) /\ precedes(y, z, key) => precedes(x, z, key)
  BY <1>2, <1>3 DEF precedes, before
<1>5. \A x, y \in coins : <<x, y>> \in Precedence(coins, key) <=> precedes(x, y, key)
  BY DEF Precedence
<1> QED
  BY <1>1, <1>4, <1>5 DEF IsStrictOrder

\* sortedCoins finds the coins in the order of the column.
LEMMA TableOfColumn ==
  ASSUME NEW q \in Questions, NEW coins \in SUBSET Listed[q], NEW sort, sort.key \in SortKey
  PROVE  \E s : /\ Sorts(s, Precedence(coins, sort.key), coins)
                /\ sortedCoins(coins, sort) = IF sort.direction = "asc" THEN s ELSE Reverse(s)
<1> DEFINE R == Precedence(coins, sort.key)
           InOrder(s) == \A i, j \in DOMAIN s : i < j => precedes(s[i], s[j], sort.key)
           sorted == CHOOSE s \in [1 .. Cardinality(coins) -> coins] : InOrder(s)
<1>1. \A s \in [1 .. Cardinality(coins) -> coins] : InOrder(s) <=> Sorts(s, R, coins)
  BY DEF Sorts, Precedence
<1>2. \E s : Sorts(s, R, coins)
  BY ColumnsOrderCoins, SetsAreSorted
<1>3. \E s \in [1 .. Cardinality(coins) -> coins] : InOrder(s)
  BY <1>1, <1>2 DEF Sorts
<1>4. sorted \in [1 .. Cardinality(coins) -> coins] /\ InOrder(sorted)
  <2> HIDE DEF InOrder
  <2> QED
    BY <1>3
<1>5. Sorts(sorted, R, coins)
  BY <1>1, <1>4
<1>6. sortedCoins(coins, sort) = IF sort.direction = "asc" THEN sorted ELSE Reverse(sorted)
  BY Zenon DEF sortedCoins
<1> HIDE DEF sorted
<1> QED
  BY <1>5, <1>6

\* A sequence backwards has the same elements; twice backwards it is itself.
LEMMA Backwards ==
  ASSUME NEW S, NEW s \in Seq(S), IsInjective(s)
  PROVE  /\ ToSet(Reverse(s)) = ToSet(s) /\ IsInjective(Reverse(s))
         /\ Reverse(Reverse(s)) = s
<1>1. Len(s) \in Nat /\ DOMAIN s = 1 .. Len(s)
  OBVIOUS
<1>2. Reverse(s) = [i \in 1 .. Len(s) |-> s[(Len(s) - i) + 1]]
  BY DEF Reverse
<1>3. \A i \in 1 .. Len(s) : (Len(s) - i) + 1 \in 1 .. Len(s) /\ s[i] \in S
  BY <1>1
<1>4. Reverse(s) \in Seq(S) /\ Len(Reverse(s)) = Len(s)
  BY <1>1, <1>2, <1>3
<1>5. ToSet(Reverse(s)) = ToSet(s)
  <2>1. ASSUME NEW i \in 1 .. Len(s)  PROVE s[i] = Reverse(s)[(Len(s) - i) + 1]
    BY <1>1, <1>2, <1>3
  <2>2. DOMAIN Reverse(s) = 1 .. Len(s)
    BY <1>2
  <2>3. \A x : x \in ToSet(s) => x \in ToSet(Reverse(s))
    BY <1>1, <1>3, <2>1, <2>2 DEF ToSet
  <2>4. \A i \in 1 .. Len(s) : Reverse(s)[i] = s[(Len(s) - i) + 1]
    BY <1>2
  <2>5. \A x : x \in ToSet(Reverse(s)) => x \in ToSet(s)
    BY <1>1, <1>3, <2>2, <2>4 DEF ToSet
  <2> QED
    BY <2>3, <2>5
<1>6. IsInjective(Reverse(s))
  <2>1. ASSUME NEW i \in 1 .. Len(s), NEW j \in 1 .. Len(s), Reverse(s)[i] = Reverse(s)[j]
        PROVE  i = j
    <3>1. s[(Len(s) - i) + 1] = s[(Len(s) - j) + 1]
      BY <1>2, <2>1
    <3>2. (Len(s) - i) + 1 = (Len(s) - j) + 1
      BY <1>1, <1>3, <3>1 DEF IsInjective
    <3> QED
      BY <1>1, <3>2
  <2> QED
    BY <1>2, <2>1 DEF IsInjective
<1>7. Reverse(Reverse(s)) = s
  <2>1. Reverse(Reverse(s)) = [i \in 1 .. Len(s) |-> Reverse(s)[(Len(s) - i) + 1]]
    BY <1>4 DEF Reverse
  <2>2. ASSUME NEW i \in 1 .. Len(s)  PROVE Reverse(s)[(Len(s) - i) + 1] = s[i]
    BY <1>1, <1>2, <1>3
  <2>3. s = [i \in 1 .. Len(s) |-> s[i]]
    BY <1>1
  <2> QED
    BY <2>1, <2>2, <2>3
<1> QED
  BY <1>5, <1>6, <1>7

\* Whatever headers were clicked before, the table has every visible coin once and in
\* the order of the active column, and the coins without a figure stand together.
THEOREM TablesAreSorted == Spec => []TableIsSorted
<1>1. ASSUME PagesSteady  PROVE TableIsSorted
  <2> SUFFICES ASSUME NEW old \in [key : SortKey, direction : {"asc", "desc"}],
                      NEW key \in SortKey
               PROVE  LET sort == handleSort(old, key)
                          rows == sortedCoins(visibleCoins(list, search, filter), sort)
                          up   == IF sort.direction = "asc" THEN rows ELSE Reverse(rows)
                      IN /\ ToSet(rows) = visibleCoins(list, search, filter)
                         /\ IsInjective(rows)
                         /\ \A i, j \in 1 .. Len(up) : i < j =>
                              /\ Figures[key][up[j]] = None => Figures[key][up[i]] = None
                              /\ Figures[key][up[i]] # None =>
                                   Figures[key][up[i]] <= Figures[key][up[j]]
    BY DEF TableIsSorted
  <2> DEFINE sort == handleSort(old, key)
             coins == visibleCoins(list, search, filter)
             rows == sortedCoins(coins, sort)
             up == IF sort.direction = "asc" THEN rows ELSE Reverse(rows)
  <2>1. sort.key = key
    BY DEF handleSort
  <2>2. PICK q \in Questions : coins \in SUBSET Listed[q]
    <3>1. list.data \in Questions \cup {None}
      BY <1>1 DEF PagesSteady, PagesTypeOK, List!UseAsyncTypeOK, List!Hooks
    <3>2. FirstQuestion \in Questions
      BY FirstPage
    <3> QED
      BY <3>1, <3>2 DEF visibleCoins
  <2> HIDE DEF coins, sort
  <2>3. PICK s : /\ Sorts(s, Precedence(coins, key), coins)
                 /\ rows = IF sort.direction = "asc" THEN s ELSE Reverse(s)
    BY <2>1, <2>2, TableOfColumn
  <2>4. /\ Cardinality(coins) \in Nat /\ s \in Seq(coins) /\ Len(s) = Cardinality(coins)
        /\ ToSet(s) = coins /\ IsInjective(s)
    BY <2>2, <2>3, ColumnsOrderCoins, SortedIsWhole
  <2>5. /\ ToSet(Reverse(s)) = coins /\ IsInjective(Reverse(s))
        /\ Reverse(Reverse(s)) = s
    BY <2>4, Backwards
  <2>6. ToSet(rows) = coins /\ IsInjective(rows) /\ up = s
    BY <2>3, <2>4, <2>5
  <2>7. ASSUME NEW i \in 1 .. Len(s), NEW j \in 1 .. Len(s), i < j
        PROVE  /\ Figures[key][s[j]] = None => Figures[key][s[i]] = None
               /\ Figures[key][s[i]] # None => Figures[key][s[i]] <= Figures[key][s[j]]
    <3>1. s[i] \in coins /\ s[j] \in coins /\ precedes(s[i], s[j], key)
      BY <2>3, <2>4, <2>7 DEF Sorts, Precedence
    <3>2. /\ Figures[key][s[i]] \in Int \cup {None}
          /\ Figures[key][s[j]] \in Int \cup {None}
      BY <2>2, <3>1, ListingIsReal DEF SortKey
    <3> QED
      BY <3>1, <3>2 DEF precedes, before
  <2> QED
    BY <2>6, <2>7 DEF coins, sort
<1> QED
  BY <1>1, AlwaysSteady, PTL
=============================================================================
