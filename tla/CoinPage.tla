------------------------------ MODULE CoinPage ------------------------------
(***************************************************************************)
(* CryptoDetailPage with its TransactionForm: the coin of the URL, the     *)
(* coin on screen, the portfolio on screen, and the trades in flight.      *)
(*                                                                         *)
(* The server handles a request in one step and its answer is delivered,   *)
(* or lost, in another.  A portfolio is named by its place in the server's *)
(* history: one entry per trade made.  Money is counted in cents.          *)
(***************************************************************************)
EXTENDS TradeForm, Sequences, FiniteSets

CONSTANTS
  Coins,
  Quotes,        \* [Coins -> current prices, None among them, an answer may bring]
  Prices,        \* prices the server may trade at
  InitialCash,
  Typed,         \* what may be typed in the quantity field
  Percentages,   \* QUICK_PERCENTAGES
  QuantityMax,   \* QUANTITY_MAX of the server
  MaxTrades,     \* bound on the trades made
  MaxRequests,   \* bound on the requests in flight
  MaxAbandoned   \* bound on superseded requests of useCoin not settled yet

ASSUME CoinPageAssumption ==
  /\ None \notin Coins /\ InitialCash \in Nat /\ Prices \subseteq Nat \ {0}
  /\ \A c \in Coins : Quotes[c] # {} /\ Quotes[c] \subseteq Nat \cup {None}
  /\ Typed \subseteq TextsWith(Int, Nat) /\ Percentages \subseteq 0 .. 100
  /\ QuantityMax \in Nat /\ MaxTrades \in Nat \ {0} /\ MaxRequests \in Nat \ {0}

VARIABLES
  url,           \* coinId of the route, None on another page
  coin,          \* useCoin
  price,         \* current_price of the coin on screen
  form,          \* state of the TransactionForm on screen, or None
  portfolio,     \* AppState.portfolio: an index of server, 0 for none
  requests,      \* [1 .. MaxRequests -> request in flight or None]
  server,        \* sequence of [cash, held]
  excuses        \* ghost: why the portfolio shown may be an old one

vars == <<url, coin, price, form, portfolio, requests, server, excuses>>

Coin == INSTANCE UseAsync WITH Params <- Coins, Nothing <- None, hook <- coin

\* The server's arithmetic, in the units of the form.
Engine == INSTANCE TradeMath WITH CentScale <- Scale, FineScale <- 1

Slots == 1 .. MaxRequests

Forms == [type : Types, text : TextsWith(Int, Nat), confirmOpen : BOOLEAN,
          submitting : BOOLEAN, changed : BOOLEAN]

\* shown (ghost): the coin whose name and price the form shows;
\* checked (ghost): valid when sent, or changed behind the dialog.
\* answer: None until the server has handled it, then an index of server.
Orders == [op : {"trade"}, coin : Coins, type : Types, quantity : Int \cup {NaN},
           live : BOOLEAN, answer : Nat \cup {None}, shown : Coins,
           checked : BOOLEAN]

\* signal: sent with an AbortSignal; live: the page that sent it is still there.
Refreshes == [op : {"refresh"}, live : BOOLEAN, signal : BOOLEAN,
              answer : Nat \cup {None}]

ASSUME NoneIsNothing == None \notin Forms \cup Orders \cup Refreshes

\* changed (ghost): what is being confirmed changed since its dialog was opened.
\* The line with the last error is left out: nothing depends on it.
NewForm ==
  [type |-> "BUY", text |-> Empty, confirmOpen |-> FALSE, submitting |-> FALSE,
   changed |-> FALSE]

Books == server[portfolio]

holding(c) == Books.held[c]

validation(f) ==
  validateTrade(f.text, f.type, price, Books.cash, holding(coin.data))

Submittable(f) ==
  canSubmit(f.text, f.type, price, Books.cash, holding(coin.data))

\* Times Scale, as the total is.
balanceAfter(f) ==
  LET total == validation(f).total
  IN IF f.type = "BUY" THEN Books.cash * Scale - total ELSE Books.cash * Scale + total

heldAfter(f) ==
  LET quantity == validation(f).quantity
      held     == holding(coin.data)
  IN IF quantity = NaN THEN NaN
     ELSE IF f.type = "BUY" THEN held + quantity ELSE held - quantity

\* Of an amount from one euro on: two decimals.
formatCurrency(amount) == Engine!HalfUp(amount, Scale)

\* The summary above the submit button.
Preview(f) ==
  IF f.text.kind = "empty"
  THEN [total |-> 0, balance |-> Books.cash * Scale, held |-> holding(coin.data)]
  ELSE [total |-> validation(f).total, balance |-> balanceAfter(f),
        held |-> IF heldAfter(f) # NaN /\ heldAfter(f) < 0 THEN 0 ELSE heldAfter(f)]

-----------------------------------------------------------------------------
(* Requests.                                                               *)

Trade(c, f) ==
  [op |-> "trade", coin |-> c, type |-> f.type, quantity |-> validation(f).quantity,
   live |-> TRUE, answer |-> None,
   shown |-> coin.data, checked |-> Submittable(f) \/ f.changed]

Refresh(signal) == [op |-> "refresh", live |-> TRUE, signal |-> signal, answer |-> None]

Free(reqs) == {s \in Slots : reqs[s] = None}

Send(reqs, r) ==
  [reqs EXCEPT ![CHOOSE s \in Free(reqs) : TRUE] = r]

Flying(op) == {s \in Slots : requests[s] # None /\ requests[s].op = op}

LiveTrades == {s \in Flying("trade") : requests[s].live}

Without(s) == [requests EXCEPT ![s] = None]

\* A trade goes on without its form.
Detached(r) == IF r # None /\ r.op = "trade" THEN [r EXCEPT !.live = FALSE] ELSE r

\* What becomes of a request when the page is left: the portfolio asked for on
\* opening is aborted, the one asked for by the retry button has no signal.
Left(r) ==
  CASE r = None \/ r.op = "trade" -> r
    [] r.op = "refresh" /\ r.signal -> None
    [] OTHER -> [r EXCEPT !.live = FALSE]

\* An open dialog now speaks of something else.
Overtaken(f) == [f EXCEPT !.changed = f.confirmOpen]

\* The form on screen is keyed by the coin on screen: another coin, another form.
\* f and reqs are the form and the requests a step leaves.
Renders(f, reqs) ==
  LET shown == url' # None /\ coin'.data # None /\ portfolio' # 0
      same  == shown /\ form # None /\ coin'.data = coin.data
  IN /\ form' = IF ~shown THEN None ELSE IF same THEN f ELSE NewForm
     /\ requests' = IF same THEN reqs
                    ELSE [s \in Slots |-> Detached(reqs[s])]

-----------------------------------------------------------------------------
(* The page.                                                               *)

Init ==
  /\ url = None /\ coin = Coin!mounted(None) /\ price = None
  /\ form = None /\ portfolio = 0
  /\ requests = [s \in Slots |-> None]
  /\ server = <<[cash |-> InitialCash, held |-> [c \in Coins |-> 0]]>>
  /\ excuses = {}

\* From another page: the hooks start anew, usePortfolio asks for the portfolio.
Open(c) ==
  /\ url = None /\ Free(requests) # {}
  /\ url' = c /\ coin' = Coin!mounted(c) /\ price' = None
  /\ UNCHANGED <<portfolio, server, excuses>>
  /\ Renders(None, Send(requests, Refresh(TRUE)))

Leave ==
  /\ url # None
  /\ url' = None /\ coin' = Coin!mounted(None) /\ price' = None
  /\ UNCHANGED <<portfolio, server, excuses>>
  /\ Renders(None, [s \in Slots |-> Left(requests[s])])

\* The card with the player's position has a button that leads to the portfolio.
SeePortfolio ==
  /\ form # None /\ holding(coin.data) > 0
  /\ Leave

GoTo_NoRefetch(c) ==
  /\ url \notin {None, c}
  /\ url' = c /\ coin' = coin
  /\ UNCHANGED <<price, portfolio, server, excuses>>
  /\ Renders(form, requests)

\* The browser's history goes from one coin to another: the page stays mounted
\* and keeps showing the previous coin until the other is there, or for good when
\* the other cannot be loaded.
GoTo(c) ==
  /\ url \notin {None, c}
  /\ url' = c /\ coin' = Coin!rendered(coin, c)
  /\ Cardinality(coin'.abandoned) <= MaxAbandoned
  /\ UNCHANGED <<price, portfolio, server, excuses>>
  /\ Renders(form, requests)

\* The coin asked for, with its price now: on the way back to the coin on screen
\* the form stays and gets another price.
CoinAnswers ==
  /\ \/ Coin!Succeed /\ price' \in Quotes[coin.wanted]
     \/ Coin!Fail /\ price' = price
  /\ UNCHANGED <<url, portfolio, server, excuses>>
  /\ Renders(IF form # None /\ price' # price THEN Overtaken(form) ELSE form, requests)

CoinAnswersLate ==
  /\ \E c \in Coins : Coin!SettleLate(c)
  /\ UNCHANGED <<url, price, portfolio, server, excuses>>
  /\ Renders(form, requests)

\* The error is shown, with its retry, only when there is no coin to show.
RetryCoin ==
  /\ coin.data = None /\ Coin!error(coin) /\ Coin!Refetch
  /\ UNCHANGED <<url, price, form, portfolio, requests, server, excuses>>

\* The error in place of the trade form: the page's last refresh has failed.
RetryPortfolio ==
  /\ url # None /\ coin.data # None /\ portfolio = 0
  /\ \A s \in Flying("refresh") : ~requests[s].live
  /\ Free(requests) # {}
  /\ requests' = Send(requests, Refresh(FALSE))
  /\ UNCHANGED <<url, coin, price, form, portfolio, server, excuses>>

-----------------------------------------------------------------------------
(* The form.  Its dialog does not keep the focus: the fields behind it can *)
(* be changed with the keyboard while it is open, and while a trade is in  *)
(* flight.                                                                 *)

Edit(f) ==
  /\ form' = f
  /\ UNCHANGED <<url, coin, price, portfolio, requests, server, excuses>>

TypeText(t) ==
  /\ form # None /\ t # form.text
  /\ Edit([form EXCEPT !.text = t, !.changed = form.confirmOpen])

switchType(type) ==
  /\ form # None /\ type # form.type
  /\ Edit([form EXCEPT !.type = type, !.changed = form.confirmOpen])

Fill(percentage) ==
  /\ form # None
  /\ quickEnabled(form.type, price, Books.cash, holding(coin.data))
  /\ Edit([form EXCEPT
             !.text = applyPercentage(@, percentage, form.type, price,
                                      Books.cash, holding(coin.data)),
             !.changed = form.confirmOpen])

handleSubmit_Unchecked ==
  /\ form # None /\ ~form.confirmOpen
  /\ Edit([form EXCEPT !.confirmOpen = TRUE, !.changed = FALSE])

handleSubmit ==
  /\ form # None /\ ~form.confirmOpen /\ Submittable(form)
  /\ Edit([form EXCEPT !.confirmOpen = TRUE, !.changed = FALSE])

\* "Annuler" is disabled and the dialog stays while the trade is in flight.
onClose(f) ==
  IF f.submitting THEN f ELSE [f EXCEPT !.confirmOpen = FALSE, !.changed = FALSE]

\* "Annuler", Escape or a click beside the dialog.
Dismiss ==
  /\ form # None /\ form.confirmOpen
  /\ Edit(onClose(form))

\* The order names the coin of the URL and what the form holds at that moment;
\* it is not checked again.
confirm_NoLoadingState ==
  /\ form # None /\ form.confirmOpen
  /\ Free(requests) # {} /\ Len(server) - 1 + Cardinality(Flying("trade")) < MaxTrades
  /\ requests' = Send(requests, Trade(url, form))
  /\ form' = [form EXCEPT !.submitting = TRUE]
  /\ UNCHANGED <<url, coin, price, portfolio, server, excuses>>

confirm ==
  /\ form # None /\ form.confirmOpen /\ ~form.submitting
  /\ Free(requests) # {} /\ Len(server) - 1 + Cardinality(Flying("trade")) < MaxTrades
  /\ requests' = Send(requests, Trade(url, form))
  /\ form' = [form EXCEPT !.submitting = TRUE]
  /\ UNCHANGED <<url, coin, price, portfolio, server, excuses>>

-----------------------------------------------------------------------------
(* The server and its answers.                                             *)

\* execute_trade (module TradeEngine), at a price of the server's own.
Moved(r, total) ==
  LET last == server[Len(server)]
  IN IF r.type = "BUY"
     THEN [cash |-> last.cash - total, held |-> [last.held EXCEPT ![r.coin] = @ + r.quantity]]
     ELSE [cash |-> last.cash + total, held |-> [last.held EXCEPT ![r.coin] = @ - r.quantity]]

Settled_RoundDown(r, at) == Moved(r, (r.quantity * at) \div Scale)

Settled(r, at) == Moved(r, Engine!compute_total(r.quantity, at))

Allowed(r, at) ==
  LET last  == server[Len(server)]
      total == Engine!compute_total(r.quantity, at)
  IN /\ r.quantity # NaN /\ Engine!validate_quantity(r.quantity)
     /\ total >= Engine!MinTotal
     /\ r.type = "BUY" => total <= last.cash
     /\ r.type = "SELL" => r.quantity <= last.held[r.coin]

\* A request is handled.  A refused order leaves the server as it is: it ends like
\* one that never arrived, in Fail.
Serve(s) ==
  /\ requests[s] # None /\ requests[s].answer = None
  /\ LET r == requests[s]
     IN \/ r.op = "refresh" /\ server' = server
        \/ \E at \in Prices :
             r.op = "trade" /\ Allowed(r, at) /\ server' = Append(server, Settled(r, at))
  /\ requests' = [requests EXCEPT ![s].answer = Len(server')]
  /\ UNCHANGED <<url, coin, price, form, portfolio, excuses>>

Concluded_NoFinally(f, r, failed) ==
  IF failed \/ ~(r.op = "trade" /\ r.live) THEN f
  ELSE [f EXCEPT !.text = Empty, !.confirmOpen = FALSE, !.submitting = FALSE,
                 !.changed = FALSE]

\* handleTrade and the end of confirm: a form that is gone is not touched.
Concluded(f, r, failed) ==
  IF ~(r.op = "trade" /\ r.live) THEN f
  ELSE [f EXCEPT !.text = IF failed THEN @ ELSE Empty, !.confirmOpen = FALSE,
                 !.submitting = FALSE, !.changed = FALSE]

Deliver_TradeNotApplied(s) ==
  /\ requests[s] # None /\ requests[s].answer # None
  /\ portfolio' = IF requests[s].op = "trade" THEN portfolio ELSE requests[s].answer
  /\ excuses' = IF portfolio' = Len(server) THEN {} ELSE excuses
  /\ UNCHANGED <<url, coin, price, server>>
  /\ Renders(IF form = None THEN None
             ELSE Overtaken(Concluded(form, requests[s], FALSE)), Without(s))

\* An older portfolio than the one shown is applied all the same.
Deliver(s) ==
  /\ requests[s] # None /\ requests[s].answer # None
  /\ portfolio' = requests[s].answer
  /\ excuses' = CASE portfolio' = Len(server) -> {}
                  [] portfolio' < portfolio   -> excuses \cup {"overtaken"}
                  [] OTHER                    -> excuses
  /\ UNCHANGED <<url, coin, price, server>>
  /\ Renders(IF form = None THEN None
             ELSE Overtaken(Concluded(form, requests[s], FALSE)), Without(s))

\* A refusal, or no answer at all: the trade may have been made.
Fail(s) ==
  /\ requests[s] # None
  /\ excuses' = IF requests[s].op = "trade" /\ requests[s].answer # None
                THEN excuses \cup {"lost"} ELSE excuses
  /\ UNCHANGED <<url, coin, price, portfolio, server>>
  /\ Renders(IF form = None THEN None ELSE Concluded(form, requests[s], TRUE), Without(s))

Answer(s) == Deliver(s) \/ Fail(s)

Next ==
  \/ \E c \in Coins : Open(c) \/ GoTo(c)
  \/ Leave \/ SeePortfolio \/ CoinAnswers \/ CoinAnswersLate \/ RetryCoin \/ RetryPortfolio
  \/ \E t \in Typed : TypeText(t)
  \/ \E type \in Types : switchType(type)
  \/ \E percentage \in Percentages : Fill(percentage)
  \/ handleSubmit \/ Dismiss \/ confirm
  \/ \E s \in Slots : Serve(s) \/ Answer(s)

Spec == Init /\ [][Next]_vars

\* A fetch always settles.
FairSpec == Spec /\ \A s \in Slots : WF_vars(Answer(s))

-----------------------------------------------------------------------------
\* Every variable has its type, and the form is there exactly when the page has
\* a coin and a portfolio to build it on.
CoinPageTypeOK ==
  /\ url \in Coins \cup {None} /\ Coin!UseAsyncTypeOK /\ coin.wanted = url
  /\ price \in Nat \cup {None} /\ (coin.data = None => price = None)
  /\ portfolio \in 0 .. Len(server) /\ Len(server) \in 1 .. MaxTrades + 1
  /\ server \in Seq([cash : Nat, held : [Coins -> Nat]])
  /\ requests \in [Slots -> Orders \cup Refreshes \cup {None}]
  /\ form \in Forms \cup {None}
  /\ form # None <=> (url # None /\ coin.data # None /\ portfolio # 0)

\* An order is for the coin its form names, in the title of the page, on its button
\* and in the dialog that confirms it.  It is not: while the page waits for another
\* coin, and for good when that one cannot be loaded, the form on screen is the
\* previous coin's and its order goes to the coin of the URL.
OrderIsForTheCoinShown ==
  \A s \in Flying("trade") : requests[s].shown = requests[s].coin

\* A form waits exactly for one trade, its own, with its dialog open: no double
\* click, edit or answer for another form sends a second one or frees it.
OneTradePerForm ==
  /\ Cardinality(LiveTrades) <= 1
  /\ LiveTrades # {} <=> form # None /\ form.submitting
  /\ form # None /\ form.submitting => form.confirmOpen

\* An order the server is asked to make passed the form's checks, unless the
\* form, the price or the portfolio they read changed behind the open dialog.
OrdersWereChecked ==
  \A s \in Flying("trade") : requests[s].checked

\* The summary keeps its word: the trade it stands for, made at the price shown by a
\* server that is where the page believes it to be, is accepted, moves the cash by
\* the total shown and leaves the holding announced.  The balance shown is the cash
\* it leaves, to the cent, except that of a purchase whose total is exactly half a
\* cent over: the server rounds it up, the page rounds what is left up, too.
PreviewIsTheOutcome ==
  /\ form # None /\ Submittable(form) /\ validation(form).quantity <= QuantityMax
  /\ coin.data = url /\ portfolio = Len(server)
  => LET order == Trade(url, form)
         after == Settled(order, price)
         shown == Preview(form)
         short == formatCurrency(shown.balance) - after.cash
     IN /\ Allowed(order, price)
        /\ after.held[url] = shown.held
        /\ formatCurrency(shown.total) = IF form.type = "BUY" THEN Books.cash - after.cash
                                         ELSE after.cash - Books.cash
        /\ short = IF form.type = "BUY" /\ 2 * (shown.total % Scale) = Scale THEN 1 ELSE 0

\* With nothing in flight the portfolio shown is the server's, unless an older
\* answer overtook a newer one or the answer to a trade that was made was lost.
ShownPortfolioIsCurrent ==
  (\A s \in Slots : requests[s] = None) /\ portfolio # 0 /\ excuses = {}
    => portfolio = Len(server)

\* The dialog of a confirmed trade always closes, whatever becomes of the trade.
FormIsFreedAgain ==
  (form # None /\ form.submitting) ~> (form = None \/ ~form.submitting)
=============================================================================
