------------------------------ MODULE Session ------------------------------
(***************************************************************************)
(* The session of one browser tab: AppProvider with its reducer, the token *)
(* in localStorage, the route guards and the requests in flight.           *)
(*                                                                         *)
(* The server handles a request and the browser runs its continuation in   *)
(* one step, at any time after it was sent.  Everything the page does in   *)
(* one turn is one step: dispatches, redirections, and the effects of the  *)
(* components mounted by them.                                             *)
(***************************************************************************)
EXTENDS Naturals, FiniteSets

CONSTANTS
  Users,
  MaxLogins,    \* bound on the tokens issued
  MaxRequests,  \* bound on the requests in flight
  None

ASSUME SessionAssumption ==
  /\ None \notin Users
  /\ MaxLogins \in Nat \ {0} /\ MaxRequests \in Nat \ {0}

VARIABLES
  stored,       \* the JWT in localStorage, or None
  app,          \* AppState
  page,         \* the route of the URL
  panel,        \* state of the page on screen: refreshing and error (usePortfolio,
                \* OAuthCallbackPage), prefilled (LoginPage), editing (ProfilePage),
                \* pending (SocialLoginButtons)
  requests,     \* [Slots -> a request in flight or None]
  issued,       \* number of tokens issued
  expired,      \* tokens the backend no longer accepts
  stray         \* ghost: slices of app last written for another session

vars == <<stored, app, page, panel, requests, issued, expired, stray>>

Slots == 1 .. MaxRequests

Tokens == [user : Users, n : 1 .. MaxLogins]

\* "/profile" stands for every private page without usePortfolio ("/markets",
\* "/leaderboard").
PrivatePages == {"/dashboard", "/portfolio", "/crypto", "/profile"}

PortfolioPages == {"/dashboard", "/portfolio", "/crypto"}

AuthPages == {"/login", "/register", "/auth/callback"}

Pages == PrivatePages \cup AuthPages

SignIns == {"login", "register", "oauth"}

\* "social" asks Neon Auth for the redirection to Google or GitHub, "neon" for the
\* token to exchange; the others are asked of the backend.
Ops == SignIns \cup {"me", "trade", "rename", "refresh", "social", "neon"}

\* token: attached when sent; good: valid when sent; signal: aborted when the
\* page is left; live: the page that sent it is on screen;
\* old (ghost): a session began or ended since.
Requests == [op : Ops, token : Tokens \cup {None}, good : BOOLEAN,
             signal : BOOLEAN, live : BOOLEAN, old : BOOLEAN]

ASSUME NoneIsNothing == None \notin Tokens \cup Requests

Panels == [refreshing : BOOLEAN, error : BOOLEAN, prefilled : BOOLEAN,
           editing : BOOLEAN, pending : BOOLEAN]

AppStates == [user : Users \cup {None}, isAuthenticated : BOOLEAN,
              portfolio : Users \cup {None}, loading : BOOLEAN, error : BOOLEAN]

-----------------------------------------------------------------------------
(* context/appReducer.ts.  A portfolio is named by its owner.              *)

initialAppState ==
  [user |-> None, isAuthenticated |-> FALSE, portfolio |-> None,
   loading |-> TRUE, error |-> FALSE]

LOGIN_DropsPortfolio(a, u) ==
  [initialAppState EXCEPT !.user = u, !.isAuthenticated = TRUE, !.loading = FALSE]

LOGIN(a, u) ==
  [a EXCEPT !.user = u, !.isAuthenticated = TRUE, !.loading = FALSE, !.error = FALSE]

LOGOUT_KeepsUser(a) == [initialAppState EXCEPT !.loading = FALSE, !.user = a.user]

LOGOUT_KeepsPortfolio(a) ==
  [a EXCEPT !.user = None, !.isAuthenticated = FALSE, !.loading = FALSE, !.error = FALSE]

LOGOUT(a) == [initialAppState EXCEPT !.loading = FALSE]

SET_USER(a, u) == [a EXCEPT !.user = u, !.isAuthenticated = TRUE]

SET_PORTFOLIO(a, u) == [a EXCEPT !.portfolio = u]

SET_LOADING(a, loading) == [a EXCEPT !.loading = loading]

SET_ERROR(a, error) == [a EXCEPT !.error = error]

-----------------------------------------------------------------------------
(* Sending, guards and rendering.                                          *)

\* apiClient.request: the token is read when the request is sent.
request(op, token, signal) ==
  [op |-> op, token |-> token, good |-> token # None /\ token \notin expired,
   signal |-> signal, live |-> TRUE, old |-> FALSE]

Free(reqs) == {s \in Slots : reqs[s] = None}

Send(reqs, r) ==
  [reqs EXCEPT ![CHOOSE s \in Free(reqs) : TRUE] = r]

InFlight(op) == \E s \in Slots : requests[s] # None /\ requests[s].op = op

\* The form, the button or the page that sent such a request waits for it.
Awaited(ops) ==
  \E s \in Slots : requests[s] # None /\ requests[s].op \in ops /\ requests[s].live

ProtectedRoute(a, p) == IF a.isAuthenticated THEN p ELSE "/login"

AuthLayout(a, p) == IF a.isAuthenticated THEN "/dashboard" ELSE p

\* Both guards wait for the session to be restored.
Guard(a, p) ==
  IF a.loading THEN p
  ELSE IF p \in PrivatePages THEN ProtectedRoute(a, p) ELSE AuthLayout(a, p)

\* What the page that is mounted sends: for its portfolio (usePortfolio), or for
\* the Neon Auth token (OAuthCallbackPage), once.
MountRequests(a, p, token) ==
  IF a.loading THEN {}
  ELSE IF p \in PortfolioPages THEN {request("refresh", token, TRUE)}
  ELSE IF p = "/auth/callback" THEN {request("neon", None, FALSE)}
  ELSE {}

\* The page left: aborted requests are dropped, the others go on without it.
Left(r, moved) ==
  IF r = None \/ (moved /\ r.signal) THEN None
  ELSE [r EXCEPT !.live = @ /\ ~moved, !.old = @ \/ (stored' # stored)]

Blank ==
  [refreshing |-> FALSE, error |-> FALSE, prefilled |-> FALSE, editing |-> FALSE,
   pending |-> FALSE]

\* The page stays on screen, with the panel pan.
Stays(a, reqs, pan) ==
  /\ page' = page /\ app' = a /\ panel' = pan
  /\ requests' = [s \in Slots |-> Left(reqs[s], FALSE)]

\* Another page is mounted, or the first one after the restoring spinner.
Mounts(a, to, reqs) ==
  LET kept == [s \in Slots |-> Left(reqs[s], TRUE)]
      sent == MountRequests(a, to, stored')
  IN /\ page' = to
     /\ app' = IF page \in {"/login", "/register"} THEN SET_ERROR(a, FALSE) ELSE a
     /\ panel' = [Blank EXCEPT !.refreshing = ~a.loading /\ to \in PortfolioPages]
     /\ \/ sent = {} /\ requests' = kept
        \/ \E r \in sent : Free(kept) # {} /\ requests' = Send(kept, r)

\* The screen after a step that leaves the state a, the URL p, the requests
\* reqs and, on the page that sent them, the panel pan.
Renders(a, p, reqs, pan) ==
  LET to == Guard(a, p)
  IN IF to # page \/ a.loading # app.loading THEN Mounts(a, to, reqs)
     ELSE Stays(a, reqs, pan)

-----------------------------------------------------------------------------
(* What the pages built on usePortfolio show, by the conditions of their   *)
(* JSX: a is the application state, pan the state of the hook.             *)

Show(condition, block) == IF condition THEN {block} ELSE {}

waits(a, pan) == pan.refreshing /\ a.portfolio = None

DashboardFigures(a, pan) ==
  Show(waits(a, pan), "spinner")
  \cup Show(~waits(a, pan) /\ pan.error, "retry")
  \cup Show(a.portfolio # None, "portfolio")

PortfolioSections(a, pan) ==
  Show(waits(a, pan), "spinner")
  \cup Show(pan.error, "retry")
  \cup Show(a.portfolio # None, "portfolio")

\* In place of the trade form of a coin; an error behind the form is not shown.
TradeCard(a, pan) ==
  Show(a.portfolio = None /\ ~pan.error, "spinner")
  \cup Show(a.portfolio = None /\ pan.error, "retry")
  \cup Show(a.portfolio # None, "portfolio")

CallbackCard(pan) ==
  Show(~pan.error, "spinner") \cup Show(pan.error, "back to login")

SignInForms == {"form", "social buttons"}

NameCard(pan) == Show(pan.editing, "name form") \cup Show(~pan.editing, "edit")

\* While the session is restored both guards show a spinner in place of the page.
View ==
  IF app.loading THEN {"spinner"} ELSE
  CASE page \in {"/login", "/register"} -> SignInForms
    [] page = "/auth/callback"           -> CallbackCard(panel)
    [] page = "/dashboard"               -> DashboardFigures(app, panel)
    [] page = "/portfolio"               -> PortfolioSections(app, panel)
    [] page = "/crypto"                  -> TradeCard(app, panel)
    [] page = "/profile"                 -> NameCard(panel)

-----------------------------------------------------------------------------
(* Start-up.  A full page load forgets everything but the stored token.    *)

Idle == [s \in Slots |-> None]

\* AppProvider's first effect, then what the guards let through.
Started(p) ==
  IF stored # None
  THEN /\ app' = initialAppState
       /\ page' = p
       /\ panel' = Blank
       /\ requests' = Send(Idle, request("me", stored, FALSE))
  ELSE LET a    == SET_LOADING(initialAppState, FALSE)
           to   == Guard(a, p)
           sent == MountRequests(a, to, None)
       IN /\ app' = a
          /\ page' = to
          /\ panel' = Blank
          /\ \/ sent = {} /\ requests' = Idle
             \/ \E r \in sent : requests' = Send(Idle, r)

Init ==
  /\ stored = None /\ issued = 0 /\ expired = {} /\ stray = {}
  /\ page \in {"/login", "/register"}
  /\ app = SET_LOADING(initialAppState, FALSE)
  /\ panel = Blank
  /\ requests = Idle

\* The tab is opened or reloaded, or comes back from Google or GitHub.
Load(p) ==
  /\ Started(p)
  /\ stray' = {}
  /\ UNCHANGED <<stored, issued, expired>>

-----------------------------------------------------------------------------
(* What the user does.                                                     *)

Click(r) ==
  /\ Free(requests) # {}
  /\ requests' = Send(requests, r)
  /\ UNCHANGED <<stored, page, issued, expired, stray>>

\* One submission at a time per form on screen.
Submit(op) ==
  /\ ~app.loading /\ ~Awaited({op})
  /\ issued + Cardinality({s \in Slots : requests[s] # None /\ requests[s].op \in SignIns})
       < MaxLogins
  /\ Click(request(op, None, FALSE))
  /\ app' = SET_ERROR(app, FALSE)
  /\ UNCHANGED panel

\* LoginForm and RegisterForm, once what they hold is valid.
SubmitLogin == page = "/login" /\ Submit("login")

SubmitRegistration == page = "/register" /\ Submit("register")

\* The demo account fills the form in: a new key, so a new form.
Prefill ==
  /\ page = "/login" /\ ~app.loading /\ ~panel.prefilled
  /\ panel' = [panel EXCEPT !.prefilled = TRUE]
  /\ requests' = [s \in Slots |->
                    IF requests[s] # None /\ requests[s].op = "login"
                    THEN [requests[s] EXCEPT !.live = FALSE] ELSE requests[s]]
  /\ UNCHANGED <<stored, app, page, issued, expired, stray>>

\* AppProvider.logout, then the page p.
LogsOut(p) ==
  /\ stored' = None /\ stray' = {}
  /\ Renders(LOGOUT(app), p, requests, panel)
  /\ UNCHANGED <<issued, expired>>

\* handleLogout of Navbar and of ProfilePage.
Logout ==
  /\ page \in PrivatePages /\ app.isAuthenticated
  /\ LogsOut("/login")

\* A link, a redirection or the browser's own buttons.
Navigate(p) ==
  /\ p \in Pages \ {page, "/auth/callback"}
  /\ stored' = stored
  /\ Renders(app, p, requests, panel)
  /\ UNCHANGED <<issued, expired, stray>>

Viewing(p) == page = p /\ ~app.loading /\ app.isAuthenticated

\* The trade form is there once the portfolio is (module CoinPage).
Trade ==
  /\ Viewing("/crypto") /\ app.portfolio # None /\ ~Awaited({"trade"})
  /\ Click(request("trade", stored, FALSE))
  /\ UNCHANGED <<app, panel>>

startEditing ==
  /\ Viewing("/profile") /\ ~panel.editing
  /\ panel' = [panel EXCEPT !.editing = TRUE]
  /\ UNCHANGED <<stored, app, page, requests, issued, expired, stray>>

\* "Annuler" is disabled while the name is being saved.
CancelEditing ==
  /\ Viewing("/profile") /\ panel.editing /\ ~Awaited({"rename"})
  /\ panel' = [panel EXCEPT !.editing = FALSE]
  /\ UNCHANGED <<stored, app, page, requests, issued, expired, stray>>

\* ProfilePage.submitUsername.
Rename ==
  /\ Viewing("/profile") /\ panel.editing /\ ~Awaited({"rename"})
  /\ Click(request("rename", stored, FALSE))
  /\ UNCHANGED <<app, panel>>

\* "Continuer avec Google / GitHub": both buttons wait for the one clicked.
SocialSignIn ==
  /\ "social buttons" \in View /\ ~panel.pending
  /\ Click(request("social", None, FALSE))
  /\ panel' = [panel EXCEPT !.pending = TRUE]
  /\ UNCHANGED app

\* The refresh button of the portfolio, or the retry next to an error.
Refresh ==
  /\ app.isAuthenticated /\ page \in PortfolioPages /\ ~panel.refreshing
  /\ page = "/portfolio" \/ "retry" \in View
  /\ Click(request("refresh", stored, FALSE))
  /\ panel' = [panel EXCEPT !.refreshing = TRUE, !.error = FALSE]
  /\ UNCHANGED app

\* The backend stops accepting a token, its own reasons left open.
Expire(t) ==
  /\ t \notin expired
  /\ t = stored \/ \E s \in Slots : requests[s] # None /\ requests[s].token = t
  /\ expired' = expired \cup {t}
  /\ UNCHANGED <<stored, app, page, panel, requests, issued, stray>>

-----------------------------------------------------------------------------
(* Answers.                                                                *)

Without(s) == [requests EXCEPT ![s] = None]

Ended_NoFinally(r, failed) ==
  IF ~r.live THEN panel ELSE
  CASE r.op = "refresh"           -> [panel EXCEPT !.refreshing = failed, !.error = @ \/ failed]
    [] r.op \in {"neon", "oauth"} -> [panel EXCEPT !.error = @ \/ failed]
    [] r.op = "rename"            -> [panel EXCEPT !.editing = failed]
    [] r.op = "social"            -> [panel EXCEPT !.pending = ~failed]
    [] OTHER                      -> panel

\* The end of usePortfolio.run, of submitUsername, of a social button and of the
\* callback page: only the page that asked has a panel to update.
Ended(r, failed) ==
  IF ~r.live THEN panel ELSE
  CASE r.op = "refresh"           -> [panel EXCEPT !.refreshing = FALSE, !.error = @ \/ failed]
    [] r.op \in {"neon", "oauth"} -> [panel EXCEPT !.error = @ \/ failed]
    [] r.op = "rename"            -> [panel EXCEPT !.editing = failed]
    [] r.op = "social"            -> [panel EXCEPT !.pending = ~failed]
    [] OTHER                      -> panel

\* An answer written for another session leaves its trace in the ghost.
Mark(r, slice) == stray' = IF r.old THEN stray \cup {slice} ELSE stray \ {slice}

\* storeToken, LOGIN, then the page p.
SignIn(s, p) ==
  /\ issued < MaxLogins /\ issued' = issued + 1
  /\ \E u \in Users :
       /\ stored' = [user |-> u, n |-> issued']
       /\ stray' = (stray \ {"user"}) \cup (IF app.user = None THEN {} ELSE {"portfolio"})
       /\ Renders(LOGIN(app, u), p, Without(s), panel)
  /\ UNCHANGED expired

\* The page that redirected to /login, or the dashboard.
redirectTarget == PrivatePages

LoggedIn(s) ==
  /\ requests[s] # None /\ requests[s].op = "login"
  /\ \E p \in redirectTarget : SignIn(s, p)

Registered(s) ==
  /\ requests[s] # None /\ requests[s].op = "register"
  /\ SignIn(s, "/dashboard")

\* The browser leaves for Google or GitHub, and comes back in another load.
LeftForProvider(s) ==
  /\ requests[s] # None /\ requests[s].op = "social"
  /\ \E p \in {"/auth/callback", "/login"} : Load(p)

\* The exchange of a Neon Auth token takes the place of the request for it.
loginWithOAuthToken(s) ==
  /\ app' = SET_ERROR(app, FALSE)
  /\ requests' = [requests EXCEPT ![s].op = "oauth"]

\* getNeonAuthToken found a session.
GotNeonToken(s) ==
  /\ requests[s] # None /\ requests[s].op = "neon"
  /\ loginWithOAuthToken(s)
  /\ UNCHANGED <<stored, page, panel, issued, expired, stray>>

ExchangedToken(s) ==
  /\ requests[s] # None /\ requests[s].op = "oauth"
  /\ SignIn(s, "/dashboard")

Restored(s) ==
  /\ requests[s] # None /\ requests[s].op = "me" /\ requests[s].good
  /\ stored' = stored
  /\ Renders(LOGIN(app, requests[s].token.user), page, Without(s), panel)
  /\ UNCHANGED <<issued, expired, stray>>

GotPortfolio(s) ==
  /\ requests[s] # None /\ requests[s].op \in {"trade", "refresh"} /\ requests[s].good
  /\ stored' = stored
  /\ Mark(requests[s], "portfolio")
  /\ Renders(SET_PORTFOLIO(app, requests[s].token.user), page, Without(s),
             Ended(requests[s], FALSE))
  /\ UNCHANGED <<issued, expired>>

Renamed(s) ==
  /\ requests[s] # None /\ requests[s].op = "rename" /\ requests[s].good
  /\ stored' = stored
  /\ Mark(requests[s], "user")
  /\ Renders(SET_USER(app, requests[s].token.user), page, Without(s),
             Ended(requests[s], FALSE))
  /\ UNCHANGED <<issued, expired>>

Refused_NoLogout(s) ==
  /\ requests[s] # None /\ requests[s].token \in expired
  /\ stored' = None /\ stray' = {}
  /\ Renders(app, page, Without(s), Ended(requests[s], TRUE))
  /\ UNCHANGED <<issued, expired>>

\* 401 to a request that carried a token: the session ends, whichever token it was.
Refused(s) ==
  /\ requests[s] # None /\ requests[s].token \in expired
  /\ stored' = None /\ stray' = {}
  /\ Renders(LOGOUT(app), page, Without(s), panel)
  /\ UNCHANGED <<issued, expired>>

\* The restoring request failed: nobody is authenticated, the token stays or goes.
GivesUp(s, token) ==
  /\ requests[s] # None /\ requests[s].op = "me"
  /\ stored' = token /\ stray' = {}
  /\ Renders(LOGOUT(app), page, Without(s), panel)
  /\ UNCHANGED <<issued, expired>>

\* Any other request failed: the page that sent it says so, and a sign-in also
\* leaves its error to the forms.
ShowsError(s) ==
  /\ requests[s] # None /\ requests[s].op # "me"
  /\ UNCHANGED <<stored, stray, issued, expired>>
  /\ Renders(SET_ERROR(app, app.error \/ requests[s].op \in SignIns), page, Without(s),
             Ended(requests[s], TRUE))

\* The backend answers with an error, 401 for a sign-in included (apiClient only
\* raises UNAUTHORIZED_EVENT for a request that carried a token), or its answer
\* breaks off in the body, which is no NETWORK_ERROR.
Rejected(s) == GivesUp(s, None) \/ ShowsError(s)

\* NETWORK_ERROR: a session that was being restored keeps its token.
Unreachable(s) == GivesUp(s, stored) \/ ShowsError(s)

Answer(s) ==
  \/ LoggedIn(s) \/ Registered(s) \/ LeftForProvider(s) \/ GotNeonToken(s)
  \/ ExchangedToken(s) \/ Restored(s) \/ GotPortfolio(s) \/ Renamed(s)
  \/ Refused(s) \/ Rejected(s) \/ Unreachable(s)

Next ==
  \/ \E p \in Pages : Load(p) \/ Navigate(p)
  \/ SubmitLogin \/ SubmitRegistration
  \/ Prefill \/ SocialSignIn \/ Logout
  \/ startEditing \/ CancelEditing \/ Rename \/ Trade \/ Refresh
  \/ \E t \in Tokens : Expire(t)
  \/ \E s \in Slots : Answer(s)

Spec == Init /\ [][Next]_vars

\* Every request is answered, refused or fails: fetch always settles.
FairSpec == Spec /\ \A s \in Slots : WF_vars(Answer(s))

-----------------------------------------------------------------------------
\* Every variable has its type, and the portfolio panel belongs to its pages.
SessionTypeOK ==
  /\ stored \in Tokens \cup {None} /\ app \in AppStates /\ page \in Pages
  /\ panel \in Panels /\ requests \in [Slots -> Requests \cup {None}]
  /\ issued \in 0 .. MaxLogins /\ expired \subseteq Tokens
  /\ stray \subseteq {"user", "portfolio"}
  /\ app.isAuthenticated <=> app.user # None

\* The user shown is the one the stored token speaks for, through overlapping
\* sign-ins, reloads and late refusals, unless a rename sent in an earlier
\* session was answered in this one.
IdentityFollowsToken ==
  (app.user # None /\ "user" \notin stray)
    => stored # None /\ stored.user = app.user

\* No user is shown another user's portfolio, unless the user or the portfolio shown
\* was answered to a request of an earlier session, or the user signed in over an
\* open session.
PortfolioFollowsUser ==
  (app.user # None /\ app.portfolio # None /\ stray = {})
    => app.portfolio = app.user

\* Every page always shows something, and a spinner or a waiting button only while
\* the request it stands for is in flight.
NoBlankPage ==
  /\ View # {}
  /\ app.loading => InFlight("me")
  /\ panel.refreshing <=> Awaited({"refresh"})
  /\ panel.pending <=> Awaited({"social"})
  /\ Awaited({"rename"}) => panel.editing
  /\ "spinner" \in View => \/ app.loading \/ panel.refreshing
                           \/ Awaited({"neon", "oauth"})

\* The session is restored or given up, and no page or button waits forever.
SpinnersEnd ==
  /\ app.loading ~> ~app.loading
  /\ panel.refreshing ~> ~panel.refreshing
  /\ panel.pending ~> ~panel.pending

\* "Jeton supprimé, [...] `/dashboard` redirige vers `/login`": after a logout
\* nobody is authenticated without a token.
LoggedOutStaysOut == app.isAuthenticated => stored # None
=============================================================================
