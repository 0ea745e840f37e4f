--------------------------- MODULE SessionProofs ---------------------------
(***************************************************************************)
(* The session of a tab, for every set of users and any number of tokens   *)
(* and requests in flight: types, whose name and portfolio is shown, and   *)
(* what every page shows while it waits.                                   *)
(*                                                                         *)
(* Three invariants carry the rest: Typed (types, and what each request    *)
(* carries), Belongs (the restoring request is alone, and every slice of   *)
(* the state is the stored token's or marked) and Waiting (each spinner    *)
(* has one request, each page its data, a request or an error).            *)
(***************************************************************************)
EXTENDS Session, TLAPS

\* What is sent takes a slot that was free.
LEMMA SendFillsAFreeSlot ==
  ASSUME NEW reqs, NEW r, Free(reqs) # {}
  PROVE  \E m \in Slots : reqs[m] = None /\ Send(reqs, r) = [reqs EXCEPT ![m] = r]
<1> DEFINE m == CHOOSE s \in Free(reqs) : TRUE
<1>1. m \in Free(reqs)
  OBVIOUS
<1> QED
  BY <1>1 DEF Send, Free

\* The requests that carry the stored token.
Bearers == {"me", "trade", "rename", "refresh"}

\* r is a request of a tab whose stored token is now token.
WellSent(r, token) ==
  /\ r.good => r.token # None
  /\ r.op \notin Bearers => r.token = None
  /\ r.op \in Bearers /\ ~r.old => r.token = token

\* So is every request in flight.
InFlightOK(reqs, token) ==
  /\ reqs \in [Slots -> Requests \cup {None}]
  /\ \A s \in Slots : reqs[s] # None => WellSent(reqs[s], token)

\* What is sent is of its type, and good only with a token.
LEMMA RequestType ==
  ASSUME NEW op \in Ops, NEW token \in Tokens \cup {None}, NEW signal \in BOOLEAN
  PROVE  request(op, token, signal) \in Requests
BY DEF request, Requests

\* A request sent with the stored token, or without one, is well sent.
LEMMA RequestSent ==
  ASSUME NEW op \in Ops, NEW token \in Tokens \cup {None}, NEW signal \in BOOLEAN,
         op \in Bearers \/ token = None
  PROVE  /\ WellSent(request(op, token, signal), token)
         /\ request(op, token, signal).op = op /\ ~request(op, token, signal).old
<1> DEFINE r == request(op, token, signal)
<1>1. r.op = op /\ r.token = token /\ r.old = FALSE
  BY DEF request
<1>2. r.good <=> token # None /\ token \notin expired
  BY Zenon DEF request
<1> QED
  BY <1>1, <1>2 DEF WellSent

\* Sending keeps the requests in flight what they should be.
LEMMA SendOK ==
  ASSUME NEW reqs, NEW token, InFlightOK(reqs, token), Free(reqs) # {},
         NEW r \in Requests, WellSent(r, token)
  PROVE  InFlightOK(Send(reqs, r), token)
<1>1. PICK m \in Slots : Send(reqs, r) = [reqs EXCEPT ![m] = r]
  BY SendFillsAFreeSlot
<1> QED
  BY <1>1 DEF InFlightOK

\* So does leaving the page, and a step that changes the token makes them old.
LEMMA LeftOK ==
  ASSUME NEW reqs, InFlightOK(reqs, stored), NEW moved \in BOOLEAN
  PROVE  InFlightOK([s \in Slots |-> Left(reqs[s], moved)], stored')
<1>1. ASSUME NEW s \in Slots, Left(reqs[s], moved) # None
      PROVE  /\ Left(reqs[s], moved) \in Requests
             /\ WellSent(Left(reqs[s], moved), stored')
  <2>1. reqs[s] # None /\ reqs[s] \in Requests /\ WellSent(reqs[s], stored)
    BY <1>1 DEF InFlightOK, Left
  <2>2. Left(reqs[s], moved) = [reqs[s] EXCEPT !.live = @ /\ ~moved, !.old = @ \/ (stored' # stored)]
    BY <1>1 DEF Left
  <2> QED
    BY <2>1, <2>2 DEF WellSent, Requests
<1> QED
  BY <1>1 DEF InFlightOK

\* The guards send to pages.
LEMMA GuardType ==
  ASSUME NEW a, NEW p \in Pages
  PROVE  Guard(a, p) \in Pages
BY DEF Guard, ProtectedRoute, AuthLayout, Pages, PrivatePages, AuthPages

\* A page that is mounted sends well.
LEMMA MountType ==
  ASSUME NEW a, NEW p, NEW token \in Tokens \cup {None}, NEW r \in MountRequests(a, p, token)
  PROVE  /\ r \in Requests /\ WellSent(r, token)
         /\ r.op \in {"refresh", "neon"} /\ ~r.old
<1>1. \/ r = request("refresh", token, TRUE)
      \/ r = request("neon", None, FALSE)
  BY DEF MountRequests
<1>2. r \in Requests
  BY <1>1, RequestType DEF Ops, SignIns
<1>3. CASE r = request("refresh", token, TRUE)
  BY <1>2, <1>3, RequestSent DEF Ops, SignIns, Bearers
<1>4. CASE r = request("neon", None, FALSE)
  <2>1. /\ WellSent(request("neon", None, FALSE), None)
        /\ request("neon", None, FALSE).op = "neon" /\ ~request("neon", None, FALSE).old
    BY RequestSent DEF Ops
  <2> QED
    BY <1>2, <1>4, <2>1 DEF WellSent, Bearers
<1> QED
  BY <1>1, <1>3, <1>4

\* A state of its type, in which a user is shown exactly when one is signed in.
SignedInIsNamed(a) == a \in AppStates /\ (a.isAuthenticated <=> a.user # None)

\* Whatever is shown next has its type.
LEMMA RendersOK ==
  ASSUME NEW a, SignedInIsNamed(a), NEW p \in Pages, NEW reqs, InFlightOK(reqs, stored),
         NEW pan \in Panels, stored' \in Tokens \cup {None}, page \in Pages,
         Renders(a, p, reqs, pan)
  PROVE  /\ SignedInIsNamed(app') /\ page' \in Pages /\ panel' \in Panels
         /\ InFlightOK(requests', stored')
<1> DEFINE to == Guard(a, p)
<1>1. to \in Pages
  BY GuardType
<1>2. CASE Stays(a, reqs, pan)
  BY <1>2, LeftOK DEF Stays
<1>3. CASE Mounts(a, to, reqs)
  <2> DEFINE kept == [s \in Slots |-> Left(reqs[s], TRUE)]
  <2>1. InFlightOK(kept, stored')
    BY LeftOK
  <2>2. InFlightOK(requests', stored')
    <3>1. CASE requests' = kept
      BY <2>1, <3>1
    <3>2. ASSUME NEW r \in MountRequests(a, to, stored'), Free(kept) # {},
                 requests' = Send(kept, r)
          PROVE  InFlightOK(requests', stored')
      <4> HIDE DEF kept, to
      <4> QED
        BY <2>1, <3>2, MountType, SendOK
    <3> QED
      BY <1>3, <3>1, <3>2 DEF Mounts
  <2>3. SignedInIsNamed(app')
    BY <1>3 DEF Mounts, SignedInIsNamed, SET_ERROR, AppStates
  <2>4. panel' \in Panels
    <3>1. a.loading \in BOOLEAN
      BY DEF SignedInIsNamed, AppStates
    <3>2. panel' = [Blank EXCEPT !.refreshing = ~a.loading /\ to \in PortfolioPages]
      BY <1>3 DEF Mounts
    <3> HIDE DEF to
    <3> QED
      BY <3>1, <3>2 DEF Blank, Panels
  <2> QED
    BY <1>1, <1>3, <2>2, <2>3, <2>4 DEF Mounts
<1> QED
  BY <1>2, <1>3 DEF Renders

-----------------------------------------------------------------------------
(* Types.                                                                  *)

\* The type invariant, with what each request carries.
Typed == SessionTypeOK /\ InFlightOK(requests, stored)

\* The reducer keeps a state's type, and names the user it shows.
LEMMA ReducerOK ==
  ASSUME NEW a, SignedInIsNamed(a), NEW u \in Users
  PROVE  /\ SignedInIsNamed(LOGIN(a, u)) /\ SignedInIsNamed(LOGOUT(a))
         /\ SignedInIsNamed(SET_USER(a, u)) /\ SignedInIsNamed(SET_PORTFOLIO(a, u))
<1> USE DEF SignedInIsNamed, AppStates
<1>1. SignedInIsNamed(LOGIN(a, u))
  BY SessionAssumption DEF LOGIN
<1>2. SignedInIsNamed(LOGOUT(a))
  BY DEF LOGOUT, initialAppState
<1>3. SignedInIsNamed(SET_USER(a, u))
  BY SessionAssumption DEF SET_USER
<1>4. SignedInIsNamed(SET_PORTFOLIO(a, u))
  BY DEF SET_PORTFOLIO
<1> QED
  BY <1>1, <1>2, <1>3, <1>4

\* Two states that differ in their error alone.
SameSession(a, b) ==
  /\ a.user = b.user /\ a.portfolio = b.portfolio /\ a.loading = b.loading
  /\ a.isAuthenticated = b.isAuthenticated

\* What each action of the reducer does to the session.
LEMMA ReducerState ==
  ASSUME NEW a \in AppStates, NEW u
  PROVE  /\ LOGIN(a, u).user = u /\ LOGIN(a, u).portfolio = a.portfolio
         /\ ~LOGIN(a, u).loading /\ LOGIN(a, u).isAuthenticated
         /\ LOGOUT(a).user = None /\ LOGOUT(a).portfolio = None
         /\ ~LOGOUT(a).loading /\ ~LOGOUT(a).isAuthenticated
         /\ SET_USER(a, u).user = u /\ SET_USER(a, u).portfolio = a.portfolio
         /\ SET_USER(a, u).loading = a.loading /\ SET_USER(a, u).isAuthenticated
         /\ SET_PORTFOLIO(a, u).user = a.user /\ SET_PORTFOLIO(a, u).portfolio = u
         /\ SET_PORTFOLIO(a, u).loading = a.loading
         /\ SET_PORTFOLIO(a, u).isAuthenticated = a.isAuthenticated
BY DEF AppStates, LOGIN, LOGOUT, initialAppState, SET_USER, SET_PORTFOLIO

\* An error changes nothing else.
LEMMA SetErrorOK ==
  ASSUME NEW a, SignedInIsNamed(a), NEW e \in BOOLEAN
  PROVE  SignedInIsNamed(SET_ERROR(a, e)) /\ SameSession(SET_ERROR(a, e), a)
BY DEF SET_ERROR, SignedInIsNamed, SameSession, AppStates

\* The end of a request leaves a panel.
LEMMA EndedOK ==
  ASSUME panel \in Panels, NEW r \in Requests, NEW failed \in BOOLEAN
  PROVE  Ended(r, failed) \in Panels
<1>1. CASE ~r.live
  BY <1>1 DEF Ended
<1>2. CASE r.live /\ r.op = "refresh"
  BY <1>2 DEF Ended, Panels
<1>3. CASE r.live /\ r.op \in {"neon", "oauth"}
  BY <1>3 DEF Ended, Panels
<1>4. CASE r.live /\ r.op = "rename"
  BY <1>4 DEF Ended, Panels
<1>5. CASE r.live /\ r.op = "social"
  BY <1>5 DEF Ended, Panels
<1>6. CASE r.live /\ r.op \notin {"refresh", "neon", "oauth", "rename", "social"}
  BY <1>6 DEF Ended
<1> QED
  BY <1>1, <1>2, <1>3, <1>4, <1>5, <1>6

\* Removing a request leaves the others.
LEMMA WithoutOK ==
  ASSUME InFlightOK(requests, stored), NEW s \in Slots
  PROVE  InFlightOK(Without(s), stored)
BY DEF InFlightOK, Without

\* A click sends what it is about, with the token it was given.
LEMMA ClickOK ==
  ASSUME Typed, NEW op \in Ops, NEW token \in {None, stored},
         op \in Bearers => token = stored, op \notin Bearers => token = None,
         Click(request(op, token, FALSE))
  PROVE  InFlightOK(requests', stored') /\ UNCHANGED <<stored, page, issued, expired, stray>>
<1>1. token \in Tokens \cup {None}
  BY DEF Typed, SessionTypeOK
<1>2. request(op, token, FALSE) \in Requests
  BY <1>1, RequestType
<1>3. WellSent(request(op, token, FALSE), token)
  BY <1>1, RequestSent
<1>4. WellSent(request(op, token, FALSE), stored)
  <2>1. request(op, token, FALSE).op = op
    BY DEF request
  <2> QED
    BY <1>3, <2>1 DEF WellSent
<1>5. InFlightOK(Send(requests, request(op, token, FALSE)), stored)
  BY <1>2, <1>4, SendOK DEF Typed, Click
<1> QED
  BY <1>5 DEF Click

\* No slot is taken when the tab starts.
LEMMA IdleOK == /\ InFlightOK(Idle, stored) /\ 1 \in Free(Idle)
BY SessionAssumption DEF InFlightOK, Idle, Free, Slots

\* A started tab shows nobody, and asks for the user of its token or for nothing
\* but the Neon Auth token.
LEMMA StartedOK ==
  ASSUME Typed, NEW p \in Pages, Started(p), stored' = stored
  PROVE  /\ SignedInIsNamed(app') /\ page' \in Pages /\ panel' \in Panels
         /\ InFlightOK(requests', stored')
<1>1. Free(Idle) # {} /\ InFlightOK(Idle, stored)
  BY IdleOK
<1>2. Blank \in Panels
  BY DEF Blank, Panels
<1>3. SignedInIsNamed(initialAppState)
  BY DEF SignedInIsNamed, initialAppState, AppStates
<1>4. CASE stored # None
  <2>1. stored \in Tokens \cup {None}
    BY DEF Typed, SessionTypeOK
  <2>2. request("me", stored, FALSE) \in Requests
    BY <2>1, RequestType DEF Ops
  <2>3. WellSent(request("me", stored, FALSE), stored)
    BY <2>1, RequestSent DEF Ops, Bearers
  <2>4. InFlightOK(Send(Idle, request("me", stored, FALSE)), stored)
    BY <1>1, <2>2, <2>3, SendOK
  <2> QED
    BY <1>2, <1>3, <1>4, <2>4 DEF Started
<1>5. CASE stored = None
  <2> DEFINE a    == SET_LOADING(initialAppState, FALSE)
             sent == MountRequests(a, Guard(a, p), None)
  <2>1. /\ app' = a /\ page' = Guard(a, p) /\ panel' = Blank
        /\ \/ sent = {} /\ requests' = Idle
           \/ \E r \in sent : requests' = Send(Idle, r)
    BY <1>5 DEF Started
  <2>2. SignedInIsNamed(a)
    BY DEF SignedInIsNamed, initialAppState, SET_LOADING, AppStates
  <2>3. Guard(a, p) \in Pages
    BY GuardType
  <2>4. ASSUME NEW r \in sent  PROVE InFlightOK(Send(Idle, r), stored)
    BY <1>1, <1>5, MountType, SendOK
  <2> HIDE DEF a, sent
  <2> QED
    BY <1>1, <1>2, <2>1, <2>2, <2>3, <2>4
<1> QED
  BY <1>4, <1>5

\* A sign-in gives a new token to a user.
LEMMA SignInStores ==
  ASSUME Typed, NEW s \in Slots, NEW p \in Pages, SignIn(s, p)
  PROVE  Typed'
<1>1. PICK u \in Users :
        /\ stored' = [user |-> u, n |-> issued']
        /\ stray' = (stray \ {"user"}) \cup (IF app.user = None THEN {} ELSE {"portfolio"})
        /\ Renders(LOGIN(app, u), p, Without(s), panel)
  BY DEF SignIn
<1>2. issued' \in 1 .. MaxLogins /\ expired' = expired
  BY SessionAssumption DEF SignIn, Typed, SessionTypeOK
<1>3. stored' \in Tokens
  BY <1>1, <1>2 DEF Tokens
<1>4. SignedInIsNamed(LOGIN(app, u)) /\ InFlightOK(Without(s), stored)
  BY ReducerOK, WithoutOK DEF Typed, SessionTypeOK, SignedInIsNamed
<1>5. /\ SignedInIsNamed(app') /\ page' \in Pages /\ panel' \in Panels
      /\ InFlightOK(requests', stored')
  BY <1>1, <1>3, <1>4, RendersOK DEF Typed, SessionTypeOK
<1>6. stray' \subseteq {"user", "portfolio"}
  BY <1>1 DEF Typed, SessionTypeOK
<1> QED
  BY <1>2, <1>3, <1>5, <1>6 DEF Typed, SessionTypeOK, SignedInIsNamed, InFlightOK

\* A step that issues no token and renders a typed state leaves typed variables.
LEMMA RendersTyped ==
  ASSUME Typed, NEW a, SignedInIsNamed(a), NEW p \in Pages, NEW reqs,
         InFlightOK(reqs, stored), NEW pan \in Panels, Renders(a, p, reqs, pan),
         stored' \in {stored, None}, stray' \subseteq {"user", "portfolio"},
         UNCHANGED <<issued, expired>>
  PROVE  Typed'
<1>1. stored' \in Tokens \cup {None}
  BY DEF Typed, SessionTypeOK
<1>2. /\ SignedInIsNamed(app') /\ page' \in Pages /\ panel' \in Panels
      /\ InFlightOK(requests', stored')
  BY <1>1, RendersOK DEF Typed, SessionTypeOK
<1> QED
  BY <1>1, <1>2 DEF Typed, SessionTypeOK, SignedInIsNamed, InFlightOK

\* The request answered by the step, and the token it carried when it was good.
LEMMA AnsweredRequest ==
  ASSUME Typed, NEW s \in Slots, requests[s] # None
  PROVE  /\ requests[s] \in Requests /\ WellSent(requests[s], stored)
         /\ requests[s].good => requests[s].token.user \in Users
BY DEF Typed, InFlightOK, WellSent, Requests, Tokens

\* An answer leaves typed variables.
LEMMA AnswerTyped ==
  ASSUME Typed, NEW s \in Slots, Answer(s)
  PROVE  Typed'
<1> DEFINE r == requests[s]
<1>1. SignedInIsNamed(app) /\ panel \in Panels /\ page \in Pages
  BY DEF Typed, SessionTypeOK, SignedInIsNamed
<1>2. InFlightOK(Without(s), stored)
  BY WithoutOK DEF Typed
<1>3. stray \subseteq {"user", "portfolio"} /\ {} \subseteq {"user", "portfolio"}
  BY DEF Typed, SessionTypeOK
<1>4. CASE LoggedIn(s)
  BY <1>4, SignInStores DEF LoggedIn, redirectTarget, Pages
<1>5. CASE Registered(s)
  BY <1>5, SignInStores DEF Registered, Pages, PrivatePages
<1>6. CASE LeftForProvider(s)
  <2>1. PICK p \in Pages : Load(p)
    BY <1>6 DEF LeftForProvider, Pages, AuthPages
  <2> QED
    BY <2>1, StartedOK DEF Load, Typed, SessionTypeOK, SignedInIsNamed, InFlightOK
<1>7. CASE GotNeonToken(s)
  <2>1. r \in Requests /\ WellSent(r, stored) /\ r.op = "neon"
    BY <1>7, AnsweredRequest DEF GotNeonToken
  <2>2. [r EXCEPT !.op = "oauth"] \in Requests /\ WellSent([r EXCEPT !.op = "oauth"], stored)
    BY <2>1 DEF Requests, Ops, SignIns, WellSent, Bearers
  <2>3. requests' = [requests EXCEPT ![s] = [r EXCEPT !.op = "oauth"]]
    BY <1>7 DEF GotNeonToken, loginWithOAuthToken
  <2>4. InFlightOK(requests', stored)
    BY <2>2, <2>3 DEF Typed, InFlightOK
  <2>5. SignedInIsNamed(app')
    BY <1>1, <1>7, SetErrorOK DEF GotNeonToken, loginWithOAuthToken
  <2> QED
    BY <1>7, <2>4, <2>5 DEF GotNeonToken, Typed, SessionTypeOK, SignedInIsNamed, InFlightOK
<1>8. CASE ExchangedToken(s)
  BY <1>8, SignInStores DEF ExchangedToken, Pages, PrivatePages
<1>9. CASE Restored(s)
  <2>1. SignedInIsNamed(LOGIN(app, r.token.user))
    BY <1>1, <1>9, AnsweredRequest, ReducerOK DEF Restored
  <2> QED
    BY <1>1, <1>2, <1>3, <1>9, <2>1, RendersTyped DEF Restored
<1>10. CASE GotPortfolio(s)
  <2>1. SignedInIsNamed(SET_PORTFOLIO(app, r.token.user)) /\ Ended(r, FALSE) \in Panels
    BY <1>1, <1>10, AnsweredRequest, ReducerOK, EndedOK DEF GotPortfolio
  <2>2. stray' \subseteq {"user", "portfolio"}
    BY <1>3, <1>10 DEF GotPortfolio, Mark
  <2> QED
    BY <1>1, <1>2, <1>10, <2>1, <2>2, RendersTyped DEF GotPortfolio
<1>11. CASE Renamed(s)
  <2>1. SignedInIsNamed(SET_USER(app, r.token.user)) /\ Ended(r, FALSE) \in Panels
    BY <1>1, <1>11, AnsweredRequest, ReducerOK, EndedOK DEF Renamed
  <2>2. stray' \subseteq {"user", "portfolio"}
    BY <1>3, <1>11 DEF Renamed, Mark
  <2> QED
    BY <1>1, <1>2, <1>11, <2>1, <2>2, RendersTyped DEF Renamed
<1>12. SignedInIsNamed(LOGOUT(app))
  BY DEF LOGOUT, initialAppState, SignedInIsNamed, AppStates
<1>13. CASE Refused(s)
  BY <1>1, <1>2, <1>3, <1>12, <1>13, RendersTyped DEF Refused
<1>14. ASSUME NEW token \in {stored, None}, GivesUp(s, token)  PROVE Typed'
  BY <1>1, <1>2, <1>3, <1>12, <1>14, RendersTyped DEF GivesUp
<1>15. CASE ShowsError(s)
  <2>1. Ended(r, TRUE) \in Panels
    BY <1>1, <1>15, AnsweredRequest, EndedOK DEF ShowsError
  <2>2. (app.error \/ r.op \in SignIns) \in BOOLEAN
    BY <1>1 DEF SignedInIsNamed, AppStates
  <2>3. SignedInIsNamed(SET_ERROR(app, app.error \/ r.op \in SignIns))
    BY <1>1, <2>2, SetErrorOK
  <2> QED
    BY <1>1, <1>2, <1>3, <1>15, <2>1, <2>3, RendersTyped DEF ShowsError
<1> QED
  BY <1>4, <1>5, <1>6, <1>7, <1>8, <1>9, <1>10, <1>11, <1>13, <1>14, <1>15
     DEF Answer, Rejected, Unreachable

\* A click that leaves a typed state and a typed panel leaves typed variables.
LEMMA ClickTyped ==
  ASSUME Typed, NEW op \in Ops, NEW token \in {None, stored},
         op \in Bearers => token = stored, op \notin Bearers => token = None,
         Click(request(op, token, FALSE)), SignedInIsNamed(app'), panel' \in Panels
  PROVE  Typed'
<1>1. InFlightOK(requests', stored') /\ UNCHANGED <<stored, page, issued, expired, stray>>
  BY ClickOK
<1> QED
  BY <1>1 DEF Typed, SessionTypeOK, SignedInIsNamed, InFlightOK

\* Submitting a form does.
LEMMA SubmitTyped ==
  ASSUME Typed, NEW op \in {"login", "register"}, Submit(op)
  PROVE  Typed'
<1>1. SignedInIsNamed(app')
  BY DEF Submit, SET_ERROR, Typed, SessionTypeOK, SignedInIsNamed, AppStates
<1>2. panel' \in Panels /\ Click(request(op, None, FALSE))
  BY DEF Submit, Typed, SessionTypeOK
<1> QED
  BY <1>1, <1>2, ClickTyped DEF Ops, SignIns, Bearers

\* Every step leaves typed variables, and requests that are well sent.
LEMMA StepTyped ==
  ASSUME Typed, [Next]_vars
  PROVE  Typed'
<1> USE DEF Typed, SessionTypeOK, SignedInIsNamed
<1>1. ASSUME NEW p \in Pages, Load(p)  PROVE Typed'
  BY <1>1, StartedOK DEF Load, InFlightOK
<1>2. ASSUME NEW p \in Pages, Navigate(p)  PROVE Typed'
  BY <1>2, RendersTyped DEF Navigate
<1>3. CASE SubmitLogin
  BY <1>3, SubmitTyped DEF SubmitLogin
<1>4. CASE SubmitRegistration
  BY <1>4, SubmitTyped DEF SubmitRegistration
<1>5. CASE Prefill
  <2>1. panel' \in Panels
    BY <1>5 DEF Prefill, Panels
  <2>2. ASSUME NEW t \in Slots, requests[t] # None
        PROVE  [requests[t] EXCEPT !.live = FALSE] \in Requests
               /\ WellSent([requests[t] EXCEPT !.live = FALSE], stored)
    BY <2>2, AnsweredRequest DEF Requests, WellSent
  <2>3. InFlightOK(requests', stored)
    BY <1>5, <2>2, AnsweredRequest DEF Prefill, InFlightOK
  <2> QED
    BY <1>5, <2>1, <2>3 DEF Prefill, InFlightOK
<1>6. CASE SocialSignIn
  <2>1. panel' \in Panels
    BY <1>6 DEF SocialSignIn, Panels
  <2> QED
    BY <1>6, <2>1, ClickTyped DEF SocialSignIn, Ops, SignIns, Bearers
<1>7. CASE Logout
  <2>1. SignedInIsNamed(LOGOUT(app))
    BY DEF LOGOUT, initialAppState, AppStates
  <2> QED
    BY <1>7, <2>1, RendersTyped DEF Logout, LogsOut, Pages, AuthPages
<1>8. CASE startEditing
  <2>1. panel' \in Panels
    BY <1>8 DEF startEditing, Panels
  <2> QED
    BY <1>8, <2>1 DEF startEditing, InFlightOK
<1>9. CASE CancelEditing
  <2>1. panel' \in Panels
    BY <1>9 DEF CancelEditing, Panels
  <2> QED
    BY <1>9, <2>1 DEF CancelEditing, InFlightOK
<1>10. CASE Rename
  BY <1>10, ClickTyped DEF Rename, Ops, Bearers
<1>11. CASE Trade
  BY <1>11, ClickTyped DEF Trade, Ops, Bearers
<1>12. CASE Refresh
  <2>1. panel' \in Panels
    BY <1>12 DEF Refresh, Panels
  <2> QED
    BY <1>12, <2>1, ClickTyped DEF Refresh, Ops, Bearers
<1>13. ASSUME NEW t \in Tokens, Expire(t)  PROVE Typed'
  BY <1>13 DEF Expire, InFlightOK
<1>14. ASSUME NEW s \in Slots, Answer(s)  PROVE Typed'
  BY <1>14, AnswerTyped
<1>15. CASE UNCHANGED vars
  BY <1>15 DEF vars, InFlightOK
<1> QED
  BY <1>1, <1>2, <1>3, <1>4, <1>5, <1>6, <1>7, <1>8, <1>9, <1>10, <1>11, <1>12, <1>13,
     <1>14, <1>15 DEF Next

\* Typed holds in every reachable state.
LEMMA AlwaysTyped == Spec => []Typed
<1>1. Init => Typed
  <2> SUFFICES ASSUME Init  PROVE Typed
    OBVIOUS
  <2>1. SignedInIsNamed(app)
    BY DEF Init, SET_LOADING, initialAppState, AppStates, SignedInIsNamed
  <2>2. panel \in Panels
    BY DEF Init, Blank, Panels
  <2>3. InFlightOK(requests, stored)
    BY IdleOK DEF Init
  <2>4. issued \in 0 .. MaxLogins /\ page \in Pages
    BY SessionAssumption DEF Init, Pages, AuthPages
  <2> QED
    BY <2>1, <2>2, <2>3, <2>4 DEF Init, Typed, SessionTypeOK, InFlightOK, SignedInIsNamed
<1> QED
  BY <1>1, StepTyped, PTL DEF Spec

\* Every variable of the tab has its type in every reachable state, and somebody
\* is authenticated exactly when a user is shown.
THEOREM SessionTypes == Spec => []SessionTypeOK
<1>1. Typed => SessionTypeOK
  BY DEF Typed
<1> QED
  BY <1>1, AlwaysTyped, PTL

-----------------------------------------------------------------------------
(* What a step leaves of the state and of the requests.                    *)

\* q is the request r, older by one step.
Kept(q, r) ==
  /\ r # None /\ q.op = r.op /\ q.token = r.token /\ q.good = r.good
  /\ q.signal = r.signal
  /\ q.old <=> r.old \/ stored' # stored

\* The screen shows the state it was given.
LEMMA RendersState ==
  ASSUME NEW a, a \in AppStates, NEW p, NEW reqs, NEW pan, Renders(a, p, reqs, pan)
  PROVE  SameSession(app', a) /\ page' = Guard(a, p)
<1>1. CASE Stays(a, reqs, pan) /\ Guard(a, p) = page
  BY <1>1 DEF Stays, SameSession
<1>2. CASE Mounts(a, Guard(a, p), reqs)
  BY <1>2 DEF Mounts, SET_ERROR, SameSession, AppStates
<1> QED
  BY <1>1, <1>2 DEF Renders

\* A private page is only shown to somebody.
LEMMA GuardProtects ==
  ASSUME NEW a, NEW p, ~a.loading, Guard(a, p) \in PrivatePages
  PROVE  a.isAuthenticated
BY DEF Guard, ProtectedRoute, AuthLayout, PrivatePages

\* A request in flight is kept as it was, or aborted.
LEMMA LeftKept ==
  ASSUME NEW r \in Requests \cup {None}, NEW moved \in BOOLEAN, Left(r, moved) # None
  PROVE  Kept(Left(r, moved), r)
<1>1. r # None /\ r \in Requests
  BY DEF Left
<1>2. Left(r, moved) = [r EXCEPT !.live = @ /\ ~moved, !.old = @ \/ (stored' # stored)]
  BY DEF Left
<1> QED
  BY <1>1, <1>2 DEF Kept, Requests

\* What is in flight then was in flight before, or is asked by the page mounted,
\* the portfolio only for somebody.
LEMMA RendersRequests ==
  ASSUME NEW a, SignedInIsNamed(a), NEW p, NEW reqs \in [Slots -> Requests \cup {None}],
         NEW pan, Renders(a, p, reqs, pan), stored' \in Tokens \cup {None}
  PROVE  \A s \in Slots : requests'[s] # None =>
           \/ Kept(requests'[s], reqs[s])
           \/ requests'[s].op = "neon" /\ ~a.loading
           \/ requests'[s].op = "refresh" /\ ~a.loading /\ a.user # None
<1> DEFINE to == Guard(a, p)
<1>1. CASE Stays(a, reqs, pan)
  <2>1. ASSUME NEW s \in Slots, requests'[s] # None  PROVE Kept(requests'[s], reqs[s])
    <3>1. requests'[s] = Left(reqs[s], FALSE)
      BY <1>1 DEF Stays
    <3> QED
      BY <2>1, <3>1, LeftKept
  <2> QED
    BY <2>1
<1>2. CASE Mounts(a, to, reqs)
  <2> DEFINE kept == [s \in Slots |-> Left(reqs[s], TRUE)]
  <2>1. ASSUME NEW s \in Slots, kept[s] # None  PROVE Kept(kept[s], reqs[s])
    <3>1. kept[s] = Left(reqs[s], TRUE)
      OBVIOUS
    <3> QED
      BY <2>1, <3>1, LeftKept
  <2>2. CASE requests' = kept
    BY <2>1, <2>2
  <2>3. ASSUME NEW r \in MountRequests(a, to, stored'), Free(kept) # {},
               requests' = Send(kept, r)
        PROVE  \A s \in Slots : requests'[s] # None =>
                 \/ Kept(requests'[s], reqs[s])
                 \/ requests'[s].op = "neon" /\ ~a.loading
                 \/ requests'[s].op = "refresh" /\ ~a.loading /\ a.user # None
    <3>1. PICK m \in Slots : kept[m] = None /\ Send(kept, r) = [kept EXCEPT ![m] = r]
      BY <2>3, SendFillsAFreeSlot
    <3>2. /\ ~a.loading
          /\ \/ r.op = "neon"
             \/ r.op = "refresh" /\ to \in PortfolioPages
      BY <2>3 DEF MountRequests, request
    <3>3. to \in PortfolioPages => a.user # None
      BY <3>2, GuardProtects DEF PortfolioPages, PrivatePages, SignedInIsNamed
    <3>4. \A s \in Slots : requests'[s] = IF s = m THEN r ELSE kept[s]
      BY <2>3, <3>1
    <3> HIDE DEF kept, to
    <3> QED
      BY <2>1, <3>2, <3>3, <3>4
  <2> QED
    BY <1>2, <2>2, <2>3 DEF Mounts
<1> QED
  BY <1>1, <1>2 DEF Renders

-----------------------------------------------------------------------------
(* The restoring request.                                                  *)

\* No restoring request is in flight.
NotRestoring(reqs) == \A s \in Slots : reqs[s] # None => reqs[s].op # "me"

\* While the session is restored its token is stored, nobody is shown and the
\* restoring request is alone in flight; otherwise no such request is.
RestoringAlone ==
  /\ app.loading =>
       /\ stored # None /\ app.user = None /\ app.portfolio = None
       /\ \E s \in Slots :
            /\ requests[s] # None /\ requests[s].op = "me"
            /\ ~requests[s].old /\ ~requests[s].signal
            /\ \A t \in Slots \ {s} : requests[t] = None
  /\ ~app.loading => NotRestoring(requests)

\* A request answered while the session is restored is the restoring one: without
\* it none is in flight.
LEMMA AnsweredAlone ==
  ASSUME Typed, RestoringAlone, NEW s \in Slots, requests[s] # None
  PROVE  /\ NotRestoring(Without(s))
         /\ app.loading <=> requests[s].op = "me"
         /\ app.loading => Without(s) = Idle /\ ~requests[s].old
<1>1. requests \in [Slots -> Requests \cup {None}]
  BY DEF Typed, InFlightOK
<1>2. CASE app.loading
  <2>1. requests[s].op = "me" /\ ~requests[s].old /\ \A t \in Slots \ {s} : requests[t] = None
    BY <1>2 DEF RestoringAlone
  <2>2. Without(s) = Idle
    BY <1>1, <2>1 DEF Without, Idle
  <2> QED
    BY <1>2, <2>1, <2>2 DEF NotRestoring, Idle
<1>3. CASE ~app.loading
  BY <1>1, <1>3 DEF RestoringAlone, NotRestoring, Without
<1> QED
  BY <1>2, <1>3

\* A step that renders a restored state restores nothing.
LEMMA RendersRestored ==
  ASSUME NEW a, SignedInIsNamed(a), ~a.loading, NEW p,
         NEW reqs \in [Slots -> Requests \cup {None}], NotRestoring(reqs),
         NEW pan, Renders(a, p, reqs, pan), stored' \in Tokens \cup {None}
  PROVE  RestoringAlone'
<1>1. ~app'.loading
  BY RendersState DEF SignedInIsNamed, SameSession
<1>2. NotRestoring(requests')
  BY RendersRequests DEF NotRestoring, Kept
<1> QED
  BY <1>1, <1>2 DEF RestoringAlone, NotRestoring

\* A state being restored sends nothing.
LEMMA RendersRestoring ==
  ASSUME NEW a, a.loading, NEW p, NEW reqs, NEW pan, Renders(a, p, reqs, pan)
  PROVE  \E moved \in BOOLEAN : requests' = [s \in Slots |-> Left(reqs[s], moved)]
BY DEF Renders, Stays, Mounts, MountRequests

\* A click does not restore the session.
LEMMA ClickRestored ==
  ASSUME Typed, RestoringAlone, ~app.loading, ~app'.loading, NEW r, r.op # "me", Click(r)
  PROVE  RestoringAlone'
<1>1. requests \in [Slots -> Requests \cup {None}]
  BY DEF Typed, InFlightOK
<1>2. PICK m \in Slots : requests' = [requests EXCEPT ![m] = r]
  BY SendFillsAFreeSlot DEF Click
<1> QED
  BY <1>1, <1>2 DEF RestoringAlone, NotRestoring

\* A started tab restores its session or has none to restore.
LEMMA StartedRestoring ==
  ASSUME Typed, NEW p \in Pages, Started(p), stored' = stored
  PROVE  RestoringAlone'
<1>1. Free(Idle) # {}
  BY IdleOK
<1>2. CASE stored # None
  <2> DEFINE r == request("me", stored, FALSE)
  <2>1. PICK m \in Slots : Send(Idle, r) = [Idle EXCEPT ![m] = r]
    BY <1>1, SendFillsAFreeSlot
  <2>2. requests' = [Idle EXCEPT ![m] = r] /\ app' = initialAppState
    BY <1>2, <2>1 DEF Started
  <2>3. r.op = "me" /\ ~r.old /\ ~r.signal /\ r \in Requests
    <3>1. stored \in Tokens \cup {None}
      BY DEF Typed, SessionTypeOK
    <3>2. r \in Requests
      BY <3>1, RequestType DEF Ops
    <3> QED
      BY <3>2 DEF request
  <2> HIDE DEF r
  <2>4. requests'[m] = r /\ \A t \in Slots \ {m} : requests'[t] = None
    BY <2>2 DEF Idle
  <2> QED
    BY <1>2, <2>2, <2>3, <2>4, NoneIsNothing DEF RestoringAlone, initialAppState
<1>3. CASE stored = None
  <2>1. ~app'.loading
    BY <1>3 DEF Started, SET_LOADING, initialAppState
  <2>2. CASE requests' = Idle
    BY <2>1, <2>2 DEF RestoringAlone, NotRestoring, Idle
  <2>3. ASSUME NEW a, NEW r \in MountRequests(a, Guard(a, p), None), requests' = Send(Idle, r)
        PROVE  RestoringAlone'
    <3>1. PICK m \in Slots : Send(Idle, r) = [Idle EXCEPT ![m] = r]
      BY <1>1, SendFillsAFreeSlot
    <3>2. r.op # "me"
      BY <2>3, MountType
    <3> QED
      BY <2>1, <2>3, <3>1, <3>2 DEF RestoringAlone, NotRestoring, Idle
  <2> QED
    BY <1>3, <2>2, <2>3 DEF Started
<1> QED
  BY <1>2, <1>3

\* What an answer leaves, once it is known not to be restoring.
LEMMA AnswerRestored ==
  ASSUME Typed, RestoringAlone, NEW s \in Slots, requests[s] # None, stored' \in Tokens \cup {None},
         NEW a, SignedInIsNamed(a), ~a.loading, NEW p, NEW pan, Renders(a, p, Without(s), pan)
  PROVE  RestoringAlone'
<1>1. NotRestoring(Without(s)) /\ Without(s) \in [Slots -> Requests \cup {None}]
  BY AnsweredAlone, WithoutOK DEF Typed, InFlightOK
<1> QED
  BY <1>1, RendersRestored

\* A sign-in does not restore a session, and finds none being restored.
LEMMA SignInRestored ==
  ASSUME Typed, RestoringAlone, NEW s \in Slots, requests[s] # None, NEW p \in Pages,
         SignIn(s, p)
  PROVE  RestoringAlone'
<1>1. PICK u \in Users : Renders(LOGIN(app, u), p, Without(s), panel)
  BY DEF SignIn
<1>2. SignedInIsNamed(LOGIN(app, u)) /\ ~LOGIN(app, u).loading
  <2>1. SignedInIsNamed(app) /\ app \in AppStates
    BY DEF Typed, SessionTypeOK, SignedInIsNamed
  <2> QED
    BY <2>1, ReducerOK, ReducerState
<1>3. stored' \in Tokens \cup {None}
  BY SignInStores DEF Typed, SessionTypeOK
<1> QED
  BY <1>1, <1>2, <1>3, AnswerRestored

\* Every step leaves the restoring request alone.
LEMMA StepRestoring ==
  ASSUME Typed, RestoringAlone, [Next]_vars
  PROVE  RestoringAlone'
<1>1. Typed'
  BY StepTyped
<1>2. stored' \in Tokens \cup {None} /\ SignedInIsNamed(app) /\ app \in AppStates
  BY <1>1 DEF Typed, SessionTypeOK, SignedInIsNamed
<1>3. requests \in [Slots -> Requests \cup {None}]
  BY DEF Typed, InFlightOK
<1>4. SignedInIsNamed(LOGOUT(app)) /\ ~LOGOUT(app).loading
  BY DEF LOGOUT, initialAppState, SignedInIsNamed, AppStates
<1>5. app.user # None => ~app.loading
  BY DEF RestoringAlone
<1>6. ASSUME NEW p \in Pages, Load(p)  PROVE RestoringAlone'
  BY <1>6, StartedRestoring DEF Load
<1>7. ASSUME NEW p \in Pages, Navigate(p)  PROVE RestoringAlone'
  <2>1. CASE ~app.loading
    BY <1>2, <1>3, <1>7, <2>1, RendersRestored DEF Navigate, RestoringAlone
  <2>2. CASE app.loading
    <3>1. SameSession(app', app)
      BY <1>2, <1>7, RendersState DEF Navigate, SignedInIsNamed
    <3>2. PICK moved \in BOOLEAN : requests' = [s \in Slots |-> Left(requests[s], moved)]
      BY <1>7, <2>2, RendersRestoring DEF Navigate
    <3>3. PICK s \in Slots : /\ requests[s] # None /\ requests[s].op = "me"
                             /\ ~requests[s].old /\ ~requests[s].signal
                             /\ \A t \in Slots \ {s} : requests[t] = None
      BY <2>2 DEF RestoringAlone
    <3>4. requests'[s] # None /\ \A t \in Slots \ {s} : requests'[t] = None
      <4>1. [requests[s] EXCEPT !.live = @ /\ ~moved, !.old = @ \/ (stored' # stored)] \in Requests
        BY <1>3, <3>3 DEF Requests
      <4> QED
        BY <3>2, <3>3, <4>1, NoneIsNothing DEF Left
    <3>5. Kept(requests'[s], requests[s])
      BY <1>3, <3>2, <3>4, LeftKept
    <3> QED
      BY <1>7, <2>2, <3>1, <3>3, <3>4, <3>5 DEF Navigate, RestoringAlone, Kept, SameSession
  <2> QED
    BY <2>1, <2>2
<1>8. ASSUME NEW op \in {"login", "register"}, Submit(op)  PROVE RestoringAlone'
  BY <1>2, <1>8, ClickRestored DEF Submit, SET_ERROR, SignedInIsNamed, AppStates, request
<1>9. CASE Prefill
  <2>1. \A s \in Slots : requests[s] # None => requests[s] \in Requests /\ requests[s].op # "me"
    BY <1>3, <1>9 DEF RestoringAlone, NotRestoring, Prefill
  <2>2. \A s \in Slots : requests'[s] # None => requests'[s].op # "me"
    BY <1>9, <2>1 DEF Prefill, Requests
  <2> QED
    BY <1>9, <2>2 DEF Prefill, RestoringAlone, NotRestoring
<1>10. CASE SocialSignIn
  <2>1. ~app.loading
    BY <1>10 DEF SocialSignIn, View
  <2> QED
    BY <1>10, <2>1, ClickRestored DEF SocialSignIn, request
<1>11. CASE Logout
  <2>1. NotRestoring(requests)
    BY <1>2, <1>5, <1>11 DEF Logout, RestoringAlone, SignedInIsNamed
  <2> QED
    BY <1>2, <1>3, <1>4, <1>11, <2>1, RendersRestored DEF Logout, LogsOut
<1>12. CASE startEditing \/ CancelEditing
  BY <1>12 DEF startEditing, CancelEditing, RestoringAlone, NotRestoring
<1>13. CASE Rename
  BY <1>13, ClickRestored DEF Rename, Viewing, request
<1>14. CASE Trade
  BY <1>14, ClickRestored DEF Trade, Viewing, request
<1>15. CASE Refresh
  BY <1>2, <1>5, <1>15, ClickRestored DEF Refresh, SignedInIsNamed, request
<1>16. ASSUME NEW t \in Tokens, Expire(t)  PROVE RestoringAlone'
  BY <1>16 DEF Expire, RestoringAlone, NotRestoring
<1>17. ASSUME NEW s \in Slots, Answer(s)  PROVE RestoringAlone'
  <2> DEFINE r == requests[s]
  <2>1. CASE LoggedIn(s)
    BY <2>1, SignInRestored DEF LoggedIn, redirectTarget, Pages
  <2>2. CASE Registered(s)
    BY <2>2, SignInRestored DEF Registered, Pages, PrivatePages
  <2>3. CASE LeftForProvider(s)
    BY <2>3, StartedRestoring DEF LeftForProvider, Load, Pages, AuthPages
  <2>4. CASE GotNeonToken(s)
    <3>1. ~app.loading
      BY <2>4, AnsweredAlone DEF GotNeonToken
    <3>2. ~app'.loading
      BY <1>2, <2>4, <3>1, SetErrorOK DEF GotNeonToken, loginWithOAuthToken, SameSession
    <3>3. r \in Requests
      BY <2>4, AnsweredRequest DEF GotNeonToken
    <3>4. requests' = [requests EXCEPT ![s] = [r EXCEPT !.op = "oauth"]]
      BY <2>4 DEF GotNeonToken, loginWithOAuthToken
    <3>5. [r EXCEPT !.op = "oauth"].op = "oauth"
      BY <3>3 DEF Requests
    <3> QED
      BY <1>3, <3>1, <3>2, <3>4, <3>5 DEF RestoringAlone, NotRestoring
  <2>5. CASE ExchangedToken(s)
    BY <2>5, SignInRestored DEF ExchangedToken, Pages, PrivatePages
  <2>6. CASE Restored(s)
    <3>1. r.token.user \in Users
      BY <2>6, AnsweredRequest DEF Restored
    <3>2. SignedInIsNamed(LOGIN(app, r.token.user)) /\ ~LOGIN(app, r.token.user).loading
      BY <1>2, <3>1, ReducerOK, ReducerState
    <3> QED
      BY <1>2, <2>6, <3>2, AnswerRestored DEF Restored
  <2>7. CASE GotPortfolio(s)
    <3>1. r.token.user \in Users /\ ~app.loading
      BY <2>7, AnsweredRequest, AnsweredAlone DEF GotPortfolio
    <3>2. /\ SignedInIsNamed(SET_PORTFOLIO(app, r.token.user))
          /\ ~SET_PORTFOLIO(app, r.token.user).loading
      BY <1>2, <3>1, ReducerOK, ReducerState
    <3> QED
      BY <1>2, <2>7, <3>2, AnswerRestored DEF GotPortfolio
  <2>8. CASE Renamed(s)
    <3>1. r.token.user \in Users /\ ~app.loading
      BY <2>8, AnsweredRequest, AnsweredAlone DEF Renamed
    <3>2. SignedInIsNamed(SET_USER(app, r.token.user)) /\ ~SET_USER(app, r.token.user).loading
      BY <1>2, <3>1, ReducerOK, ReducerState
    <3> QED
      BY <1>2, <2>8, <3>2, AnswerRestored DEF Renamed
  <2>9. CASE Refused(s)
    BY <1>2, <1>4, <2>9, AnswerRestored DEF Refused
  <2>10. ASSUME NEW token, GivesUp(s, token)  PROVE RestoringAlone'
    BY <1>2, <1>4, <2>10, AnswerRestored DEF GivesUp
  <2>11. CASE ShowsError(s)
    <3> DEFINE e == app.error \/ r.op \in SignIns
    <3>1. ~app.loading /\ e \in BOOLEAN
      BY <1>2, <2>11, AnsweredAlone DEF ShowsError, SignedInIsNamed, AppStates
    <3>2. SignedInIsNamed(SET_ERROR(app, e)) /\ ~SET_ERROR(app, e).loading
      BY <1>2, <3>1, SetErrorOK DEF SameSession
    <3> QED
      BY <1>2, <2>11, <3>2, AnswerRestored DEF ShowsError
  <2> QED
    BY <1>17, <2>1, <2>2, <2>3, <2>4, <2>5, <2>6, <2>7, <2>8, <2>9, <2>10, <2>11
       DEF Answer, Rejected, Unreachable
<1>18. CASE UNCHANGED vars
  BY <1>18 DEF vars, RestoringAlone, NotRestoring
<1> QED
  BY <1>6, <1>7, <1>8, <1>9, <1>10, <1>11, <1>12, <1>13, <1>14, <1>15, <1>16, <1>17, <1>18
     DEF Next, SubmitLogin, SubmitRegistration

-----------------------------------------------------------------------------
(* Whose data is shown.                                                    *)

\* The requests about a user, answered into the state.
Personal == {"trade", "refresh", "rename"}

\* What is asked about a user is asked while one is shown.
RequestsFollow ==
  \A s \in Slots : requests'[s] # None =>
    \/ Kept(requests'[s], requests[s])
    \/ requests'[s].op \notin Personal
    \/ app'.user # None

\* The six things a step may do to the session.
SessionGoesOn ==
  /\ stored' = stored /\ stray' = stray
  /\ app'.user = app.user /\ app'.portfolio = app.portfolio
  /\ RequestsFollow

SessionEnds ==
  /\ app'.user = None /\ app'.portfolio = None
  /\ \/ stored' = None
     \/ \A s \in Slots : requests'[s] # None => requests'[s].op \notin Personal

SessionBegins ==
  /\ stored' # None /\ app'.user = stored'.user /\ app'.user \in Users
  /\ app'.portfolio = app.portfolio
  /\ stray' = (stray \ {"user"}) \cup (IF app.user = None THEN {} ELSE {"portfolio"})

SessionRestored ==
  /\ stored # None /\ stored' = stored /\ stray' = stray
  /\ app'.user = stored.user /\ app'.user \in Users /\ app'.portfolio = None

PortfolioAnswered ==
  /\ stored' = stored /\ app'.user = app.user /\ RequestsFollow
  /\ \E s \in Slots : /\ requests[s] # None /\ requests[s].op \in Personal
                      /\ requests[s].good /\ WellSent(requests[s], stored)
                      /\ app'.portfolio = requests[s].token.user
                      /\ app'.portfolio \in Users
                      /\ Mark(requests[s], "portfolio")

NameAnswered ==
  /\ stored' = stored /\ app'.portfolio = app.portfolio
  /\ \E s \in Slots : /\ requests[s] # None /\ requests[s].op \in Personal
                      /\ requests[s].good /\ WellSent(requests[s], stored)
                      /\ app'.user = requests[s].token.user
                      /\ app'.user \in Users
                      /\ Mark(requests[s], "user")

\* A step on screen follows the requests.
LEMMA RendersFollow ==
  ASSUME NEW a, SignedInIsNamed(a), NEW p, NEW reqs \in [Slots -> Requests \cup {None}],
         \A s \in Slots : reqs[s] # None => reqs[s] = requests[s],
         NEW pan, Renders(a, p, reqs, pan), stored' \in Tokens \cup {None}
  PROVE  RequestsFollow
<1>1. app'.user = a.user
  BY RendersState DEF SignedInIsNamed, SameSession
<1>2. \A s \in Slots : requests'[s] # None =>
           \/ Kept(requests'[s], reqs[s])
           \/ requests'[s].op = "neon" /\ ~a.loading
           \/ requests'[s].op = "refresh" /\ ~a.loading /\ a.user # None
  BY RendersRequests
<1> QED
  BY <1>1, <1>2 DEF RequestsFollow, Personal, Kept

\* The requests but one are requests in flight.
LEMMA WithoutFollows ==
  ASSUME Typed, NEW s \in Slots
  PROVE  /\ Without(s) \in [Slots -> Requests \cup {None}]
         /\ \A t \in Slots : Without(s)[t] # None => Without(s)[t] = requests[t]
BY DEF Typed, InFlightOK, Without

\* A click asks about a user who is shown, or about nobody.
LEMMA ClickFollows ==
  ASSUME Typed, NEW r, Click(r), SameSession(app', app), r.op \notin Personal \/ app.user # None
  PROVE  SessionGoesOn
<1>1. requests \in [Slots -> Requests \cup {None}]
  BY DEF Typed, InFlightOK
<1>2. PICK m \in Slots : requests' = [requests EXCEPT ![m] = r]
  BY SendFillsAFreeSlot DEF Click
<1>3. \A t \in Slots : requests'[t] = IF t = m THEN r ELSE requests[t]
  BY <1>1, <1>2
<1>4. stored' = stored /\ stray' = stray
  BY DEF Click
<1> QED
  BY <1>3, <1>4 DEF SessionGoesOn, RequestsFollow, Kept, SameSession

\* A sign-in begins the session of the user whose token it stores.
LEMMA SignInBegins ==
  ASSUME Typed, NEW s \in Slots, NEW p \in Pages, SignIn(s, p)
  PROVE  SessionBegins
<1>1. PICK u \in Users :
        /\ stored' = [user |-> u, n |-> issued']
        /\ stray' = (stray \ {"user"}) \cup (IF app.user = None THEN {} ELSE {"portfolio"})
        /\ Renders(LOGIN(app, u), p, Without(s), panel)
  BY DEF SignIn
<1>2. app \in AppStates /\ SignedInIsNamed(app)
  BY DEF Typed, SessionTypeOK, SignedInIsNamed
<1>3. stored' \in Tokens \cup {None} /\ stored'.user = u
  BY <1>1, SignInStores DEF Typed, SessionTypeOK
<1>4. stored' # None
  <2>1. issued' \in 1 .. MaxLogins
    BY SessionAssumption DEF SignIn, Typed, SessionTypeOK
  <2> QED
    BY <1>1, <2>1, NoneIsNothing DEF Tokens
<1>5. SignedInIsNamed(LOGIN(app, u))
  BY <1>2, ReducerOK
<1>6. SameSession(app', LOGIN(app, u))
  BY <1>1, <1>5, RendersState DEF SignedInIsNamed
<1>7. LOGIN(app, u).user = u /\ LOGIN(app, u).portfolio = app.portfolio
  BY <1>2, ReducerState
<1> QED
  BY <1>1, <1>3, <1>4, <1>6, <1>7 DEF SessionBegins, SameSession

\* A tab that is loaded starts with nobody.
LEMMA StartedEnds ==
  ASSUME Typed, NEW p \in Pages, Load(p)
  PROVE  SessionEnds
<1>1. Free(Idle) # {}
  BY IdleOK
<1>2. ASSUME NEW r, r.op \notin Personal, requests' = Send(Idle, r)
      PROVE  \A s \in Slots : requests'[s] # None => requests'[s].op \notin Personal
  <2>1. PICK m \in Slots : Send(Idle, r) = [Idle EXCEPT ![m] = r]
    BY <1>1, SendFillsAFreeSlot
  <2> QED
    BY <1>2, <2>1 DEF Idle
<1>3. CASE stored # None
  <2>1. app' = initialAppState /\ requests' = Send(Idle, request("me", stored, FALSE))
    BY <1>3 DEF Load, Started
  <2>2. request("me", stored, FALSE).op \notin Personal
    BY DEF request, Personal
  <2>3. \A s \in Slots : requests'[s] # None => requests'[s].op \notin Personal
    BY <1>2, <2>1, <2>2
  <2> QED
    BY <2>1, <2>3 DEF SessionEnds, initialAppState
<1>4. CASE stored = None
  BY <1>4 DEF Load, Started, SessionEnds, initialAppState, SET_LOADING
<1> QED
  BY <1>3, <1>4

\* What an answer does to the session.
LEMMA AnswerEffect ==
  ASSUME Typed, RestoringAlone, NEW s \in Slots, Answer(s)
  PROVE  SessionGoesOn \/ SessionEnds \/ SessionBegins \/ SessionRestored
         \/ PortfolioAnswered \/ NameAnswered
<1> DEFINE r == requests[s]
<1>1. /\ SignedInIsNamed(app) /\ app \in AppStates
      /\ stored' \in Tokens \cup {None}
  BY AnswerTyped DEF Typed, SessionTypeOK, SignedInIsNamed
<1>2. /\ Without(s) \in [Slots -> Requests \cup {None}]
      /\ \A t \in Slots : Without(s)[t] # None => Without(s)[t] = requests[t]
  BY WithoutFollows
<1>3. /\ SignedInIsNamed(LOGOUT(app))
      /\ LOGOUT(app).user = None /\ LOGOUT(app).portfolio = None
      /\ ~LOGOUT(app).loading
  BY <1>1, ReducerState DEF LOGOUT, initialAppState, SignedInIsNamed, AppStates
<1>4. CASE LoggedIn(s)
  BY <1>4, SignInBegins DEF LoggedIn, redirectTarget, Pages
<1>5. CASE Registered(s)
  BY <1>5, SignInBegins DEF Registered, Pages, PrivatePages
<1>6. CASE LeftForProvider(s)
  BY <1>6, StartedEnds DEF LeftForProvider, Pages, AuthPages
<1>7. CASE GotNeonToken(s)
  <2>1. SameSession(app', app)
    BY <1>1, <1>7, SetErrorOK DEF GotNeonToken, loginWithOAuthToken
  <2>2. r \in Requests /\ requests \in [Slots -> Requests \cup {None}]
    BY <1>7, AnsweredRequest DEF GotNeonToken, Typed, InFlightOK
  <2>3. requests' = [requests EXCEPT ![s] = [r EXCEPT !.op = "oauth"]]
    BY <1>7 DEF GotNeonToken, loginWithOAuthToken
  <2>4. [r EXCEPT !.op = "oauth"].op = "oauth"
    BY <2>2 DEF Requests
  <2> QED
    BY <1>7, <2>1, <2>2, <2>3, <2>4
       DEF GotNeonToken, SessionGoesOn, RequestsFollow, Kept, SameSession, Personal
<1>8. CASE ExchangedToken(s)
  BY <1>8, SignInBegins DEF ExchangedToken, Pages, PrivatePages
<1>9. CASE Restored(s)
  <2>1. r.token.user \in Users /\ WellSent(r, stored) /\ app.loading /\ ~r.old
    BY <1>9, AnsweredRequest, AnsweredAlone DEF Restored
  <2>2. r.token = stored /\ stored # None
    BY <1>9, <2>1 DEF Restored, WellSent, Bearers
  <2>3. SameSession(app', LOGIN(app, r.token.user))
    BY <1>1, <1>9, <2>1, ReducerOK, RendersState DEF Restored, SignedInIsNamed
  <2>4. /\ LOGIN(app, r.token.user).user = r.token.user
        /\ LOGIN(app, r.token.user).portfolio = app.portfolio
    BY <1>1, ReducerState
  <2>5. app.portfolio = None
    BY <2>1 DEF RestoringAlone
  <2> QED
    BY <1>9, <2>1, <2>2, <2>3, <2>4, <2>5 DEF Restored, SessionRestored, SameSession
<1>10. CASE GotPortfolio(s)
  <2>1. r.token.user \in Users /\ WellSent(r, stored) /\ r.op \in Personal
    BY <1>10, AnsweredRequest DEF GotPortfolio, Personal
  <2>2. SignedInIsNamed(SET_PORTFOLIO(app, r.token.user))
    BY <1>1, <2>1, ReducerOK
  <2>3. SameSession(app', SET_PORTFOLIO(app, r.token.user)) /\ RequestsFollow
    BY <1>1, <1>2, <1>10, <2>2, RendersState, RendersFollow DEF GotPortfolio, SignedInIsNamed
  <2>4. /\ SET_PORTFOLIO(app, r.token.user).user = app.user
        /\ SET_PORTFOLIO(app, r.token.user).portfolio = r.token.user
    BY <1>1, ReducerState
  <2> QED
    BY <1>10, <2>1, <2>3, <2>4 DEF GotPortfolio, PortfolioAnswered, SameSession
<1>11. CASE Renamed(s)
  <2>1. r.token.user \in Users /\ WellSent(r, stored) /\ r.op \in Personal
    BY <1>11, AnsweredRequest DEF Renamed, Personal
  <2>2. SignedInIsNamed(SET_USER(app, r.token.user))
    BY <1>1, <2>1, ReducerOK
  <2>3. SameSession(app', SET_USER(app, r.token.user))
    BY <1>11, <2>2, RendersState DEF Renamed, SignedInIsNamed
  <2>4. /\ SET_USER(app, r.token.user).user = r.token.user
        /\ SET_USER(app, r.token.user).portfolio = app.portfolio
    BY <1>1, ReducerState
  <2> QED
    BY <1>11, <2>1, <2>3, <2>4 DEF Renamed, NameAnswered, SameSession
<1>12. CASE Refused(s)
  BY <1>3, <1>12, RendersState DEF Refused, SessionEnds, SameSession, SignedInIsNamed
<1>13. CASE GivesUp(s, None)
  BY <1>3, <1>13, RendersState DEF GivesUp, SessionEnds, SameSession, SignedInIsNamed
<1>14. CASE GivesUp(s, stored)
  <2>1. SameSession(app', LOGOUT(app))
    BY <1>3, <1>14, RendersState DEF GivesUp, SignedInIsNamed
  <2>2. Without(s) = Idle
    BY <1>14, AnsweredAlone DEF GivesUp
  <2>3. \A t \in Slots : requests'[t] # None =>
           \/ Kept(requests'[t], Without(s)[t])
           \/ requests'[t].op = "neon" /\ ~LOGOUT(app).loading
           \/ requests'[t].op = "refresh" /\ ~LOGOUT(app).loading /\ LOGOUT(app).user # None
    BY <1>1, <1>2, <1>3, <1>14, RendersRequests DEF GivesUp
  <2>4. \A t \in Slots : requests'[t] # None => requests'[t].op \notin Personal
    BY <1>3, <2>2, <2>3 DEF Kept, Idle, Personal
  <2> QED
    BY <1>3, <2>1, <2>4 DEF SessionEnds, SameSession
<1>15. CASE ShowsError(s)
  <2> DEFINE e == app.error \/ r.op \in SignIns
  <2>1. e \in BOOLEAN
    BY <1>1 DEF SignedInIsNamed, AppStates
  <2>2. SignedInIsNamed(SET_ERROR(app, e)) /\ SameSession(SET_ERROR(app, e), app)
    BY <1>1, <2>1, SetErrorOK
  <2>3. SameSession(app', SET_ERROR(app, e)) /\ RequestsFollow
    BY <1>1, <1>2, <1>15, <2>2, RendersState, RendersFollow DEF ShowsError, SignedInIsNamed
  <2> QED
    BY <1>15, <2>2, <2>3 DEF ShowsError, SessionGoesOn, SameSession
<1> QED
  BY <1>4, <1>5, <1>6, <1>7, <1>8, <1>9, <1>10, <1>11, <1>12, <1>13, <1>14, <1>15
     DEF Answer, Rejected, Unreachable

\* Every step goes on with the session, ends it, begins or restores one, or
\* writes the answer of one request into it.
LEMMA StepEffect ==
  ASSUME Typed, RestoringAlone, [Next]_vars
  PROVE  SessionGoesOn \/ SessionEnds \/ SessionBegins \/ SessionRestored
         \/ PortfolioAnswered \/ NameAnswered
<1>1. /\ SignedInIsNamed(app) /\ app \in AppStates
      /\ requests \in [Slots -> Requests \cup {None}]
      /\ stored \in Tokens \cup {None}
  BY DEF Typed, SessionTypeOK, SignedInIsNamed, InFlightOK
<1>2. app.isAuthenticated => app.user # None
  BY <1>1 DEF SignedInIsNamed
<1>3. ASSUME SameSession(app', app), UNCHANGED <<stored, stray, requests>>
      PROVE  SessionGoesOn
  BY <1>3 DEF SessionGoesOn, SameSession, RequestsFollow, Kept
<1>4. ASSUME NEW p \in Pages, Load(p)  PROVE SessionEnds
  BY <1>4, StartedEnds
<1>5. ASSUME NEW p \in Pages, Navigate(p)  PROVE SessionGoesOn
  <2>1. SameSession(app', app) /\ RequestsFollow
    BY <1>1, <1>5, RendersState, RendersFollow DEF Navigate
  <2> QED
    BY <1>5, <2>1 DEF Navigate, SessionGoesOn, SameSession
<1>6. ASSUME NEW op \in {"login", "register"}, Submit(op)  PROVE SessionGoesOn
  BY <1>1, <1>6, SetErrorOK, ClickFollows DEF Submit, request, Personal
<1>7. CASE Prefill
  <2>1. \A s \in Slots : requests'[s] # None => Kept(requests'[s], requests[s])
    BY <1>1, <1>7 DEF Prefill, Kept, Requests
  <2> QED
    BY <1>7, <2>1 DEF Prefill, SessionGoesOn, RequestsFollow
<1>8. CASE SocialSignIn
  BY <1>8, ClickFollows DEF SocialSignIn, SameSession, request, Personal
<1>9. CASE Logout
  <2>1. SignedInIsNamed(LOGOUT(app)) /\ LOGOUT(app) \in AppStates
    BY DEF LOGOUT, initialAppState, SignedInIsNamed, AppStates
  <2>2. SameSession(app', LOGOUT(app))
    BY <1>9, <2>1, RendersState DEF Logout, LogsOut
  <2> QED
    BY <1>1, <1>9, <2>2, ReducerState DEF Logout, LogsOut, SessionEnds, SameSession
<1>10. CASE startEditing \/ CancelEditing
  BY <1>3, <1>10 DEF startEditing, CancelEditing, SameSession
<1>11. CASE Rename
  BY <1>2, <1>11, ClickFollows DEF Rename, Viewing, SameSession
<1>12. CASE Trade
  BY <1>2, <1>12, ClickFollows DEF Trade, Viewing, SameSession
<1>13. CASE Refresh
  BY <1>2, <1>13, ClickFollows DEF Refresh, SameSession
<1>14. ASSUME NEW t \in Tokens, Expire(t)  PROVE SessionGoesOn
  BY <1>3, <1>14 DEF Expire, SameSession
<1>15. CASE UNCHANGED vars
  BY <1>3, <1>15 DEF vars, SameSession
<1> QED
  BY <1>4, <1>5, <1>6, <1>7, <1>8, <1>9, <1>10, <1>11, <1>12, <1>13, <1>14, <1>15,
     AnswerEffect DEF Next, SubmitLogin, SubmitRegistration

\* A good request of this session is only in flight while a user is shown.
AskedInSession ==
  \A s \in Slots :
    (requests[s] # None /\ requests[s].op \in Personal /\ requests[s].good /\ ~requests[s].old)
      => app.user # None

\* The portfolio kept is the stored token's, or marked; with nobody shown it is marked.
PortfolioFollowsToken ==
  /\ app.portfolio # None /\ "portfolio" \notin stray =>
       stored # None /\ stored.user = app.portfolio
  /\ app.portfolio # None /\ app.user = None => "portfolio" \in stray

\* The state belongs to the stored token, or is marked.
Belongs ==
  /\ Typed /\ RestoringAlone /\ AskedInSession
  /\ IdentityFollowsToken /\ PortfolioFollowsToken

\* The request answered in the session that sent it carries the stored token.
LEMMA AnswerOfTheSession ==
  ASSUME NEW r, r.op \in Personal, r.good, WellSent(r, stored), ~r.old
  PROVE  stored # None /\ r.token = stored
BY DEF WellSent, Personal, Bearers

\* Every step keeps what is asked in the session to a session.
LEMMA StepAsks ==
  ASSUME Belongs, [Next]_vars
  PROVE  AskedInSession'
<1>1. Typed'
  BY StepTyped DEF Belongs
<1>2. ASSUME RequestsFollow, stored' = stored, app'.user = app.user  PROVE AskedInSession'
  BY <1>2 DEF Belongs, AskedInSession, RequestsFollow, Kept
<1>3. ASSUME app'.user \in Users  PROVE AskedInSession'
  BY <1>3, SessionAssumption DEF AskedInSession
<1>4. CASE SessionEnds
  <2>1. CASE stored' = None
    <3>1. \A s \in Slots : requests'[s] # None => WellSent(requests'[s], None)
      BY <1>1, <2>1 DEF Typed, InFlightOK
    <3> QED
      BY <3>1 DEF AskedInSession, WellSent, Personal, Bearers
  <2>2. CASE \A s \in Slots : requests'[s] # None => requests'[s].op \notin Personal
    BY <2>2 DEF AskedInSession
  <2> QED
    BY <1>4, <2>1, <2>2 DEF SessionEnds
<1> QED
  BY <1>2, <1>3, <1>4, StepEffect
     DEF Belongs, SessionGoesOn, SessionBegins, SessionRestored, PortfolioAnswered, NameAnswered

\* No step shows a user whose token is not stored, unmarked.
LEMMA StepKeepsIdentity ==
  ASSUME Belongs, [Next]_vars
  PROVE  IdentityFollowsToken'
<1> USE DEF Belongs, IdentityFollowsToken
<1>1. CASE SessionGoesOn
  BY <1>1 DEF SessionGoesOn
<1>2. CASE SessionEnds
  BY <1>2 DEF SessionEnds
<1>3. CASE SessionBegins
  BY <1>3 DEF SessionBegins
<1>4. CASE SessionRestored
  BY <1>4 DEF SessionRestored
<1>5. CASE PortfolioAnswered
  BY <1>5 DEF PortfolioAnswered, Mark
<1>6. CASE NameAnswered
  BY <1>6, AnswerOfTheSession DEF NameAnswered, Mark
<1> QED
  BY <1>1, <1>2, <1>3, <1>4, <1>5, <1>6, StepEffect

\* No step keeps a portfolio that is not the stored token's, unmarked.
LEMMA StepKeepsPortfolio ==
  ASSUME Belongs, [Next]_vars
  PROVE  PortfolioFollowsToken'
<1> USE DEF Belongs, PortfolioFollowsToken
<1>1. CASE SessionGoesOn
  BY <1>1 DEF SessionGoesOn
<1>2. CASE SessionEnds
  BY <1>2 DEF SessionEnds
<1>3. CASE SessionBegins
  BY <1>3, SessionAssumption DEF SessionBegins
<1>4. CASE SessionRestored
  BY <1>4 DEF SessionRestored
<1>5. CASE PortfolioAnswered
  BY <1>5, AnswerOfTheSession DEF PortfolioAnswered, Mark, AskedInSession
<1>6. CASE NameAnswered
  BY <1>6, SessionAssumption DEF NameAnswered, Mark
<1> QED
  BY <1>1, <1>2, <1>3, <1>4, <1>5, <1>6, StepEffect

\* Belongs holds in every reachable state.
LEMMA AlwaysBelongs == Spec => []Belongs
<1>1. Init /\ Typed => Belongs
  BY NoneIsNothing
     DEF Init, SET_LOADING, initialAppState, Idle, Belongs, RestoringAlone, NotRestoring,
     AskedInSession, IdentityFollowsToken, PortfolioFollowsToken
<1>2. Belongs /\ [Next]_vars => Belongs'
  BY StepTyped, StepRestoring, StepAsks, StepKeepsIdentity, StepKeepsPortfolio DEF Belongs
<1> QED
  BY <1>1, <1>2, AlwaysTyped, PTL DEF Spec

\* The user shown is the stored token's, through overlapping sign-ins, reloads,
\* expired tokens and late refusals, unless a rename of an earlier session was
\* answered in this one.
THEOREM IdentityIsTheTokens == Spec => []IdentityFollowsToken
<1>1. Belongs => IdentityFollowsToken
  BY DEF Belongs
<1> QED
  BY <1>1, AlwaysBelongs, PTL

\* The portfolio shown is the shown user's, whatever the order of the answers,
\* unless it or the user was answered to a request of an earlier session, or the
\* user signed in over an open one.
THEOREM PortfolioIsTheUsers == Spec => []PortfolioFollowsUser
<1>1. Belongs => PortfolioFollowsUser
  BY DEF Belongs, IdentityFollowsToken, PortfolioFollowsToken, PortfolioFollowsUser
<1> QED
  BY <1>1, AlwaysBelongs, PTL

-----------------------------------------------------------------------------
(* What the pages show and wait for.                                       *)

\* The requests op that the page on screen waits for.
Waits(reqs, op) == {s \in Slots : reqs[s] # None /\ reqs[s].op = op /\ reqs[s].live}

\* At most one request is awaited by each button or panel, the panel knows, and
\* a page without its data asks for it or says why not.
WaitingFor(a, p, reqs, pan) ==
  /\ \A s, t \in Waits(reqs, "refresh") : s = t
  /\ \A s, t \in Waits(reqs, "social") : s = t
  /\ \A s, t \in Waits(reqs, "rename") : s = t
  /\ Waits(reqs, "refresh") # {} => p \in PortfolioPages
  /\ pan.refreshing <=> Waits(reqs, "refresh") # {}
  /\ pan.pending <=> Waits(reqs, "social") # {}
  /\ Waits(reqs, "rename") # {} => pan.editing
  /\ ~a.loading /\ p \in PortfolioPages => a.portfolio # None \/ pan.error \/ pan.refreshing
  /\ ~a.loading /\ p = "/auth/callback" =>
       pan.error \/ Waits(reqs, "neon") \cup Waits(reqs, "oauth") # {}

\* So does the screen.
Waiting == WaitingFor(app, page, requests, panel)

\* The page on screen is one the guards let through.
GuardsHold == ~app.loading => Guard(app, page) = page

\* A guard lets through the page it sends to.
LEMMA GuardIsStable ==
  ASSUME NEW a, NEW p
  PROVE  Guard(a, Guard(a, p)) = Guard(a, p)
BY DEF Guard, ProtectedRoute, AuthLayout, PrivatePages

\* A guard only looks at the session.
LEMMA GuardOfSameSession ==
  ASSUME NEW a, NEW b, SameSession(a, b), NEW p
  PROVE  Guard(a, p) = Guard(b, p)
BY DEF Guard, ProtectedRoute, AuthLayout, SameSession

\* What is rendered is let through.
LEMMA RendersGuarded ==
  ASSUME NEW a \in AppStates, NEW p, NEW reqs, NEW pan, Renders(a, p, reqs, pan)
  PROVE  GuardsHold'
<1>1. SameSession(app', a) /\ page' = Guard(a, p)
  BY RendersState
<1> QED
  BY <1>1, GuardIsStable, GuardOfSameSession DEF GuardsHold

\* Leaving a page, nothing it sent is awaited any more.
LEMMA LeftWaits ==
  ASSUME NEW reqs \in [Slots -> Requests \cup {None}], NEW op, NEW moved \in BOOLEAN
  PROVE  Waits([s \in Slots |-> Left(reqs[s], moved)], op)
           = IF moved THEN {} ELSE Waits(reqs, op)
<1> DEFINE kept == [s \in Slots |-> Left(reqs[s], moved)]
<1>1. ASSUME NEW s \in Slots
      PROVE  (kept[s] # None /\ kept[s].op = op /\ kept[s].live)
               <=> (~moved /\ reqs[s] # None /\ reqs[s].op = op /\ reqs[s].live)
  <2>1. CASE reqs[s] = None
    BY <2>1 DEF Left
  <2>2. CASE reqs[s] # None /\ moved /\ reqs[s].signal
    BY <2>2 DEF Left
  <2>3. CASE reqs[s] # None /\ ~(moved /\ reqs[s].signal)
    <3> DEFINE q == [reqs[s] EXCEPT !.live = @ /\ ~moved, !.old = @ \/ (stored' # stored)]
    <3>1. kept[s] = q
      BY <2>3 DEF Left
    <3>2. reqs[s] \in Requests
      BY <2>3
    <3>3. q \in Requests /\ q.op = reqs[s].op /\ (q.live <=> reqs[s].live /\ ~moved)
      BY <3>2 DEF Requests
    <3> HIDE DEF q, kept
    <3> QED
      BY <2>3, <3>1, <3>3, NoneIsNothing
  <2> QED
    BY <2>1, <2>2, <2>3
<1> HIDE DEF kept
<1> QED
  BY <1>1 DEF Waits, kept

\* A request sent from a free slot is awaited, and changes nothing for others.
LEMMA SentWaits ==
  ASSUME NEW reqs \in [Slots -> Requests \cup {None}], Free(reqs) # {},
         NEW r \in Requests, r.live, NEW op
  PROVE  /\ op # r.op => Waits(Send(reqs, r), op) = Waits(reqs, op)
         /\ \E m \in Slots : op = r.op => Waits(Send(reqs, r), op) = Waits(reqs, op) \cup {m}
<1>1. PICK m \in Slots : reqs[m] = None /\ Send(reqs, r) = [reqs EXCEPT ![m] = r]
  BY SendFillsAFreeSlot
<1>2. \A s \in Slots : Send(reqs, r)[s] = IF s = m THEN r ELSE reqs[s]
  BY <1>1
<1>3. r # None
  BY NoneIsNothing
<1>4. op # r.op => Waits(Send(reqs, r), op) = Waits(reqs, op)
  BY <1>1, <1>2 DEF Waits
<1>5. op = r.op => Waits(Send(reqs, r), op) = Waits(reqs, op) \cup {m}
  BY <1>1, <1>2, <1>3 DEF Waits
<1> QED
  BY <1>4, <1>5

\* Nothing is awaited when nothing is in flight.
LEMMA IdleWaits == \A op : Waits(Idle, op) = {}
BY DEF Waits, Idle

\* A page that is mounted waits for what it sends, and for nothing else.
LEMMA MountWaits ==
  ASSUME NEW a \in AppStates, NEW p, NEW token \in Tokens \cup {None},
         NEW kept \in [Slots -> Requests \cup {None}], \A op : Waits(kept, op) = {},
         NEW reqs,
         \/ MountRequests(a, p, token) = {} /\ reqs = kept
         \/ \E r \in MountRequests(a, p, token) : Free(kept) # {} /\ reqs = Send(kept, r),
         NEW b, SameSession(b, a),
         NEW pan, pan.refreshing <=> ~a.loading /\ p \in PortfolioPages,
         ~pan.pending, ~pan.error
  PROVE  WaitingFor(b, p, reqs, pan)
<1>1. /\ a.loading \in BOOLEAN /\ b.loading = a.loading
  BY DEF AppStates, SameSession
<1>2. /\ pan.refreshing <=> ~a.loading /\ p \in PortfolioPages
      /\ ~pan.pending /\ ~pan.error
  OBVIOUS
<1>3. CASE MountRequests(a, p, token) = {} /\ reqs = kept
  <2>1. ~a.loading => p \notin PortfolioPages /\ p # "/auth/callback"
    BY <1>3 DEF MountRequests
  <2> QED
    BY <1>1, <1>2, <1>3, <2>1 DEF WaitingFor
<1>4. ASSUME NEW r \in MountRequests(a, p, token), Free(kept) # {}, reqs = Send(kept, r)
      PROVE  WaitingFor(b, p, reqs, pan)
  <2>1. r \in Requests
    BY MountType
  <2>2. r.live /\ ~a.loading
    BY DEF MountRequests, request
  <2>3. CASE p \in PortfolioPages
    <3>1. r.op = "refresh"
      BY <2>2, <2>3 DEF MountRequests, request
    <3>2. PICK m \in Slots : Waits(reqs, "refresh") = {m}
      BY <1>4, <2>1, <2>2, <3>1, SentWaits
    <3>3. Waits(reqs, "social") = {} /\ Waits(reqs, "rename") = {}
      BY <1>4, <2>1, <2>2, <3>1, SentWaits
    <3> QED
      BY <1>1, <1>2, <2>2, <2>3, <3>2, <3>3 DEF WaitingFor, PortfolioPages
  <2>4. CASE p \notin PortfolioPages
    <3>1. r.op = "neon" /\ p = "/auth/callback"
      BY <2>2, <2>4 DEF MountRequests, request
    <3>2. PICK m \in Slots : Waits(reqs, "neon") = {m}
      BY <1>4, <2>1, <2>2, <3>1, SentWaits
    <3>3. Waits(reqs, "social") = {} /\ Waits(reqs, "rename") = {} /\ Waits(reqs, "refresh") = {}
      BY <1>4, <2>1, <2>2, <3>1, SentWaits
    <3> QED
      BY <1>1, <1>2, <2>2, <2>4, <3>1, <3>2, <3>3 DEF WaitingFor, PortfolioPages
  <2> QED
    BY <2>3, <2>4
<1> QED
  BY <1>3, <1>4

\* The state rendered in place waits for what it waited for.
LEMMA StaysWaits ==
  ASSUME NEW a, NEW reqs \in [Slots -> Requests \cup {None}], NEW pan,
         Stays(a, reqs, pan), WaitingFor(a, page, reqs, pan)
  PROVE  Waiting'
<1>1. /\ page' = page /\ app' = a /\ panel' = pan
      /\ requests' = [s \in Slots |-> Left(reqs[s], FALSE)]
  BY DEF Stays
<1>2. \A op : Waits(requests', op) = Waits(reqs, op)
  BY <1>1, LeftWaits
<1>3. WaitingFor(app', page', requests', panel')
  BY <1>1, <1>2 DEF WaitingFor
<1> QED
  BY <1>3 DEF Waiting, WaitingFor, Waits

\* A step on screen waits for what it should, if it does when nothing moves.
LEMMA RendersWaits ==
  ASSUME NEW a, SignedInIsNamed(a), NEW p, NEW reqs \in [Slots -> Requests \cup {None}],
         NEW pan, Renders(a, p, reqs, pan), stored' \in Tokens \cup {None},
         Guard(a, p) = page /\ a.loading = app.loading => WaitingFor(a, page, reqs, pan)
  PROVE  Waiting'
<1> DEFINE to == Guard(a, p)
<1>1. CASE to = page /\ a.loading = app.loading
  BY <1>1, StaysWaits DEF Renders
<1>2. CASE Mounts(a, to, reqs)
  <2> DEFINE kept == [s \in Slots |-> Left(reqs[s], TRUE)]
  <2>1. \A op : Waits(kept, op) = {}
    BY LeftWaits
  <2>2. kept \in [Slots -> Requests \cup {None}]
    <3>1. ASSUME NEW s \in Slots  PROVE Left(reqs[s], TRUE) \in Requests \cup {None}
      <4>1. CASE reqs[s] = None \/ reqs[s].signal
        BY <4>1 DEF Left
      <4>2. CASE reqs[s] \in Requests /\ ~reqs[s].signal
        BY <4>2 DEF Left, Requests
      <4> QED
        BY <4>1, <4>2
    <3> QED
      BY <3>1
  <2>3. /\ page' = to
        /\ panel' = [Blank EXCEPT !.refreshing = ~a.loading /\ to \in PortfolioPages]
        /\ \/ MountRequests(a, to, stored') = {} /\ requests' = kept
           \/ \E r \in MountRequests(a, to, stored') :
                Free(kept) # {} /\ requests' = Send(kept, r)
    BY <1>2 DEF Mounts
  <2>4. SameSession(app', a) /\ a \in AppStates
    BY RendersState DEF SignedInIsNamed
  <2> HIDE DEF kept, to
  <2>5. WaitingFor(app', to, requests', panel')
    <3>1. a.loading \in BOOLEAN
      BY <2>4 DEF AppStates
    <3>2. /\ panel'.refreshing <=> ~a.loading /\ to \in PortfolioPages
          /\ ~panel'.pending /\ ~panel'.error
      BY <2>3, <3>1 DEF Blank
    <3> QED
      BY <2>1, <2>2, <2>3, <2>4, <3>2, MountWaits
  <2> QED
    BY <2>3, <2>5 DEF Waiting, WaitingFor, Waits
<1> QED
  BY <1>1, <1>2 DEF Renders

\* Only the request answered stops being awaited.
LEMMA WithoutWaits ==
  ASSUME Typed, NEW s \in Slots, NEW op
  PROVE  Waits(Without(s), op) = Waits(requests, op) \ {s}
BY DEF Typed, InFlightOK, Without, Waits

\* The end of a request, in the panel that waited for it.
LEMMA EndedFields ==
  ASSUME panel \in Panels, NEW r \in Requests, NEW failed \in BOOLEAN
  PROVE  /\ Ended(r, failed).refreshing <=> panel.refreshing /\ ~(r.live /\ r.op = "refresh")
         /\ Ended(r, failed).error <=>
              panel.error \/ (r.live /\ r.op \in {"refresh", "neon", "oauth"} /\ failed)
         /\ Ended(r, failed).pending <=>
              IF r.live /\ r.op = "social" THEN ~failed ELSE panel.pending
         /\ Ended(r, failed).editing <=>
              IF r.live /\ r.op = "rename" THEN failed ELSE panel.editing
<1>1. CASE ~r.live
  BY <1>1 DEF Ended
<1>2. CASE r.live /\ r.op = "refresh"
  BY <1>2 DEF Ended, Panels
<1>3. CASE r.live /\ r.op \in {"neon", "oauth"}
  BY <1>3 DEF Ended, Panels
<1>4. CASE r.live /\ r.op = "rename"
  BY <1>4 DEF Ended, Panels
<1>5. CASE r.live /\ r.op = "social"
  BY <1>5 DEF Ended, Panels
<1>6. CASE r.live /\ r.op \notin {"refresh", "neon", "oauth", "rename", "social"}
  BY <1>6 DEF Ended
<1> QED
  BY <1>1, <1>2, <1>3, <1>4, <1>5, <1>6

\* The end of a request is no longer waited for, and says what became of it.
LEMMA AnsweredWaits ==
  ASSUME Typed, Waiting, NEW s \in Slots, requests[s] # None, NEW failed \in BOOLEAN,
         ~app.loading, NEW a, ~a.loading,
         failed => a.portfolio = app.portfolio,
         ~failed => \/ requests[s].op \in {"trade", "refresh"} /\ a.portfolio # None
                    \/ requests[s].op = "rename" /\ a.portfolio = app.portfolio
  PROVE  WaitingFor(a, page, Without(s), Ended(requests[s], failed))
<1> DEFINE r   == requests[s]
           pan == Ended(r, failed)
<1>1. r \in Requests /\ panel \in Panels
  BY AnsweredRequest DEF Typed, SessionTypeOK
<1>2. /\ pan.refreshing <=> panel.refreshing /\ ~(r.live /\ r.op = "refresh")
      /\ pan.error <=> panel.error \/ (r.live /\ r.op \in {"refresh", "neon", "oauth"} /\ failed)
      /\ pan.pending <=> IF r.live /\ r.op = "social" THEN ~failed ELSE panel.pending
      /\ pan.editing <=> IF r.live /\ r.op = "rename" THEN failed ELSE panel.editing
  BY <1>1, EndedFields
<1>3. \A op : Waits(Without(s), op) = Waits(requests, op) \ {s}
  BY WithoutWaits
<1>4. \A op : s \in Waits(requests, op) <=> r.op = op /\ r.live
  BY DEF Waits
<1>5. /\ \A x, y \in Waits(requests, "refresh") : x = y
      /\ \A x, y \in Waits(requests, "social") : x = y
      /\ \A x, y \in Waits(requests, "rename") : x = y
      /\ Waits(requests, "refresh") # {} => page \in PortfolioPages
      /\ panel.refreshing <=> Waits(requests, "refresh") # {}
      /\ panel.pending <=> Waits(requests, "social") # {}
      /\ Waits(requests, "rename") # {} => panel.editing
      /\ page \in PortfolioPages => app.portfolio # None \/ panel.error \/ panel.refreshing
      /\ page = "/auth/callback" =>
           panel.error \/ Waits(requests, "neon") \cup Waits(requests, "oauth") # {}
  BY Zenon DEF Waiting, WaitingFor
<1> HIDE DEF pan, r
<1>6. /\ \A x, y \in Waits(Without(s), "refresh") : x = y
      /\ \A x, y \in Waits(Without(s), "social") : x = y
      /\ \A x, y \in Waits(Without(s), "rename") : x = y
      /\ Waits(Without(s), "refresh") # {} => page \in PortfolioPages
  BY <1>3, <1>5
<1>7. pan.refreshing <=> Waits(Without(s), "refresh") # {}
  BY <1>2, <1>3, <1>4, <1>5
<1>8. pan.pending <=> Waits(Without(s), "social") # {}
  <2>1. r.op = "social" => failed
    BY DEF r
  <2> QED
    BY <1>2, <1>3, <1>4, <1>5, <2>1
<1>9. Waits(Without(s), "rename") # {} => pan.editing
  BY <1>2, <1>3, <1>4, <1>5
<1>10. page \in PortfolioPages => a.portfolio # None \/ pan.error \/ pan.refreshing
  <2>1. CASE failed \/ r.op = "rename"
    BY <1>2, <1>5, <2>1 DEF r
  <2>2. CASE ~failed /\ r.op # "rename"
    BY <2>2 DEF r
  <2> QED
    BY <2>1, <2>2
<1>11. page = "/auth/callback" =>
         pan.error \/ Waits(Without(s), "neon") \cup Waits(Without(s), "oauth") # {}
  <2>1. r.op \in {"neon", "oauth"} => failed
    BY DEF r
  <2> QED
    BY <1>2, <1>3, <1>4, <1>5, <2>1
<1> QED
  BY <1>6, <1>7, <1>8, <1>9, <1>10, <1>11 DEF WaitingFor, pan, r

\* A request that no panel waits for ends unseen.
LEMMA UnseenWaits ==
  ASSUME Typed, Waiting, NEW s \in Slots, requests[s] # None,
         NEW a, NEW pan, pan = panel, a.loading = app.loading,
         requests[s].op \notin {"refresh", "social"},
         requests[s].op \in {"neon", "oauth"} => page # "/auth/callback",
         page \in PortfolioPages => a.portfolio = app.portfolio
  PROVE  WaitingFor(a, page, Without(s), pan)
<1>1. \A op : Waits(Without(s), op) = Waits(requests, op) \ {s}
  BY WithoutWaits
<1>2. \A op : s \in Waits(requests, op) => requests[s].op = op
  BY DEF Waits
<1> QED
  BY <1>1, <1>2 DEF Waiting, WaitingFor

\* A click is waited for by what was clicked, and by nothing else.
LEMMA ClickWaits ==
  ASSUME Typed, Waiting, NEW op \in Ops, NEW token \in Tokens \cup {None},
         Click(request(op, token, FALSE)),
         app'.loading = app.loading, app'.portfolio = app.portfolio,
         op \in {"refresh", "social", "rename"} => Waits(requests, op) = {},
         op = "refresh" => page \in PortfolioPages,
         op = "rename" => panel.editing,
         panel'.refreshing <=> panel.refreshing \/ op = "refresh",
         panel'.pending <=> panel.pending \/ op = "social",
         panel'.editing <=> panel.editing,
         op # "refresh" => (panel'.error <=> panel.error)
  PROVE  Waiting'
<1> DEFINE r == request(op, token, FALSE)
<1>1. r \in Requests
  BY RequestType
<1>2. r.op = op /\ r.live
  BY DEF request
<1>3. Free(requests) # {} /\ requests' = Send(requests, r) /\ page' = page
  BY DEF Click
<1> HIDE DEF r
<1>4. requests \in [Slots -> Requests \cup {None}]
  BY DEF Typed, InFlightOK
<1>5. \A o : o # op => Waits(requests', o) = Waits(requests, o)
  BY <1>1, <1>2, <1>3, <1>4, SentWaits
<1>6. PICK m \in Slots : Waits(requests', op) = Waits(requests, op) \cup {m}
  BY <1>1, <1>2, <1>3, <1>4, SentWaits
<1>7. op \in {"refresh", "social", "rename"} => Waits(requests', op) = {m}
  BY <1>6
<1>8. /\ \A x, y \in Waits(requests, "refresh") : x = y
      /\ \A x, y \in Waits(requests, "social") : x = y
      /\ \A x, y \in Waits(requests, "rename") : x = y
      /\ Waits(requests, "refresh") # {} => page \in PortfolioPages
      /\ panel.refreshing <=> Waits(requests, "refresh") # {}
      /\ panel.pending <=> Waits(requests, "social") # {}
      /\ Waits(requests, "rename") # {} => panel.editing
      /\ ~app.loading /\ page \in PortfolioPages =>
           app.portfolio # None \/ panel.error \/ panel.refreshing
      /\ ~app.loading /\ page = "/auth/callback" =>
           panel.error \/ Waits(requests, "neon") \cup Waits(requests, "oauth") # {}
  BY Zenon DEF Waiting, WaitingFor
<1>9. CASE op = "refresh"
  <2>1. page # "/auth/callback"
    BY <1>9 DEF PortfolioPages
  <2>2. WaitingFor(app', page', requests', panel')
    BY <1>3, <1>5, <1>7, <1>8, <1>9, <2>1 DEF WaitingFor
  <2> QED
    BY <2>2 DEF Waiting, WaitingFor, Waits
<1>10. CASE op # "refresh"
  <2>1. Waits(requests, "neon") \cup Waits(requests, "oauth") # {} =>
          Waits(requests', "neon") \cup Waits(requests', "oauth") # {}
    BY <1>5, <1>6
  <2>2. /\ \A x, y \in Waits(requests', "social") : x = y
        /\ panel'.pending <=> Waits(requests', "social") # {}
    BY <1>5, <1>7, <1>8
  <2>3. /\ \A x, y \in Waits(requests', "rename") : x = y
        /\ Waits(requests', "rename") # {} => panel'.editing
    BY <1>5, <1>7, <1>8
  <2>4. Waits(requests', "refresh") = Waits(requests, "refresh")
    BY <1>5, <1>10
  <2>5. WaitingFor(app', page', requests', panel')
    BY <1>3, <1>8, <1>10, <2>1, <2>2, <2>3, <2>4 DEF WaitingFor
  <2> QED
    BY <2>5 DEF Waiting, WaitingFor, Waits
<1> QED
  BY <1>9, <1>10

\* A tab that is loaded waits for what it sends.
LEMMA StartedWaits ==
  ASSUME Typed, NEW p \in Pages, Load(p)
  PROVE  Waiting' /\ GuardsHold'
<1>1. /\ Free(Idle) # {} /\ Idle \in [Slots -> Requests \cup {None}]
      /\ \A op : Waits(Idle, op) = {}
  BY IdleOK, IdleWaits DEF InFlightOK
<1>2. CASE stored # None
  <2> DEFINE r == request("me", stored, FALSE)
  <2>1. r \in Requests
    BY RequestType DEF Ops, Typed, SessionTypeOK
  <2>2. r.op = "me" /\ r.live
    BY DEF request
  <2>3. requests' = Send(Idle, r) /\ app' = initialAppState /\ panel' = Blank
    BY <1>2 DEF Load, Started
  <2> HIDE DEF r
  <2>4. /\ Waits(requests', "refresh") = {} /\ Waits(requests', "social") = {}
        /\ Waits(requests', "rename") = {}
    BY <1>1, <2>1, <2>2, <2>3, SentWaits
  <2>5. app'.loading
    BY <2>3 DEF initialAppState
  <2>6. ~panel'.refreshing /\ ~panel'.pending
    BY <2>3 DEF Blank
  <2>7. WaitingFor(app', page', requests', panel')
    BY <2>4, <2>5, <2>6 DEF WaitingFor
  <2> QED
    BY <2>5, <2>7 DEF Waiting, WaitingFor, Waits, GuardsHold
<1>3. CASE stored = None
  <2> DEFINE a    == SET_LOADING(initialAppState, FALSE)
             to   == Guard(a, p)
             sent == MountRequests(a, to, None)
  <2>1. /\ app' = a /\ page' = to /\ panel' = Blank
        /\ \/ sent = {} /\ requests' = Idle
           \/ \E r \in sent : requests' = Send(Idle, r)
    BY <1>3 DEF Load, Started
  <2>2. a \in AppStates /\ ~a.loading /\ ~a.isAuthenticated
    BY DEF SET_LOADING, initialAppState, AppStates
  <2>3. SameSession(a, a)
    BY DEF SameSession
  <2> HIDE DEF a
  <2>4. to \notin PrivatePages
    BY <2>2, GuardProtects
  <2>5. /\ panel'.refreshing <=> ~a.loading /\ to \in PortfolioPages
        /\ ~panel'.pending /\ ~panel'.error
    BY <2>1, <2>4 DEF Blank, PortfolioPages, PrivatePages
  <2>6. Guard(a, to) = to
    BY GuardIsStable
  <2> HIDE DEF to
  <2>7. WaitingFor(app', page', requests', panel')
    BY <1>1, <2>1, <2>2, <2>3, <2>5, MountWaits
  <2> QED
    BY <2>1, <2>6, <2>7 DEF Waiting, WaitingFor, Waits, GuardsHold
<1> QED
  BY <1>2, <1>3

\* A sign-in leaves the pages waiting for what they should.
LEMMA SignInWaits ==
  ASSUME Typed, Waiting, NEW s \in Slots, requests[s] # None, requests[s].op \in SignIns,
         NEW p \in PrivatePages, SignIn(s, p)
  PROVE  Waiting' /\ GuardsHold'
<1>1. PICK u \in Users : Renders(LOGIN(app, u), p, Without(s), panel)
  BY DEF SignIn
<1>2. /\ app \in AppStates /\ SignedInIsNamed(app) /\ p \in Pages
      /\ stored' \in Tokens \cup {None}
      /\ Without(s) \in [Slots -> Requests \cup {None}]
  BY SignInStores, WithoutFollows DEF Typed, SessionTypeOK, SignedInIsNamed, Pages
<1>3. /\ SignedInIsNamed(LOGIN(app, u)) /\ LOGIN(app, u) \in AppStates
      /\ ~LOGIN(app, u).loading /\ LOGIN(app, u).isAuthenticated
      /\ LOGIN(app, u).portfolio = app.portfolio
  <2>1. SignedInIsNamed(LOGIN(app, u))
    BY <1>2, ReducerOK
  <2> QED
    BY <1>2, <2>1, ReducerState DEF SignedInIsNamed
<1>4. ASSUME Guard(LOGIN(app, u), p) = page, LOGIN(app, u).loading = app.loading
      PROVE  WaitingFor(LOGIN(app, u), page, Without(s), panel)
  <2>1. page # "/auth/callback"
    BY <1>3, <1>4 DEF Guard, ProtectedRoute, PrivatePages
  <2>2. requests[s].op \notin {"refresh", "social"}
    BY DEF SignIns
  <2> QED
    BY <1>3, <1>4, <2>1, <2>2, UnseenWaits
<1>5. Waiting'
  BY <1>1, <1>2, <1>3, <1>4, RendersWaits
<1> QED
  BY <1>1, <1>3, <1>5, RendersGuarded

\* So does every answer.
LEMMA AnswerWaits ==
  ASSUME Typed, RestoringAlone, Waiting, GuardsHold, NEW s \in Slots, Answer(s)
  PROVE  Waiting' /\ GuardsHold'
<1> DEFINE r == requests[s]
<1>1. /\ SignedInIsNamed(app) /\ app \in AppStates
      /\ stored' \in Tokens \cup {None}
      /\ Without(s) \in [Slots -> Requests \cup {None}]
      /\ requests \in [Slots -> Requests \cup {None}]
      /\ expired \subseteq Tokens
  BY AnswerTyped, WithoutFollows DEF Typed, SessionTypeOK, SignedInIsNamed
<1>2. /\ SignedInIsNamed(LOGOUT(app)) /\ LOGOUT(app) \in AppStates
      /\ LOGOUT(app).portfolio = None
      /\ ~LOGOUT(app).loading /\ ~LOGOUT(app).isAuthenticated
  BY <1>1, ReducerState DEF LOGOUT, initialAppState, SignedInIsNamed, AppStates
<1>3. CASE LoggedIn(s)
  BY <1>3, SignInWaits DEF LoggedIn, redirectTarget, SignIns
<1>4. CASE Registered(s)
  BY <1>4, SignInWaits DEF Registered, PrivatePages, SignIns
<1>5. CASE LeftForProvider(s)
  BY <1>5, StartedWaits DEF LeftForProvider, Pages, AuthPages
<1>6. CASE GotNeonToken(s)
  <2>1. SameSession(app', app) /\ page' = page /\ panel' = panel
    BY <1>1, <1>6, SetErrorOK DEF GotNeonToken, loginWithOAuthToken
  <2>2. r \in Requests /\ r # None /\ r.op = "neon"
    BY <1>6, AnsweredRequest DEF GotNeonToken
  <2> DEFINE q == [r EXCEPT !.op = "oauth"]
  <2>3. requests' = [requests EXCEPT ![s] = q]
    BY <1>6 DEF GotNeonToken, loginWithOAuthToken
  <2>4. q \in Requests /\ q.op = "oauth" /\ (q.live <=> r.live)
    BY <2>2 DEF Requests, Ops, SignIns
  <2> HIDE DEF q
  <2>5. q # None
    BY <2>4, NoneIsNothing
  <2>6. \A t \in Slots : requests'[t] = IF t = s THEN q ELSE requests[t]
    BY <1>1, <2>3
  <2>7. \A op : op \notin {"neon", "oauth"} => Waits(requests', op) = Waits(requests, op)
    BY <2>2, <2>4, <2>5, <2>6 DEF Waits
  <2>8. Waits(requests', "neon") \cup Waits(requests', "oauth")
          = Waits(requests, "neon") \cup Waits(requests, "oauth")
    BY <2>2, <2>4, <2>5, <2>6 DEF Waits
  <2>9. WaitingFor(app', page', requests', panel')
    BY <2>1, <2>7, <2>8 DEF Waiting, WaitingFor, SameSession
  <2>10. GuardsHold'
    BY <2>1, GuardOfSameSession DEF GuardsHold, SameSession
  <2> QED
    BY <2>9, <2>10 DEF Waiting, WaitingFor, Waits
<1>7. CASE ExchangedToken(s)
  BY <1>7, SignInWaits DEF ExchangedToken, PrivatePages, SignIns
<1>8. CASE Restored(s)
  <2>1. r.token.user \in Users /\ app.loading
    BY <1>8, AnsweredRequest, AnsweredAlone DEF Restored
  <2>2. SignedInIsNamed(LOGIN(app, r.token.user)) /\ ~LOGIN(app, r.token.user).loading
    BY <1>1, <2>1, ReducerOK, ReducerState
  <2>3. Renders(LOGIN(app, r.token.user), page, Without(s), panel)
    BY <1>8 DEF Restored
  <2>4. GuardsHold'
    BY <2>2, <2>3, RendersGuarded DEF SignedInIsNamed
  <2> QED
    BY <1>1, <2>1, <2>2, <2>3, <2>4, RendersWaits
<1>9. CASE GotPortfolio(s)
  <2>1. r.token.user \in Users /\ ~app.loading
    BY <1>9, AnsweredRequest, AnsweredAlone DEF GotPortfolio
  <2> DEFINE a == SET_PORTFOLIO(app, r.token.user)
  <2>2. SignedInIsNamed(a) /\ a.loading = app.loading /\ a.portfolio = r.token.user
    BY <1>1, <2>1, ReducerOK, ReducerState
  <2>3. Renders(a, page, Without(s), Ended(r, FALSE))
    BY <1>9 DEF GotPortfolio
  <2>4. r # None /\ r.op \in {"trade", "refresh"}
    BY <1>9 DEF GotPortfolio
  <2> HIDE DEF a
  <2>5. a.portfolio # None
    BY <2>1, <2>2, SessionAssumption
  <2>6. WaitingFor(a, page, Without(s), Ended(r, FALSE))
    BY <2>1, <2>2, <2>4, <2>5, AnsweredWaits
  <2> QED
    BY <1>1, <2>2, <2>3, <2>6, RendersWaits, RendersGuarded DEF SignedInIsNamed
<1>10. CASE Renamed(s)
  <2>1. r.token.user \in Users /\ ~app.loading
    BY <1>10, AnsweredRequest, AnsweredAlone DEF Renamed
  <2> DEFINE a == SET_USER(app, r.token.user)
  <2>2. SignedInIsNamed(a) /\ a.loading = app.loading /\ a.portfolio = app.portfolio
    BY <1>1, <2>1, ReducerOK, ReducerState
  <2>3. Renders(a, page, Without(s), Ended(r, FALSE))
    BY <1>10 DEF Renamed
  <2>4. r # None /\ r.op = "rename"
    BY <1>10 DEF Renamed
  <2> HIDE DEF a
  <2>5. WaitingFor(a, page, Without(s), Ended(r, FALSE))
    BY <2>1, <2>2, <2>4, AnsweredWaits
  <2> QED
    BY <1>1, <2>2, <2>3, <2>5, RendersWaits, RendersGuarded DEF SignedInIsNamed
<1>11. CASE Refused(s)
  <2>1. Renders(LOGOUT(app), page, Without(s), panel) /\ r # None /\ r.token \in expired
    BY <1>11 DEF Refused
  <2>2. r.op \in Bearers
    BY <1>1, <2>1, AnsweredRequest, NoneIsNothing DEF WellSent
  <2>3. ASSUME Guard(LOGOUT(app), page) = page, LOGOUT(app).loading = app.loading
        PROVE  WaitingFor(LOGOUT(app), page, Without(s), panel)
    <3>1. page \notin PortfolioPages /\ ~app.loading
      BY <1>2, <2>3, GuardProtects DEF PortfolioPages, PrivatePages
    <3>2. \A op : Waits(Without(s), op) = Waits(requests, op) \ {s}
      BY WithoutWaits
    <3>3. \A op : s \in Waits(requests, op) => op \in Bearers
      BY <2>2 DEF Waits
    <3>4. Waits(requests, "refresh") = {}
      BY <3>1 DEF Waiting, WaitingFor
    <3>5. \A op : op \notin Bearers => Waits(Without(s), op) = Waits(requests, op)
      BY <3>2, <3>3
    <3> QED
      BY <3>1, <3>2, <3>4, <3>5 DEF Waiting, WaitingFor, Bearers
  <2> QED
    BY <1>1, <1>2, <2>1, <2>3, RendersWaits, RendersGuarded
<1>12. ASSUME NEW token, GivesUp(s, token)  PROVE Waiting' /\ GuardsHold'
  <2>1. app.loading /\ Renders(LOGOUT(app), page, Without(s), panel)
    BY <1>12, AnsweredAlone DEF GivesUp
  <2> QED
    BY <1>1, <1>2, <2>1, RendersWaits, RendersGuarded
<1>13. CASE ShowsError(s)
  <2> DEFINE e == app.error \/ r.op \in SignIns
             a == SET_ERROR(app, e)
  <2>1. ~app.loading /\ e \in BOOLEAN /\ r # None
    BY <1>1, <1>13, AnsweredAlone DEF ShowsError, AppStates
  <2>2. SignedInIsNamed(a) /\ SameSession(a, app)
    BY <1>1, <2>1, SetErrorOK
  <2>3. Renders(a, page, Without(s), Ended(r, TRUE))
    BY <1>13 DEF ShowsError
  <2> HIDE DEF a
  <2>4. WaitingFor(a, page, Without(s), Ended(r, TRUE))
    BY <2>1, <2>2, AnsweredWaits DEF SameSession
  <2> QED
    BY <1>1, <2>2, <2>3, <2>4, RendersWaits, RendersGuarded DEF SignedInIsNamed
<1> QED
  BY <1>3, <1>4, <1>5, <1>6, <1>7, <1>8, <1>9, <1>10, <1>11, <1>12, <1>13
     DEF Answer, Rejected, Unreachable

\* So does every step.
LEMMA StepWaits ==
  ASSUME Typed, RestoringAlone, Waiting, GuardsHold, [Next]_vars
  PROVE  Waiting' /\ GuardsHold'
<1>1. /\ SignedInIsNamed(app) /\ app \in AppStates
      /\ stored \in Tokens \cup {None}
      /\ requests \in [Slots -> Requests \cup {None}]
      /\ panel \in Panels
  BY DEF Typed, SessionTypeOK, SignedInIsNamed
<1>2. ASSUME SameSession(app', app), page' = page  PROVE GuardsHold'
  BY <1>2, GuardOfSameSession DEF GuardsHold, SameSession
<1>3. ASSUME WaitingFor(app', page', requests', panel')  PROVE Waiting'
  BY <1>3 DEF Waiting, WaitingFor, Waits
<1>4. Waits(requests, "refresh") # {} <=> Awaited({"refresh"})
  BY DEF Waits, Awaited
<1>5. Waits(requests, "rename") # {} <=> Awaited({"rename"})
  BY DEF Waits, Awaited
<1>6. /\ Waits(requests, "refresh") = {} <=> ~panel.refreshing
      /\ Waits(requests, "social") = {} <=> ~panel.pending
  BY DEF Waiting, WaitingFor
<1>7. SameSession(app, app)
  BY DEF SameSession
<1>8. ASSUME NEW p \in Pages, Load(p)  PROVE Waiting' /\ GuardsHold'
  BY <1>8, StartedWaits
<1>9. ASSUME NEW p \in Pages, Navigate(p)  PROVE Waiting' /\ GuardsHold'
  BY <1>1, <1>9, RendersWaits, RendersGuarded DEF Navigate, Waiting
<1>10. ASSUME NEW op \in {"login", "register"}, Submit(op)  PROVE Waiting' /\ GuardsHold'
  <2>1. Click(request(op, None, FALSE)) /\ panel' = panel /\ page' = page
    BY <1>10 DEF Submit, Click
  <2>2. SameSession(app', app)
    BY <1>1, <1>10, SetErrorOK DEF Submit
  <2>3. op \in Ops /\ op \notin {"refresh", "social", "rename"}
    BY DEF Ops, SignIns
  <2>4. Waiting'
    BY <2>1, <2>2, <2>3, ClickWaits DEF SameSession
  <2> QED
    BY <1>2, <2>1, <2>2, <2>4
<1>11. CASE Prefill
  <2>1. /\ panel'.refreshing = panel.refreshing /\ panel'.pending = panel.pending
        /\ panel'.editing = panel.editing /\ panel'.error = panel.error
    BY <1>1, <1>11 DEF Prefill, Panels
  <2>2. ASSUME NEW op, op # "login"  PROVE Waits(requests', op) = Waits(requests, op)
    <3>1. ASSUME NEW s \in Slots, requests[s] # None, requests[s].op = "login"
          PROVE  requests'[s].op # op
      BY <1>1, <1>11, <2>2, <3>1 DEF Prefill, Requests
    <3>2. ASSUME NEW s \in Slots, ~(requests[s] # None /\ requests[s].op = "login")
          PROVE  requests'[s] = requests[s]
      BY <1>11, <3>2 DEF Prefill
    <3> QED
      BY <2>2, <3>1, <3>2 DEF Waits
  <2>3. WaitingFor(app', page', requests', panel')
    BY <1>11, <2>1, <2>2 DEF Prefill, Waiting, WaitingFor
  <2> QED
    BY <1>2, <1>3, <1>7, <1>11, <2>3 DEF Prefill
<1>12. CASE SocialSignIn
  <2>1. /\ Click(request("social", None, FALSE)) /\ app' = app /\ page' = page
        /\ ~panel.pending /\ panel' = [panel EXCEPT !.pending = TRUE]
    BY <1>12 DEF SocialSignIn, Click
  <2>2. /\ panel'.refreshing = panel.refreshing /\ panel'.pending
        /\ panel'.editing = panel.editing /\ panel'.error = panel.error
    BY <1>1, <2>1 DEF Panels
  <2>3. Waiting'
    BY <1>6, <2>1, <2>2, ClickWaits DEF Ops
  <2> QED
    BY <1>2, <1>7, <2>1, <2>3
<1>13. CASE Logout
  <2>1. SignedInIsNamed(LOGOUT(app)) /\ ~LOGOUT(app).isAuthenticated /\ ~LOGOUT(app).loading
    BY <1>1, ReducerState DEF LOGOUT, initialAppState, SignedInIsNamed, AppStates
  <2>2. /\ Renders(LOGOUT(app), "/login", requests, panel)
        /\ page \in PrivatePages /\ stored' = None
    BY <1>13 DEF Logout, LogsOut
  <2>3. Guard(LOGOUT(app), "/login") # page
    BY <2>1, <2>2, GuardProtects
  <2> QED
    BY <1>1, <2>1, <2>2, <2>3, RendersWaits, RendersGuarded DEF SignedInIsNamed
<1>14. CASE startEditing \/ CancelEditing
  <2>1. /\ panel'.refreshing = panel.refreshing /\ panel'.pending = panel.pending
        /\ panel'.error = panel.error
        /\ Waits(requests, "rename") # {} => panel'.editing
        /\ app' = app /\ page' = page /\ requests' = requests
    BY <1>1, <1>5, <1>14 DEF startEditing, CancelEditing, Panels
  <2>2. WaitingFor(app', page', requests', panel')
    BY <2>1 DEF Waiting, WaitingFor
  <2> QED
    BY <1>2, <1>3, <1>7, <2>1, <2>2
<1>15. CASE Rename
  <2>1. /\ Click(request("rename", stored, FALSE)) /\ app' = app /\ page' = page
        /\ panel' = panel /\ panel.editing /\ Waits(requests, "rename") = {}
    BY <1>5, <1>15 DEF Rename, Click
  <2>2. Waiting'
    BY <1>1, <2>1, ClickWaits DEF Ops
  <2> QED
    BY <1>2, <1>7, <2>1, <2>2
<1>16. CASE Trade
  <2>1. /\ Click(request("trade", stored, FALSE)) /\ app' = app /\ page' = page
        /\ panel' = panel
    BY <1>16 DEF Trade, Click
  <2>2. Waiting'
    BY <1>1, <2>1, ClickWaits DEF Ops
  <2> QED
    BY <1>2, <1>7, <2>1, <2>2
<1>17. CASE Refresh
  <2>1. /\ Click(request("refresh", stored, FALSE)) /\ app' = app /\ page' = page
        /\ page \in PortfolioPages /\ Waits(requests, "refresh") = {}
        /\ panel' = [panel EXCEPT !.refreshing = TRUE, !.error = FALSE]
    BY <1>6, <1>17 DEF Refresh, Click
  <2>2. /\ panel'.refreshing /\ panel'.pending = panel.pending
        /\ panel'.editing = panel.editing
    BY <1>1, <2>1 DEF Panels
  <2>3. Waiting'
    BY <1>1, <2>1, <2>2, ClickWaits DEF Ops
  <2> QED
    BY <1>2, <1>7, <2>1, <2>3
<1>18. ASSUME NEW t \in Tokens, Expire(t)  PROVE Waiting' /\ GuardsHold'
  <2>1. app' = app /\ page' = page /\ requests' = requests /\ panel' = panel
    BY <1>18 DEF Expire
  <2> QED
    BY <1>2, <1>3, <1>7, <2>1 DEF Waiting
<1>19. ASSUME NEW s \in Slots, Answer(s)  PROVE Waiting' /\ GuardsHold'
  BY <1>19, AnswerWaits
<1>20. CASE UNCHANGED vars
  <2>1. app' = app /\ page' = page /\ requests' = requests /\ panel' = panel
    BY <1>20 DEF vars
  <2> QED
    BY <1>2, <1>3, <1>7, <2>1 DEF Waiting
<1> QED
  BY <1>8, <1>9, <1>10, <1>11, <1>12, <1>13, <1>14, <1>15, <1>16, <1>17, <1>18, <1>19, <1>20
     DEF Next, SubmitLogin, SubmitRegistration

\* Every page shows something in every reachable state, and a spinner or a waiting
\* button only while the request it stands for is in flight.
THEOREM NoPageIsBlank == Spec => []NoBlankPage
<1>1. ASSUME Init  PROVE Waiting /\ GuardsHold
  <2>1. \A op : Waits(requests, op) = {}
    BY <1>1, IdleWaits DEF Init
  <2>2. ~panel.refreshing /\ ~panel.pending
    BY <1>1 DEF Init, Blank
  <2>3. ~app.loading /\ ~app.isAuthenticated
    BY <1>1 DEF Init, SET_LOADING, initialAppState
  <2>4. page \in {"/login", "/register"}
    BY <1>1 DEF Init
  <2> QED
    BY <2>1, <2>2, <2>3, <2>4
       DEF Waiting, WaitingFor, GuardsHold, Guard, AuthLayout, PrivatePages, PortfolioPages
<1>2. ASSUME Typed, RestoringAlone, Waiting  PROVE NoBlankPage
  <2>1. \A op : Waits(requests, op) # {} <=> Awaited({op})
    BY DEF Waits, Awaited
  <2>2. Waits(requests, "neon") \cup Waits(requests, "oauth") # {} => Awaited({"neon", "oauth"})
    BY DEF Waits, Awaited
  <2>3. /\ panel.refreshing <=> Awaited({"refresh"})
        /\ panel.pending <=> Awaited({"social"})
        /\ Awaited({"rename"}) => panel.editing
    BY <1>2, <2>1 DEF Waiting, WaitingFor
  <2>4. app.loading => InFlight("me")
    BY <1>2 DEF RestoringAlone, InFlight
  <2>5. ~app.loading /\ page \in PortfolioPages =>
          app.portfolio # None \/ panel.error \/ panel.refreshing
    BY <1>2 DEF Waiting, WaitingFor
  <2>6. ~app.loading /\ page = "/auth/callback" => panel.error \/ Awaited({"neon", "oauth"})
    BY <1>2, <2>2 DEF Waiting, WaitingFor
  <2> DEFINE Fine == /\ View # {}
                     /\ "spinner" \in View => \/ app.loading \/ panel.refreshing
                                              \/ Awaited({"neon", "oauth"})
  <2>7. ASSUME app.loading  PROVE Fine
    BY <2>7 DEF View
  <2>8. ASSUME ~app.loading /\ page \in {"/login", "/register"}  PROVE Fine
    BY <2>8 DEF View, SignInForms
  <2>9. ASSUME ~app.loading /\ page = "/auth/callback"  PROVE Fine
    BY <2>6, <2>9 DEF View, CallbackCard, Show
  <2>10. ASSUME ~app.loading /\ page = "/dashboard"  PROVE Fine
    BY <2>5, <2>10 DEF View, DashboardFigures, waits, Show, PortfolioPages
  <2>11. ASSUME ~app.loading /\ page = "/portfolio"  PROVE Fine
    BY <2>5, <2>11 DEF View, PortfolioSections, waits, Show, PortfolioPages
  <2>12. ASSUME ~app.loading /\ page = "/crypto"  PROVE Fine
    BY <2>5, <2>12 DEF View, TradeCard, Show, PortfolioPages
  <2>13. ASSUME ~app.loading /\ page = "/profile"  PROVE Fine
    BY <2>13 DEF View, NameCard, Show
  <2>14. page \in Pages
    BY <1>2 DEF Typed, SessionTypeOK
  <2>15. Fine
    BY <2>7, <2>8, <2>9, <2>10, <2>11, <2>12, <2>13, <2>14 DEF Pages, PrivatePages, AuthPages
  <2> QED
    BY <2>3, <2>4, <2>15 DEF NoBlankPage
<1>3. Typed /\ RestoringAlone /\ Waiting /\ GuardsHold /\ [Next]_vars
        => Waiting' /\ GuardsHold'
  BY StepWaits
<1>4. Belongs => Typed /\ RestoringAlone
  BY DEF Belongs
<1> QED
  BY <1>1, <1>2, <1>3, <1>4, AlwaysBelongs, PTL DEF Spec

=============================================================================
