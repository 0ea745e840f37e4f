----------------------------- MODULE CoinGecko -----------------------------
(***************************************************************************)
(* services/coingecko_service.py and services/cache.py: concurrent         *)
(* requests to CoinGecko through one cache, one table of fetches in flight *)
(* and one semaphore.                                                      *)
(*                                                                         *)
(* The tasks of one event loop: a step runs from one await to the next.    *)
(* An answer is named by the state of the market it describes, a counter   *)
(* that only grows.  The lifetime of an entry ends at any moment.          *)
(***************************************************************************)
EXTENDS Integers, FiniteSets, SequencesExt

CONSTANTS
  Requests,          \* tasks of the application that call the service
  Keys,              \* _cache_key of the calls answered by _get_json
  Coins,             \* _price_key of the coins
  Delisted,          \* coins CoinGecko may answer without
  None,
  MaxEntries,        \* TTLCache._max_entries
  MaxConcurrency,    \* COINGECKO_MAX_CONCURRENCY
  MaxRetries,        \* COINGECKO_MAX_RETRIES
  PriceBatchSize,    \* PRICE_BATCH_SIZE
  Pages,             \* requests that may ask for a key
  Wants,             \* [Requests -> sets of coins it may ask the prices of]
  MaxMoves           \* bound on the moves of the market

ASSUME CoinGeckoAssumption ==
  /\ Keys \cap Coins = {} /\ Delisted \subseteq Coins
  /\ {MaxEntries, MaxConcurrency, PriceBatchSize} \subseteq Nat \ {0}
  /\ {MaxRetries, MaxMoves} \subseteq Nat
  /\ Pages \subseteq Requests /\ Wants \in [Requests -> SUBSET SUBSET Coins]
  /\ \A r \in Requests : \A coins \in Wants[r] : IsFiniteSet(coins)

VARIABLES
  cache,      \* [key of an entry -> [version, fresh, stored_at]]
  inflight,   \* [Keys -> the request that leads the fetch, or None]
  queue,      \* requests waiting for the semaphore: it is fair
  req,        \* [Requests -> state of the request, None when there is none]
  market,     \* state of the market
  newest      \* ghost: [Keys -> newest version returned to a request]

vars == <<cache, inflight, queue, req, market, newest>>

-----------------------------------------------------------------------------
(* TTLCache: the dictionary of its entries.  stored_at is the place of an  *)
(* entry in the order of storing, 1 for the oldest.                        *)

Entry == [version : 0 .. MaxMoves, fresh : BOOLEAN, stored_at : 1 .. MaxEntries]

\* A dictionary within its limit that knows which entry is older.
IsCache(c) ==
  /\ c \in [DOMAIN c -> Entry] /\ DOMAIN c \subseteq Keys \cup Coins
  /\ IsFiniteSet(DOMAIN c) /\ Cardinality(DOMAIN c) <= MaxEntries
  /\ \A i, j \in DOMAIN c : c[i].stored_at = c[j].stored_at => i = j

get_stale(c, k) == IF k \in DOMAIN c THEN c[k].version ELSE None

get(c, k) == IF k \in DOMAIN c /\ c[k].fresh THEN c[k].version ELSE None

\* The keys _evict leaves: the expired entries go, and the oldest one if that makes
\* no room.
evict(c) ==
  LET fresh == {k \in DOMAIN c : c[k].fresh}
  IN IF Cardinality(fresh) < MaxEntries THEN fresh
     ELSE {k \in fresh : \E j \in fresh : c[j].stored_at < c[k].stored_at}

\* k is stored beside the entries of S.  Times of storing are only compared: what
\* is kept of them is the order.
store(c, S, k, v) ==
  [j \in S \cup {k} |->
     IF j = k THEN [version |-> v, fresh |-> TRUE, stored_at |-> Cardinality(S) + 1]
     ELSE [c[j] EXCEPT !.stored_at = Cardinality({i \in S : c[i].stored_at <= c[j].stored_at})]]

put_NeverFull(c, k, v) == store(c, DOMAIN c \ {k}, k, v)

\* TTLCache.set
put(c, k, v) ==
  store(c, IF Cardinality(DOMAIN c) >= MaxEntries /\ k \notin DOMAIN c THEN evict(c)
           ELSE DOMAIN c \ {k}, k, v)

\* The caches that storing the prices of the coins one by one may leave, whichever
\* order their names put them in.
putAll(c, coins, v) ==
  LET after[S \in SUBSET coins] ==
        IF S = {} THEN {c} ELSE UNION {{put(d, k, v) : d \in after[S \ {k}]} : k \in S}
  IN after[coins]

-----------------------------------------------------------------------------
(* A request asks for one key or for the prices of several coins.          *)

Error == -1

Cancelled == -2      \* the future of a leader that was cancelled

Task == [key : Keys \cup {None},          \* None: prices
         pc : {"following", "woken", "queued", "calling", "sleeping", "done"},
         batch : SUBSET Coins,            \* the coins being fetched
         rest : SUBSET Coins,             \* missing coins of later batches
         quotes : SUBSET Coins,           \* coins of the result
         unlisted : SUBSET Coins,         \* ghost: coins CoinGecko did not price
         asked : SUBSET Coins,            \* ghost
         attempt : 0 .. MaxRetries,
         sent : 0 .. MaxMoves,            \* the market when the call was sent
         answer : Cancelled .. MaxMoves,
         cancelled : BOOLEAN,             \* cancelled while it follows
         floor : 0 .. MaxMoves]           \* ghost: newest when it began

ASSUME NoneIsNothing == None \notin Requests \cup Keys \cup Int /\ None \notin Task

NewTask(k, coins, v) ==
  [key |-> k, pc |-> "queued", batch |-> {}, rest |-> {}, quotes |-> {},
   unlisted |-> {}, asked |-> coins, attempt |-> 0, sent |-> 0, answer |-> Error,
   cancelled |-> FALSE, floor |-> v]

Fetching(r) == req[r] # None /\ req[r].pc \in {"queued", "calling", "sleeping"}

Followers(k) == {r \in Requests : req[r] # None /\ req[r].key = k /\ req[r].pc = "following"}

Done(t, v) ==
  [t EXCEPT !.pc = "done", !.answer = v, !.cancelled = FALSE,
            !.batch = {}, !.rest = {}, !.attempt = 0, !.sent = 0]

\* What the callers have seen once r is done with v for its key.
Seen(k, v) == [newest EXCEPT ![k] = IF v > @ THEN v ELSE @]

GetJson_NoSingleFlight(r, t) ==
  LET k == t.key
      v == get(cache, k)
  IN IF v # None
     THEN /\ req' = [req EXCEPT ![r] = Done(t, v)]
          /\ newest' = Seen(k, v)
          /\ UNCHANGED <<inflight, queue>>
     ELSE /\ req' = [req EXCEPT ![r] = [t EXCEPT !.pc = "queued"]]
          /\ inflight' = [inflight EXCEPT ![k] = r]
          /\ queue' = Append(queue, r)
          /\ UNCHANGED newest

\* _get_json up to its first await: a fresh value, a fetch to follow or to lead.
GetJson(r, t) ==
  LET k == t.key
      v == get(cache, k)
  IN \/ /\ v # None
        /\ req' = [req EXCEPT ![r] = Done(t, v)]
        /\ newest' = Seen(k, v)
        /\ UNCHANGED <<inflight, queue>>
     \/ /\ v = None /\ inflight[k] # None
        /\ req' = [req EXCEPT ![r] = [t EXCEPT !.pc = "following"]]
        /\ UNCHANGED <<inflight, queue, newest>>
     \/ /\ v = None /\ inflight[k] = None
        /\ req' = [req EXCEPT ![r] = [t EXCEPT !.pc = "queued"]]
        /\ inflight' = [inflight EXCEPT ![k] = r]
        /\ queue' = Append(queue, r)
        /\ UNCHANGED newest

\* The next batch of missing prices, if any.
NextBatch(r, t, missing) ==
  IF missing = {}
  THEN /\ req' = [req EXCEPT ![r] = Done(t, 0)]
       /\ UNCHANGED queue
  ELSE \E b \in SUBSET missing :
         /\ Cardinality(b) = IF Cardinality(missing) < PriceBatchSize
                             THEN Cardinality(missing) ELSE PriceBatchSize
         /\ req' = [req EXCEPT ![r] = [t EXCEPT !.pc = "queued", !.attempt = 0,
                                                !.batch = b, !.rest = missing \ b]]
         /\ queue' = Append(queue, r)

-----------------------------------------------------------------------------
Init ==
  /\ cache = [k \in {} |-> None] /\ queue = <<>> /\ market = 0
  /\ inflight = [k \in Keys |-> None]
  /\ req = [r \in Requests |-> None]
  /\ newest = [k \in Keys |-> 0]

\* get_markets, get_coin, get_history, search, get_trending
AskKey(r, k) ==
  /\ req[r] = None /\ r \in Pages
  /\ GetJson(r, NewTask(k, {}, newest[k]))
  /\ UNCHANGED <<cache, market>>

get_simple_prices(r, coins) ==
  /\ req[r] = None /\ coins # {}
  /\ LET cached == {c \in coins : get(cache, c) # None}
     IN NextBatch(r, [NewTask(None, coins, 0) EXCEPT !.quotes = cached], coins \ cached)
  /\ UNCHANGED <<cache, inflight, market, newest>>

\* The caller has its answer.
Return(r) ==
  /\ req[r] # None /\ req[r].pc = "done"
  /\ req' = [req EXCEPT ![r] = None]
  /\ UNCHANGED <<cache, inflight, queue, market, newest>>

\* The semaphore admits the one that waits longest; the request is sent.
Acquire(r) ==
  /\ queue # <<>> /\ r = Head(queue)
  /\ Cardinality({s \in Requests : req[s] # None /\ req[s].pc = "calling"}) < MaxConcurrency
  /\ queue' = Tail(queue)
  /\ req' = [req EXCEPT ![r].pc = "calling", ![r].sent = market]
  /\ UNCHANGED <<cache, inflight, market, newest>>

WakeAndPop_LeavesFollowers(r, t, outcome) ==
  /\ req' = [req EXCEPT ![r] = t]
  /\ inflight' = [inflight EXCEPT ![req[r].key] = None]

\* The end of a leader: its future is resolved with the version, the error or the
\* cancellation, those that follow it will wake up, and the table forgets it.
\* t is what becomes of the leader.
WakeAndPop(r, t, outcome) ==
  LET k == req[r].key
      woken(f) == [req[f] EXCEPT !.pc = "woken", !.answer = outcome]
  IN /\ req' = [f \in Requests |-> IF f = r THEN t
                                   ELSE IF f \in Followers(k) THEN woken(f) ELSE req[f]]
     /\ inflight' = [inflight EXCEPT ![k] = None]

\* Status 200: the answer describes the market at some moment of the call.
Receive(r) ==
  /\ req[r] # None /\ req[r].pc = "calling"
  /\ \E v \in req[r].sent .. market :
       IF req[r].key # None
       THEN /\ WakeAndPop(r, Done(req[r], v), v)
            /\ newest' = Seen(req[r].key, v)
            /\ cache' = put(cache, req[r].key, v)
            /\ UNCHANGED queue
       ELSE \E gone \in SUBSET (req[r].batch \cap Delisted) :
              LET listed == req[r].batch \ gone IN
              /\ NextBatch(r, [req[r] EXCEPT !.quotes = @ \cup listed,
                                             !.unlisted = @ \cup gone],
                           req[r].rest)
              /\ cache' \in putAll(cache, listed, v)
              /\ UNCHANGED <<inflight, newest>>
  /\ UNCHANGED market

FallBack_Partial(r) ==
  /\ UNCHANGED cache
  /\ IF req[r].key # None
     THEN LET stale == get_stale(cache, req[r].key)
              v     == IF stale = None THEN Error ELSE stale
          IN /\ WakeAndPop(r, Done(req[r], v), v)
             /\ newest' = Seen(req[r].key, v)
             /\ UNCHANGED queue
     ELSE LET stale == {c \in req[r].batch : get_stale(cache, c) # None}
          IN /\ UNCHANGED <<inflight, newest>>
             /\ IF stale # {}
                THEN NextBatch(r, [req[r] EXCEPT !.quotes = @ \cup stale], req[r].rest)
                ELSE req' = [req EXCEPT ![r] = Done(@, Error)] /\ UNCHANGED queue

\* CoinGecko failed for good: stale values replace the answer, for prices only
\* when the whole batch has one.
FallBack(r) ==
  /\ UNCHANGED cache
  /\ IF req[r].key # None
     THEN LET stale == get_stale(cache, req[r].key)
              v     == IF stale = None THEN Error ELSE stale
          IN /\ WakeAndPop(r, Done(req[r], v), v)
             /\ newest' = Seen(req[r].key, v)
             /\ UNCHANGED queue
     ELSE /\ UNCHANGED <<inflight, newest>>
          /\ IF \A c \in req[r].batch : get_stale(cache, c) # None
             THEN NextBatch(r, [req[r] EXCEPT !.quotes = @ \cup req[r].batch], req[r].rest)
             ELSE req' = [req EXCEPT ![r] = Done(@, Error)] /\ UNCHANGED queue

\* 404, 401, 403 and unexpected statuses are not retried.
Refuse(r) ==
  /\ req[r] # None /\ req[r].pc = "calling"
  /\ FallBack(r)
  /\ UNCHANGED market

Fail_SleepsForGood(r) ==
  /\ req[r] # None /\ req[r].pc = "calling"
  /\ req' = [req EXCEPT ![r].pc = "sleeping"]
  /\ UNCHANGED <<cache, inflight, queue, newest, market>>

\* 429, a server error, a time-out or the network: the semaphore is free again
\* while it sleeps, unless this was the last attempt.
Fail(r) ==
  /\ req[r] # None /\ req[r].pc = "calling"
  /\ IF req[r].attempt < MaxRetries
     THEN /\ req' = [req EXCEPT ![r].pc = "sleeping", ![r].sent = 0]
          /\ UNCHANGED <<cache, inflight, queue, newest>>
     ELSE FallBack(r)
  /\ UNCHANGED market

WakeUp(r) ==
  /\ req[r] # None /\ req[r].pc = "sleeping" /\ req[r].attempt < MaxRetries
  /\ req' = [req EXCEPT ![r].pc = "queued", ![r].attempt = @ + 1]
  /\ queue' = Append(queue, r)
  /\ UNCHANGED <<cache, inflight, market, newest>>

\* The task of a request that fetches is cancelled.
Cancel(r) ==
  /\ Fetching(r)
  /\ queue' = RemoveFirst(queue, r)
  /\ IF req[r].key # None THEN WakeAndPop(r, None, Cancelled)
     ELSE req' = [req EXCEPT ![r] = None] /\ UNCHANGED inflight
  /\ UNCHANGED <<cache, market, newest>>

\* The task of a request that follows is cancelled: it learns of it when it runs.
CancelFollower(r) ==
  /\ req[r] # None /\ req[r].pc \in {"following", "woken"}
  /\ req' = [req EXCEPT ![r].cancelled = TRUE]
  /\ UNCHANGED <<cache, inflight, queue, market, newest>>

\* A follower runs again.  When its leader was cancelled it asks anew, even if it
\* was cancelled itself.
Resume(r) ==
  /\ req[r] # None
  /\ \/ /\ req[r].pc = "woken" /\ req[r].answer = Cancelled
        /\ GetJson(r, [req[r] EXCEPT !.answer = Error, !.cancelled = FALSE])
     \/ /\ req[r].pc \in {"woken", "following"} /\ req[r].answer # Cancelled
        /\ req[r].cancelled
        /\ req' = [req EXCEPT ![r] = None]
        /\ UNCHANGED <<inflight, queue, newest>>
     \/ /\ req[r].pc = "woken" /\ req[r].answer # Cancelled /\ ~req[r].cancelled
        /\ req' = [req EXCEPT ![r] = Done(@, @.answer)]
        /\ newest' = Seen(req[r].key, req[r].answer)
        /\ UNCHANGED <<inflight, queue>>
  /\ UNCHANGED <<cache, market>>

\* External: the market moves, the lifetime of an entry ends.
Move ==
  /\ market < MaxMoves
  /\ market' = market + 1
  /\ UNCHANGED <<cache, inflight, queue, req, newest>>

Expire(k) ==
  /\ k \in DOMAIN cache /\ cache[k].fresh
  /\ cache' = [cache EXCEPT ![k].fresh = FALSE]
  /\ UNCHANGED <<inflight, queue, req, market, newest>>

Settle(r) == Receive(r) \/ Refuse(r) \/ Fail(r)

Progress(r) == Return(r) \/ Acquire(r) \/ Settle(r) \/ WakeUp(r) \/ Resume(r)

Next ==
  \/ \E r \in Requests :
       \/ \E k \in Keys : AskKey(r, k)
       \/ \E coins \in Wants[r] : get_simple_prices(r, coins)
       \/ Progress(r) \/ Cancel(r) \/ CancelFollower(r)
  \/ Move
  \/ \E k \in Keys \cup Coins : Expire(k)

Spec == Init /\ [][Next]_vars

\* The event loop runs every task that can run, httpx times out.
FairSpec == Spec /\ \A r \in Requests : WF_vars(Progress(r))

-----------------------------------------------------------------------------
\* Every variable has its type; the cache holds no more entries than it may and
\* knows which is older; the queue holds the queued requests, each once.
CoinGeckoTypeOK ==
  /\ IsCache(cache)
  /\ \A k \in DOMAIN cache : cache[k].version <= market
  /\ inflight \in [Keys -> Requests \cup {None}]
  /\ req \in [Requests -> Task \cup {None}]
  /\ ToSet(queue) = {r \in Requests : req[r] # None /\ req[r].pc = "queued"}
  /\ Len(queue) = Cardinality(ToSet(queue))
  /\ market \in 0 .. MaxMoves /\ newest \in [Keys -> 0 .. MaxMoves]

\* Identical requests share one call: the table names the one request that
\* fetches a key, and nobody waits for a future that no request will resolve,
\* whoever fails, is cancelled or comes back in between.
SingleFlight ==
  \A k \in Keys :
    LET leaders == {r \in Requests : Fetching(r) /\ req[r].key = k}
    IN /\ leaders = IF inflight[k] = None THEN {} ELSE {inflight[k]}
       /\ Followers(k) # {} => inflight[k] # None

\* An answer is never older than one somebody had before the request began:
\* neither a late answer, nor a stale entry, nor a leader's answer goes back.
AnswersNeverGoBack ==
  \A r \in Requests :
    req[r] # None /\ req[r].key # None /\ req[r].pc = "done" /\ req[r].answer # Error
      => req[r].answer >= req[r].floor

\* Prices are complete or refused: a coin is missing from a result only when
\* CoinGecko answered without it, never because another one could not be saved.
NoSilentGap ==
  \A r \in Requests :
    req[r] # None /\ req[r].key = None /\ req[r].pc = "done" /\ req[r].answer # Error
      => req[r].quotes \cup req[r].unlisted = req[r].asked

\* What is cached under a key is not replaced while it is fresh.  (The price of a
\* coin may be: two batches that both miss it both store it.)
LastsItsTTL(S) ==
  \A k \in S : get(cache, k) # None /\ get(cache', k) # None => get(cache', k) = get(cache, k)

KeysLastTheirTTL == [][LastsItsTTL(Keys)]_vars

\* Every request ends: attempts are bounded and leaders wake those that follow
\* them.  Only a follower may go on for ever, when its leaders are cancelled one
\* after the other.
EveryRequestEnds ==
  \A r \in Requests :
    []<>(req[r] = None \/ (req[r].pc = "woken" /\ req[r].answer = Cancelled))
=============================================================================
