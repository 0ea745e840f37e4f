--------------------------- MODULE CoinPageProofs ---------------------------
(***************************************************************************)
(* The trade form and its page, for every set of coins, all their quotes   *)
(* and any number of requests and trades: what the form accepts can be     *)
(* paid, and the server does with it what the form announces, up to the    *)
(* one cent both round up; an order passed the form's checks; a form waits *)
(* for one trade; the portfolio shown is the server's unless an answer was *)
(* overtaken or lost.                                                      *)
(***************************************************************************)
EXTENDS CoinPage, FiniteSetTheorems, SequenceTheorems, TLAPS

-----------------------------------------------------------------------------
(* The form's computations.                                                *)

\* Euclidean division of a natural number.
LEMMA Floor ==
  ASSUME NEW n \in Nat, NEW d \in Nat \ {0}
  PROVE  floorQuantity(n, d) \in Nat /\ d * floorQuantity(n, d) <= n
<1>1. n \div d \in Int /\ d * (n \div d) <= n /\ n < d * (n \div d) + d
  OBVIOUS
<1>2. ASSUME n \div d < 0  PROVE FALSE
  <2>1. PICK k \in Nat : n \div d = - (k + 1)
    BY <1>1, <1>2, - (n \div d) - 1 \in Nat
  <2>2. d * (n \div d) = - (d * k) - d /\ d * k \in Nat
    BY <2>1
  <2> QED
    BY <1>1, <2>2
<1> QED
  BY <1>1, <1>2 DEF floorQuantity

\* A text that can be submitted stands for a positive quantity with few enough
\* decimals, worth at least the minimum, that the cash shown pays (a purchase) or
\* the position shown covers (a sale).
THEOREM SubmittedTradesArePayable ==
  ASSUME NEW value \in Int, NEW decimals \in Nat,
         NEW kind \in {"empty", "junk", "number"}, NEW type \in Types,
         NEW quote \in Nat \cup {None}, NEW cash \in Nat, NEW held \in Nat,
         canSubmit([kind |-> kind, value |-> value, decimals |-> decimals],
                   type, quote, cash, held)
  PROVE  /\ quote # None /\ value > 0 /\ decimals <= QUANTITY_MAX_DECIMALS
         /\ value * quote >= MIN_TRADE_TOTAL
         /\ type = "BUY" => value * quote <= cash * Scale
         /\ type = "SELL" => value <= held
<1> DEFINE t == [kind |-> kind, value |-> value, decimals |-> decimals]
<1>1. kind = "number" /\ quote # None
  BY TradeFormAssumption DEF canSubmit, validateTrade, parseQuantity, Errors
<1>2. value # NaN /\ value * quote \in Int /\ cash * Scale \in Int
      /\ MIN_TRADE_TOTAL \in Int
  BY <1>1, TradeFormAssumption DEF MIN_TRADE_TOTAL
<1>3. validateTrade(t, type, quote, cash, held).error = None
  BY DEF canSubmit
<1> QED
  BY <1>1, <1>2, <1>3, TradeFormAssumption
  DEF validateTrade, parseQuantity, countDecimals, Types, Errors

\* A quick button never asks for more than the cash shown pays, or than is held.
LEMMA QuickQuantityIsPayable ==
  ASSUME NEW percentage \in 0 .. 100, NEW type \in Types,
         NEW quote \in Nat \ {0}, NEW cash \in Nat, NEW held \in Nat
  PROVE  LET quantity == quickQuantity(percentage, type, quote, cash, held)
         IN /\ quantity \in Nat
            /\ type = "BUY" => quantity * quote <= cash * Scale
            /\ type = "SELL" => quantity <= held
<1> DEFINE quantity == quickQuantity(percentage, type, quote, cash, held)
<1>1. CASE type = "BUY"
  <2> DEFINE all == cash * Scale
  <2>1. all \in Nat
    BY TradeFormAssumption
  <2>2. cash * percentage * Scale \in Nat /\ cash * percentage * Scale = all * percentage
    BY TradeFormAssumption
  <2>3. 100 * quote \in Nat \ {0}
    OBVIOUS
  <2>4. quantity \in Nat /\ (100 * quote) * quantity <= all * percentage
    <3>1. quantity = floorQuantity(cash * percentage * Scale, 100 * quote)
      BY <1>1 DEF quickQuantity
    <3> QED
      BY <2>2, <2>3, <3>1, Floor
  <2> HIDE DEF quantity, all
  <2>5. all * percentage <= 100 * all
    <3>1. PICK k \in Nat : percentage = 100 - k
      BY 100 - percentage \in Nat
    <3>2. all * percentage = 100 * all - all * k /\ all * k \in Nat
      BY <2>1, <3>1
    <3> QED
      BY <2>1, <3>2
  <2>6. (100 * quote) * quantity = 100 * (quantity * quote) /\ quantity * quote \in Nat
    BY <2>4
  <2>7. quantity * quote <= all
    BY <2>1, <2>4, <2>5, <2>6, all * percentage \in Int
  <2> QED
    BY <1>1, <2>4, <2>7 DEF quantity, all
<1>2. CASE type = "SELL"
  <2>1. held * percentage \in Nat
    OBVIOUS
  <2>2. quantity \in Nat /\ 100 * quantity <= held * percentage
    BY <1>2, <2>1, Floor DEF quickQuantity
  <2> HIDE DEF quantity
  <2>3. held * percentage <= 100 * held
    <3>1. PICK k \in Nat : percentage = 100 - k
      BY 100 - percentage \in Nat
    <3>2. held * percentage = 100 * held - held * k /\ held * k \in Nat
      BY <3>1
    <3> QED
      BY <3>2
  <2>4. quantity <= held
    BY <2>1, <2>2, <2>3
  <2> QED
    BY <1>2, <2>2, <2>4 DEF quantity
<1> QED
  BY <1>1, <1>2 DEF Types

\* What a quick button fills in passes the form's own checks as soon as it is
\* written without an exponent and reaches the minimum.
THEOREM QuickFillIsAccepted ==
  ASSUME NEW percentage \in 0 .. 100, NEW type \in Types,
         NEW quote \in Nat \ {0}, NEW cash \in Nat, NEW held \in Nat, NEW t,
         LET quantity == quickQuantity(percentage, type, quote, cash, held)
         IN quantity > 0 /\ quantity >= PlainFrom /\ quantity * quote >= MIN_TRADE_TOTAL
  PROVE  canSubmit(applyPercentage(t, percentage, type, quote, cash, held),
                   type, quote, cash, held)
<1> DEFINE quantity == quickQuantity(percentage, type, quote, cash, held)
<1>1. /\ quantity \in Nat
      /\ type = "BUY" => quantity * quote <= cash * Scale
      /\ type = "SELL" => quantity <= held
  BY QuickQuantityIsPayable
<1>2. quantity > 0 /\ quantity >= PlainFrom /\ quantity * quote >= MIN_TRADE_TOTAL
  OBVIOUS
<1>3. applyPercentage(t, percentage, type, quote, cash, held) = Filled(quantity)
  BY <1>2 DEF applyPercentage
<1> HIDE DEF quantity
<1>4. Filled(quantity) = [kind |-> "number", value |-> quantity,
                          decimals |-> QUANTITY_MAX_DECIMALS]
  BY <1>1, <1>2, TradeFormAssumption DEF Filled
<1>5. quantity # NaN /\ quote # None /\ quantity * quote \in Int /\ cash * Scale \in Int
  BY <1>1, TradeFormAssumption
<1>6. validateTrade(Filled(quantity), type, quote, cash, held).error = None
  BY <1>1, <1>2, <1>4, <1>5, TradeFormAssumption
  DEF validateTrade, parseQuantity, countDecimals, Types, MIN_TRADE_TOTAL
<1> QED
  BY <1>3, <1>4, <1>5, <1>6 DEF canSubmit

-----------------------------------------------------------------------------
(* Types.                                                                  *)

\* What may be in flight.
Sent == Orders \cup Refreshes

\* The requests of the server's history up to its n-th entry.
RequestsOK(reqs, n) ==
  /\ reqs \in [Slots -> Sent \cup {None}]
  /\ \A s \in Slots : reqs[s] # None /\ reqs[s].answer # None => reqs[s].answer \in 1 .. n

\* Orders the server has not handled.
Unserved(reqs) ==
  {s \in Slots : reqs[s] # None /\ reqs[s].op = "trade" /\ reqs[s].answer = None}

\* There is room in the server's history for every trade on its way.
RoomForTrades(reqs, n) == n - 1 + Cardinality(Unserved(reqs)) <= MaxTrades

\* The inductive invariant behind the types.
PageTyped ==
  /\ CoinPageTypeOK
  /\ RequestsOK(requests, Len(server))
  /\ RoomForTrades(requests, Len(server))

\* Counting the orders on their way.
LEMMA SlotsAreFinite ==
  ASSUME NEW S \in SUBSET Slots
  PROVE  IsFiniteSet(S) /\ Cardinality(S) \in Nat
<1>1. MaxRequests \in Nat
  BY CoinPageAssumption
<1>2. IsFiniteSet(Slots)
  BY <1>1, FS_Interval DEF Slots
<1> QED
  BY <1>2, FS_Subset, FS_CardinalityType

\* What is sent takes a slot that was free.
LEMMA SendFillsAFreeSlot ==
  ASSUME NEW reqs, NEW r, Free(reqs) # {}
  PROVE  \E m \in Slots : reqs[m] = None /\ Send(reqs, r) = [reqs EXCEPT ![m] = r]
<1> DEFINE m == CHOOSE s \in Free(reqs) : TRUE
<1>1. m \in Free(reqs)
  OBVIOUS
<1> QED
  BY <1>1 DEF Send, Free

\* A render keeps the form on screen and the requests, or starts another form,
\* or none, and detaches the trades.
LEMMA RendersSameOrOther ==
  ASSUME NEW f, NEW reqs, Renders(f, reqs)
  PROVE  \/ /\ url' # None /\ coin'.data # None /\ portfolio' # 0
            /\ form # None /\ coin'.data = coin.data
            /\ form' = f /\ requests' = reqs
         \/ /\ form' = IF url' # None /\ coin'.data # None /\ portfolio' # 0
                       THEN NewForm ELSE None
            /\ requests' = [s \in Slots |-> Detached(reqs[s])]
BY DEF Renders, Detached

\* Detaching a request changes neither its type nor its answer.
LEMMA DetachedType ==
  ASSUME NEW r \in Sent \cup {None}
  PROVE  /\ Detached(r) \in Sent \cup {None}
         /\ Detached(r) = None <=> r = None
         /\ r # None => Detached(r).op = r.op /\ Detached(r).answer = r.answer
BY NoneIsNothing DEF Detached, Sent, Orders, Refreshes

\* A new form is a form, and no form is nothing.
LEMMA NewFormType ==
  /\ NewForm \in Forms /\ NewForm # None
  /\ ~NewForm.confirmOpen /\ ~NewForm.submitting
<1>1. Empty \in TextsWith(Int, Nat)
  BY DEF Empty, TextsWith
<1>2. NewForm \in Forms
  BY <1>1 DEF NewForm, Forms, Types
<1>3. NewForm # None
  BY <1>2, NoneIsNothing
<1> QED
  BY <1>2, <1>3 DEF NewForm

\* What a render leaves is of its type.
LEMMA RendersOK ==
  ASSUME NEW f \in Forms \cup {None}, NEW reqs, NEW n, RequestsOK(reqs, n),
         form # None => f # None, Renders(f, reqs)
  PROVE  /\ RequestsOK(requests', n)
         /\ Unserved(requests') = Unserved(reqs)
         /\ form' \in Forms \cup {None}
         /\ form' # None <=> (url' # None /\ coin'.data # None /\ portfolio' # 0)
<1>1. CASE form # None /\ form' = f /\ requests' = reqs
           /\ url' # None /\ coin'.data # None /\ portfolio' # 0
  BY <1>1
<1>2. CASE /\ form' = IF url' # None /\ coin'.data # None /\ portfolio' # 0
                      THEN NewForm ELSE None
           /\ requests' = [s \in Slots |-> Detached(reqs[s])]
  <2>1. \A s \in Slots : /\ requests'[s] \in Sent \cup {None}
                         /\ requests'[s] = None <=> reqs[s] = None
                         /\ reqs[s] # None => /\ requests'[s].op = reqs[s].op
                                              /\ requests'[s].answer = reqs[s].answer
    BY <1>2, DetachedType DEF RequestsOK
  <2>2. RequestsOK(requests', n)
    BY <1>2, <2>1 DEF RequestsOK
  <2>3. Unserved(requests') = Unserved(reqs)
    BY <2>1 DEF Unserved
  <2> QED
    BY <1>2, <2>2, <2>3, NewFormType
<1> QED
  BY <1>1, <1>2, RendersSameOrOther

\* Fewer requests, fewer orders on their way.
LEMMA FewerTrades ==
  ASSUME NEW reqs, NEW n \in Nat, RoomForTrades(reqs, n),
         NEW left, Unserved(left) \subseteq Unserved(reqs)
  PROVE  RoomForTrades(left, n)
<1>1. Unserved(reqs) \in SUBSET Slots /\ Unserved(left) \in SUBSET Slots
  BY DEF Unserved
<1>2. Cardinality(Unserved(left)) <= Cardinality(Unserved(reqs))
  BY <1>1, SlotsAreFinite, FS_Subset
<1> QED
  BY <1>1, <1>2, SlotsAreFinite, CoinPageAssumption DEF RoomForTrades

\* A refresh is sent.
LEMMA RefreshSent ==
  ASSUME NEW n \in Nat, RequestsOK(requests, n), Free(requests) # {}, NEW signal \in BOOLEAN
  PROVE  /\ RequestsOK(Send(requests, Refresh(signal)), n)
         /\ Unserved(Send(requests, Refresh(signal))) \subseteq Unserved(requests)
<1> DEFINE r == Refresh(signal)
<1>1. r \in Refreshes /\ r.answer = None /\ r.op = "refresh"
  BY DEF Refresh, Refreshes
<1>2. PICK m \in Slots : Send(requests, r) = [requests EXCEPT ![m] = r]
  BY SendFillsAFreeSlot
<1> HIDE DEF r
<1>3. RequestsOK(Send(requests, r), n)
  BY <1>1, <1>2 DEF RequestsOK, Sent
<1>4. Unserved(Send(requests, r)) \subseteq Unserved(requests)
  BY <1>1, <1>2 DEF RequestsOK, Unserved
<1> QED
  BY <1>3, <1>4 DEF r

\* A request is dropped.
LEMMA WithoutOK ==
  ASSUME NEW n \in Nat, RequestsOK(requests, n), NEW s \in Slots
  PROVE  /\ RequestsOK(Without(s), n)
         /\ Unserved(Without(s)) \subseteq Unserved(requests)
BY DEF RequestsOK, Without, Unserved

\* A page that is left keeps its trades, and no refresh of its own.
LEMMA LeftType ==
  ASSUME NEW r \in Sent \cup {None}
  PROVE  /\ Left(r) \in Sent \cup {None}
         /\ r = None => Left(r) = None
         /\ r # None /\ r.op = "trade" => Left(r) = r
         /\ r # None /\ Left(r) # None => Left(r).op = r.op /\ Left(r).answer = r.answer
<1>1. CASE r = None
  BY <1>1 DEF Left
<1>2. CASE r # None /\ r.op = "trade"
  BY <1>2 DEF Left
<1>3. CASE r # None /\ r.op # "trade"
  <2>1. r \in Refreshes
    BY <1>3 DEF Sent, Orders
  <2>2. Left(r) \in {None, [r EXCEPT !.live = FALSE]}
    BY <1>3, <2>1 DEF Left, Refreshes
  <2>3. [r EXCEPT !.live = FALSE] \in Refreshes
    BY <2>1 DEF Refreshes
  <2> QED
    BY <1>3, <2>1, <2>2, <2>3 DEF Sent, Refreshes
<1> QED
  BY <1>1, <1>2, <1>3

\* Leaving the page leaves its requests in order, and none unserved that was not.
LEMMA LeaveOK ==
  ASSUME NEW n \in Nat, RequestsOK(requests, n)
  PROVE  LET left == [s \in Slots |-> Left(requests[s])]
         IN RequestsOK(left, n) /\ Unserved(left) \subseteq Unserved(requests)
BY LeftType DEF RequestsOK, Unserved

\* What is typed is a text.
LEMMA TextType == Empty \in TextsWith(Int, Nat) /\ Typed \subseteq TextsWith(Int, Nat)
BY CoinPageAssumption DEF Empty, TextsWith

\* The portfolio of a form is one of the server's, its coin has a price or not.
LEMMA FormShowsItsCoin ==
  ASSUME CoinPageTypeOK, form # None
  PROVE  /\ form \in Forms /\ url \in Coins /\ coin.data \in Coins
         /\ portfolio \in 1 .. Len(server) /\ price \in Nat \cup {None}
         /\ Books.cash \in Nat /\ holding(coin.data) \in Nat
<1>1. /\ form \in Forms /\ url \in Coins /\ coin.data \in Coins
      /\ portfolio \in 1 .. Len(server) /\ price \in Nat \cup {None}
  BY DEF CoinPageTypeOK, Coin!UseAsyncTypeOK, Coin!Hooks
<1>2. server[portfolio] \in [cash : Nat, held : [Coins -> Nat]]
  BY <1>1, ElementOfSeq DEF CoinPageTypeOK
<1> QED
  BY <1>1, <1>2, CoinPageAssumption DEF Books, holding

\* What a quick button writes is a text.
LEMMA FilledType ==
  ASSUME CoinPageTypeOK, form # None, NEW percentage \in Percentages,
         quickEnabled(form.type, price, Books.cash, holding(coin.data))
  PROVE  applyPercentage(form.text, percentage, form.type, price,
                         Books.cash, holding(coin.data)) \in TextsWith(Int, Nat)
<1> DEFINE cash     == Books.cash
           held     == holding(coin.data)
           quantity == quickQuantity(percentage, form.type, price, cash, held)
<1>1. /\ form.text \in TextsWith(Int, Nat) /\ form.type \in Types
      /\ price \in Nat /\ cash \in Nat /\ held \in Nat /\ percentage \in 0 .. 100
  BY FormShowsItsCoin, CoinPageAssumption DEF Forms, quickEnabled
<1> HIDE DEF cash, held
<1>2. CASE price <= 0
  BY <1>1, <1>2 DEF applyPercentage, cash, held
<1>3. CASE ~(price <= 0)
  <2>1. price \in Nat \ {0}
    BY <1>1, <1>3
  <2>2. quantity \in Nat
    BY <1>1, <2>1, QuickQuantityIsPayable
  <2> HIDE DEF quantity
  <2>3. Filled(quantity) \in TextsWith(Int, Nat)
    BY <2>2, TradeFormAssumption DEF Filled, TextsWith
  <2>4. applyPercentage(form.text, percentage, form.type, price, cash, held)
          \in {Filled(quantity), Empty}
    BY <1>3 DEF applyPercentage, quantity
  <2> QED
    BY <2>3, <2>4, TextType DEF cash, held
<1> QED
  BY <1>2, <1>3

\* What the answer to a trade leaves of its form.
LEMMA ConcludedType ==
  ASSUME NEW f \in Forms, NEW r \in Sent, NEW failed \in BOOLEAN
  PROVE  /\ Concluded(f, r, failed) \in Forms
         /\ Overtaken(Concluded(f, r, failed)) \in Forms
<1>1. Concluded(f, r, failed) \in Forms
  BY TextType DEF Concluded, Forms
<1> QED
  BY <1>1 DEF Overtaken, Forms

\* The order a form stands for.
LEMMA TradeType ==
  ASSUME CoinPageTypeOK, form # None
  PROVE  /\ Trade(url, form) \in Orders /\ Trade(url, form).answer = None
         /\ Trade(url, form).op = "trade"
<1>1. validation(form).quantity \in Int \cup {NaN}
  BY FormShowsItsCoin DEF validation, validateTrade, parseQuantity, Forms, TextsWith
<1>2. Submittable(form) \in BOOLEAN
  BY DEF Submittable, canSubmit
<1>3. form.changed \in BOOLEAN /\ form.type \in Types
  BY FormShowsItsCoin DEF Forms
<1>4. coin.data \in Coins
  BY FormShowsItsCoin
<1>5. (Submittable(form) \/ form.changed) \in BOOLEAN
  BY <1>2, <1>3
<1>6. url \in Coins
  BY FormShowsItsCoin
<1> QED
  BY <1>1, <1>3, <1>4, <1>5, <1>6 DEF Trade, Orders

\* What is left of a division determines its result.
LEMMA DivUnique ==
  ASSUME NEW n \in Nat, NEW d \in Nat \ {0}, NEW q \in Nat, d * q <= n, n < d * q + d
  PROVE  n \div d = q
<1> DEFINE m == n \div d
<1>1. m \in Nat /\ d * m <= n /\ n < d * m + d
  <2>1. n < d * m + d
    OBVIOUS
  <2> QED
    BY <2>1, Floor DEF floorQuantity
<1> HIDE DEF m
<1>2. ASSUME NEW a \in Nat, NEW b \in Nat, a < b, d * b <= n, n < d * a + d  PROVE FALSE
  <2>1. PICK k \in Nat : b = a + 1 + k
    BY <1>2, b - a - 1 \in Nat
  <2>2. d * b = d * a + d + d * k /\ d * k \in Nat /\ d * a \in Nat
    BY <2>1
  <2> QED
    BY <1>2, <2>2
<1>3. ~(m < q) /\ ~(q < m)
  BY <1>1, <1>2
<1> QED
  BY <1>1, <1>3 DEF m

\* Rounding half up looks at what is left over.
LEMMA HalfUpOf ==
  ASSUME NEW d \in Nat \ {0}, NEW q \in Nat, NEW r \in 0 .. d - 1
  PROVE  Engine!HalfUp(d * q + r, d) = IF 2 * r >= d THEN q + 1 ELSE q
<1> DEFINE n == 2 * (d * q + r) + d
           up == IF 2 * r >= d THEN q + 1 ELSE q
<1>1. d * q \in Nat /\ 2 * d \in Nat \ {0} /\ (2 * d) * q = 2 * (d * q)
      /\ (2 * d) * (q + 1) = 2 * (d * q) + 2 * d
  OBVIOUS
<1>2. n \in Nat /\ n = 2 * (d * q) + 2 * r + d
  BY <1>1
<1>3. up \in Nat /\ (2 * d) * up <= n /\ n < (2 * d) * up + 2 * d
  BY <1>1, <1>2
<1>4. n \div (2 * d) = up
  <2> HIDE DEF n, up
  <2> QED
    BY <1>1, <1>2, <1>3, DivUnique
<1> QED
  BY <1>4 DEF Engine!HalfUp

\* A total t that the cash c pays: rounded to the cent it is still paid, it is a
\* cent at least when it passed for one, and what the page shows of the balance is
\* one cent more than what is left only when half a cent is rounded twice.
LEMMA RoundedTotals ==
  ASSUME NEW t \in Nat, NEW c \in Nat
  PROVE  LET cents == Engine!HalfUp(t, Scale)
             spent == Engine!HalfUp(c * Scale - t, Scale)
         IN /\ cents \in Nat
            /\ t >= Scale => cents >= 1
            /\ Engine!HalfUp(c * Scale + t, Scale) = c + cents
            /\ t <= c * Scale =>
                 /\ cents <= c
                 /\ spent - (c - cents) = IF 2 * (t % Scale) = Scale THEN 1 ELSE 0
<1> DEFINE S == Scale
           q == t \div S
           r == t % S
           up == IF 2 * r >= S THEN 1 ELSE 0
<1>1. S \in Nat \ {0}
  BY TradeFormAssumption
<1>2. q \in Nat /\ r \in 0 .. S - 1 /\ t = S * q + r
  <2>1. q \in Nat
    BY <1>1, Floor DEF floorQuantity
  <2>2. r \in 0 .. S - 1 /\ t = S * q + r
    BY <1>1
  <2> QED
    BY <2>1, <2>2
<1> HIDE DEF q, r, S
<1>3. S * q \in Nat /\ c * S \in Nat
  BY <1>1, <1>2
<1>4. Engine!HalfUp(t, S) = q + up
  <2>1. Engine!HalfUp(S * q + r, S) = IF 2 * r >= S THEN q + 1 ELSE q
    BY <1>1, <1>2, HalfUpOf
  <2> QED
    BY <1>2, <2>1
<1>5. Engine!HalfUp(c * S + t, S) = c + q + up
  <2> DEFINE a == c + q
  <2>1. c * S + t = S * a + r /\ a \in Nat
    BY <1>1, <1>2
  <2>2. Engine!HalfUp(S * a + r, S) = IF 2 * r >= S THEN a + 1 ELSE a
    <3> HIDE DEF a
    <3> QED
      BY <1>1, <1>2, <2>1, HalfUpOf
  <2> QED
    BY <1>2, <2>1, <2>2
<1>6. ASSUME t >= S  PROVE q >= 1
  <2>1. q = 0 => S * q = 0
    BY <1>1
  <2> QED
    BY <1>1, <1>2, <1>6, <2>1
<1>7. ASSUME t <= c * S
      PROVE  /\ q + up <= c
             /\ Engine!HalfUp(c * S - t, S) - (c - (q + up)) = IF 2 * r = S THEN 1 ELSE 0
  <2>1. c >= q + (IF r = 0 THEN 0 ELSE 1)
    <3>1. ASSUME c < q + (IF r = 0 THEN 0 ELSE 1)  PROVE FALSE
      <4>1. CASE r = 0
        <5>1. PICK k \in Nat : q = c + 1 + k
          BY <1>2, <3>1, <4>1, q - c - 1 \in Nat
        <5>2. S * q = c * S + S + S * k /\ S * k \in Nat
          BY <1>1, <5>1
        <5> QED
          BY <1>1, <1>2, <1>3, <1>7, <4>1, <5>2
      <4>2. CASE r # 0
        <5>1. PICK k \in Nat : q = c + k
          BY <1>2, <3>1, <4>2, q - c \in Nat
        <5>2. S * q = c * S + S * k /\ S * k \in Nat
          BY <1>1, <5>1
        <5> QED
          BY <1>1, <1>2, <1>3, <1>7, <4>2, <5>2
      <4> QED
        BY <4>1, <4>2
    <3> QED
      BY <1>2, <3>1
  <2>2. CASE r = 0
    <3> DEFINE a == c - q
    <3>1. c * S - t = S * a + 0 /\ a \in Nat /\ 0 \in 0 .. S - 1
      BY <1>1, <1>2, <2>1, <2>2
    <3>2. Engine!HalfUp(S * a + 0, S) = IF 2 * 0 >= S THEN a + 1 ELSE a
      <4> HIDE DEF a
      <4> QED
        BY <1>1, <3>1, HalfUpOf
    <3>3. Engine!HalfUp(c * S - t, S) = c - q
      BY <1>1, <3>1, <3>2
    <3> QED
      BY <1>1, <1>2, <2>1, <2>2, <3>3
  <2>3. CASE r # 0
    <3> DEFINE a == c - q - 1
               b == S - r
    <3>1. c * S - t = S * a + b /\ a \in Nat /\ b \in 0 .. S - 1
      BY <1>1, <1>2, <2>1, <2>3
    <3>2. Engine!HalfUp(S * a + b, S) = IF 2 * b >= S THEN a + 1 ELSE a
      <4> HIDE DEF a, b
      <4> QED
        BY <1>1, <3>1, HalfUpOf
    <3>3. Engine!HalfUp(c * S - t, S) = IF 2 * (S - r) >= S THEN c - q ELSE c - q - 1
      BY <1>1, <1>2, <2>1, <3>1, <3>2
    <3> QED
      BY <1>1, <1>2, <2>1, <2>3, <3>3
  <2> QED
    BY <2>2, <2>3
<1> QED
  BY <1>2, <1>4, <1>5, <1>6, <1>7 DEF S, r

\* An accepted trade leaves no debt and no negative position.
LEMMA SettledType ==
  ASSUME CoinPageTypeOK, NEW r \in Orders, NEW at \in Prices, Allowed(r, at)
  PROVE  Settled(r, at) \in [cash : Nat, held : [Coins -> Nat]]
<1> DEFINE last  == server[Len(server)]
           cents == Engine!compute_total(r.quantity, at)
<1>1. last \in [cash : Nat, held : [Coins -> Nat]]
  <2>1. Len(server) \in 1 .. Len(server)
    BY DEF CoinPageTypeOK
  <2> QED
    BY <2>1, ElementOfSeq DEF CoinPageTypeOK
<1>2. r.quantity \in Nat /\ at \in Nat /\ r.type \in Types /\ r.coin \in Coins
  BY CoinPageAssumption, TradeFormAssumption DEF Allowed, Orders, Engine!validate_quantity
<1>3. cents \in Nat
  BY <1>2, r.quantity * at \in Nat, 0 \in Nat, RoundedTotals DEF Engine!compute_total
<1>4. /\ r.type = "BUY" => cents <= last.cash
      /\ r.type = "SELL" => r.quantity <= last.held[r.coin]
  BY DEF Allowed
<1>5. Settled(r, at) = IF r.type = "BUY"
                       THEN [cash |-> last.cash - cents,
                             held |-> [last.held EXCEPT ![r.coin] = @ + r.quantity]]
                       ELSE [cash |-> last.cash + cents,
                             held |-> [last.held EXCEPT ![r.coin] = @ - r.quantity]]
  BY DEF Settled, Moved
<1> HIDE DEF last, cents
<1> QED
  BY <1>1, <1>2, <1>3, <1>4, <1>5 DEF Types

\* r stays, or is dropped; a refresh comes, or changes.
Keeps(q, r) ==
  \/ q \in {None, r}
  \/ q # None /\ q.op = "refresh" /\ (r # None => r.op = "refresh")

\* A step that neither confirms a trade nor handles a request leaves the server's
\* history alone, and moves each request so.
Quiet(q, r) ==
  \/ Keeps(q, r)
  \/ r # None /\ q = Detached(r)

\* So it moves all of them.
QuietStep ==
  /\ server' = server
  /\ requests' \in [Slots -> Sent \cup {None}]
  /\ \A s \in Slots : Quiet(requests'[s], requests[s])

\* Detached or not, what is sent stays where it was.
LEMMA RendersQuietly ==
  ASSUME NEW f, NEW reqs \in [Slots -> Sent \cup {None}], Renders(f, reqs),
         \A s \in Slots : Keeps(reqs[s], requests[s])
  PROVE  /\ requests' \in [Slots -> Sent \cup {None}]
         /\ \A s \in Slots : Quiet(requests'[s], requests[s])
<1>1. CASE requests' = reqs
  BY <1>1 DEF Quiet
<1>2. CASE requests' = [s \in Slots |-> Detached(reqs[s])]
  <2>1. \A s \in Slots : requests'[s] \in Sent \cup {None}
    BY <1>2, DetachedType
  <2>2. ASSUME NEW s \in Slots  PROVE Quiet(requests'[s], requests[s])
    <3>1. requests'[s] = Detached(reqs[s])
      BY <1>2
    <3>2. (reqs[s] = None \/ reqs[s].op = "refresh") => Detached(reqs[s]) = reqs[s]
      BY DEF Detached
    <3> QED
      BY <3>1, <3>2 DEF Quiet, Keeps
  <2> QED
    BY <1>2, <2>1, <2>2
<1> QED
  BY <1>1, <1>2, RendersSameOrOther

\* A refresh that is sent is the only change it makes.
LEMMA RefreshIsQuiet ==
  ASSUME requests \in [Slots -> Sent \cup {None}], Free(requests) # {}, NEW signal \in BOOLEAN
  PROVE  LET reqs == Send(requests, Refresh(signal))
         IN /\ reqs \in [Slots -> Sent \cup {None}]
            /\ \A s \in Slots : Keeps(reqs[s], requests[s])
            /\ \A s \in Slots : requests[s] # None => reqs[s] = requests[s]
<1> DEFINE r == Refresh(signal)
<1>1. PICK m \in Slots : /\ requests[m] = None
                         /\ Send(requests, r) = [requests EXCEPT ![m] = r]
  BY SendFillsAFreeSlot
<1>2. r \in Sent /\ r.op = "refresh"
  BY DEF Sent, Refresh, Refreshes
<1>3. r # None
  BY <1>2, NoneIsNothing DEF Sent
<1> HIDE DEF r
<1>4. \A s \in Slots : Send(requests, r)[s] = IF s = m THEN r ELSE requests[s]
  BY <1>1
<1> QED
  BY <1>1, <1>2, <1>3, <1>4 DEF Keeps, r

\* Leaving the page changes refreshes only.
LEMMA LeaveIsQuiet ==
  ASSUME requests \in [Slots -> Sent \cup {None}]
  PROVE  LET left == [s \in Slots |-> Left(requests[s])]
         IN /\ left \in [Slots -> Sent \cup {None}]
            /\ \A s \in Slots : Keeps(left[s], requests[s])
            /\ \A s \in Slots : requests[s] # None /\ requests[s].op = "trade"
                                 => left[s] = requests[s]
<1>1. ASSUME NEW r \in Sent \cup {None}  PROVE Keeps(Left(r), r)
  <2>1. r # None /\ r.op # "trade" => r.op = "refresh"
    BY DEF Sent, Orders, Refreshes
  <2> QED
    BY <2>1, LeftType DEF Keeps
<1> QED
  BY <1>1, LeftType

\* Every step but a confirmation and the server's
OtherStep ==
  \/ \E c \in Coins : Open(c) \/ GoTo(c)
  \/ Leave \/ SeePortfolio \/ CoinAnswers \/ CoinAnswersLate \/ RetryCoin \/ RetryPortfolio
  \/ \E t \in Typed : TypeText(t)
  \/ \E type \in Types : switchType(type)
  \/ \E percentage \in Percentages : Fill(percentage)
  \/ handleSubmit \/ Dismiss
  \/ \E s \in Slots : Answer(s)

\* ... is one of these, and ...
LEMMA StepsOfThePage ==
  Next => OtherStep \/ confirm \/ \E s \in Slots : Serve(s)
BY DEF Next, OtherStep

\* ... is quiet.
LEMMA MostStepsAreQuiet ==
  ASSUME CoinPageTypeOK, OtherStep
  PROVE  QuietStep
<1>1. requests \in [Slots -> Sent \cup {None}]
  BY DEF CoinPageTypeOK, Sent
<1>2. ASSUME NEW c \in Coins, Open(c)  PROVE QuietStep
  <2> DEFINE reqs == Send(requests, Refresh(TRUE))
  <2>1. reqs \in [Slots -> Sent \cup {None}] /\ \A s \in Slots : Keeps(reqs[s], requests[s])
    BY <1>1, <1>2, RefreshIsQuiet, TRUE \in BOOLEAN DEF Open
  <2>2. Renders(None, reqs) /\ server' = server
    BY <1>2 DEF Open
  <2> HIDE DEF reqs
  <2> QED
    BY <2>1, <2>2, RendersQuietly DEF QuietStep
<1>3. ASSUME Leave  PROVE QuietStep
  <2> DEFINE left == [s \in Slots |-> Left(requests[s])]
  <2>1. left \in [Slots -> Sent \cup {None}] /\ \A s \in Slots : Keeps(left[s], requests[s])
    BY <1>1, LeaveIsQuiet
  <2>2. Renders(None, left) /\ server' = server
    BY <1>3 DEF Leave
  <2> HIDE DEF left
  <2> QED
    BY <2>1, <2>2, RendersQuietly DEF QuietStep
<1>4. ASSUME NEW f, Renders(f, requests), server' = server  PROVE QuietStep
  BY <1>1, <1>4, RendersQuietly DEF QuietStep, Keeps
<1>5. ASSUME UNCHANGED <<requests, server>>  PROVE QuietStep
  BY <1>1, <1>5 DEF QuietStep, Quiet, Keeps
<1>6. ASSUME RetryPortfolio  PROVE QuietStep
  BY <1>1, <1>6, RefreshIsQuiet, FALSE \in BOOLEAN DEF RetryPortfolio, QuietStep, Quiet
<1>7. ASSUME NEW s \in Slots, Answer(s)  PROVE QuietStep
  <2>1. Without(s) \in [Slots -> Sent \cup {None}]
    BY <1>1 DEF Without
  <2>2. \A t \in Slots : Without(s)[t] \in {None, requests[t]}
    BY <1>1 DEF Without
  <2>3. PICK f : Renders(f, Without(s))
    BY <1>7 DEF Answer, Deliver, Fail
  <2>4. server' = server
    BY <1>7 DEF Answer, Deliver, Fail
  <2> QED
    BY <2>1, <2>2, <2>3, <2>4, RendersQuietly DEF QuietStep, Keeps
<1>8. CASE SeePortfolio
  BY <1>3, <1>8 DEF SeePortfolio
<1>9. ASSUME NEW c \in Coins, GoTo(c)  PROVE QuietStep
  BY <1>4, <1>9 DEF GoTo
<1>10. CASE CoinAnswers \/ CoinAnswersLate
  BY <1>4, <1>10 DEF CoinAnswers, CoinAnswersLate
<1>11. CASE RetryCoin \/ handleSubmit \/ Dismiss
  BY <1>5, <1>11 DEF RetryCoin, handleSubmit, Dismiss, Edit
<1>12. ASSUME NEW f, Edit(f)  PROVE QuietStep
  BY <1>5, <1>12 DEF Edit
<1> QED
  BY <1>2, <1>3, <1>6, <1>7, <1>8, <1>9, <1>10, <1>11, <1>12
  DEF OtherStep, TypeText, switchType, Fill

\* The hook has its type, and a success of it answers the coin asked for last.
CoinHookOK == Coin!UseAsyncTypeOK /\ Coin!ShowsTheLatestAnswer

\* So has the hook of a page that was just opened, ...
LEMMA HookMounted ==
  ASSUME NEW p \in Coins \cup {None}, coin' = Coin!mounted(p)
  PROVE  CoinHookOK' /\ coin'.wanted = p
BY CoinPageAssumption
DEF CoinHookOK, Coin!mounted, Coin!UseAsyncTypeOK, Coin!ShowsTheLatestAnswer, Coin!Hooks,
    Coin!Statuses

\* ... that asks for a coin, or once more, ...
LEMMA HookRuns ==
  ASSUME CoinHookOK, NEW p \in Coins \cup {None}, coin' = Coin!run(coin, p)
  PROVE  CoinHookOK' /\ coin'.wanted = p /\ coin'.data \in {None, coin.data}
<1>1. Coin!cleanup(coin) \in SUBSET Coins
  BY DEF CoinHookOK, Coin!UseAsyncTypeOK, Coin!Hooks, Coin!Statuses, Coin!cleanup, Coin!loading
<1>2. coin' \in Coin!Hooks
  BY <1>1 DEF CoinHookOK, Coin!UseAsyncTypeOK, Coin!run, Coin!Hooks, Coin!Statuses
<1>3. /\ coin'.wanted = p /\ coin'.status = IF p = None THEN "idle" ELSE "loading"
      /\ coin'.data = IF p = None THEN None ELSE coin.data
  BY DEF Coin!run
<1> QED
  BY <1>2, <1>3 DEF CoinHookOK, Coin!UseAsyncTypeOK, Coin!ShowsTheLatestAnswer

\* ... that shows another coin, or is told one.
LEMMA HookRendered ==
  ASSUME CoinHookOK, NEW p \in Coins, coin' = Coin!rendered(coin, p)
  PROVE  CoinHookOK' /\ coin'.wanted = p /\ coin'.data = coin.data
<1>1. CASE p = coin.wanted
  BY <1>1 DEF Coin!rendered, CoinHookOK, Coin!UseAsyncTypeOK, Coin!ShowsTheLatestAnswer
<1>2. CASE p # coin.wanted
  <2>1. coin' = Coin!run(coin, p)
    BY <1>2 DEF Coin!rendered
  <2>2. coin'.data = coin.data
    BY <2>1, CoinPageAssumption DEF Coin!run
  <2> QED
    BY <2>1, <2>2, HookRuns
<1> QED
  BY <1>1, <1>2

\* So does an answer for the coin, in time or late.  Only the first changes what is
\* on screen.
LEMMA HookSettles ==
  ASSUME CoinHookOK, CoinAnswers \/ CoinAnswersLate
  PROVE  /\ CoinHookOK' /\ coin'.wanted = coin.wanted
         /\ coin'.data = None => coin.data = None /\ price' = price
         /\ price' # price => coin.wanted \in Coins /\ price' \in Quotes[coin.wanted]
<1>1. coin \in Coin!Hooks /\ (coin.status = "loading" => coin.wanted \in Coins)
  BY DEF CoinHookOK, Coin!UseAsyncTypeOK, Coin!Hooks
<1>2. ASSUME Coin!Succeed, price' \in Quotes[coin.wanted]
      PROVE  /\ CoinHookOK' /\ coin'.wanted = coin.wanted /\ coin'.data # None
             /\ coin.wanted \in Coins
  <2>1. coin.wanted \in Coins /\ coin.wanted # None
    BY <1>1, <1>2, CoinPageAssumption DEF Coin!Succeed, Coin!loading
  <2> QED
    BY <1>1, <1>2, <2>1
    DEF CoinHookOK, Coin!Succeed, Coin!UseAsyncTypeOK, Coin!ShowsTheLatestAnswer,
        Coin!Hooks, Coin!Statuses
<1>3. CASE Coin!Fail /\ price' = price
  BY <1>1, <1>3
  DEF CoinHookOK, Coin!Fail, Coin!loading, Coin!UseAsyncTypeOK, Coin!ShowsTheLatestAnswer,
      Coin!Hooks, Coin!Statuses
<1>4. ASSUME NEW c \in Coins, Coin!SettleLate(c)
      PROVE  CoinHookOK' /\ coin'.wanted = coin.wanted /\ coin'.data = coin.data
  BY <1>1, <1>4
  DEF CoinHookOK, Coin!SettleLate, Coin!UseAsyncTypeOK, Coin!ShowsTheLatestAnswer, Coin!Hooks
<1> QED
  BY <1>2, <1>3, <1>4 DEF CoinAnswers, CoinAnswersLate

\* A step that renders keeps the types when what it renders has them.
LEMMA TypedByRendering ==
  ASSUME PageTyped, server' = server,
         url' \in Coins \cup {None}, Coin!UseAsyncTypeOK', coin'.wanted = url',
         price' \in Nat \cup {None}, coin'.data = None => price' = None,
         portfolio' \in 0 .. Len(server),
         NEW f \in Forms \cup {None}, form # None => f # None,
         NEW reqs, RequestsOK(reqs, Len(server)),
         Unserved(reqs) \subseteq Unserved(requests), Renders(f, reqs)
  PROVE  PageTyped'
<1>1. Len(server) \in Nat
  BY DEF PageTyped, CoinPageTypeOK
<1>2. /\ RequestsOK(requests', Len(server)) /\ Unserved(requests') = Unserved(reqs)
      /\ form' \in Forms \cup {None}
      /\ form' # None <=> (url' # None /\ coin'.data # None /\ portfolio' # 0)
  BY <1>1, RendersOK
<1>3. RoomForTrades(requests', Len(server))
  BY <1>1, <1>2, FewerTrades DEF PageTyped
<1>4. CoinPageTypeOK'
  BY <1>2 DEF PageTyped, CoinPageTypeOK, RequestsOK, Sent
<1> QED
  BY <1>2, <1>3, <1>4 DEF PageTyped, RequestsOK, RoomForTrades, Unserved

\* So does one that changes a form and nothing else.
LEMMA TypedByEditing ==
  ASSUME PageTyped, form # None, NEW f \in Forms, Edit(f)
  PROVE  PageTyped'
<1>1. f # None
  BY NoneIsNothing
<1> QED
  BY <1>1
  DEF PageTyped, CoinPageTypeOK, Edit, RequestsOK, RoomForTrades, Unserved,
      Coin!UseAsyncTypeOK

\* What is typed, chosen or filled in leaves a form.
LEMMA TypedByTheForm ==
  ASSUME PageTyped, \/ \E t \in Typed : TypeText(t)
                    \/ \E type \in Types : switchType(type)
                    \/ \E percentage \in Percentages : Fill(percentage)
                    \/ handleSubmit \/ Dismiss
  PROVE  PageTyped'
<1>1. form # None
  BY DEF TypeText, switchType, Fill, handleSubmit, Dismiss
<1>2. form \in Forms /\ CoinPageTypeOK
  BY <1>1, FormShowsItsCoin DEF PageTyped
<1>3. ASSUME NEW t \in TextsWith(Int, Nat),
             Edit([form EXCEPT !.text = t, !.changed = form.confirmOpen])
      PROVE  PageTyped'
  <2>1. [form EXCEPT !.text = t, !.changed = form.confirmOpen] \in Forms
    BY <1>2 DEF Forms
  <2> QED
    BY <1>1, <1>3, <2>1, TypedByEditing
<1>4. ASSUME NEW t \in Typed, TypeText(t)  PROVE PageTyped'
  BY <1>3, <1>4, TextType DEF TypeText
<1>5. ASSUME NEW type \in Types, switchType(type)  PROVE PageTyped'
  <2>1. [form EXCEPT !.type = type, !.changed = form.confirmOpen] \in Forms
    BY <1>2 DEF Forms
  <2> QED
    BY <1>1, <1>5, <2>1, TypedByEditing DEF switchType
<1>6. ASSUME NEW percentage \in Percentages, Fill(percentage)  PROVE PageTyped'
  <2> DEFINE t == applyPercentage(form.text, percentage, form.type, price,
                                  Books.cash, holding(coin.data))
  <2>1. t \in TextsWith(Int, Nat)
    BY <1>1, <1>2, <1>6, FilledType DEF Fill
  <2>2. Edit([form EXCEPT !.text = t, !.changed = form.confirmOpen])
    BY <1>6 DEF Fill
  <2> HIDE DEF t
  <2> QED
    BY <1>3, <2>1, <2>2
<1>7. CASE handleSubmit
  <2>1. [form EXCEPT !.confirmOpen = TRUE, !.changed = FALSE] \in Forms
    BY <1>2 DEF Forms
  <2> QED
    BY <1>1, <1>7, <2>1, TypedByEditing DEF handleSubmit
<1>8. CASE Dismiss
  <2>1. onClose(form) \in Forms
    BY <1>2 DEF Forms, onClose
  <2> QED
    BY <1>1, <1>8, <2>1, TypedByEditing DEF Dismiss
<1> QED
  BY <1>4, <1>5, <1>6, <1>7, <1>8

\* One order more is on its way, and there is room for it.
LEMMA TypedByConfirming ==
  ASSUME PageTyped, confirm
  PROVE  PageTyped'
<1> DEFINE order == Trade(url, form)
<1>1. order \in Orders /\ order.answer = None /\ order.op = "trade"
  BY TradeType DEF PageTyped, confirm
<1>2. PICK m \in Slots : requests' = [requests EXCEPT ![m] = order]
  BY SendFillsAFreeSlot DEF confirm
<1>3. requests \in [Slots -> Sent \cup {None}] /\ Len(server) \in Nat /\ server' = server
  BY DEF PageTyped, RequestsOK, confirm, CoinPageTypeOK
<1> HIDE DEF order
<1>4. RequestsOK(requests', Len(server))
  BY <1>1, <1>2, <1>3 DEF PageTyped, RequestsOK, Sent
<1>5. RoomForTrades(requests', Len(server))
  <2>1. Unserved(requests') \subseteq Unserved(requests) \cup {m}
    BY <1>1, <1>2, <1>3 DEF Unserved
  <2>2. Unserved(requests) \subseteq Flying("trade") /\ Flying("trade") \subseteq Slots
        /\ Unserved(requests') \subseteq Slots
    BY DEF Unserved, Flying
  <2>3. Cardinality(Unserved(requests')) <= Cardinality(Unserved(requests)) + 1
    <3>1. /\ IsFiniteSet(Unserved(requests)) /\ Cardinality(Unserved(requests)) \in Nat
          /\ Cardinality(Unserved(requests')) \in Nat
      BY <2>2, SlotsAreFinite
    <3>2. /\ IsFiniteSet(Unserved(requests) \cup {m})
          /\ Cardinality(Unserved(requests) \cup {m}) <= Cardinality(Unserved(requests)) + 1
          /\ Cardinality(Unserved(requests) \cup {m}) \in Nat
      <4>1. /\ IsFiniteSet(Unserved(requests) \cup {m})
            /\ Cardinality(Unserved(requests) \cup {m})
                 \in {Cardinality(Unserved(requests)), Cardinality(Unserved(requests)) + 1}
        BY <3>1, FS_AddElement
      <4> QED
        BY <3>1, <4>1
    <3>3. Cardinality(Unserved(requests')) <= Cardinality(Unserved(requests) \cup {m})
      BY <2>1, <3>2, FS_Subset
    <3> QED
      BY <3>1, <3>2, <3>3
  <2>4. Cardinality(Unserved(requests)) <= Cardinality(Flying("trade"))
    BY <2>2, SlotsAreFinite, FS_Subset
  <2>5. Len(server) - 1 + Cardinality(Flying("trade")) < MaxTrades
    BY DEF confirm
  <2>6. /\ Cardinality(Unserved(requests)) \in Nat /\ Cardinality(Flying("trade")) \in Nat
        /\ Cardinality(Unserved(requests')) \in Nat /\ MaxTrades \in Nat
    BY <2>2, SlotsAreFinite, CoinPageAssumption
  <2> QED
    BY <1>3, <2>3, <2>4, <2>5, <2>6 DEF RoomForTrades
<1>6. form' \in Forms /\ form' # None /\ form # None
  <2>1. form \in Forms /\ form # None
    BY FormShowsItsCoin DEF PageTyped, confirm
  <2>2. form' \in Forms
    BY <2>1 DEF confirm, Forms
  <2> QED
    BY <2>1, <2>2, NoneIsNothing
<1>7. CoinPageTypeOK'
  BY <1>4, <1>6 DEF PageTyped, CoinPageTypeOK, RequestsOK, Sent, confirm, Coin!UseAsyncTypeOK
<1> QED
  BY <1>3, <1>4, <1>5, <1>7 DEF PageTyped, RequestsOK, RoomForTrades, Unserved

\* A request is answered: nothing is added to the server's history, or a trade.
LEMMA AnswerType ==
  ASSUME NEW s \in Slots, NEW n \in Nat, NEW k \in 1 .. n, RequestsOK(requests, n),
         requests[s] # None
  PROVE  /\ RequestsOK([requests EXCEPT ![s].answer = k], n)
         /\ requests[s] # None => [requests[s] EXCEPT !.answer = k] \in Sent
<1>1. requests[s] \in Sent /\ k \in Nat /\ k # None
  BY TradeFormAssumption DEF RequestsOK
<1>2. [requests[s] EXCEPT !.answer = k] \in Sent /\ [requests[s] EXCEPT !.answer = k].answer = k
  BY <1>1 DEF Sent, Orders, Refreshes
<1> QED
  BY <1>2 DEF RequestsOK

\* The server handles a request: what it adds to its history is a portfolio.
LEMMA TypedByServing ==
  ASSUME PageTyped, NEW s \in Slots, Serve(s)
  PROVE  PageTyped'
<1>1. /\ Len(server) \in Nat \ {0} /\ RequestsOK(requests, Len(server))
      /\ requests[s] # None /\ requests[s] \in Sent /\ requests[s].answer = None
  BY DEF PageTyped, RequestsOK, Serve, CoinPageTypeOK
<1>2. ASSUME NEW k \in 1 .. Len(server), server' = server,
             requests' = [requests EXCEPT ![s].answer = k]
      PROVE  PageTyped'
  <2>1. RequestsOK(requests', Len(server))
    BY <1>1, <1>2, AnswerType
  <2>2. Unserved(requests') \subseteq Unserved(requests)
    <3>1. [requests[s] EXCEPT !.answer = k].answer = k /\ k # None
      BY <1>1, TradeFormAssumption DEF Sent, Orders, Refreshes
    <3> QED
      BY <1>1, <1>2, <3>1 DEF Unserved, RequestsOK
  <2>3. RoomForTrades(requests', Len(server))
    BY <1>1, <2>2, FewerTrades DEF PageTyped
  <2>4. CoinPageTypeOK'
    BY <1>2, <2>1 DEF PageTyped, CoinPageTypeOK, RequestsOK, Sent, Serve, Coin!UseAsyncTypeOK
  <2> QED
    BY <1>2, <2>1, <2>3, <2>4 DEF PageTyped, RequestsOK, RoomForTrades, Unserved
<1>3. ASSUME NEW at \in Prices, requests[s].op = "trade", Allowed(requests[s], at),
             server' = Append(server, Settled(requests[s], at)),
             requests' = [requests EXCEPT ![s].answer = Len(server')]
      PROVE  PageTyped'
  <2> DEFINE n == Len(server)
  <2>1. requests[s] \in Orders /\ requests[s].op = "trade"
    BY <1>1, <1>3 DEF Sent, Orders, Refreshes
  <2>2. Settled(requests[s], at) \in [cash : Nat, held : [Coins -> Nat]]
    BY <1>3, <2>1, SettledType DEF PageTyped
  <2>3. server' \in Seq([cash : Nat, held : [Coins -> Nat]]) /\ Len(server') = n + 1
    BY <1>3, <2>2, AppendProperties DEF PageTyped, CoinPageTypeOK
  <2>4. RequestsOK(requests', n + 1)
    <3>1. RequestsOK(requests, n + 1)
      BY <1>1 DEF RequestsOK
    <3>2. n + 1 \in Nat /\ n + 1 \in 1 .. n + 1
      BY <1>1
    <3>3. requests' = [requests EXCEPT ![s].answer = n + 1]
      BY <1>3, <2>3
    <3> QED
      BY <1>1, <3>1, <3>2, <3>3, AnswerType
  <2>5. Unserved(requests') = Unserved(requests) \ {s} /\ s \in Unserved(requests)
    <3>1. [requests[s] EXCEPT !.answer = n + 1].answer = n + 1 /\ n + 1 # None
      BY <1>1, <2>1, TradeFormAssumption DEF Orders
    <3> QED
      BY <1>1, <1>3, <2>1, <2>3, <3>1 DEF Unserved, RequestsOK
  <2>6. /\ Cardinality(Unserved(requests')) = Cardinality(Unserved(requests)) - 1
        /\ Cardinality(Unserved(requests)) \in Nat /\ Cardinality(Unserved(requests')) \in Nat
    <3>1. Unserved(requests) \subseteq Slots /\ Unserved(requests') \subseteq Slots
      BY DEF Unserved
    <3> QED
      BY <2>5, <3>1, SlotsAreFinite, FS_RemoveElement
  <2>7. RoomForTrades(requests', n + 1) /\ n + 1 \in 1 .. MaxTrades + 1
    BY <1>1, <2>6, CoinPageAssumption DEF PageTyped, RoomForTrades
  <2>8. CoinPageTypeOK'
    BY <1>1, <2>3, <2>4, <2>7
    DEF PageTyped, CoinPageTypeOK, RequestsOK, Sent, Serve, Coin!UseAsyncTypeOK
  <2> QED
    BY <2>3, <2>4, <2>7, <2>8 DEF PageTyped, RequestsOK, RoomForTrades, Unserved
<1>4. Len(server) \in 1 .. Len(server)
  BY <1>1
<1> QED
  BY <1>2, <1>3, <1>4 DEF Serve

\* What the answer s leaves to render.
LEMMA AnsweredForm ==
  ASSUME PageTyped, NEW s \in Slots, requests[s] # None, NEW failed \in BOOLEAN
  PROVE  LET f == IF form = None THEN None ELSE Concluded(form, requests[s], failed)
             g == IF form = None THEN None ELSE Overtaken(Concluded(form, requests[s], failed))
         IN /\ f \in Forms \cup {None}
            /\ g \in Forms \cup {None}
            /\ form # None => f # None /\ g # None
<1>1. requests[s] \in Sent /\ form \in Forms \cup {None}
  BY DEF PageTyped, RequestsOK, CoinPageTypeOK
<1> QED
  BY <1>1, ConcludedType, NoneIsNothing

\* An answer is rendered with one request less.
LEMMA TypedByAnswering ==
  ASSUME PageTyped, NEW s \in Slots, Answer(s)
  PROVE  PageTyped'
<1>1. /\ requests[s] # None /\ server' = server /\ url' = url /\ coin' = coin
      /\ price' = price
  BY Zenon DEF Answer, Deliver, Fail
<1>2. Len(server) \in Nat /\ RequestsOK(requests, Len(server))
  BY DEF PageTyped, CoinPageTypeOK
<1>3. RequestsOK(Without(s), Len(server)) /\ Unserved(Without(s)) \subseteq Unserved(requests)
  BY <1>2, WithoutOK
<1>4. /\ url' \in Coins \cup {None} /\ Coin!UseAsyncTypeOK' /\ coin'.wanted = url'
      /\ price' \in Nat \cup {None} /\ (coin'.data = None => price' = None)
  BY <1>1 DEF PageTyped, CoinPageTypeOK, Coin!UseAsyncTypeOK
<1>5. portfolio' \in 0 .. Len(server)
  <2>1. portfolio \in 0 .. Len(server)
    BY DEF PageTyped, CoinPageTypeOK
  <2>2. requests[s].answer # None => requests[s].answer \in 1 .. Len(server)
    BY <1>1, <1>2 DEF RequestsOK
  <2>3. \/ portfolio' = portfolio
        \/ portfolio' = requests[s].answer /\ requests[s].answer # None
    BY Zenon DEF Answer, Deliver, Fail
  <2> QED
    BY <1>2, <2>1, <2>2, <2>3
<1>6. \E f \in Forms \cup {None} : (form # None => f # None) /\ Renders(f, Without(s))
  <2> DEFINE f == IF form = None THEN None
                  ELSE Overtaken(Concluded(form, requests[s], FALSE))
             g == IF form = None THEN None ELSE Concluded(form, requests[s], TRUE)
  <2>1. /\ f \in Forms \cup {None}
        /\ g \in Forms \cup {None}
        /\ form # None => f # None /\ g # None
    BY <1>1, AnsweredForm
  <2>2. Deliver(s) => Renders(f, Without(s))
    BY Zenon DEF Deliver
  <2>3. Fail(s) => Renders(g, Without(s))
    BY Zenon DEF Fail
  <2> HIDE DEF f, g
  <2> QED
    BY <2>1, <2>2, <2>3 DEF Answer
<1> QED
  BY <1>1, <1>3, <1>4, <1>5, <1>6, TypedByRendering

\* Another page, another coin, or an answer for the coin.
LEMMA TypedByNavigating ==
  ASSUME PageTyped, CoinHookOK,
         \/ \E c \in Coins : Open(c) \/ GoTo(c)
         \/ Leave \/ SeePortfolio \/ CoinAnswers \/ CoinAnswersLate
  PROVE  PageTyped' /\ CoinHookOK'
<1>1. /\ portfolio \in 0 .. Len(server) /\ Len(server) \in Nat
      /\ RequestsOK(requests, Len(server)) /\ url \in Coins \cup {None}
      /\ form \in Forms \cup {None} /\ coin.wanted = url
      /\ form # None => url # None
      /\ price \in Nat \cup {None} /\ (coin.data = None => price = None)
  BY DEF PageTyped, CoinPageTypeOK
<1>2. ASSUME NEW c \in Coins, Open(c)  PROVE PageTyped' /\ CoinHookOK'
  <2>1. /\ RequestsOK(Send(requests, Refresh(TRUE)), Len(server))
        /\ Unserved(Send(requests, Refresh(TRUE))) \subseteq Unserved(requests)
    BY <1>1, <1>2, RefreshSent DEF Open
  <2>2. CoinHookOK' /\ coin'.wanted = c
    BY <1>2, HookMounted DEF Open
  <2> QED
    BY <1>1, <1>2, <2>1, <2>2, TypedByRendering DEF Open, CoinHookOK
<1>3. ASSUME NEW c \in Coins, GoTo(c)  PROVE PageTyped' /\ CoinHookOK'
  <2>1. CoinHookOK' /\ coin'.wanted = c /\ coin'.data = coin.data
    BY <1>3, HookRendered DEF GoTo
  <2> QED
    BY <1>1, <1>3, <2>1, TypedByRendering DEF GoTo, CoinHookOK
<1>4. ASSUME Leave  PROVE PageTyped' /\ CoinHookOK'
  <2> DEFINE left == [s \in Slots |-> Left(requests[s])]
  <2>1. RequestsOK(left, Len(server)) /\ Unserved(left) \subseteq Unserved(requests)
    BY <1>1, LeaveOK
  <2>2. CoinHookOK' /\ coin'.wanted = None
    BY <1>4, HookMounted DEF Leave
  <2>3. /\ server' = server /\ portfolio' = portfolio /\ url' = None /\ Renders(None, left)
        /\ price' = None
    BY <1>4 DEF Leave
  <2> HIDE DEF left
  <2>4. RequestsOK(requests', Len(server)) /\ Unserved(requests') = Unserved(left)
        /\ form' = None
    <3>1. requests' = [s \in Slots |-> Detached(left[s])] /\ form' = None
      BY <2>3, RendersSameOrOther
    <3>2. \A s \in Slots : /\ requests'[s] \in Sent \cup {None}
                           /\ requests'[s] = None <=> left[s] = None
                           /\ left[s] # None => /\ requests'[s].op = left[s].op
                                                /\ requests'[s].answer = left[s].answer
      BY <2>1, <3>1, DetachedType DEF RequestsOK
    <3> QED
      BY <2>1, <3>1, <3>2 DEF RequestsOK, Unserved
  <2>5. RoomForTrades(requests', Len(server))
    BY <1>1, <2>1, <2>4, FewerTrades DEF PageTyped
  <2>6. CoinPageTypeOK'
    BY <1>1, <2>2, <2>3, <2>4 DEF PageTyped, CoinPageTypeOK, RequestsOK, Sent, CoinHookOK
  <2> QED
    BY <2>2, <2>3, <2>4, <2>5, <2>6 DEF PageTyped, RequestsOK, RoomForTrades, Unserved
<1>5. CASE CoinAnswers \/ CoinAnswersLate
  <2>1. /\ CoinHookOK' /\ coin'.wanted = coin.wanted
        /\ coin'.data = None => coin.data = None /\ price' = price
        /\ price' \in Nat \cup {None}
    BY <1>1, <1>5, HookSettles, CoinPageAssumption
  <2>2. PICK f \in {form, Overtaken(form)} : (form = None => f = None) /\ Renders(f, requests)
    BY <1>5 DEF CoinAnswers, CoinAnswersLate
  <2>3. f \in Forms \cup {None} /\ (form # None => f # None)
    BY <1>1, <2>2, NoneIsNothing DEF Overtaken, Forms
  <2>4. server' = server /\ portfolio' = portfolio /\ url' = url
    BY <1>5 DEF CoinAnswers, CoinAnswersLate
  <2> QED
    BY <1>1, <2>1, <2>2, <2>3, <2>4, TypedByRendering DEF CoinHookOK
<1> QED
  BY <1>2, <1>3, <1>4, <1>5 DEF SeePortfolio

\* The buttons of the two error messages.
LEMMA TypedByRetrying ==
  ASSUME PageTyped, CoinHookOK, RetryCoin \/ RetryPortfolio
  PROVE  PageTyped' /\ CoinHookOK'
<1>1. CASE RetryCoin
  <2>1. coin.wanted \in Coins \cup {None} /\ coin' = Coin!run(coin, coin.wanted)
    BY <1>1 DEF RetryCoin, Coin!Refetch, CoinHookOK, Coin!UseAsyncTypeOK, Coin!Hooks
  <2>2. CoinHookOK' /\ coin'.wanted = coin.wanted /\ coin'.data = None
    BY <1>1, <2>1, HookRuns DEF RetryCoin
  <2> QED
    BY <1>1, <2>2
    DEF RetryCoin, PageTyped, CoinPageTypeOK, RequestsOK, RoomForTrades, Unserved, CoinHookOK
<1>2. CASE RetryPortfolio
  <2>1. /\ RequestsOK(requests', Len(server)) /\ Len(server) \in Nat
        /\ Unserved(requests') \subseteq Unserved(requests)
    <3>1. RequestsOK(requests, Len(server)) /\ Len(server) \in Nat
      BY DEF PageTyped, CoinPageTypeOK
    <3>2. requests' = Send(requests, Refresh(FALSE)) /\ Free(requests) # {}
      BY <1>2 DEF RetryPortfolio
    <3> QED
      BY <3>1, <3>2, RefreshSent, FALSE \in BOOLEAN
  <2>2. RoomForTrades(requests', Len(server))
    BY <2>1, FewerTrades DEF PageTyped
  <2>3. CoinPageTypeOK'
    BY <1>2, <2>1
    DEF RetryPortfolio, PageTyped, CoinPageTypeOK, RequestsOK, Sent, Coin!UseAsyncTypeOK
  <2> QED
    BY <1>2, <2>1, <2>2, <2>3
    DEF RetryPortfolio, PageTyped, RequestsOK, RoomForTrades, Unserved, CoinHookOK,
        Coin!UseAsyncTypeOK, Coin!ShowsTheLatestAnswer
<1> QED
  BY <1>1, <1>2

\* The first state.
LEMMA TypedInit == Init => PageTyped /\ CoinHookOK
<1> SUFFICES ASSUME Init  PROVE PageTyped /\ CoinHookOK
  OBVIOUS
<1> DEFINE books == [cash |-> InitialCash, held |-> [c \in Coins |-> 0]]
<1>1. /\ Unserved(requests) = {} /\ RequestsOK(requests, 1)
  BY DEF Init, Unserved, RequestsOK
<1>2. server = <<books>> /\ books \in [cash : Nat, held : [Coins -> Nat]]
  BY CoinPageAssumption DEF Init
<1> HIDE DEF books
<1>3. server \in Seq([cash : Nat, held : [Coins -> Nat]]) /\ Len(server) = 1
  BY <1>2
<1>4. RoomForTrades(requests, 1)
  BY <1>1, FS_EmptySet, CoinPageAssumption DEF RoomForTrades
<1>5. CoinHookOK /\ coin.wanted = None /\ coin.data = None
  BY DEF Init, CoinHookOK, Coin!mounted, Coin!UseAsyncTypeOK, Coin!ShowsTheLatestAnswer,
         Coin!Hooks, Coin!Statuses
<1>6. CoinPageTypeOK
  BY <1>1, <1>3, <1>5, CoinPageAssumption
  DEF Init, CoinPageTypeOK, CoinHookOK, RequestsOK, Sent
<1> QED
  BY <1>1, <1>3, <1>4, <1>5, <1>6 DEF PageTyped

\* The invariant behind the types is inductive.
LEMMA TypedStep ==
  ASSUME PageTyped, CoinHookOK, [Next]_vars
  PROVE  PageTyped' /\ CoinHookOK'
<1>1. CASE UNCHANGED vars
  BY <1>1
  DEF vars, PageTyped, CoinPageTypeOK, RequestsOK, RoomForTrades, Unserved, CoinHookOK,
      Coin!UseAsyncTypeOK, Coin!ShowsTheLatestAnswer
<1>2. ASSUME coin' = coin  PROVE CoinHookOK'
  BY <1>2 DEF CoinHookOK, Coin!UseAsyncTypeOK, Coin!ShowsTheLatestAnswer
<1>3. CASE \/ \E t \in Typed : TypeText(t)
           \/ \E type \in Types : switchType(type)
           \/ \E percentage \in Percentages : Fill(percentage)
           \/ handleSubmit \/ Dismiss
  <2>1. coin' = coin
    BY <1>3 DEF TypeText, switchType, Fill, handleSubmit, Dismiss, Edit
  <2> QED
    BY <1>2, <1>3, <2>1, TypedByTheForm
<1>4. CASE confirm
  BY <1>2, <1>4, TypedByConfirming DEF confirm
<1>5. ASSUME NEW s \in Slots, Serve(s)  PROVE PageTyped' /\ CoinHookOK'
  BY <1>2, <1>5, TypedByServing DEF Serve
<1>6. ASSUME NEW s \in Slots, Answer(s)  PROVE PageTyped' /\ CoinHookOK'
  BY <1>2, <1>6, TypedByAnswering DEF Answer, Deliver, Fail
<1> QED
  BY <1>1, <1>3, <1>4, <1>5, <1>6, TypedByNavigating, TypedByRetrying DEF Next

\* The page keeps its types: the portfolio it shows is one the server had, every
\* answer names one, no position and no cash of the server is negative, and the
\* form is on screen exactly when there is a coin and a portfolio to build it on.
THEOREM CoinPageTypes == Spec => []CoinPageTypeOK
<1>1. PageTyped => CoinPageTypeOK
  BY DEF PageTyped
<1> QED
  BY <1>1, TypedInit, TypedStep, PTL DEF Spec

-----------------------------------------------------------------------------
(* Orders.                                                                 *)

\* The page and the hook of its coin have their types.
PageSteady == PageTyped /\ CoinHookOK

\* They keep them.
LEMMA SteadyStep ==
  PageSteady /\ [Next]_vars => PageSteady'
BY TypedStep DEF PageSteady

\* What a quiet step leaves of an order.
LEMMA QuietOrder ==
  ASSUME NEW r \in Sent \cup {None}, NEW q, Quiet(q, r), q # None, q.op = "trade"
  PROVE  /\ r \in Orders /\ q \in Orders
         /\ q.coin = r.coin /\ q.checked = r.checked /\ q.answer = r.answer
         /\ q.live => q = r
<1>1. r # None /\ q \in {r, Detached(r)}
  BY DEF Quiet, Keeps
<1>2. r \in Orders /\ r.op = "trade"
  BY <1>1, DetachedType DEF Sent, Orders, Refreshes
<1> QED
  BY <1>1, <1>2 DEF Detached, Orders

\* The only new order is the one that is confirmed, and only its answer changes it.
LEMMA OrdersStep ==
  ASSUME PageTyped, Next, NEW s \in Slots, requests'[s] # None, requests'[s].op = "trade"
  PROVE  \/ confirm /\ requests'[s] = Trade(url, form)
         \/ /\ requests[s] # None /\ requests[s].op = "trade"
            /\ requests'[s].checked = requests[s].checked
<1>1. requests \in [Slots -> Sent \cup {None}] /\ CoinPageTypeOK
  BY DEF PageTyped, RequestsOK
<1>2. CASE QuietStep
  <2>1. requests[s] \in Orders /\ requests[s] # None
    BY <1>1, <1>2, QuietOrder, NoneIsNothing DEF QuietStep
  <2> QED
    BY <1>1, <1>2, <2>1, QuietOrder DEF QuietStep, Orders
<1>3. CASE confirm
  <2>1. PICK m \in Slots : requests' = [requests EXCEPT ![m] = Trade(url, form)]
    BY <1>3, SendFillsAFreeSlot DEF confirm
  <2> QED
    BY <1>1, <1>3, <2>1
<1>4. ASSUME NEW t \in Slots, Serve(t)
      PROVE  /\ requests[s] # None /\ requests[s].op = "trade"
             /\ requests'[s].checked = requests[s].checked
  <2>1. PICK k : requests' = [requests EXCEPT ![t].answer = k]
    BY <1>4 DEF Serve
  <2>2. requests[t] \in Sent /\ requests[t] # None
    BY <1>1, <1>4 DEF Serve
  <2>3. requests[s] \in Sent /\ requests[s] # None
    BY <1>1, <2>1, <2>2
  <2>4. requests'[s] \in {requests[s], [requests[s] EXCEPT !.answer = k]}
    BY <1>1, <2>1
  <2> QED
    BY <2>3, <2>4 DEF Sent, Orders, Refreshes
<1> QED
  BY <1>1, <1>2, <1>3, <1>4, MostStepsAreQuiet, StepsOfThePage

\* A dialog is open for what passed the checks, or changed behind it.
DialogIsChecked ==
  form # None /\ form.confirmOpen => Submittable(form) \/ form.changed

\* The portfolio and the coin on screen are what the form's checks read.
LEMMA SubmittableKept ==
  ASSUME CoinPageTypeOK, form # None, Submittable(form),
         coin'.data = coin.data, price' = price, portfolio' = portfolio,
         server'[portfolio] = server[portfolio],
         NEW f, f.text = form.text, f.type = form.type, form' = f
  PROVE  Submittable(form)'
BY DEF Submittable, Books, holding

\* Rendered again, the dialog is for the same thing, or it is gone.
LEMMA DialogRendered ==
  ASSUME PageTyped, DialogIsChecked, server' = server, NEW f, NEW reqs, Renders(f, reqs),
         form # None => \/ ~f.confirmOpen
                        \/ f.changed
                        \/ f = form /\ portfolio' = portfolio /\ price' = price
  PROVE  DialogIsChecked'
<1>1. CASE form # None /\ form' = f /\ coin'.data = coin.data
  <2>1. CASE ~f.confirmOpen \/ f.changed
    BY <1>1, <2>1 DEF DialogIsChecked
  <2>2. CASE f = form /\ portfolio' = portfolio /\ price' = price
    BY <1>1, <2>2, SubmittableKept DEF DialogIsChecked, PageTyped
  <2> QED
    BY <1>1, <2>1, <2>2
<1>2. CASE form' \in {NewForm, None}
  BY <1>2, NewFormType DEF DialogIsChecked
<1> QED
  BY <1>1, <1>2, RendersSameOrOther

\* The dialog opens on what passed the checks; every edit behind it is marked.
LEMMA DialogStep ==
  ASSUME PageTyped, DialogIsChecked, Next
  PROVE  DialogIsChecked'
<1>1. form # None => form \in Forms
  BY FormShowsItsCoin DEF PageTyped
<1>2. CASE \/ \E t \in Typed : TypeText(t)
           \/ \E type \in Types : switchType(type)
           \/ \E percentage \in Percentages : Fill(percentage)
  <2>1. form # None /\ form'.confirmOpen = form.confirmOpen /\ form'.changed = form.confirmOpen
    BY <1>1, <1>2 DEF TypeText, switchType, Fill, Edit, Forms
  <2> QED
    BY <2>1 DEF DialogIsChecked
<1>3. CASE handleSubmit
  <2>1. /\ form # None /\ form'.text = form.text /\ form'.type = form.type
        /\ UNCHANGED <<coin, price, portfolio, server>> /\ Submittable(form)
    BY <1>1, <1>3 DEF handleSubmit, Edit, Forms
  <2> QED
    BY <2>1, SubmittableKept DEF DialogIsChecked, PageTyped
<1>4. CASE Dismiss
  <2>1. /\ form # None /\ (form' = form \/ ~form'.confirmOpen)
        /\ UNCHANGED <<coin, price, portfolio, server>>
    BY <1>1, <1>4 DEF Dismiss, Edit, onClose, Forms
  <2> QED
    BY <2>1, SubmittableKept DEF DialogIsChecked, PageTyped
<1>5. CASE confirm
  <2>1. /\ form # None /\ form'.text = form.text /\ form'.type = form.type
        /\ form'.changed = form.changed /\ form.confirmOpen
        /\ UNCHANGED <<coin, price, portfolio, server>>
    BY <1>1, <1>5 DEF confirm, Forms
  <2> QED
    BY <2>1, SubmittableKept DEF DialogIsChecked, PageTyped
<1>6. ASSUME NEW s \in Slots, Serve(s)  PROVE DialogIsChecked'
  <2>1. /\ UNCHANGED <<coin, price, form, portfolio>>
        /\ server' = server \/ \E b : server' = Append(server, b)
    BY <1>6 DEF Serve
  <2>2. form # None => server'[portfolio] = server[portfolio]
    <3>1. form # None => portfolio \in 1 .. Len(server)
      BY FormShowsItsCoin DEF PageTyped
    <3>2. server \in Seq([cash : Nat, held : [Coins -> Nat]])
      BY DEF PageTyped, CoinPageTypeOK
    <3> QED
      BY <2>1, <3>1, <3>2
  <2> QED
    BY <2>1, <2>2, SubmittableKept DEF DialogIsChecked, PageTyped
<1>7. ASSUME NEW s \in Slots, Deliver(s)  PROVE DialogIsChecked'
  <2> DEFINE c == Concluded(form, requests[s], FALSE)
  <2>1. form # None => ~Overtaken(c).confirmOpen \/ Overtaken(c).changed
    <3>1. requests[s] \in Sent
      BY <1>7 DEF Deliver, PageTyped, RequestsOK
    <3>2. form # None => c \in Forms
      BY <1>1, <3>1, ConcludedType
    <3> HIDE DEF c
    <3> QED
      BY <3>2 DEF Overtaken, Forms
  <2>2. Renders(IF form = None THEN None ELSE Overtaken(c), Without(s)) /\ server' = server
    BY Zenon, <1>7 DEF Deliver
  <2> HIDE DEF c
  <2> QED
    BY <2>1, <2>2, DialogRendered
<1>8. ASSUME NEW s \in Slots, Fail(s)  PROVE DialogIsChecked'
  <2> DEFINE c == Concluded(form, requests[s], TRUE)
  <2>1. form # None => c = form \/ ~c.confirmOpen
    BY <1>1 DEF Concluded, Forms
  <2>2. /\ Renders(IF form = None THEN None ELSE c, Without(s))
        /\ server' = server /\ portfolio' = portfolio /\ price' = price
    BY Zenon, <1>8 DEF Fail
  <2> HIDE DEF c
  <2> QED
    BY <2>1, <2>2, DialogRendered
<1>9. CASE CoinAnswers
  <2>1. form # None => ~Overtaken(form).confirmOpen \/ Overtaken(form).changed
    BY <1>1 DEF Overtaken, Forms
  <2>2. PICK f : /\ Renders(f, requests) /\ server' = server /\ portfolio' = portfolio
                 /\ form # None => \/ f = Overtaken(form)
                                   \/ f = form /\ price' = price
    BY <1>9 DEF CoinAnswers
  <2> QED
    BY <2>1, <2>2, DialogRendered
<1>10. CASE Leave \/ SeePortfolio
  <2>1. form' = None
    BY <1>10, RendersSameOrOther DEF Leave, SeePortfolio
  <2> QED
    BY <2>1 DEF DialogIsChecked
<1>11. ASSUME NEW c \in Coins, Open(c)  PROVE DialogIsChecked'
  <2>1. form = None
    BY <1>11 DEF Open, PageTyped, CoinPageTypeOK
  <2>2. form' \in {None, NewForm}
    BY <1>11, <2>1, RendersSameOrOther DEF Open
  <2> QED
    BY <2>2, NewFormType DEF DialogIsChecked
<1>12. CASE RetryCoin \/ RetryPortfolio
  <2>1. form' = None
    BY <1>12 DEF RetryCoin, RetryPortfolio, PageTyped, CoinPageTypeOK
  <2> QED
    BY <2>1 DEF DialogIsChecked
<1>13. CASE CoinAnswersLate \/ \E c \in Coins : GoTo(c)
  BY <1>13, DialogRendered DEF CoinAnswersLate, GoTo
<1> QED
  BY <1>2, <1>3, <1>4, <1>5, <1>6, <1>7, <1>8, <1>9, <1>10, <1>11, <1>12, <1>13
  DEF Next, Answer

\* No dialog is ever open for something unchecked and unchanged.
LEMMA DialogAlwaysChecked == Spec => [](PageSteady /\ DialogIsChecked)
<1>1. Init => PageSteady /\ DialogIsChecked
  BY TypedInit DEF Init, DialogIsChecked, PageSteady
<1>2. PageSteady /\ DialogIsChecked /\ [Next]_vars => DialogIsChecked'
  <2>1. ASSUME PageTyped, DialogIsChecked, UNCHANGED vars  PROVE DialogIsChecked'
    BY <2>1 DEF vars, DialogIsChecked, Submittable, Books, holding
  <2> QED
    BY <2>1, DialogStep DEF PageSteady
<1> QED
  BY <1>1, <1>2, SteadyStep, PTL DEF Spec

\* An order passed the form's checks at the moment it was confirmed, or something
\* changed behind the open dialog: the type, the text, the price, the portfolio.
THEOREM OrdersPassedTheChecks == Spec => []OrdersWereChecked
<1>1. Init => OrdersWereChecked
  BY DEF Init, OrdersWereChecked, Flying
<1>2. PageSteady /\ DialogIsChecked /\ OrdersWereChecked /\ [Next]_vars => OrdersWereChecked'
  <2> SUFFICES ASSUME PageSteady, DialogIsChecked, OrdersWereChecked, [Next]_vars
               PROVE  OrdersWereChecked'
    OBVIOUS
  <2>1. CASE UNCHANGED vars
    BY <2>1 DEF vars, OrdersWereChecked, Flying
  <2>2. ASSUME Next, NEW s \in Slots, requests'[s] # None, requests'[s].op = "trade"
        PROVE  requests'[s].checked
    <3>1. CASE confirm /\ requests'[s] = Trade(url, form)
      <4>1. Submittable(form) \/ form.changed
        BY <3>1 DEF confirm, DialogIsChecked
      <4>2. Trade(url, form).checked <=> Submittable(form) \/ form.changed
        BY Zenon DEF Trade
      <4> QED
        BY <3>1, <4>1, <4>2
    <3>2. CASE /\ requests[s] # None /\ requests[s].op = "trade"
               /\ requests'[s].checked = requests[s].checked
      BY <3>2 DEF OrdersWereChecked, Flying
    <3> QED
      BY <2>2, <3>1, <3>2, OrdersStep DEF PageSteady
  <2> QED
    BY <2>1, <2>2 DEF OrdersWereChecked, Flying
<1> QED
  BY <1>1, <1>2, DialogAlwaysChecked, PTL DEF Spec

\* A text that can be submitted is read as its value, and its total is the value
\* times the price.
LEMMA SubmittableIsRead ==
  ASSUME CoinPageTypeOK, form # None, Submittable(form)
  PROVE  LET value == form.text.value
         IN /\ form.text.kind # "empty" /\ price \in Nat /\ value \in Nat \ {0}
            /\ validation(form).quantity = value /\ validation(form).total = value * price
            /\ value * price >= Scale
            /\ form.type = "BUY" => value * price <= Books.cash * Scale
            /\ form.type = "SELL" => value <= holding(coin.data)
<1> DEFINE cash  == Books.cash
           held  == holding(coin.data)
           t     == form.text
<1>1. /\ t \in TextsWith(Int, Nat) /\ form.type \in Types
      /\ price \in Nat \cup {None} /\ cash \in Nat /\ held \in Nat
  BY FormShowsItsCoin DEF Forms
<1>2. canSubmit(t, form.type, price, cash, held)
  BY DEF Submittable
<1>3. validation(form) = validateTrade(t, form.type, price, cash, held)
  BY DEF validation
<1> HIDE DEF cash, held, t
<1>4. t = [kind |-> t.kind, value |-> t.value, decimals |-> t.decimals]
      /\ t.kind \in {"empty", "junk", "number"} /\ t.value \in Int /\ t.decimals \in Nat
  BY <1>1 DEF TextsWith
<1>5. /\ price # None /\ t.value > 0 /\ t.value * price >= Scale
      /\ form.type = "BUY" => t.value * price <= cash * Scale
      /\ form.type = "SELL" => t.value <= held
  <2>1. canSubmit([kind |-> t.kind, value |-> t.value, decimals |-> t.decimals],
                  form.type, price, cash, held)
    BY <1>2, <1>4
  <2> QED
    BY <1>1, <1>4, <2>1, SubmittedTradesArePayable DEF MIN_TRADE_TOTAL
<1>6. t.kind = "number" /\ t.value # NaN /\ t.value * price \in Int
  BY <1>1, <1>2, <1>4, <1>5, TradeFormAssumption
  DEF canSubmit, validateTrade, parseQuantity, Errors
<1>7. /\ validateTrade(t, form.type, price, cash, held).quantity = t.value
      /\ validateTrade(t, form.type, price, cash, held).total = t.value * price
  BY <1>1, <1>4, <1>5, <1>6, TradeFormAssumption DEF validateTrade, parseQuantity
<1> QED
  BY <1>1, <1>3, <1>4, <1>5, <1>6, <1>7 DEF cash, held, t

\* An order that passed the form's checks, made at the price shown against the
\* portfolio shown, is accepted: the server rounds its total to the cent, and the cash
\* still pays it.  The total and the holding are those the summary announced, and so
\* is the cash, but for the cent of a purchase whose half cent is rounded up twice.
THEOREM PreviewKeepsItsWord == Spec => []PreviewIsTheOutcome
<1>1. PageSteady => PreviewIsTheOutcome
  <2> SUFFICES ASSUME PageSteady, form # None, Submittable(form),
                      validation(form).quantity <= QuantityMax,
                      coin.data = url, portfolio = Len(server)
               PROVE  LET order == Trade(url, form)
                          after == Settled(order, price)
                          shown == Preview(form)
                          short == formatCurrency(shown.balance) - after.cash
                      IN /\ Allowed(order, price)
                         /\ after.held[url] = shown.held
                         /\ formatCurrency(shown.total)
                              = IF form.type = "BUY" THEN Books.cash - after.cash
                                ELSE after.cash - Books.cash
                         /\ short = IF form.type = "BUY" /\ 2 * (shown.total % Scale) = Scale
                                    THEN 1 ELSE 0
    BY Zenon DEF PreviewIsTheOutcome
  <2> DEFINE order == Trade(url, form)
             last  == server[Len(server)]
             value == form.text.value
             total == value * price
             cents == Engine!HalfUp(total, Scale)
  <2>1. CoinPageTypeOK
    BY DEF PageSteady, PageTyped
  <2>2. /\ form \in Forms /\ url \in Coins /\ Books = last
        /\ last \in [cash : Nat, held : [Coins -> Nat]] /\ holding(url) = last.held[url]
    <3>1. last \in [cash : Nat, held : [Coins -> Nat]]
      BY <2>1, FormShowsItsCoin, ElementOfSeq DEF CoinPageTypeOK
    <3> QED
      BY <2>1, <3>1, FormShowsItsCoin DEF Books, holding
  <2>3. /\ order.quantity = value /\ order.type = form.type /\ order.coin = url
        /\ value \in Nat \ {0} /\ price \in Nat /\ form.text.kind # "empty"
        /\ validation(form).quantity = value /\ validation(form).total = total
        /\ total >= Scale /\ value <= QuantityMax
        /\ form.type = "BUY" => total <= last.cash * Scale
        /\ form.type = "SELL" => value <= last.held[url]
    BY <2>1, <2>2, SubmittableIsRead DEF Trade
  <2>4. value # NaN /\ total \in Nat /\ last.cash \in Nat /\ last.cash * Scale \in Nat
        /\ last.held[url] \in Nat /\ form.type \in Types
    BY <2>2, <2>3, TradeFormAssumption DEF Forms
  <2>5. /\ cents \in Nat /\ cents >= 1
        /\ Engine!HalfUp(last.cash * Scale + total, Scale) = last.cash + cents
        /\ total <= last.cash * Scale =>
             /\ cents <= last.cash
             /\ Engine!HalfUp(last.cash * Scale - total, Scale) - (last.cash - cents)
                  = IF 2 * (total % Scale) = Scale THEN 1 ELSE 0
    <3> HIDE DEF total, last
    <3> QED
      BY <2>3, <2>4, RoundedTotals
  <2>6. Engine!compute_total(order.quantity, price) = cents
    BY <2>3 DEF Engine!compute_total
  <2>7. Allowed(order, price)
    <3>1. Engine!validate_quantity(value)
      <4>1. value % 1 = 0 /\ QuantityMax * 1 = QuantityMax
        BY <2>3, CoinPageAssumption
      <4> QED
        BY <2>3, <4>1 DEF Engine!validate_quantity
    <3> HIDE DEF order, value, cents, total
    <3> QED
      BY <2>3, <2>4, <2>5, <2>6, <3>1 DEF Allowed, Engine!MinTotal
  <2>8. Preview(form) = [total |-> total, balance |-> balanceAfter(form),
                         held |-> IF heldAfter(form) # NaN /\ heldAfter(form) < 0
                                  THEN 0 ELSE heldAfter(form)]
    BY <2>3 DEF Preview
  <2>9. /\ balanceAfter(form) = IF form.type = "BUY" THEN last.cash * Scale - total
                                ELSE last.cash * Scale + total
        /\ heldAfter(form) = IF form.type = "BUY" THEN last.held[url] + value
                             ELSE last.held[url] - value
    <3> HIDE DEF value, total, last
    <3> QED
      BY <2>1, <2>2, <2>3, <2>4 DEF balanceAfter, heldAfter
  <2>10. heldAfter(form) \in Nat
    <3> DEFINE held == last.held[url]
    <3>1. held \in Nat /\ value \in Nat /\ (form.type = "SELL" => value <= held)
      BY <2>3, <2>4
    <3>2. heldAfter(form) = IF form.type = "BUY" THEN held + value ELSE held - value
      BY <2>9
    <3>3. form.type = "BUY" \/ form.type = "SELL"
      BY <2>4 DEF Types
    <3> HIDE DEF held, value, last, total, cents, order
    <3>4. CASE form.type = "BUY"
      <4>1. heldAfter(form) = held + value
        BY <3>2, <3>4
      <4> QED
        BY <3>1, <4>1
    <3>5. CASE form.type = "SELL"
      <4>1. heldAfter(form) = held - value
        BY <3>2, <3>5
      <4> QED
        BY <3>1, <3>5, <4>1
    <3> QED
      BY <3>3, <3>4, <3>5
  <2>11. Settled(order, price)
           = IF form.type = "BUY"
             THEN [cash |-> last.cash - cents, held |-> [last.held EXCEPT ![url] = @ + value]]
             ELSE [cash |-> last.cash + cents, held |-> [last.held EXCEPT ![url] = @ - value]]
    <3> HIDE DEF order, value, cents
    <3> QED
      BY <2>3, <2>6 DEF Settled, Moved
  <2>12. Settled(order, price).held[url] = Preview(form).held
    <3>1. url \in DOMAIN last.held
      BY <2>2
    <3> HIDE DEF order, value, cents, last, total
    <3> QED
      BY <2>3, <2>4, <2>8, <2>9, <2>10, <2>11, <3>1, TradeFormAssumption DEF Types
  <2>13. Settled(order, price).cash = IF form.type = "BUY" THEN last.cash - cents
                                      ELSE last.cash + cents
    <3> HIDE DEF order, value, cents, last
    <3> QED
      BY <2>11
  <2>14. Preview(form).total = total /\ Preview(form).balance = balanceAfter(form)
    BY <2>8
  <2>15. formatCurrency(Preview(form).total) = cents
    BY <2>14 DEF formatCurrency
  <2>16. formatCurrency(Preview(form).balance) - Settled(order, price).cash
           = IF form.type = "BUY" /\ 2 * (Preview(form).total % Scale) = Scale THEN 1 ELSE 0
    <3> HIDE DEF order, cents, last, total
    <3>1. CASE form.type = "BUY"
      BY <2>3, <2>5, <2>9, <2>13, <2>14, <3>1 DEF formatCurrency, cents
    <3>2. CASE form.type # "BUY"
      BY <2>4, <2>5, <2>9, <2>13, <2>14, <3>2 DEF formatCurrency
    <3> QED
      BY <3>1, <3>2
  <2>17. formatCurrency(Preview(form).total)
           = IF form.type = "BUY" THEN Books.cash - Settled(order, price).cash
             ELSE Settled(order, price).cash - Books.cash
    <3> HIDE DEF order, cents, last
    <3> QED
      BY <2>2, <2>4, <2>5, <2>13, <2>15
  <2> QED
    BY <2>7, <2>12, <2>16, <2>17
<1>2. Init => PageSteady
  BY TypedInit DEF PageSteady
<1> QED
  BY <1>1, <1>2, SteadyStep, PTL DEF Spec

-----------------------------------------------------------------------------
(* One trade per form.                                                     *)

\* A form in flight has one trade, and its dialog.
FormHasItsTrade ==
  /\ \A s, t \in LiveTrades : s = t
  /\ LiveTrades # {} <=> form # None /\ form.submitting
  /\ form # None /\ form.submitting => form.confirmOpen

\* A form that is gone has no trade left, and a new one has none yet.
LEMMA TradesDetached ==
  ASSUME NEW reqs \in [Slots -> Sent \cup {None}],
         requests' = [s \in Slots |-> Detached(reqs[s])], form' \in {None, NewForm}
  PROVE  FormHasItsTrade'
<1>1. ASSUME NEW s \in Slots, requests'[s] # None, requests'[s].op = "trade", requests'[s].live
      PROVE  FALSE
  <2>1. requests'[s] = Detached(reqs[s]) /\ reqs[s] \in Sent /\ reqs[s] # None
    BY <1>1, DetachedType
  <2>2. reqs[s] \in Orders /\ reqs[s].op = "trade"
    BY <1>1, <2>1, DetachedType DEF Sent, Orders, Refreshes
  <2> QED
    BY <1>1, <2>1, <2>2 DEF Detached, Orders
<1>2. LiveTrades' = {}
  BY <1>1 DEF LiveTrades, Flying
<1>3. form' # None => ~form'.submitting
  BY NewFormType
<1> QED
  BY <1>2, <1>3 DEF FormHasItsTrade

\* Nothing changes of a form in flight but what it holds.
LEMMA TradesKept ==
  ASSUME FormHasItsTrade, LiveTrades' = LiveTrades, form # None <=> form' # None,
         form # None => (form'.submitting <=> form.submitting)
                        /\ (form.submitting => form'.confirmOpen)
  PROVE  FormHasItsTrade'
BY DEF FormHasItsTrade

\* The answer of its trade frees a form; no other answer does.
LEMMA AnsweredTrade ==
  ASSUME PageTyped, FormHasItsTrade, NEW s \in Slots, requests[s] # None, NEW c,
         form # None =>
           /\ c \in Forms
           /\ c.submitting <=> form.submitting /\ s \notin LiveTrades
           /\ c.submitting => c.confirmOpen,
         Renders(IF form = None THEN None ELSE c, Without(s))
  PROVE  FormHasItsTrade'
<1>1. requests \in [Slots -> Sent \cup {None}]
  BY DEF PageTyped, RequestsOK
<1>2. Without(s) \in [Slots -> Sent \cup {None}]
  BY <1>1 DEF Without
<1>3. CASE form # None /\ form' = c /\ requests' = Without(s)
  <2>1. LiveTrades' = LiveTrades \ {s}
    BY <1>1, <1>3 DEF LiveTrades, Flying, Without
  <2>2. form' # None
    BY <1>3, NoneIsNothing
  <2> QED
    BY <1>3, <2>1, <2>2 DEF FormHasItsTrade
<1>4. CASE /\ requests' = [t \in Slots |-> Detached(Without(s)[t])]
           /\ form' \in {None, NewForm}
  BY <1>2, <1>4, TradesDetached
<1> QED
  BY <1>3, <1>4, RendersSameOrOther

\* Every step keeps form and trade together.
LEMMA FormAndTradeStep ==
  ASSUME PageTyped, FormHasItsTrade, Next
  PROVE  FormHasItsTrade'
<1>1. /\ form # None => form \in Forms
      /\ requests \in [Slots -> Sent \cup {None}]
  BY FormShowsItsCoin DEF PageTyped, RequestsOK
<1>2. ASSUME requests' = requests  PROVE LiveTrades' = LiveTrades
  BY <1>2 DEF LiveTrades, Flying
<1>3. CASE \/ \E t \in Typed : TypeText(t)
           \/ \E type \in Types : switchType(type)
           \/ \E percentage \in Percentages : Fill(percentage)
           \/ handleSubmit \/ Dismiss
  <2>1. /\ form # None /\ UNCHANGED <<url, coin, portfolio, requests>>
        /\ form'.submitting = form.submitting
        /\ form.submitting /\ form.confirmOpen => form'.confirmOpen
    BY <1>1, <1>3
    DEF TypeText, switchType, Fill, handleSubmit, Dismiss, Edit, onClose, Forms
  <2>2. form' # None
    BY <1>3, <2>1, TypedByTheForm DEF PageTyped, CoinPageTypeOK
  <2> QED
    BY <1>2, <2>1, <2>2, TradesKept DEF FormHasItsTrade
<1>4. CASE confirm
  <2> DEFINE order == Trade(url, form)
  <2>1. form # None /\ form \in Forms /\ ~form.submitting /\ LiveTrades = {}
    BY <1>1, <1>4 DEF confirm, FormHasItsTrade
  <2>2. PICK m \in Slots : requests' = [requests EXCEPT ![m] = order]
    BY <1>4, SendFillsAFreeSlot DEF confirm
  <2>3. order \in Orders /\ order # None /\ order.op = "trade" /\ order.live
    <3>1. order \in Orders /\ order.op = "trade"
      BY <2>1, TradeType DEF PageTyped
    <3>2. order.live = TRUE
      BY DEF Trade
    <3> QED
      BY <3>1, <3>2, NoneIsNothing
  <2> HIDE DEF order
  <2>4. LiveTrades' = {m}
    <3>1. \A s \in Slots : ~(requests[s] # None /\ requests[s].op = "trade" /\ requests[s].live)
      BY <2>1 DEF LiveTrades, Flying
    <3>2. \A s \in Slots : requests'[s] = IF s = m THEN order ELSE requests[s]
      BY <1>1, <2>2
    <3> QED
      BY <2>3, <3>1, <3>2 DEF LiveTrades, Flying
  <2>5. form' \in Forms /\ form' # None /\ form'.submitting /\ form'.confirmOpen
    <3>1. form' \in Forms /\ form'.submitting /\ form'.confirmOpen
      BY <1>4, <2>1 DEF confirm, Forms
    <3> QED
      BY <3>1, NoneIsNothing
  <2> QED
    BY <2>4, <2>5 DEF FormHasItsTrade
<1>5. ASSUME NEW s \in Slots, Serve(s)  PROVE FormHasItsTrade'
  <2>1. requests[s] \in Sent /\ requests[s] # None /\ form' = form
    BY <1>1, <1>5 DEF Serve
  <2>2. PageTyped'
    BY <1>5, TypedByServing
  <2>3. PICK k \in Nat : requests' = [requests EXCEPT ![s].answer = k]
    <3>1. PICK k \in {0, Len(server), Len(server')} : requests' = [requests EXCEPT ![s].answer = k]
      BY <1>5 DEF Serve
    <3>2. k \in Nat
      BY <2>2 DEF PageTyped, CoinPageTypeOK
    <3> QED
      BY <3>1, <3>2
  <2>4. requests'[s] = [requests[s] EXCEPT !.answer = k]
    BY <1>1, <2>3
  <2>5. requests'[s] # None
    <3>1. requests'[s] \in Sent
      BY <2>1, <2>4 DEF Sent, Orders, Refreshes
    <3> QED
      BY <3>1, NoneIsNothing DEF Sent
  <2>6. /\ requests'[s].op = requests[s].op
        /\ requests[s].op = "trade" => requests'[s].live = requests[s].live
    BY <2>1, <2>4 DEF Sent, Orders, Refreshes
  <2>7. LiveTrades' = LiveTrades
    BY <1>1, <2>1, <2>3, <2>5, <2>6 DEF LiveTrades, Flying
  <2> QED
    BY <2>1, <2>7, TradesKept DEF FormHasItsTrade
<1>6. ASSUME NEW s \in Slots, NEW failed \in BOOLEAN, requests[s] # None, form # None
      PROVE  LET c == Concluded(form, requests[s], failed)
                 d == Overtaken(c)
             IN /\ c \in Forms /\ d \in Forms
                /\ c.submitting <=> form.submitting /\ s \notin LiveTrades
                /\ d.submitting <=> form.submitting /\ s \notin LiveTrades
                /\ c.submitting => c.confirmOpen
                /\ d.submitting => d.confirmOpen
  <2> DEFINE c == Concluded(form, requests[s], failed)
             d == Overtaken(c)
             mine == requests[s].op = "trade" /\ requests[s].live
  <2>1. c \in Forms /\ d \in Forms
    BY <1>1, <1>6, ConcludedType
  <2>2. s \in LiveTrades <=> mine
    BY <1>6 DEF LiveTrades, Flying
  <2>3. ASSUME mine  PROVE ~c.submitting /\ ~d.submitting
    <3>1. ~c.submitting
      BY <1>1, <1>6, <2>3 DEF Concluded, Forms
    <3> HIDE DEF c
    <3> QED
      BY <2>1, <3>1 DEF Overtaken, Forms
  <2>4. ASSUME ~mine
        PROVE  c = form /\ d.submitting = form.submitting /\ d.confirmOpen = form.confirmOpen
    <3>1. c = form
      BY <2>4 DEF Concluded
    <3> HIDE DEF c
    <3> QED
      BY <2>1, <3>1 DEF Overtaken, Forms
  <2>5. /\ c.submitting <=> form.submitting /\ s \notin LiveTrades
        /\ d.submitting <=> form.submitting /\ s \notin LiveTrades
        /\ c.submitting => c.confirmOpen
        /\ d.submitting => d.confirmOpen
    <3> HIDE DEF c, d, mine
    <3> QED
      BY <1>6, <2>2, <2>3, <2>4 DEF FormHasItsTrade
  <2> QED
    BY <2>1, <2>5
<1>7. ASSUME NEW s \in Slots, Deliver(s)  PROVE FormHasItsTrade'
  <2> DEFINE d == Overtaken(Concluded(form, requests[s], FALSE))
  <2>1. requests[s] # None /\ Renders(IF form = None THEN None ELSE d, Without(s))
    BY Zenon, <1>7 DEF Deliver
  <2>2. form # None => /\ d \in Forms
                       /\ d.submitting <=> form.submitting /\ s \notin LiveTrades
                       /\ d.submitting => d.confirmOpen
    BY <1>6, <2>1
  <2> HIDE DEF d
  <2> QED
    BY <2>1, <2>2, AnsweredTrade
<1>8. ASSUME NEW s \in Slots, Fail(s)  PROVE FormHasItsTrade'
  <2> DEFINE c == Concluded(form, requests[s], TRUE)
  <2>1. requests[s] # None /\ Renders(IF form = None THEN None ELSE c, Without(s))
    BY Zenon, <1>8 DEF Fail
  <2>2. form # None => /\ c \in Forms
                       /\ c.submitting <=> form.submitting /\ s \notin LiveTrades
                       /\ c.submitting => c.confirmOpen
    BY <1>6, <2>1
  <2> HIDE DEF c
  <2> QED
    BY <2>1, <2>2, AnsweredTrade
<1>9. ASSUME NEW f, Renders(f, requests), form # None => f \in {form, Overtaken(form)}
      PROVE  FormHasItsTrade'
  <2>1. CASE form # None /\ form' = f /\ requests' = requests
    <3>1. /\ f \in Forms /\ f.submitting = form.submitting
          /\ f.confirmOpen = form.confirmOpen
      BY <1>1, <1>9, <2>1 DEF Overtaken, Forms
    <3>2. form' # None
      BY <2>1, <3>1, NoneIsNothing
    <3> QED
      BY <1>2, <2>1, <3>1, <3>2, TradesKept DEF FormHasItsTrade
  <2>2. CASE /\ requests' = [s \in Slots |-> Detached(requests[s])]
             /\ form' \in {None, NewForm}
    BY <1>1, <2>2, TradesDetached
  <2> QED
    BY <1>9, <2>1, <2>2, RendersSameOrOther
<1>10. ASSUME NEW reqs \in [Slots -> Sent \cup {None}], Renders(None, reqs),
              form = None \/ url' = None
       PROVE  FormHasItsTrade'
  <2>1. /\ requests' = [s \in Slots |-> Detached(reqs[s])]
        /\ form' \in {None, NewForm}
    BY <1>10, RendersSameOrOther
  <2> QED
    BY <1>10, <2>1, TradesDetached
<1>11. CASE CoinAnswers \/ CoinAnswersLate \/ \E c \in Coins : GoTo(c)
  <2>1. \E f : Renders(f, requests) /\ (form # None => f \in {form, Overtaken(form)})
    BY <1>11 DEF CoinAnswers, CoinAnswersLate, GoTo
  <2> QED
    BY <1>9, <2>1
<1>12. CASE Leave \/ SeePortfolio
  <2> DEFINE left == [s \in Slots |-> Left(requests[s])]
  <2>1. left \in [Slots -> Sent \cup {None}]
    BY <1>1, LeaveIsQuiet
  <2>2. Renders(None, left) /\ url' = None
    BY <1>12 DEF Leave, SeePortfolio
  <2> HIDE DEF left
  <2> QED
    BY <1>10, <2>1, <2>2
<1>13. ASSUME NEW c \in Coins, Open(c)  PROVE FormHasItsTrade'
  <2>1. form = None
    BY <1>13 DEF Open, PageTyped, CoinPageTypeOK
  <2> QED
    BY <1>1, <1>10, <1>13, <2>1, RefreshIsQuiet DEF Open
<1>14. CASE RetryCoin
  BY <1>2, <1>14 DEF RetryCoin, FormHasItsTrade
<1>15. CASE RetryPortfolio
  <2>1. form = None /\ form' = None /\ requests' = Send(requests, Refresh(FALSE))
    BY <1>15 DEF RetryPortfolio, PageTyped, CoinPageTypeOK
  <2>2. LiveTrades' \subseteq LiveTrades
    BY <1>1, <1>15, <2>1, RefreshIsQuiet
    DEF RetryPortfolio, LiveTrades, Flying, Keeps
  <2> QED
    BY <2>1, <2>2 DEF FormHasItsTrade
<1> QED
  BY <1>3, <1>4, <1>5, <1>7, <1>8, <1>11, <1>12, <1>13, <1>14, <1>15 DEF Next, Answer

\* A form in flight has exactly one trade, its own, and keeps its dialog open: no
\* double click sends another, and no other answer frees it.
THEOREM FormsTradeOnce == Spec => []OneTradePerForm
<1>1. FormHasItsTrade => OneTradePerForm
  <2> SUFFICES ASSUME FormHasItsTrade  PROVE Cardinality(LiveTrades) <= 1
    BY DEF FormHasItsTrade, OneTradePerForm
  <2>1. CASE LiveTrades = {}
    BY <2>1, FS_EmptySet
  <2>2. CASE LiveTrades # {}
    <3>1. PICK s : LiveTrades = {s}
      BY <2>2 DEF FormHasItsTrade
    <3>2. Cardinality({s}) = 1
      BY FS_Singleton
    <3> QED
      BY <3>1, <3>2
  <2> QED
    BY <2>1, <2>2
<1>2. Init => FormHasItsTrade
  BY DEF Init, FormHasItsTrade, LiveTrades, Flying
<1>3. PageSteady /\ FormHasItsTrade /\ [Next]_vars => FormHasItsTrade'
  <2>1. FormHasItsTrade /\ UNCHANGED vars => FormHasItsTrade'
    BY DEF vars, FormHasItsTrade, LiveTrades, Flying
  <2> QED
    BY <2>1, FormAndTradeStep DEF PageSteady
<1> QED
  BY <1>1, <1>2, <1>3, DialogAlwaysChecked, PTL DEF Spec

-----------------------------------------------------------------------------
(* The portfolio shown.                                                    *)

\* The trade whose answer brings the newest portfolio is still on its way.
NewestIsComing ==
  \E s \in Flying("trade") : requests[s].answer = Len(server)

\* Before the first portfolio there is no form, so no trade was ever sent; after
\* it, an old one is shown only while a newer is coming, or for a reason.
PortfolioIsExcused ==
  /\ portfolio = 0 => Len(server) = 1 /\ Flying("trade") = {}
  /\ portfolio \notin {0, Len(server)} /\ excuses = {} => NewestIsComing

\* A quiet step that keeps the portfolio and every trade keeps its excuse.
LEMMA ExcuseKept ==
  ASSUME PageTyped, PortfolioIsExcused, QuietStep, portfolio' = portfolio,
         excuses = {} \/ excuses' # {},
         NEW gone, gone \in Slots => excuses' # {} \/ requests[gone].op # "trade"
                                     \/ requests[gone].answer # Len(server),
         \A s \in Slots \ {gone} : s \in Flying("trade") => requests'[s] # None
  PROVE  PortfolioIsExcused'
<1>1. requests \in [Slots -> Sent \cup {None}] /\ server' = server
  BY DEF PageTyped, RequestsOK, QuietStep
<1>2. Flying("trade")' \subseteq Flying("trade")
  <2>1. ASSUME NEW s \in Slots, requests'[s] # None, requests'[s].op = "trade"
        PROVE  requests[s] # None /\ requests[s].op = "trade"
    BY <1>1, <2>1, QuietOrder, NoneIsNothing DEF QuietStep, Orders
  <2> QED
    BY <2>1 DEF Flying
<1>3. ASSUME NEW s \in Slots, s \in Flying("trade"), requests'[s] # None
      PROVE  s \in Flying("trade")' /\ requests'[s].answer = requests[s].answer
  <2>1. /\ requests[s] # None /\ requests[s].op = "trade" /\ requests[s] \in Sent
        /\ requests'[s] \in {requests[s], Detached(requests[s])}
    BY <1>1, <1>3 DEF Flying, QuietStep, Quiet, Keeps
  <2> QED
    BY <1>3, <2>1, DetachedType DEF Flying
<1>4. ASSUME NewestIsComing, excuses' = {}  PROVE NewestIsComing'
  <2>1. PICK s \in Flying("trade") : requests[s].answer = Len(server)
    BY <1>4 DEF NewestIsComing
  <2>2. s \in Slots /\ s # gone /\ requests[s].op = "trade"
    BY <1>4, <2>1 DEF Flying
  <2> QED
    BY <1>1, <1>3, <2>1, <2>2 DEF NewestIsComing
<1> QED
  BY <1>1, <1>2, <1>4 DEF PortfolioIsExcused

\* A render loses no trade.
LEMMA TradesStay ==
  ASSUME NEW f, NEW reqs \in [Slots -> Sent \cup {None}], Renders(f, reqs),
         NEW s \in Slots, reqs[s] # None
  PROVE  requests'[s] # None
BY RendersSameOrOther, DetachedType

\* Nothing is in flight at first, and nothing is shown.
LEMMA PortfolioInit == Init => PortfolioIsExcused
BY DEF Init, PortfolioIsExcused, Flying

\* Every step that makes the portfolio shown an old one leaves its newer one on
\* the way, or a reason.
LEMMA PortfolioStep ==
  ASSUME PageTyped, PortfolioIsExcused, Next
  PROVE  PortfolioIsExcused'
<1>1. /\ requests \in [Slots -> Sent \cup {None}] /\ RequestsOK(requests, Len(server))
      /\ Len(server) \in Nat \ {0} /\ portfolio \in 0 .. Len(server)
      /\ form # None => portfolio # 0
  BY DEF PageTyped, RequestsOK, CoinPageTypeOK
<1>2. CASE confirm
  <2> DEFINE order == Trade(url, form)
  <2>1. PICK m \in Slots : requests[m] = None /\ requests' = [requests EXCEPT ![m] = order]
    BY <1>2, SendFillsAFreeSlot DEF confirm
  <2>2. portfolio # 0 /\ UNCHANGED <<portfolio, server, excuses>>
    BY <1>1, <1>2 DEF confirm
  <2> HIDE DEF order
  <2>3. NewestIsComing => NewestIsComing'
    BY <1>1, <2>1, <2>2 DEF NewestIsComing, Flying
  <2> QED
    BY <2>2, <2>3 DEF PortfolioIsExcused
<1>3. ASSUME NEW s \in Slots, Serve(s)  PROVE PortfolioIsExcused'
  <2>1. requests[s] # None /\ requests[s] \in Sent /\ requests[s].answer = None
        /\ UNCHANGED <<portfolio, excuses>>
    BY <1>1, <1>3 DEF Serve
  <2>2. ASSUME NEW k \in Nat, requests' = [requests EXCEPT ![s].answer = k]
        PROVE  /\ \A t \in Slots \ {s} : requests'[t] = requests[t]
               /\ requests'[s].op = requests[s].op /\ requests'[s].answer = k
               /\ requests'[s] # None
               /\ Flying("trade")' = Flying("trade")
    <3>1. requests'[s] = [requests[s] EXCEPT !.answer = k]
      BY <1>1, <2>2
    <3>2. requests'[s] \in Sent
      BY <2>1, <3>1 DEF Sent, Orders, Refreshes
    <3>3. requests'[s] # None
      BY <3>2, NoneIsNothing DEF Sent
    <3>4. requests'[s].op = requests[s].op /\ requests'[s].answer = k
      BY <2>1, <3>1 DEF Sent, Orders, Refreshes
    <3>5. \A t \in Slots \ {s} : requests'[t] = requests[t]
      BY <1>1, <2>2
    <3> QED
      BY <2>1, <3>3, <3>4, <3>5 DEF Flying
  <2>3. ASSUME NEW k \in Nat, server' = server, requests' = [requests EXCEPT ![s].answer = k]
        PROVE  PortfolioIsExcused'
    <3>1. Len(server) # None
      BY <1>1, TradeFormAssumption
    <3>2. NewestIsComing => NewestIsComing'
      BY <2>1, <2>2, <2>3, <3>1 DEF NewestIsComing, Flying
    <3> QED
      BY <2>1, <2>2, <2>3, <3>2 DEF PortfolioIsExcused
  <2>4. ASSUME requests[s].op = "trade", NEW b, server' = Append(server, b),
               requests' = [requests EXCEPT ![s].answer = Len(server')]
        PROVE  PortfolioIsExcused'
    <3>1. Len(server') \in Nat
      BY <1>3, TypedByServing DEF PageTyped, CoinPageTypeOK
    <3>2. s \in Flying("trade")
      BY <2>1, <2>4 DEF Flying, Sent, Orders, Refreshes
    <3>3. s \in Flying("trade")' /\ requests'[s].answer = Len(server')
      BY <2>2, <2>4, <3>1, <3>2
    <3>4. portfolio # 0
      BY <3>2 DEF PortfolioIsExcused
    <3> QED
      BY <2>1, <3>3, <3>4 DEF PortfolioIsExcused, NewestIsComing
  <2> QED
    BY <1>1, <1>3, <2>3, <2>4 DEF Serve
<1>4. ASSUME OtherStep, UNCHANGED <<portfolio, excuses>>,
             \A s \in Slots : requests[s] # None /\ requests[s].op = "trade" => requests'[s] # None
      PROVE  PortfolioIsExcused'
  <2>1. 0 \notin Slots
    BY DEF Slots
  <2>2. QuietStep
    BY <1>4, MostStepsAreQuiet DEF PageTyped
  <2> QED
    BY <1>4, <2>1, <2>2, ExcuseKept DEF Flying
<1>5. ASSUME NEW s \in Slots, Deliver(s)  PROVE PortfolioIsExcused'
  <2>1. OtherStep
    BY <1>5 DEF OtherStep, Answer
  <2>2. QuietStep
    BY <2>1, MostStepsAreQuiet DEF PageTyped
  <2>3. /\ requests[s] # None /\ requests[s].answer \in 1 .. Len(server)
        /\ portfolio' = requests[s].answer /\ server' = server
    BY <1>1, <1>5 DEF Deliver, RequestsOK
  <2>4. CASE portfolio' = Len(server)
    BY <1>1, <2>3, <2>4 DEF PortfolioIsExcused
  <2>5. CASE portfolio' # Len(server) /\ excuses' # {}
    BY <1>1, <2>3, <2>5 DEF PortfolioIsExcused
  <2>6. CASE portfolio' # Len(server) /\ excuses' = {}
    <3>1. excuses = {} /\ ~(portfolio' < portfolio)
      BY <1>5, <2>6 DEF Deliver
    <3>2. portfolio \notin {0, Len(server)}
      <4>1. /\ portfolio' \in 1 .. Len(server) /\ portfolio' # Len(server)
            /\ portfolio = 0 => Len(server) = 1
        BY <2>3, <2>6 DEF PortfolioIsExcused
      <4> QED
        BY <1>1, <3>1, <4>1
    <3>3. PICK t \in Flying("trade") : requests[t].answer = Len(server)
      BY <3>1, <3>2 DEF PortfolioIsExcused, NewestIsComing
    <3>4. t \in Slots /\ t # s /\ requests[t] # None /\ requests[t].op = "trade"
          /\ requests[t] \in Sent
      BY <1>1, <2>3, <2>6, <3>3 DEF Flying
    <3>5. requests'[t] # None
      <4>1. PICK f : Renders(f, Without(s))
        BY <1>5 DEF Deliver
      <4>2. Without(s) \in [Slots -> Sent \cup {None}] /\ Without(s)[t] = requests[t]
        BY <1>1, <3>4 DEF Without
      <4> QED
        BY <3>4, <4>1, <4>2, TradesStay
    <3>6. requests'[t] \in {requests[t], Detached(requests[t])}
      BY <3>4, <3>5, <2>2 DEF QuietStep, Quiet, Keeps
    <3>7. requests'[t].op = "trade" /\ requests'[t].answer = Len(server)
      BY <3>3, <3>4, <3>6, DetachedType
    <3> QED
      BY <2>3, <3>4, <3>5, <3>7 DEF PortfolioIsExcused, NewestIsComing, Flying
  <2> QED
    BY <2>4, <2>5, <2>6
<1>6. ASSUME NEW s \in Slots, Fail(s)  PROVE PortfolioIsExcused'
  <2>1. OtherStep
    BY <1>6 DEF OtherStep, Answer
  <2>2. QuietStep
    BY <2>1, MostStepsAreQuiet DEF PageTyped
  <2>3. requests[s] # None /\ portfolio' = portfolio
    BY <1>6 DEF Fail
  <2>4. excuses = {} \/ excuses' # {}
    BY <1>6 DEF Fail
  <2>5. excuses' # {} \/ requests[s].op # "trade" \/ requests[s].answer # Len(server)
    <3>1. Len(server) \notin {None, 0}
      BY <1>1, TradeFormAssumption
    <3> QED
      BY <1>6, <3>1 DEF Fail
  <2>6. ASSUME NEW t \in Slots \ {s}, t \in Flying("trade")  PROVE requests'[t] # None
    <3>1. PICK f : Renders(f, Without(s))
      BY <1>6 DEF Fail
    <3>2. /\ Without(s) \in [Slots -> Sent \cup {None}] /\ Without(s)[t] = requests[t]
          /\ requests[t] # None
      BY <1>1, <2>6 DEF Without, Flying
    <3> QED
      BY <3>1, <3>2, TradesStay
  <2> QED
    BY <2>2, <2>3, <2>4, <2>5, <2>6, ExcuseKept
<1>7. ASSUME NEW f, NEW reqs \in [Slots -> Sent \cup {None}], Renders(f, reqs),
             NEW s \in Slots, requests[s] # None, requests[s].op = "trade",
             reqs[s] = requests[s]
      PROVE  requests'[s] # None
  BY <1>7, TradesStay
<1>8. CASE CoinAnswers \/ CoinAnswersLate \/ \E c \in Coins : GoTo(c)
  <2>1. (\E f : Renders(f, requests)) /\ UNCHANGED <<portfolio, excuses>> /\ OtherStep
    BY <1>8 DEF OtherStep, CoinAnswers, CoinAnswersLate, GoTo
  <2> QED
    BY <1>1, <1>4, <1>7, <2>1
<1>9. CASE Leave \/ SeePortfolio
  <2> DEFINE left == [s \in Slots |-> Left(requests[s])]
  <2>1. left \in [Slots -> Sent \cup {None}]
    BY <1>1, LeaveIsQuiet
  <2>2. \A s \in Slots : requests[s] # None /\ requests[s].op = "trade" => left[s] = requests[s]
    BY <1>1, LeaveIsQuiet
  <2>3. Renders(None, left) /\ UNCHANGED <<portfolio, excuses>> /\ OtherStep
    BY <1>9 DEF Leave, SeePortfolio, OtherStep
  <2> HIDE DEF left
  <2> QED
    BY <1>4, <1>7, <2>1, <2>2, <2>3
<1>10. ASSUME NEW c \in Coins, Open(c)  PROVE PortfolioIsExcused'
  <2>1. Renders(None, Send(requests, Refresh(TRUE))) /\ UNCHANGED <<portfolio, excuses>>
        /\ OtherStep /\ Free(requests) # {}
    BY <1>10 DEF Open, OtherStep
  <2> QED
    BY <1>1, <1>4, <1>7, <2>1, RefreshIsQuiet
<1>11. CASE RetryPortfolio
  <2>1. /\ requests' = Send(requests, Refresh(FALSE)) /\ Free(requests) # {} /\ OtherStep
        /\ UNCHANGED <<portfolio, excuses>>
    BY <1>11 DEF RetryPortfolio, OtherStep
  <2> QED
    BY <1>1, <1>4, <2>1, RefreshIsQuiet
<1>12. ASSUME UNCHANGED <<requests, portfolio, excuses>>, OtherStep  PROVE PortfolioIsExcused'
  BY <1>4, <1>12
<1>13. CASE \/ RetryCoin \/ handleSubmit \/ Dismiss
            \/ \E t \in Typed : TypeText(t)
            \/ \E type \in Types : switchType(type)
            \/ \E percentage \in Percentages : Fill(percentage)
  <2>1. OtherStep /\ UNCHANGED <<requests, portfolio, excuses>>
    BY <1>13
    DEF OtherStep, RetryCoin, handleSubmit, Dismiss, TypeText, switchType, Fill, Edit
  <2> QED
    BY <1>12, <2>1
<1> QED
  BY <1>2, <1>3, <1>5, <1>6, <1>8, <1>9, <1>10, <1>11, <1>13 DEF Next, Answer

\* When nothing is in flight, the portfolio on screen is the newest the server has,
\* unless an older answer overtook a newer one or the answer to a trade was lost.
THEOREM PortfolioShownIsCurrent == Spec => []ShownPortfolioIsCurrent
<1>1. PortfolioIsExcused => ShownPortfolioIsCurrent
  BY DEF PortfolioIsExcused, NewestIsComing, Flying, ShownPortfolioIsCurrent
<1>2. PageSteady /\ PortfolioIsExcused /\ [Next]_vars => PortfolioIsExcused'
  <2>1. PortfolioIsExcused /\ UNCHANGED vars => PortfolioIsExcused'
    BY DEF vars, PortfolioIsExcused, NewestIsComing, Flying
  <2> QED
    BY <2>1, PortfolioStep DEF PageSteady
<1> QED
  BY <1>1, <1>2, PortfolioInit, DialogAlwaysChecked, PTL DEF Spec
=============================================================================
