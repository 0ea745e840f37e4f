-------------------------- MODULE CoinGeckoProofs --------------------------
(***************************************************************************)
(* The CoinGecko client, for any keys, coins, number of requests, size of  *)
(* the cache and of the semaphore: a cache within its limit, one fetch per *)
(* key whose end reaches every follower, no answer older than one seen     *)
(* before the request began, no price left out in silence.                 *)
(***************************************************************************)
EXTENDS CoinGecko, FiniteSetTheorems, SequenceTheorems, WellFoundedInduction, TLAPS

(***************************************************************************)
(* Induction: a non-empty set of natural numbers has a least element.      *)
(***************************************************************************)

\* What holds of every natural number is shown by its least exception.
LEMMA LeastNatural ==
  ASSUME NEW T \in SUBSET Nat, T # {}
  PROVE  \E x \in T : \A y \in T : x <= y
<1>1. IsWellFoundedOn(OpToRel(<, Nat), Nat)
  BY NatLessThanWellFounded
<1>2. PICK x \in T : \A y \in T : <<y, x>> \notin OpToRel(<, Nat)
  BY <1>1, WFMin
<1>3. ASSUME NEW y \in T, y < x PROVE <<y, x>> \in OpToRel(<, Nat)
  <2>1. y \in Nat /\ x \in Nat
    OBVIOUS
  <2> QED
    BY <1>3, <2>1, Zenon DEF OpToRel
<1>4. \A y \in T : ~(y < x)
  BY <1>2, <1>3
<1> QED
  BY <1>4

-----------------------------------------------------------------------------
(***************************************************************************)
(* The cache.                                                              *)
(***************************************************************************)

\* The limits are positive, the counters natural numbers.
LEMMA Limits ==
  /\ MaxEntries \in Nat /\ MaxEntries >= 1 /\ MaxMoves \in Nat /\ MaxRetries \in Nat
  /\ \A k \in Keys : k \notin Coins
BY CoinGeckoAssumption

\* A strict subset of a finite set has fewer elements.
LEMMA FewerElements ==
  ASSUME NEW S, IsFiniteSet(S), NEW T \in SUBSET S, NEW x \in S, x \notin T
  PROVE  /\ IsFiniteSet(T) /\ Cardinality(T) \in Nat /\ Cardinality(S) \in Nat
         /\ Cardinality(T) + 1 <= Cardinality(S)
<1>1. IsFiniteSet(S \ {x}) /\ Cardinality(S \ {x}) = Cardinality(S) - 1
  BY FS_RemoveElement
<1>2. T \subseteq S \ {x}
  OBVIOUS
<1>3. IsFiniteSet(T) /\ Cardinality(T) <= Cardinality(S \ {x})
  BY <1>1, <1>2, FS_Subset
<1>4. Cardinality(T) \in Nat /\ Cardinality(S) \in Nat
  BY <1>3, FS_CardinalityType
<1> QED
  BY <1>1, <1>3, <1>4

\* The keys that stay when k is stored.
Staying(c, k) ==
  IF Cardinality(DOMAIN c) >= MaxEntries /\ k \notin DOMAIN c THEN evict(c) ELSE DOMAIN c \ {k}

\* They leave room for k.
LEMMA StayingLeavesRoom ==
  ASSUME NEW c, IsCache(c), NEW k
  PROVE  /\ Staying(c, k) \subseteq DOMAIN c \ {k}
         /\ IsFiniteSet(Staying(c, k))
         /\ Cardinality(Staying(c, k)) \in Nat /\ Cardinality(Staying(c, k)) + 1 <= MaxEntries
<1> DEFINE D == DOMAIN c
           fresh == {j \in D : c[j].fresh}
<1>1. /\ IsFiniteSet(D) /\ Cardinality(D) <= MaxEntries /\ Cardinality(D) \in Nat
      /\ \A j \in D : c[j].stored_at \in Nat
  <2>1. IsFiniteSet(D) /\ Cardinality(D) <= MaxEntries /\ c \in [D -> Entry]
    BY DEF IsCache
  <2> QED
    BY <2>1, FS_CardinalityType DEF Entry
<1>2. CASE ~(Cardinality(D) >= MaxEntries /\ k \notin D)
  <2>1. Staying(c, k) = D \ {k}
    BY <1>2 DEF Staying
  <2>2. CASE k \in D
    BY <1>1, <2>1, <2>2, FewerElements, Limits
  <2>3. CASE k \notin D
    <3>1. D \ {k} = D
      BY <2>3
    <3> QED
      BY <1>1, <1>2, <2>1, <2>3, <3>1, Limits
  <2> QED
    BY <2>2, <2>3
<1>3. CASE Cardinality(D) >= MaxEntries /\ k \notin D
  <2>1. Staying(c, k) = evict(c)
    BY <1>3 DEF Staying
  <2>2. IsFiniteSet(fresh) /\ Cardinality(fresh) \in Nat
    BY <1>1, FS_Subset, FS_CardinalityType
  <2>3. CASE Cardinality(fresh) < MaxEntries
    <3>1. evict(c) = fresh
      BY <2>3 DEF evict
    <3> QED
      BY <1>3, <2>1, <2>2, <2>3, <3>1, Limits
  <2>4. CASE ~(Cardinality(fresh) < MaxEntries)
    <3> DEFINE younger == {j \in fresh : \E i \in fresh : c[i].stored_at < c[j].stored_at}
    <3>1. evict(c) = younger
      BY <2>4 DEF evict
    <3>2. fresh # {}
      BY <2>2, <2>4, FS_EmptySet, Limits
    <3>3. PICK m \in fresh : \A i \in fresh : c[m].stored_at <= c[i].stored_at
      <4> DEFINE times == {c[i].stored_at : i \in fresh}
      <4>1. times \in SUBSET Nat /\ times # {}
        BY <1>1, <3>2
      <4>2. \E x \in times : \A y \in times : x <= y
        BY <4>1, LeastNatural
      <4> QED
        BY <4>2
    <3>4. m \notin younger
      BY <1>1, <3>3
    <3>5. /\ IsFiniteSet(younger) /\ Cardinality(younger) \in Nat
          /\ Cardinality(younger) + 1 <= Cardinality(D)
      BY <1>1, <3>4, FewerElements
    <3> QED
      BY <1>1, <1>3, <2>1, <3>1, <3>5, Limits
  <2> QED
    BY <2>3, <2>4
<1> QED
  BY <1>2, <1>3

\* What storing k does to the rest: entries may go, those that stay keep their
\* version and their freshness.
Stores(c, d, k, v) ==
  /\ IsCache(d) /\ k \in DOMAIN d /\ d[k].version = v /\ d[k].fresh
  /\ \A j \in DOMAIN d \ {k} :
       j \in DOMAIN c /\ d[j].version = c[j].version /\ d[j].fresh = c[j].fresh

\* Storing beside some of the entries keeps the order of storing.
LEMMA StoreIsCache ==
  ASSUME NEW c, IsCache(c), NEW k \in Keys \cup Coins, NEW v \in 0 .. MaxMoves,
         NEW S \in SUBSET (DOMAIN c \ {k}), IsFiniteSet(S),
         Cardinality(S) + 1 <= MaxEntries
  PROVE  Stores(c, store(c, S, k, v), k, v)
<1> DEFINE d == store(c, S, k, v)
           before(j) == {i \in S : c[i].stored_at <= c[j].stored_at}
           place(j) == Cardinality(before(j))
<1>1. /\ \A j \in S : c[j] \in Entry /\ c[j].stored_at \in Nat
      /\ \A i, j \in S : c[i].stored_at = c[j].stored_at => i = j
      /\ S \subseteq Keys \cup Coins
  BY DEF IsCache, Entry
<1>2. Cardinality(S) \in Nat
  BY FS_CardinalityType
<1>3. /\ DOMAIN d = S \cup {k}
      /\ d[k] = [version |-> v, fresh |-> TRUE, stored_at |-> Cardinality(S) + 1]
      /\ \A j \in S : d[j] = [c[j] EXCEPT !.stored_at = place(j)]
  BY DEF store
<1>4. ASSUME NEW j \in S PROVE place(j) \in 1 .. Cardinality(S) /\ IsFiniteSet(before(j))
  <2>1. IsFiniteSet(before(j)) /\ place(j) <= Cardinality(S)
    BY FS_Subset
  <2>2. place(j) \in Nat
    BY <2>1, FS_CardinalityType
  <2>3. j \in before(j)
    BY <1>1
  <2>4. place(j) # 0
    BY <2>1, <2>3, FS_EmptySet
  <2> QED
    BY <1>2, <2>1, <2>2, <2>4
<1>5. ASSUME NEW i \in S, NEW j \in S, c[i].stored_at < c[j].stored_at PROVE place(i) < place(j)
  <2>1. before(i) \subseteq before(j) /\ j \in before(j) /\ j \notin before(i)
    BY <1>1, <1>5
  <2>2. place(i) + 1 <= place(j) /\ place(i) \in Nat /\ place(j) \in Nat
    BY <1>4, <2>1, FewerElements
  <2> QED
    BY <2>2
<1>6. d \in [S \cup {k} -> Entry]
  <2>1. d[k] \in Entry
    BY <1>2, <1>3, Limits DEF Entry
  <2>2. ASSUME NEW j \in S PROVE d[j] \in Entry
    <3>1. place(j) \in 1 .. MaxEntries
      BY <1>2, <1>4, Limits
    <3> HIDE DEF place
    <3> QED
      BY <1>1, <1>3, <3>1 DEF Entry
  <2>3. d = [j \in S \cup {k} |-> d[j]]
    BY DEF store
  <2> QED
    BY <2>1, <2>2, <2>3
<1>7. IsFiniteSet(S \cup {k}) /\ Cardinality(S \cup {k}) <= MaxEntries
  <2>1. k \notin S
    OBVIOUS
  <2>2. IsFiniteSet(S \cup {k}) /\ Cardinality(S \cup {k}) = Cardinality(S) + 1
    BY <2>1, FS_AddElement
  <2> QED
    BY <2>2
<1>8. ASSUME NEW j \in S
      PROVE  d[j].stored_at = place(j) /\ d[j].version = c[j].version /\ d[j].fresh = c[j].fresh
  <2> HIDE DEF place
  <2> QED
    BY <1>1, <1>3 DEF Entry
<1>9. ASSUME NEW i \in S \cup {k}, NEW j \in S \cup {k}, d[i].stored_at = d[j].stored_at
      PROVE  i = j
  <2>1. d[k].stored_at = Cardinality(S) + 1
    BY <1>3
  <2>2. CASE i \in S /\ j \in S
    <3>1. place(i) = place(j) /\ place(i) \in Nat
      BY <1>4, <1>8, <1>9, <2>2
    <3> HIDE DEF place
    <3>2. ~(c[i].stored_at < c[j].stored_at) /\ ~(c[j].stored_at < c[i].stored_at)
      BY <1>5, <2>2, <3>1
    <3> QED
      BY <1>1, <2>2, <3>2
  <2>3. ASSUME NEW x \in S PROVE d[x].stored_at # d[k].stored_at
    <3>1. d[x].stored_at = place(x) /\ place(x) \in 1 .. Cardinality(S)
      BY <1>4, <1>8
    <3> HIDE DEF place
    <3> QED
      BY <1>2, <2>1, <3>1
  <2> QED
    BY <1>9, <2>2, <2>3
<1> HIDE DEF d, place, before
<1>10. IsCache(d)
  BY <1>1, <1>3, <1>6, <1>7, <1>9 DEF IsCache
<1> QED
  BY <1>3, <1>8, <1>10 DEF Stores, d

\* TTLCache.set keeps the limit, stores its value and changes no other.
LEMMA PutStores ==
  ASSUME NEW c, IsCache(c), NEW k \in Keys \cup Coins, NEW v \in 0 .. MaxMoves
  PROVE  Stores(c, put(c, k, v), k, v)
<1>1. put(c, k, v) = store(c, Staying(c, k), k, v)
  BY DEF put, Staying
<1>2. /\ Staying(c, k) \in SUBSET (DOMAIN c \ {k}) /\ IsFiniteSet(Staying(c, k))
      /\ Cardinality(Staying(c, k)) + 1 <= MaxEntries
  BY StayingLeavesRoom
<1> QED
  BY <1>1, <1>2, StoreIsCache

\* after is the recursive function of putAll.
IsAfter(after, c, coins, v) ==
  after = [S \in SUBSET coins |->
             IF S = {} THEN {c} ELSE UNION {{put(d, k, v) : d \in after[S \ {k}]} : k \in S}]

\* It exists: a function right on the sets of fewer than n coins is the start of
\* one that is right on those of n.
LEMMA AfterExists ==
  ASSUME NEW c, NEW coins, IsFiniteSet(coins), NEW v
  PROVE  \E after : IsAfter(after, c, coins, v)
<1> DEFINE Value(f, S) ==
             IF S = {} THEN {c} ELSE UNION {{put(d, k, v) : d \in f[S \ {k}]} : k \in S}
           Right(f, n) ==
             \A S \in SUBSET coins : Cardinality(S) < n => f[S] = Value(f, S)
           Wrong == {n \in Nat : ~\E f : Right(f, n)}
<1>1. \A S \in SUBSET coins : IsFiniteSet(S) /\ Cardinality(S) \in Nat
  BY FS_Subset, FS_CardinalityType
<1>2. ASSUME NEW n \in Nat, NEW f, Right(f, n)
      PROVE  Right([S \in SUBSET coins |-> Value(f, S)], n + 1)
  <2> DEFINE g == [S \in SUBSET coins |-> Value(f, S)]
  <2> SUFFICES ASSUME NEW S \in SUBSET coins, Cardinality(S) < n + 1
               PROVE  g[S] = Value(g, S)
    OBVIOUS
  <2>1. ASSUME NEW k \in S PROVE g[S \ {k}] = f[S \ {k}]
    <3>1. Cardinality(S \ {k}) + 1 <= Cardinality(S)
      BY <1>1, FewerElements
    <3>2. S \ {k} \in SUBSET coins /\ Cardinality(S \ {k}) < n
      BY <1>1, <3>1
    <3>3. f[S \ {k}] = Value(f, S \ {k})
      BY <1>2, <3>2
    <3> HIDE DEF Value
    <3> QED
      BY <3>2, <3>3
  <2>2. g[S] = Value(f, S)
    <3> HIDE DEF Value
    <3> QED
      OBVIOUS
  <2>3. Value(f, S) = Value(g, S)
    <3> HIDE DEF g
    <3>1. {{put(d, k, v) : d \in f[S \ {k}]} : k \in S}
        = {{put(d, k, v) : d \in g[S \ {k}]} : k \in S}
      BY <2>1
    <3> QED
      BY <3>1
  <2> QED
    BY <2>2, <2>3
<1>3. Wrong = {}
  <2> SUFFICES ASSUME Wrong # {} PROVE FALSE
    OBVIOUS
  <2>1. PICK m \in Wrong : \A n \in Wrong : m <= n
    <3>1. Wrong \in SUBSET Nat
      OBVIOUS
    <3> HIDE DEF Wrong
    <3> QED
      BY <3>1, LeastNatural
  <2>2. m \in Nat /\ ~\E f : Right(f, m)
    <3> HIDE DEF Right
    <3> QED
      OBVIOUS
  <2>3. Right([S \in SUBSET coins |-> {}], 0)
    BY <1>1
  <2>4. m # 0
    <3> HIDE DEF Right
    <3> QED
      BY <2>2, <2>3
  <2>5. m - 1 \in Nat /\ m - 1 \notin Wrong /\ m - 1 + 1 = m
    <3> HIDE DEF Wrong
    <3> QED
      BY <2>1, <2>2, <2>4
  <2>6. PICK f : Right(f, m - 1)
    <3> HIDE DEF Right
    <3> QED
      BY <2>5
  <2>7. Right([S \in SUBSET coins |-> Value(f, S)], m)
    <3> HIDE DEF Right, Value
    <3> QED
      BY <1>2, <2>5, <2>6
  <2> HIDE DEF Right, Value
  <2> QED
    BY <2>2, <2>7
<1>4. Cardinality(coins) + 1 \in Nat
  BY <1>1
<1>5. PICK f : Right(f, Cardinality(coins) + 1)
  <2> HIDE DEF Right
  <2> QED
    BY <1>3, <1>4
<1> DEFINE g == [S \in SUBSET coins |-> Value(f, S)]
<1>6. ASSUME NEW S \in SUBSET coins PROVE Cardinality(S) < Cardinality(coins) + 1
  <2>1. Cardinality(S) <= Cardinality(coins)
    BY FS_Subset
  <2> QED
    BY <1>1, <2>1
<1>7. \A S \in SUBSET coins : f[S] = g[S]
  <2> HIDE DEF Value
  <2> QED
    BY <1>5, <1>6
<1>8. ASSUME NEW S \in SUBSET coins PROVE Value(f, S) = Value(g, S)
  <2> HIDE DEF g
  <2>1. \A k \in S : f[S \ {k}] = g[S \ {k}]
    BY <1>7
  <2>2. {{put(d, k, v) : d \in f[S \ {k}]} : k \in S}
      = {{put(d, k, v) : d \in g[S \ {k}]} : k \in S}
    BY <2>1
  <2> QED
    BY <2>2
<1>9. g = [S \in SUBSET coins |-> Value(g, S)]
  <2>1. [S \in SUBSET coins |-> Value(f, S)] = [S \in SUBSET coins |-> Value(g, S)]
    <3> HIDE DEF Value, g
    <3> QED
      BY <1>8
  <2> QED
    BY <2>1, Zenon DEF g
<1>10. IsAfter(g, c, coins, v)
  <2> HIDE DEF g
  <2> QED
    BY <1>9, Zenon DEF IsAfter
<1> HIDE DEF g
<1> QED
  BY <1>10

\* putAll is the value of that function at all the coins.
LEMMA PutAllIsAfter ==
  ASSUME NEW c, NEW coins, IsFiniteSet(coins), NEW v
  PROVE  \E after : IsAfter(after, c, coins, v) /\ putAll(c, coins, v) = after[coins]
<1> DEFINE chosen == CHOOSE after : IsAfter(after, c, coins, v)
<1>1. IsAfter(chosen, c, coins, v)
  BY AfterExists
<1>2. putAll(c, coins, v) = chosen[coins]
  BY Zenon DEF putAll, IsAfter
<1> HIDE DEF chosen
<1> QED
  BY <1>1, <1>2

\* What storing several prices does: each entry left holds a new price or is an
\* entry of before.
StoresAll(c, d, coins, v) ==
  /\ IsCache(d)
  /\ \A j \in DOMAIN d :
       \/ j \in coins /\ d[j].version = v
       \/ j \in DOMAIN c /\ d[j].version = c[j].version /\ d[j].fresh = c[j].fresh

\* Storing several prices, in any order, leaves a cache within its limit with the
\* new prices and entries of before only.
LEMMA PutAllStores ==
  ASSUME NEW c, IsCache(c), NEW coins \in SUBSET Coins, IsFiniteSet(coins),
         NEW v \in 0 .. MaxMoves, NEW d \in putAll(c, coins, v)
  PROVE  StoresAll(c, d, coins, v)
<1>1. PICK after : IsAfter(after, c, coins, v) /\ putAll(c, coins, v) = after[coins]
  BY PutAllIsAfter
<1>2. /\ after[{}] = {c}
      /\ \A S \in SUBSET coins : S # {} =>
           after[S] = UNION {{put(e, k, v) : e \in after[S \ {k}]} : k \in S}
  BY <1>1 DEF IsAfter
<1>3. \A S \in SUBSET coins : IsFiniteSet(S) /\ Cardinality(S) \in Nat
  BY FS_Subset, FS_CardinalityType
<1> DEFINE Good(S) == \A e \in after[S] : StoresAll(c, e, coins, v)
           sizes == {Cardinality(S) : S \in {T \in SUBSET coins : ~Good(T)}}
<1>4. sizes = {}
  <2> SUFFICES ASSUME sizes # {} PROVE FALSE
    OBVIOUS
  <2>1. sizes \in SUBSET Nat
    <3> HIDE DEF Good
    <3> QED
      BY <1>3
  <2>2. PICK n \in sizes : \A m \in sizes : n <= m
    <3> HIDE DEF sizes
    <3> QED
      BY <2>1, LeastNatural
  <2>3. PICK S \in SUBSET coins : ~Good(S) /\ n = Cardinality(S)
    <3> HIDE DEF Good
    <3> QED
      OBVIOUS
  <2>4. ASSUME NEW k \in S PROVE Good(S \ {k})
    <3>1. S \ {k} \in SUBSET coins /\ Cardinality(S \ {k}) + 1 <= Cardinality(S)
      BY <1>3, FewerElements
    <3>2. Cardinality(S \ {k}) \notin sizes
      <4> HIDE DEF sizes
      <4> QED
        BY <1>3, <2>1, <2>2, <2>3, <3>1
    <3> HIDE DEF Good
    <3> QED
      BY <3>1, <3>2
  <2>5. CASE S = {}
    <3>1. StoresAll(c, c, coins, v)
      BY DEF StoresAll
    <3> QED
      BY <1>2, <2>3, <2>5, <3>1
  <2>6. CASE S # {}
    <3>1. PICK e2 \in after[S] : ~StoresAll(c, e2, coins, v)
      BY <2>3
    <3>2. after[S] = UNION {{put(e, k, v) : e \in after[S \ {k}]} : k \in S}
      BY <1>2, <2>6
    <3>3. PICK k \in S : \E e \in after[S \ {k}] : e2 = put(e, k, v)
      BY <3>1, <3>2
    <3>4. PICK e \in after[S \ {k}] : e2 = put(e, k, v)
      BY <3>3
    <3>5. StoresAll(c, e, coins, v)
      BY <2>4
    <3>6. IsCache(e) /\ k \in Keys \cup Coins /\ k \in coins
      BY <3>5 DEF StoresAll
    <3>7. Stores(e, put(e, k, v), k, v)
      BY <3>6, PutStores
    <3>8. StoresAll(c, put(e, k, v), coins, v)
      BY <3>5, <3>6, <3>7 DEF Stores, StoresAll
    <3> QED
      BY <3>1, <3>4, <3>8
  <2> QED
    BY <2>5, <2>6
<1>5. Good(coins)
  <2> HIDE DEF Good
  <2> QED
    BY <1>4
<1> QED
  BY <1>1, <1>5

-----------------------------------------------------------------------------
(***************************************************************************)
(* The queue of the semaphore.                                             *)
(***************************************************************************)

\* Nobody waits twice.
Distinct(q) ==
  /\ q \in Seq(Requests)
  /\ \A i, j \in 1 .. Len(q) : q[i] = q[j] => i = j

\* s is somewhere in the queue.
Waits(q, s) == \E i \in 1 .. Len(q) : q[i] = s

\* Joining the queue.
LEMMA Joined ==
  ASSUME NEW q, Distinct(q), NEW r \in Requests, ~Waits(q, r)
  PROVE  /\ Distinct(Append(q, r))
         /\ \A s : Waits(Append(q, r), s) <=> Waits(q, s) \/ s = r
<1>1. /\ q \in Seq(Requests) /\ Len(q) \in Nat
      /\ \A i, j \in 1 .. Len(q) : q[i] = q[j] => i = j
  BY DEF Distinct
<1>2. /\ Append(q, r) \in Seq(Requests) /\ Len(Append(q, r)) = Len(q) + 1
      /\ \A i \in 1 .. Len(q) : Append(q, r)[i] = q[i]
      /\ Append(q, r)[Len(q) + 1] = r
  BY <1>1, AppendProperties
<1>3. \A i \in 1 .. Len(q) + 1 : i \in 1 .. Len(q) \/ i = Len(q) + 1
  BY <1>1
<1>4. \A i \in 1 .. Len(q) : q[i] # r
  BY DEF Waits
<1>5. Distinct(Append(q, r))
  BY <1>1, <1>2, <1>3, <1>4 DEF Distinct
<1>6. ASSUME NEW s PROVE Waits(Append(q, r), s) <=> Waits(q, s) \/ s = r
  <2>1. 1 .. Len(q) \subseteq 1 .. Len(q) + 1 /\ Len(q) + 1 \in 1 .. Len(q) + 1
    BY <1>1
  <2> QED
    BY <1>2, <1>3, <2>1 DEF Waits
<1> QED
  BY <1>5, <1>6

\* The head of the queue is admitted.
LEMMA Admitted ==
  ASSUME NEW q, Distinct(q), q # << >>
  PROVE  /\ Distinct(Tail(q)) /\ Head(q) \in Requests /\ Waits(q, Head(q))
         /\ \A s : Waits(Tail(q), s) <=> Waits(q, s) /\ s # Head(q)
<1>1. /\ q \in Seq(Requests) /\ Len(q) \in Nat
      /\ \A i, j \in 1 .. Len(q) : q[i] = q[j] => i = j
  BY DEF Distinct
<1>2. /\ Tail(q) \in Seq(Requests) /\ Len(Tail(q)) = Len(q) - 1
      /\ \A i \in 1 .. Len(q) - 1 : Tail(q)[i] = q[i + 1]
      /\ Head(q) \in Requests
  BY <1>1, HeadTailProperties
<1>3. Head(q) = q[1] /\ 1 \in 1 .. Len(q)
  BY <1>1
<1>4. Distinct(Tail(q))
  <2>1. ASSUME NEW i \in 1 .. Len(q) - 1, NEW j \in 1 .. Len(q) - 1, Tail(q)[i] = Tail(q)[j]
        PROVE  i = j
    <3>1. i + 1 \in 1 .. Len(q) /\ j + 1 \in 1 .. Len(q) /\ q[i + 1] = q[j + 1]
      BY <1>1, <1>2, <2>1
    <3>2. i + 1 = j + 1
      BY <1>1, <3>1
    <3> QED
      BY <1>1, <3>2
  <2> QED
    BY <1>2, <2>1 DEF Distinct
<1>5. ASSUME NEW s PROVE Waits(Tail(q), s) <=> Waits(q, s) /\ s # Head(q)
  <2>1. ASSUME Waits(Tail(q), s) PROVE Waits(q, s) /\ s # Head(q)
    <3>1. PICK i \in 1 .. Len(q) - 1 : q[i + 1] = s
      BY <1>2, <2>1 DEF Waits
    <3>2. i + 1 \in 1 .. Len(q) /\ i + 1 # 1
      BY <1>1
    <3> QED
      BY <1>1, <1>3, <3>1, <3>2 DEF Waits
  <2>2. ASSUME Waits(q, s), s # Head(q) PROVE Waits(Tail(q), s)
    <3>1. PICK i \in 1 .. Len(q) : q[i] = s
      BY <2>2 DEF Waits
    <3>2. i - 1 \in 1 .. Len(q) - 1 /\ i - 1 + 1 = i
      BY <1>1, <1>3, <2>2, <3>1
    <3>3. Tail(q)[i - 1] = s
      BY <1>2, <3>1, <3>2
    <3> QED
      BY <1>2, <3>2, <3>3 DEF Waits
  <2> QED
    BY <2>1, <2>2
<1>6. Waits(q, Head(q))
  BY <1>3 DEF Waits
<1> QED
  BY <1>2, <1>4, <1>5, <1>6

\* Leaving the queue.
LEMMA Withdrawn ==
  ASSUME NEW q, Distinct(q), NEW r
  PROVE  /\ Distinct(RemoveFirst(q, r))
         /\ \A s : Waits(RemoveFirst(q, r), s) <=> Waits(q, s) /\ s # r
<1>1. /\ q \in Seq(Requests) /\ Len(q) \in Nat
      /\ \A i, j \in 1 .. Len(q) : q[i] = q[j] => i = j
      /\ \A i \in 1 .. Len(q) : q[i] \in Requests
  BY DEF Distinct
<1>2. CASE ~Waits(q, r)
  <2>1. RemoveFirst(q, r) = q
    BY <1>2 DEF RemoveFirst, Waits
  <2> QED
    BY <1>2, <2>1 DEF Waits
<1>3. CASE Waits(q, r)
  <2> DEFINE n == Len(q)
             p == SelectInSeq(q, LAMBDA v : v = r)
             left == SubSeq(q, 1, p - 1)
             right == SubSeq(q, p + 1, n)
  <2>1. p \in 1 .. n /\ q[p] = r
    <3> DEFINE I == {i \in 1 .. Len(q) : q[i] = r}
    <3>1. I \in SUBSET Nat /\ I # {}
      BY <1>3 DEF Waits
    <3>2. Min(I) \in I
      <4>1. \E x \in I : \A y \in I : x <= y
        BY <3>1, LeastNatural
      <4> HIDE DEF I
      <4> QED
        BY <4>1 DEF Min
    <3>3. p = IF I # {} THEN Min(I) ELSE 0
      BY DEF SelectInSeq
    <3> QED
      BY <3>1, <3>2, <3>3
  <2> HIDE DEF p
  <2>2. RemoveFirst(q, r) = left \o right
    BY <1>3, Zenon DEF RemoveFirst, RemoveAt, Waits, p
  <2>3. /\ left \in Seq(Requests) /\ Len(left) = p - 1
        /\ \A i \in 1 .. p - 1 : left[i] = q[i]
    <3>1. p - 1 \in Int /\ 1 \in Int /\ \A i \in 1 .. p - 1 : q[i] \in Requests
      BY <1>1, <2>1
    <3>2. /\ SubSeq(q, 1, p - 1) \in Seq(Requests)
          /\ Len(SubSeq(q, 1, p - 1)) = IF 1 <= p - 1 THEN p - 1 - 1 + 1 ELSE 0
          /\ \A i \in 1 .. p - 1 - 1 + 1 : SubSeq(q, 1, p - 1)[i] = q[1 + i - 1]
      BY <3>1, SubSeqProperties
    <3> QED
      BY <2>1, <3>2
  <2>4. /\ right \in Seq(Requests) /\ Len(right) = n - p
        /\ \A i \in 1 .. n - p : right[i] = q[p + i]
    <3>1. p + 1 \in Int /\ n \in Int /\ \A i \in p + 1 .. n : q[i] \in Requests
      BY <1>1, <2>1
    <3>2. /\ SubSeq(q, p + 1, n) \in Seq(Requests)
          /\ Len(SubSeq(q, p + 1, n)) = IF p + 1 <= n THEN n - (p + 1) + 1 ELSE 0
          /\ \A i \in 1 .. n - (p + 1) + 1 : SubSeq(q, p + 1, n)[i] = q[p + 1 + i - 1]
      BY <3>1, SubSeqProperties
    <3>3. n - (p + 1) + 1 = n - p /\ \A i \in 1 .. n - p : p + 1 + i - 1 = p + i
      BY <1>1, <2>1
    <3>4. ASSUME NEW i \in 1 .. n - p PROVE right[i] = q[p + i]
      <4>1. right[i] = q[p + 1 + i - 1]
        BY <3>2, <3>3
      <4> QED
        BY <3>3, <4>1
    <3>5. Len(right) = n - p
      BY <1>1, <2>1, <3>2
    <3> QED
      BY <3>2, <3>4, <3>5
  <2> DEFINE q2 == RemoveFirst(q, r)
  <2> HIDE DEF left, right
  <2>5. /\ q2 \in Seq(Requests) /\ Len(q2) = n - 1
        /\ \A i \in 1 .. n - 1 : q2[i] = IF i < p THEN q[i] ELSE q[i + 1]
    <3>1. /\ left \o right \in Seq(Requests) /\ Len(left \o right) = p - 1 + (n - p)
          /\ \A i \in 1 .. p - 1 + (n - p) :
               (left \o right)[i] = IF i <= p - 1 THEN left[i] ELSE right[i - (p - 1)]
      BY <2>3, <2>4, ConcatProperties
    <3>2. p - 1 + (n - p) = n - 1
      BY <1>1, <2>1
    <3>3. ASSUME NEW i \in 1 .. n - 1
          PROVE  (left \o right)[i] = IF i < p THEN q[i] ELSE q[i + 1]
      <4>1. CASE i < p
        <5>1. i <= p - 1 /\ i \in 1 .. p - 1
          BY <1>1, <2>1, <4>1
        <5> QED
          BY <2>3, <3>1, <3>2, <4>1, <5>1
      <4>2. CASE ~(i < p)
        <5>1. ~(i <= p - 1) /\ i - (p - 1) \in 1 .. n - p /\ p + (i - (p - 1)) = i + 1
          BY <1>1, <2>1, <4>2
        <5> QED
          BY <2>4, <3>1, <3>2, <4>2, <5>1
      <4> QED
        BY <4>1, <4>2
    <3> QED
      BY <2>2, <3>1, <3>2, <3>3
  <2> HIDE DEF q2
  <2>6. \A i \in 1 .. n - 1 : i \in 1 .. n /\ i + 1 \in 1 .. n /\ i \in Nat
    BY <1>1
  <2>7. Distinct(q2)
    <3>1. ASSUME NEW i \in 1 .. n - 1, NEW j \in 1 .. n - 1, q2[i] = q2[j] PROVE i = j
      <4> DEFINE f == IF i < p THEN i ELSE i + 1
                 g == IF j < p THEN j ELSE j + 1
      <4>1. q2[i] = q[f] /\ q2[j] = q[g] /\ f \in 1 .. n /\ g \in 1 .. n
        BY <2>5, <2>6
      <4>2. f = g
        BY <1>1, <3>1, <4>1
      <4> QED
        BY <2>1, <2>6, <4>2
    <3> QED
      BY <2>5, <3>1 DEF Distinct
  <2>8. ASSUME NEW s PROVE Waits(q2, s) <=> Waits(q, s) /\ s # r
    <3>1. ASSUME Waits(q2, s) PROVE Waits(q, s) /\ s # r
      <4>1. PICK i \in 1 .. n - 1 : q2[i] = s
        BY <2>5, <3>1 DEF Waits
      <4> DEFINE f == IF i < p THEN i ELSE i + 1
      <4>2. s = q[f] /\ f \in 1 .. n /\ f # p
        BY <2>1, <2>5, <2>6, <4>1
      <4> QED
        BY <1>1, <2>1, <4>2 DEF Waits
    <3>2. ASSUME Waits(q, s), s # r PROVE Waits(q2, s)
      <4>1. PICK i \in 1 .. n : q[i] = s
        BY <3>2 DEF Waits
      <4>2. i # p
        BY <2>1, <3>2, <4>1
      <4> DEFINE f == IF i < p THEN i ELSE i - 1
      <4>3. f \in 1 .. n - 1 /\ (IF f < p THEN f ELSE f + 1) = i
        BY <1>1, <2>1, <4>2
      <4>4. q2[f] = s
        BY <2>5, <4>1, <4>3
      <4> QED
        BY <2>5, <4>3, <4>4 DEF Waits
    <3> QED
      BY <3>1, <3>2
  <2> QED
    BY <2>7, <2>8 DEF q2
<1> QED
  BY <1>2, <1>3

\* A queue where nobody waits twice is as long as the set of those who wait.
LEMMA QueueLength ==
  ASSUME NEW q, Distinct(q)
  PROVE  Len(q) = Cardinality(ToSet(q))
<1>1. q \in Seq(Requests) /\ Len(q) \in Nat /\ DOMAIN q = 1 .. Len(q)
  BY DEF Distinct
<1>2. q \in Bijection(1 .. Len(q), ToSet(q))
  <2>1. q \in [1 .. Len(q) -> ToSet(q)]
    BY <1>1 DEF ToSet
  <2>2. IsInjective(q)
    BY <1>1 DEF IsInjective, Distinct
  <2>3. \A t \in ToSet(q) : \E s \in 1 .. Len(q) : q[s] = t
    BY <1>1 DEF ToSet
  <2> QED
    BY <2>1, <2>2, <2>3 DEF Bijection, Injection, Surjection
<1>3. IsFiniteSet(1 .. Len(q)) /\ Cardinality(1 .. Len(q)) = Len(q)
  BY <1>1, FS_Interval
<1>4. ExistsBijection(1 .. Len(q), ToSet(q))
  BY <1>2 DEF ExistsBijection
<1>5. Cardinality(ToSet(q)) = Cardinality(1 .. Len(q))
  BY <1>3, <1>4, FS_Bijection
<1> QED
  BY <1>3, <1>5

-----------------------------------------------------------------------------
(***************************************************************************)
(* The inductive invariant.                                                *)
(***************************************************************************)

\* Where a request that fetches may be.
Fetches == {"queued", "calling", "sleeping"}

\* r fetches the key k.
Leads(r, k) == Fetching(r) /\ req[r].key = k

\* The types of the tables.
TablesOK ==
  /\ inflight \in [Keys -> Requests \cup {None}]
  /\ req \in [Requests -> Task \cup {None}]
  /\ market \in 0 .. MaxMoves /\ newest \in [Keys -> 0 .. MaxMoves]

\* What is cached under a key is the newest answer to it, and is not fresh while
\* the key is being fetched.
CacheOK ==
  /\ IsCache(cache)
  /\ \A k \in DOMAIN cache : cache[k].version <= market
  /\ \A k \in Keys :
       /\ newest[k] <= market
       /\ k \in DOMAIN cache => cache[k].version = newest[k]
       /\ inflight[k] # None => get(cache, k) = None

\* Those who wait for the semaphore are the queued requests, each once.
QueueOK ==
  /\ Distinct(queue)
  /\ \A r \in Requests : Waits(queue, r) <=> req[r] # None /\ req[r].pc = "queued"

\* The table names the one leader of a key, and who follows has one.
FlightOK ==
  /\ \A k \in Keys, r \in Requests : Leads(r, k) <=> inflight[k] = r
  /\ \A k \in Keys, r \in Requests : r \in Followers(k) => inflight[k] # None

\* A request for prices accounts for all the coins it was asked for; the answer
\* of one for a key is no older than new[key] was when it began.
TaskOK(t, new) ==
  /\ t.key = None =>
       /\ IsFiniteSet(t.asked) /\ t.pc \notin {"following", "woken"}
       /\ t.pc \in Fetches => t.quotes \cup t.unlisted \cup t.batch \cup t.rest = t.asked
       /\ t.pc = "done" /\ t.answer # Error => t.quotes \cup t.unlisted = t.asked
  /\ t.key # None =>
       /\ t.floor <= new[t.key]
       /\ t.pc = "calling" => new[t.key] <= t.sent
       /\ t.pc = "woken" /\ t.answer \notin {Error, Cancelled} =>
            t.floor <= t.answer /\ t.answer <= new[t.key]
       /\ t.pc = "done" /\ t.answer # Error => t.floor <= t.answer

\* Every request is all right.
TasksOK == \A r \in Requests : req[r] # None => TaskOK(req[r], newest)

\* The inductive invariant.
Steady == TablesOK /\ CacheOK /\ QueueOK /\ FlightOK /\ TasksOK

\* None is nothing else.
LEMMA NoneIsNone ==
  /\ None \notin Requests /\ None \notin Keys /\ None \notin Int /\ None \notin Task
BY NoneIsNothing

\* A request that is done keeps its question.
LEMMA DoneTask ==
  ASSUME NEW t \in Task, NEW v \in Cancelled .. MaxMoves
  PROVE  /\ Done(t, v) \in Task /\ Done(t, v).pc = "done" /\ Done(t, v).answer = v
         /\ Done(t, v).key = t.key /\ Done(t, v).floor = t.floor
         /\ Done(t, v).quotes = t.quotes /\ Done(t, v).unlisted = t.unlisted
         /\ Done(t, v).asked = t.asked
<1> DEFINE d == [t EXCEPT !.pc = "done", !.answer = v, !.cancelled = FALSE,
                          !.batch = {}, !.rest = {}, !.attempt = 0, !.sent = 0]
<1>1. 0 \in 0 .. MaxRetries /\ 0 \in 0 .. MaxMoves /\ {} \in SUBSET Coins
  BY Limits
<1>2. Done(t, v) = d
  BY DEF Done
<1>3. /\ d.pc = "done" /\ d.answer = v /\ d.key = t.key /\ d.floor = t.floor
      /\ d.quotes = t.quotes /\ d.unlisted = t.unlisted /\ d.asked = t.asked
  BY DEF Task
<1>4. d \in Task
  BY <1>1 DEF Task
<1> QED
  BY <1>2, <1>3, <1>4

\* A change of the place of a request in the protocol changes nothing else of it.
LEMMA MovedTask ==
  ASSUME NEW t \in Task, NEW p \in {"following", "woken", "queued", "calling", "sleeping", "done"}
  PROVE  /\ [t EXCEPT !.pc = p] \in Task
         /\ [t EXCEPT !.pc = p].pc = p /\ [t EXCEPT !.pc = p].key = t.key
         /\ [t EXCEPT !.pc = p].floor = t.floor /\ [t EXCEPT !.pc = p].answer = t.answer
         /\ [t EXCEPT !.pc = p].sent = t.sent /\ [t EXCEPT !.pc = p].asked = t.asked
         /\ [t EXCEPT !.pc = p].quotes = t.quotes /\ [t EXCEPT !.pc = p].batch = t.batch
         /\ [t EXCEPT !.pc = p].unlisted = t.unlisted /\ [t EXCEPT !.pc = p].rest = t.rest
BY DEF Task

-----------------------------------------------------------------------------
(***************************************************************************)
(* Steps that change one request and no fetch in flight.                   *)
(***************************************************************************)

\* The request r becomes t.
Becomes(r, t) == req' = [s \in Requests |-> IF s = r THEN t ELSE req[s]]

\* r leads what it led, follows a fetch in flight, and accounts for its answer.
LEMMA OneTaskStep ==
  ASSUME TablesOK, FlightOK, TasksOK, NEW r \in Requests, NEW t \in Task \cup {None},
         Becomes(r, t), UNCHANGED <<inflight, newest>>, market' \in 0 .. MaxMoves,
         t # None => TaskOK(t, newest),
         \A k \in Keys : (t # None /\ t.pc \in Fetches /\ t.key = k) <=> Leads(r, k),
         t # None /\ t.pc = "following" /\ t.key \in Keys => inflight[t.key] # None
  PROVE  TablesOK' /\ FlightOK' /\ TasksOK'
<1>1. \A s \in Requests : req'[s] = IF s = r THEN t ELSE req[s]
  BY DEF Becomes
<1>2. TablesOK'
  BY DEF TablesOK, Becomes
<1>3. \A s \in Requests, k \in Keys : Leads(s, k)' <=> Leads(s, k)
  BY <1>1 DEF Leads, Fetching, Fetches
<1>4. \A k \in Keys, s \in Requests : s \in Followers(k)' => inflight[k] # None
  BY <1>1 DEF Followers, FlightOK
<1>5. FlightOK'
  BY <1>3, <1>4 DEF FlightOK
<1>6. TasksOK'
  BY <1>1 DEF TasksOK
<1> QED
  BY <1>2, <1>5, <1>6

\* Nobody else enters or leaves the queue.
LEMMA QueueStep ==
  ASSUME QueueOK, NEW r \in Requests, NEW t, Becomes(r, t), Distinct(queue'),
         \A s \in Requests : Waits(queue', s) <=>
           IF s = r THEN t # None /\ t.pc = "queued" ELSE Waits(queue, s)
  PROVE  QueueOK'
<1>1. \A s \in Requests : req'[s] = IF s = r THEN t ELSE req[s]
  BY DEF Becomes
<1> QED
  BY <1>1 DEF QueueOK

\* The queue is left alone by one who neither was nor is in it.
LEMMA QueueStays ==
  ASSUME QueueOK, NEW r \in Requests, NEW t, Becomes(r, t), UNCHANGED queue,
         t = None \/ t.pc # "queued", req[r] = None \/ req[r].pc # "queued"
  PROVE  QueueOK'
<1>1. ~Waits(queue, r)
  BY DEF QueueOK
<1>2. Distinct(queue') /\ \A s : Waits(queue', s) <=> Waits(queue, s)
  BY DEF QueueOK
<1> QED
  BY <1>1, <1>2, QueueStep

\* One who was not in the queue joins it.
LEMMA QueueGrows ==
  ASSUME QueueOK, NEW r \in Requests, NEW t, Becomes(r, t), queue' = Append(queue, r),
         t # None, t.pc = "queued", req[r] = None \/ req[r].pc # "queued"
  PROVE  QueueOK'
<1>1. ~Waits(queue, r) /\ Distinct(queue)
  BY DEF QueueOK
<1>2. Distinct(queue') /\ \A s : Waits(queue', s) <=> Waits(queue, s) \/ s = r
  BY <1>1, Joined
<1> QED
  BY <1>2, QueueStep

\* EXCEPT on a request is Becomes.
LEMMA ExceptBecomes ==
  ASSUME TablesOK, NEW r \in Requests, NEW t, req' = [req EXCEPT ![r] = t]
  PROVE  Becomes(r, t)
BY DEF TablesOK, Becomes

\* What a fresh entry of a key holds.
LEMMA FreshEntry ==
  ASSUME CacheOK, TablesOK, NEW k \in Keys, get(cache, k) # None
  PROVE  /\ get(cache, k) = newest[k] /\ get(cache, k) \in 0 .. MaxMoves
         /\ inflight[k] = None /\ Seen(k, get(cache, k)) = newest
<1>1. k \in DOMAIN cache /\ get(cache, k) = cache[k].version
  BY DEF get
<1>2. get(cache, k) = newest[k] /\ newest[k] \in 0 .. MaxMoves /\ inflight[k] = None
  BY <1>1 DEF CacheOK, TablesOK
<1>3. Seen(k, newest[k]) = newest
  BY <1>2 DEF Seen, TablesOK
<1> QED
  BY <1>2, <1>3

\* A request asks for its key, for the first time or after its leader was cancelled.
LEMMA GetJsonStep ==
  ASSUME Steady, UNCHANGED <<cache, market>>, NEW r \in Requests, NEW t \in Task,
         t.key \in Keys, t.answer = Error, t.floor <= newest[t.key],
         req[r] = None \/ req[r].pc = "woken", GetJson(r, t)
  PROVE  Steady'
<1> DEFINE k == t.key
           v == get(cache, k)
<1>1. TablesOK /\ CacheOK /\ QueueOK /\ FlightOK /\ TasksOK
  BY DEF Steady
<1>2. \A j \in Keys : ~Leads(r, j)
  BY DEF Leads, Fetching
<1>3. k # None /\ newest[k] \in 0 .. MaxMoves /\ t.floor \in 0 .. MaxMoves
  BY <1>1, NoneIsNone DEF TablesOK, Task
<1>4. CASE /\ v # None
           /\ req' = [req EXCEPT ![r] = Done(t, v)]
           /\ newest' = Seen(k, v)
           /\ UNCHANGED <<inflight, queue>>
  <2>1. v = newest[k] /\ newest' = newest /\ v \in Cancelled .. MaxMoves
    BY <1>1, <1>3, <1>4, FreshEntry, Limits DEF Cancelled
  <2>2. /\ Done(t, v) \in Task /\ Done(t, v).pc = "done" /\ Done(t, v).answer = v
        /\ Done(t, v).key = k /\ Done(t, v).floor = t.floor /\ Done(t, v) # None
    BY <2>1, DoneTask, NoneIsNone
  <2>3. TaskOK(Done(t, v), newest)
    BY <1>3, <2>1, <2>2 DEF TaskOK
  <2>4. Becomes(r, Done(t, v))
    BY <1>1, <1>4, ExceptBecomes
  <2>5. TablesOK' /\ FlightOK' /\ TasksOK'
    BY <1>1, <1>2, <1>4, <2>1, <2>2, <2>3, <2>4, OneTaskStep DEF TablesOK, Fetches
  <2>6. QueueOK'
    BY <1>1, <1>4, <2>2, <2>4, QueueStays
  <2>7. CacheOK'
    BY <1>1, <1>4, <2>1 DEF CacheOK
  <2> QED
    BY <2>5, <2>6, <2>7 DEF Steady
<1>5. CASE /\ v = None /\ inflight[k] # None
           /\ req' = [req EXCEPT ![r] = [t EXCEPT !.pc = "following"]]
           /\ UNCHANGED <<inflight, queue, newest>>
  <2> DEFINE u == [t EXCEPT !.pc = "following"]
  <2>1. u \in Task /\ u.pc = "following" /\ u.key = k /\ u.floor = t.floor /\ u # None
    <3>1. u \in Task /\ u.pc = "following" /\ u.key = k /\ u.floor = t.floor
      BY MovedTask
    <3> HIDE DEF u
    <3> QED
      BY <3>1, NoneIsNone
  <2>2. Becomes(r, u)
    BY <1>1, <1>5, ExceptBecomes
  <2> HIDE DEF u
  <2>3. TaskOK(u, newest)
    BY <1>3, <2>1 DEF TaskOK
  <2>4. TablesOK' /\ FlightOK' /\ TasksOK'
    BY <1>1, <1>2, <1>5, <2>1, <2>2, <2>3, OneTaskStep DEF TablesOK, Fetches
  <2>5. QueueOK'
    BY <1>1, <1>5, <2>1, <2>2, QueueStays
  <2>6. CacheOK'
    BY <1>1, <1>5 DEF CacheOK
  <2> QED
    BY <2>4, <2>5, <2>6 DEF Steady
<1>6. CASE /\ v = None /\ inflight[k] = None
           /\ req' = [req EXCEPT ![r] = [t EXCEPT !.pc = "queued"]]
           /\ inflight' = [inflight EXCEPT ![k] = r]
           /\ queue' = Append(queue, r)
           /\ UNCHANGED newest
  <2> DEFINE u == [t EXCEPT !.pc = "queued"]
  <2>1. u \in Task /\ u.pc = "queued" /\ u.key = k /\ u.floor = t.floor /\ u # None
    <3>1. u \in Task /\ u.pc = "queued" /\ u.key = k /\ u.floor = t.floor
      BY MovedTask
    <3> HIDE DEF u
    <3> QED
      BY <3>1, NoneIsNone
  <2>2. Becomes(r, u)
    BY <1>1, <1>6, ExceptBecomes
  <2> HIDE DEF u
  <2>3. \A s \in Requests : req'[s] = IF s = r THEN u ELSE req[s]
    BY <2>2 DEF Becomes
  <2>4. TaskOK(u, newest)
    BY <1>3, <2>1 DEF TaskOK
  <2>5. /\ inflight' \in [Keys -> Requests \cup {None}]
        /\ \A j \in Keys : inflight'[j] = IF j = k THEN r ELSE inflight[j]
    BY <1>1, <1>6 DEF TablesOK
  <2>6. TablesOK'
    BY <1>1, <1>6, <2>1, <2>2, <2>5 DEF TablesOK, Becomes
  <2>7. FlightOK'
    <3>1. ASSUME NEW j \in Keys, NEW s \in Requests PROVE Leads(s, j)' <=> inflight'[j] = s
      <4>1. CASE s = r
        <5>1. Leads(r, j)' <=> j = k
          BY <2>1, <2>3 DEF Leads, Fetching
        <5>2. inflight[j] # r
          BY <1>1, <1>2 DEF FlightOK
        <5> QED
          BY <2>5, <4>1, <5>1, <5>2
      <4>2. CASE s # r
        <5>1. Leads(s, j)' <=> Leads(s, j)
          BY <2>3, <4>2 DEF Leads, Fetching
        <5>2. Leads(s, j) <=> inflight[j] = s
          BY <1>1 DEF FlightOK
        <5>3. inflight[k] # s
          BY <1>6, NoneIsNone
        <5> QED
          BY <2>5, <4>2, <5>1, <5>2, <5>3
      <4> QED
        BY <4>1, <4>2
    <3>2. ASSUME NEW j \in Keys, NEW s \in Requests, s \in Followers(j)' PROVE inflight'[j] # None
      <4>1. s # r /\ s \in Followers(j)
        BY <2>1, <2>3, <3>2 DEF Followers
      <4> QED
        BY <1>1, <2>5, <4>1, NoneIsNone DEF FlightOK
    <3> QED
      BY <3>1, <3>2 DEF FlightOK
  <2>8. TasksOK'
    BY <1>1, <1>6, <2>3, <2>4 DEF TasksOK
  <2>9. QueueOK'
    BY <1>1, <1>6, <2>1, <2>2, QueueGrows
  <2>10. CacheOK'
    <3>1. get(cache, k) = None
      BY <1>6
    <3> QED
      BY <1>1, <1>6, <2>5, <3>1 DEF CacheOK
  <2> QED
    BY <2>6, <2>7, <2>8, <2>9, <2>10 DEF Steady
<1> QED
  BY <1>4, <1>5, <1>6, Zenon DEF GetJson

-----------------------------------------------------------------------------
(***************************************************************************)
(* Steps that end a fetch in flight.                                       *)
(***************************************************************************)

\* The leader r of k ends and those that follow it wake up: nobody fetches or
\* follows k any more, and what they are told is at least what each of them had.
LEMMA WakeStep ==
  ASSUME TablesOK, FlightOK, TasksOK, NEW r \in Requests, Fetching(r), req[r].key \in Keys,
         NEW t \in Task \cup {None}, NEW outcome \in Cancelled .. MaxMoves,
         WakeAndPop(r, t, outcome), UNCHANGED market, newest' \in [Keys -> 0 .. MaxMoves],
         \A k \in Keys \ {req[r].key} : newest'[k] = newest[k],
         newest[req[r].key] <= newest'[req[r].key],
         outcome \notin {Error, Cancelled} =>
           newest[req[r].key] <= outcome /\ outcome <= newest'[req[r].key],
         t # None => t.pc = "done" /\ TaskOK(t, newest')
  PROVE  TablesOK' /\ FlightOK' /\ TasksOK'
<1> DEFINE k == req[r].key
           woken(f) == [req[f] EXCEPT !.pc = "woken", !.answer = outcome]
<1>1. /\ req' = [f \in Requests |-> IF f = r THEN t
                                    ELSE IF f \in Followers(k) THEN woken(f) ELSE req[f]]
      /\ inflight' = [inflight EXCEPT ![k] = None]
  BY Zenon DEF WakeAndPop
<1>2. /\ inflight' \in [Keys -> Requests \cup {None}]
      /\ \A j \in Keys : inflight'[j] = IF j = k THEN None ELSE inflight[j]
  BY <1>1 DEF TablesOK
<1>3. ASSUME NEW f \in Followers(k)
      PROVE  /\ req[f] \in Task /\ req[f].key = k /\ req[f].pc = "following" /\ f \in Requests
             /\ woken(f) \in Task /\ woken(f).key = k /\ woken(f).pc = "woken"
             /\ woken(f).answer = outcome /\ woken(f).floor = req[f].floor
  <2>1. /\ req[f] \in Task /\ req[f].key = k /\ req[f].pc = "following" /\ f \in Requests
        /\ req[f] # None
    BY DEF Followers, TablesOK
  <2>2. woken(f) \in Task
    BY <2>1 DEF Task
  <2>3. /\ woken(f).key = k /\ woken(f).pc = "woken"
        /\ woken(f).answer = outcome /\ woken(f).floor = req[f].floor
    BY <2>1 DEF Task
  <2> QED
    BY <2>1, <2>2, <2>3
<1> HIDE DEF woken
<1>4. \A f \in Requests : req'[f] = IF f = r THEN t
                                    ELSE IF f \in Followers(k) THEN woken(f) ELSE req[f]
  BY <1>1
<1>5. TablesOK'
  <2>1. req' \in [Requests -> Task \cup {None}]
    BY <1>1, <1>3 DEF TablesOK
  <2> QED
    BY <1>2, <2>1 DEF TablesOK
<1>6. inflight[k] = r /\ \A s \in Requests : Leads(s, k) => s = r
  BY DEF FlightOK, Leads
<1>7. FlightOK'
  <2>1. ASSUME NEW j \in Keys, NEW s \in Requests PROVE Leads(s, j)' <=> inflight'[j] = s
    <3>1. CASE s = r
      <4>1. ~Leads(s, j)'
        BY <1>4, <3>1 DEF Leads, Fetching
      <4>2. inflight'[j] # r
        BY <1>2, <1>6, NoneIsNone DEF FlightOK, Leads
      <4> QED
        BY <3>1, <4>1, <4>2
    <3>2. CASE s # r /\ s \in Followers(k)
      <4>1. ~Leads(s, j)' /\ ~Leads(s, j)
        BY <1>3, <1>4, <3>2 DEF Leads, Fetching
      <4> QED
        BY <1>2, <4>1, NoneIsNone DEF FlightOK
    <3>3. CASE s # r /\ s \notin Followers(k)
      <4>1. Leads(s, j)' <=> Leads(s, j)
        BY <1>4, <3>3 DEF Leads, Fetching
      <4>2. Leads(s, j) <=> inflight[j] = s
        BY DEF FlightOK
      <4> QED
        BY <1>2, <1>6, <3>3, <4>1, <4>2, NoneIsNone
    <3> QED
      BY <3>1, <3>2, <3>3
  <2>2. ASSUME NEW j \in Keys, NEW s \in Requests, s \in Followers(j)' PROVE inflight'[j] # None
    <3>1. s # r
      BY <1>4, <2>2 DEF Followers
    <3>2. s \notin Followers(k)
      BY <1>3, <1>4, <2>2, <3>1 DEF Followers
    <3>3. s \in Followers(j) /\ j # k
      BY <1>4, <2>2, <3>1, <3>2 DEF Followers
    <3> QED
      BY <1>2, <3>3 DEF FlightOK
  <2> QED
    BY <2>1, <2>2 DEF FlightOK
<1>8. TasksOK'
  <2>1. ASSUME NEW s \in Requests, req'[s] # None PROVE TaskOK(req'[s], newest')
    <3>1. CASE s = r
      BY <1>4, <2>1, <3>1
    <3>2. CASE s # r /\ s \in Followers(k)
      <4>1. TaskOK(req[s], newest) /\ req[s] # None
        BY <1>3, <3>2 DEF TasksOK, Followers
      <4>2. req[s].floor <= newest[k] /\ req[s].floor \in Nat
        BY <1>3, <3>2, <4>1, NoneIsNone DEF TaskOK, Task
      <4>3. newest[k] \in Nat /\ newest'[k] \in Nat /\ outcome \in Int
        BY DEF TablesOK, Cancelled
      <4> QED
        BY <1>3, <1>4, <3>2, <4>2, <4>3, NoneIsNone DEF TaskOK
    <3>3. CASE s # r /\ s \notin Followers(k)
      <4>1. TaskOK(req[s], newest) /\ req'[s] = req[s] /\ req[s] \in Task
        BY <1>4, <2>1, <3>3 DEF TasksOK, TablesOK
      <4>2. CASE req[s].key = k
        <5>1. req[s].pc # "calling"
          BY <1>6, <2>1, <3>3, <4>1, <4>2 DEF Leads, Fetching
        <5>2. /\ newest[k] \in Nat /\ newest'[k] \in Nat
              /\ req[s].floor \in Nat /\ req[s].answer \in Int
          BY <4>1 DEF TablesOK, Task, Cancelled
        <5> QED
          BY <4>1, <4>2, <5>1, <5>2, NoneIsNone DEF TaskOK
      <4>3. CASE req[s].key # k
        <5>1. req[s].key # None => newest'[req[s].key] = newest[req[s].key]
          BY <4>1, <4>3 DEF Task
        <5> QED
          BY <4>1, <5>1 DEF TaskOK
      <4> QED
        BY <4>2, <4>3
    <3> QED
      BY <3>1, <3>2, <3>3
  <2> QED
    BY <2>1 DEF TasksOK
<1> QED
  BY <1>5, <1>7, <1>8

\* Those that follow are not in the queue, and do not join it.
LEMMA WakeQueue ==
  ASSUME TablesOK, QueueOK, NEW r \in Requests, NEW t, NEW outcome, WakeAndPop(r, t, outcome),
         t = None \/ t.pc = "done", Distinct(queue'),
         \A s \in Requests : Waits(queue', s) <=> Waits(queue, s) /\ s # r
  PROVE  QueueOK'
<1> DEFINE k == req[r].key
           woken(f) == [req[f] EXCEPT !.pc = "woken", !.answer = outcome]
<1>1. \A f \in Requests : req'[f] = IF f = r THEN t
                                    ELSE IF f \in Followers(k) THEN woken(f) ELSE req[f]
  BY Zenon DEF WakeAndPop
<1>2. ASSUME NEW f \in Followers(k)
      PROVE  woken(f).pc = "woken" /\ req[f].pc = "following"
  BY DEF Followers, TablesOK, Task
<1> HIDE DEF woken
<1> QED
  BY <1>1, <1>2 DEF QueueOK

\* The cache of keys when a fetch ends without an answer.
LEMMA CacheStays ==
  ASSUME CacheOK, UNCHANGED <<cache, market, newest>>,
         \A k \in Keys : inflight'[k] # None => inflight[k] # None
  PROVE  CacheOK'
BY DEF CacheOK, get

-----------------------------------------------------------------------------
(***************************************************************************)
(* Requests for prices.                                                    *)
(***************************************************************************)

\* The next batch and the rest account for what is missing; without anything
\* missing the request is done.
LEMMA NextBatchStep ==
  ASSUME TablesOK, QueueOK, FlightOK, TasksOK, UNCHANGED <<inflight, newest, market>>,
         NEW r \in Requests, NEW t \in Task, NEW missing \in SUBSET Coins,
         t.key = None, IsFiniteSet(t.asked), t.quotes \cup t.unlisted \cup missing = t.asked,
         req[r] = None \/ (req[r].key = None /\ req[r].pc # "queued"),
         NextBatch(r, t, missing)
  PROVE  TablesOK' /\ QueueOK' /\ FlightOK' /\ TasksOK'
<1>1. \A j \in Keys : ~Leads(r, j)
  BY NoneIsNone DEF Leads, Fetching
<1>2. CASE missing = {}
  <2>1. req' = [req EXCEPT ![r] = Done(t, 0)] /\ UNCHANGED queue
    BY <1>2 DEF NextBatch
  <2>2. 0 \in Cancelled .. MaxMoves
    BY Limits DEF Cancelled
  <2>3. /\ Done(t, 0) \in Task /\ Done(t, 0).pc = "done" /\ Done(t, 0).key = None
        /\ Done(t, 0).asked = t.asked /\ Done(t, 0).quotes = t.quotes
        /\ Done(t, 0).unlisted = t.unlisted /\ Done(t, 0) # None
    BY <2>2, DoneTask, NoneIsNone
  <2>4. TaskOK(Done(t, 0), newest)
    BY <1>2, <2>3 DEF TaskOK, Fetches
  <2>5. Becomes(r, Done(t, 0))
    BY <2>1, ExceptBecomes
  <2>6. TablesOK' /\ FlightOK' /\ TasksOK'
    BY <1>1, <2>3, <2>4, <2>5, OneTaskStep DEF TablesOK, Fetches
  <2>7. QueueOK'
    BY <2>1, <2>3, <2>5, QueueStays
  <2> QED
    BY <2>6, <2>7
<1>3. CASE missing # {}
  <2>1. PICK b \in SUBSET missing :
          /\ req' = [req EXCEPT ![r] = [t EXCEPT !.pc = "queued", !.attempt = 0,
                                                 !.batch = b, !.rest = missing \ b]]
          /\ queue' = Append(queue, r)
    BY <1>3 DEF NextBatch
  <2> DEFINE u == [t EXCEPT !.pc = "queued", !.attempt = 0, !.batch = b, !.rest = missing \ b]
  <2>2. u \in Task /\ u.pc = "queued" /\ u.key = None /\ u.asked = t.asked /\ u # None
        /\ u.quotes = t.quotes /\ u.unlisted = t.unlisted /\ u.batch = b /\ u.rest = missing \ b
    <3>1. 0 \in 0 .. MaxRetries /\ b \in SUBSET Coins /\ missing \ b \in SUBSET Coins
      BY Limits
    <3>2. u \in Task
      BY <3>1 DEF Task
    <3>3. /\ u.pc = "queued" /\ u.key = None /\ u.asked = t.asked
          /\ u.quotes = t.quotes /\ u.unlisted = t.unlisted
          /\ u.batch = b /\ u.rest = missing \ b
      BY DEF Task
    <3> HIDE DEF u
    <3> QED
      BY <3>2, <3>3, NoneIsNone
  <2>3. Becomes(r, u)
    BY <2>1, ExceptBecomes
  <2> HIDE DEF u
  <2>4. u.quotes \cup u.unlisted \cup u.batch \cup u.rest = u.asked
    BY <2>2
  <2>5. TaskOK(u, newest)
    BY <2>2, <2>4 DEF TaskOK
  <2>6. TablesOK' /\ FlightOK' /\ TasksOK'
    BY <1>1, <2>2, <2>3, <2>5, NoneIsNone, OneTaskStep DEF TablesOK
  <2>7. QueueOK'
    BY <2>1, <2>2, <2>3, QueueGrows
  <2> QED
    BY <2>6, <2>7
<1> QED
  BY <1>2, <1>3

-----------------------------------------------------------------------------
(***************************************************************************)
(* The steps of a request.                                                 *)
(***************************************************************************)

\* What the invariant says of a request that is there.
LEMMA OfTask ==
  ASSUME Steady, NEW r \in Requests, req[r] # None
  PROVE  /\ req[r] \in Task /\ TaskOK(req[r], newest)
         /\ req[r].key = None \/ req[r].key \in Keys
         /\ req[r].batch \subseteq Coins /\ req[r].rest \subseteq Coins
         /\ req[r].answer \in Cancelled .. MaxMoves
         /\ market \in 0 .. MaxMoves
<1>1. req[r] \in Task /\ TaskOK(req[r], newest) /\ market \in 0 .. MaxMoves
  BY DEF Steady, TablesOK, TasksOK
<1> QED
  BY <1>1 DEF Task

\* A request for a key begins, with what was newest then as its floor.
LEMMA AskKeyStep ==
  ASSUME Steady, NEW r \in Requests, NEW k \in Keys, AskKey(r, k)
  PROVE  Steady'
<1> DEFINE t == NewTask(k, {}, newest[k])
<1>1. t \in Task /\ t.key = k /\ t.answer = Error /\ t.floor = newest[k]
  <2>1. newest[k] \in 0 .. MaxMoves /\ 0 \in 0 .. MaxMoves /\ 0 \in 0 .. MaxRetries
        /\ Error \in Cancelled .. MaxMoves
    BY Limits DEF Steady, TablesOK, Error, Cancelled
  <2> QED
    BY <2>1 DEF NewTask, Task
<1>2. /\ GetJson(r, t) /\ UNCHANGED <<cache, market>> /\ req[r] = None
      /\ newest[k] <= newest[k]
  BY DEF AskKey, Steady, TablesOK
<1> HIDE DEF t
<1> QED
  BY <1>1, <1>2, GetJsonStep

\* A request for prices begins: its coins are cached or missing.
LEMMA GetSimplePricesStep ==
  ASSUME Steady, NEW r \in Requests, NEW coins \in Wants[r], get_simple_prices(r, coins)
  PROVE  Steady'
<1> DEFINE cached == {c \in coins : get(cache, c) # None}
           t == [NewTask(None, coins, 0) EXCEPT !.quotes = cached]
<1>1. /\ req[r] = None /\ NextBatch(r, t, coins \ cached)
      /\ UNCHANGED <<cache, inflight, market, newest>>
  BY Zenon DEF get_simple_prices
<1>2. IsFiniteSet(coins) /\ coins \subseteq Coins
  BY CoinGeckoAssumption
<1>3. /\ t \in Task /\ t.key = None /\ t.asked = coins /\ t.quotes = cached
      /\ t.unlisted = {}
  <2>1. 0 \in 0 .. MaxMoves /\ 0 \in 0 .. MaxRetries /\ Error \in Cancelled .. MaxMoves
    BY Limits DEF Error, Cancelled
  <2> QED
    BY <1>2, <2>1 DEF NewTask, Task
<1>4. t.quotes \cup t.unlisted \cup (coins \ cached) = coins
  BY <1>3
<1> HIDE DEF t, cached
<1>5. TablesOK /\ CacheOK /\ QueueOK /\ FlightOK /\ TasksOK
  BY DEF Steady
<1>6. TablesOK' /\ QueueOK' /\ FlightOK' /\ TasksOK'
  BY <1>1, <1>2, <1>3, <1>4, <1>5, NextBatchStep
<1>7. CacheOK'
  BY <1>1, <1>5, CacheStays
<1> QED
  BY <1>6, <1>7 DEF Steady

\* A request that is done leaves.
LEMMA ReturnStep ==
  ASSUME Steady, NEW r \in Requests, Return(r)
  PROVE  Steady'
<1>1. TablesOK /\ CacheOK /\ QueueOK /\ FlightOK /\ TasksOK
  BY DEF Steady
<1>2. /\ req[r] # None /\ req[r].pc = "done" /\ Becomes(r, None)
      /\ UNCHANGED <<cache, inflight, queue, market, newest>>
  BY <1>1, ExceptBecomes DEF Return
<1>3. TablesOK' /\ FlightOK' /\ TasksOK'
  BY <1>1, <1>2, OneTaskStep DEF TablesOK, Leads, Fetching
<1>4. QueueOK'
  BY <1>1, <1>2, QueueStays
<1>5. CacheOK'
  BY <1>1, <1>2, CacheStays
<1> QED
  BY <1>3, <1>4, <1>5 DEF Steady

\* A call is sent after every answer to its key.
LEMMA AcquireStep ==
  ASSUME Steady, NEW r \in Requests, Acquire(r)
  PROVE  Steady'
<1> DEFINE t == [req[r] EXCEPT !.pc = "calling", !.sent = market]
<1>1. TablesOK /\ CacheOK /\ QueueOK /\ FlightOK /\ TasksOK
  BY DEF Steady
<1>2. /\ queue # << >> /\ r = Head(queue) /\ queue' = Tail(queue)
      /\ UNCHANGED <<cache, inflight, market, newest>>
      /\ req' = [req EXCEPT ![r] = t]
  BY DEF Acquire
<1>3. /\ Distinct(queue') /\ Waits(queue, r)
      /\ \A s : Waits(queue', s) <=> Waits(queue, s) /\ s # r
  BY <1>1, <1>2, Admitted DEF QueueOK
<1>4. req[r] # None /\ req[r].pc = "queued"
  BY <1>1, <1>3 DEF QueueOK
<1>5. /\ req[r] \in Task /\ TaskOK(req[r], newest) /\ market \in 0 .. MaxMoves
      /\ req[r].key = None \/ req[r].key \in Keys
  BY <1>4, OfTask
<1>6. /\ t \in Task /\ t.pc = "calling" /\ t.key = req[r].key /\ t.sent = market
      /\ t.floor = req[r].floor /\ t.asked = req[r].asked /\ t.quotes = req[r].quotes
      /\ t.unlisted = req[r].unlisted /\ t.batch = req[r].batch /\ t.rest = req[r].rest
  BY <1>5 DEF Task
<1> HIDE DEF t
<1>7. t # None /\ Becomes(r, t)
  BY <1>1, <1>2, <1>6, ExceptBecomes, NoneIsNone
<1>8. TaskOK(t, newest)
  <2>1. t.key # None => newest[t.key] <= t.sent
    BY <1>1, <1>5, <1>6 DEF CacheOK
  <2> QED
    BY <1>4, <1>5, <1>6, <2>1 DEF TaskOK, Fetches
<1>9. TablesOK' /\ FlightOK' /\ TasksOK'
  BY <1>1, <1>2, <1>4, <1>6, <1>7, <1>8, OneTaskStep DEF TablesOK, Leads, Fetching, Fetches
<1>10. QueueOK'
  BY <1>1, <1>3, <1>6, <1>7, QueueStep
<1>11. CacheOK'
  BY <1>1, <1>2, CacheStays
<1> QED
  BY <1>9, <1>10, <1>11 DEF Steady

\* An answer that CoinGecko gave is newer than all those before: the leader of a
\* key caches it for everybody, and prices are cached one by one.
LEMMA ReceiveStep ==
  ASSUME Steady, NEW r \in Requests, Receive(r)
  PROVE  Steady'
<1>1. TablesOK /\ CacheOK /\ QueueOK /\ FlightOK /\ TasksOK
  BY DEF Steady
<1>2. req[r] # None /\ req[r].pc = "calling" /\ UNCHANGED market
  BY DEF Receive
<1>3. /\ req[r] \in Task /\ TaskOK(req[r], newest) /\ market \in 0 .. MaxMoves
      /\ req[r].key = None \/ req[r].key \in Keys
      /\ req[r].batch \subseteq Coins /\ req[r].rest \subseteq Coins
  BY <1>2, OfTask
<1>4. PICK v \in req[r].sent .. market :
        IF req[r].key # None
        THEN /\ WakeAndPop(r, Done(req[r], v), v)
             /\ newest' = Seen(req[r].key, v)
             /\ cache' = put(cache, req[r].key, v)
             /\ UNCHANGED queue
        ELSE \E gone \in SUBSET (req[r].batch \cap Delisted) :
               LET listed == req[r].batch \ gone IN
               /\ NextBatch(r, [req[r] EXCEPT !.quotes = @ \cup listed,
                                              !.unlisted = @ \cup gone],
                            req[r].rest)
               /\ cache' \in putAll(cache, listed, v)
               /\ UNCHANGED <<inflight, newest>>
  BY Zenon DEF Receive
<1>5. v \in 0 .. MaxMoves /\ v <= market /\ req[r].sent <= v /\ req[r].sent \in 0 .. MaxMoves
      /\ v \in Cancelled .. MaxMoves
  <2>1. req[r].sent \in 0 .. MaxMoves
    BY <1>3 DEF Task
  <2> QED
    BY <1>3, <2>1, Limits DEF Cancelled
<1>6. CASE req[r].key # None
  <2> DEFINE k == req[r].key
             t == Done(req[r], v)
  <2>1. /\ WakeAndPop(r, t, v) /\ newest' = Seen(k, v) /\ cache' = put(cache, k, v)
        /\ UNCHANGED queue /\ k \in Keys
    BY <1>3, <1>4, <1>6
  <2>2. newest[k] \in 0 .. MaxMoves /\ newest[k] <= req[r].sent
    BY <1>1, <1>2, <1>3, <1>6 DEF TablesOK, TaskOK
  <2>3. newest' = [newest EXCEPT ![k] = v]
    <3>1. (IF v > newest[k] THEN v ELSE newest[k]) = v
      BY <1>5, <2>2
    <3>2. Seen(k, v) = [newest EXCEPT ![k] = IF v > newest[k] THEN v ELSE newest[k]]
      BY <1>1, <2>1 DEF Seen, TablesOK
    <3> QED
      BY <2>1, <3>1, <3>2
  <2>4. /\ newest' \in [Keys -> 0 .. MaxMoves] /\ newest'[k] = v /\ newest[k] <= v
        /\ \A j \in Keys \ {k} : newest'[j] = newest[j]
    BY <1>1, <1>5, <2>1, <2>2, <2>3 DEF TablesOK
  <2>5. /\ t \in Task /\ t.pc = "done" /\ t.key = k /\ t.answer = v /\ t.floor = req[r].floor
    BY <1>3, <1>5, DoneTask
  <2>6. TaskOK(t, newest')
    <3>1. req[r].floor <= newest[k] /\ req[r].floor \in Nat
      BY <1>3, <1>6 DEF TaskOK, Task
    <3> QED
      BY <1>5, <1>6, <2>2, <2>4, <2>5, <3>1 DEF TaskOK
  <2> HIDE DEF t
  <2>7. TablesOK' /\ FlightOK' /\ TasksOK'
    BY <1>1, <1>2, <1>5, <2>1, <2>4, <2>5, <2>6, WakeStep DEF Fetching
  <2>8. QueueOK'
    <3>1. Distinct(queue') /\ ~Waits(queue, r) /\ \A s : Waits(queue', s) <=> Waits(queue, s)
      BY <1>1, <1>2, <2>1 DEF QueueOK
    <3> QED
      BY <1>1, <2>1, <2>5, <3>1, WakeQueue
  <2>9. CacheOK'
    <3>1. Stores(cache, cache', k, v)
      BY <1>1, <1>5, <2>1, PutStores DEF CacheOK
    <3>2. inflight' = [inflight EXCEPT ![k] = None]
      BY <2>1 DEF WakeAndPop
    <3>3. \A j \in Keys : inflight'[j] = IF j = k THEN None ELSE inflight[j]
      BY <1>1, <3>2 DEF TablesOK
    <3>4. /\ IsCache(cache') /\ cache'[k].version = v
          /\ \A j \in DOMAIN cache' \ {k} :
               /\ j \in DOMAIN cache /\ cache'[j].version = cache[j].version
               /\ cache'[j].fresh = cache[j].fresh
      BY <3>1 DEF Stores
    <3>5. \A j \in DOMAIN cache' : cache'[j].version <= market'
      BY <1>1, <1>2, <1>5, <3>4 DEF CacheOK
    <3>6. \A j \in Keys : newest'[j] <= market' /\
                          (j \in DOMAIN cache' => cache'[j].version = newest'[j])
      BY <1>1, <1>2, <1>5, <2>4, <3>4 DEF CacheOK
    <3>7. ASSUME NEW j \in Keys, inflight'[j] # None PROVE get(cache', j) = None
      <4>1. j # k /\ get(cache, j) = None
        BY <1>1, <3>3, <3>7 DEF CacheOK
      <4> QED
        BY <3>4, <4>1 DEF get
    <3> QED
      BY <3>4, <3>5, <3>6, <3>7 DEF CacheOK
  <2> QED
    BY <2>7, <2>8, <2>9 DEF Steady
<1>7. CASE req[r].key = None
  <2>1. PICK gone \in SUBSET (req[r].batch \cap Delisted) :
          /\ NextBatch(r, [req[r] EXCEPT !.quotes = @ \cup (req[r].batch \ gone),
                                         !.unlisted = @ \cup gone],
                       req[r].rest)
          /\ cache' \in putAll(cache, req[r].batch \ gone, v)
          /\ UNCHANGED <<inflight, newest>>
    BY <1>4, <1>7
  <2> DEFINE listed == req[r].batch \ gone
             t == [req[r] EXCEPT !.quotes = @ \cup listed, !.unlisted = @ \cup gone]
  <2>2. /\ t \in Task /\ t.key = None /\ t.asked = req[r].asked
        /\ t.quotes = req[r].quotes \cup listed /\ t.unlisted = req[r].unlisted \cup gone
    BY <1>3, <1>7 DEF Task
  <2>3. /\ IsFiniteSet(req[r].asked)
        /\ req[r].quotes \cup req[r].unlisted \cup req[r].batch \cup req[r].rest = req[r].asked
    BY <1>2, <1>3, <1>7 DEF TaskOK, Fetches
  <2>4. t.quotes \cup t.unlisted \cup req[r].rest = t.asked
    BY <2>2, <2>3
  <2> HIDE DEF t
  <2>5. TablesOK' /\ QueueOK' /\ FlightOK' /\ TasksOK'
    BY <1>1, <1>2, <1>3, <1>7, <2>1, <2>2, <2>3, <2>4, NextBatchStep DEF t
  <2>6. CacheOK'
    <3>1. IsFiniteSet(listed) /\ listed \in SUBSET Coins
      BY <1>3, <2>3, FS_Subset
    <3>2. StoresAll(cache, cache', listed, v)
      BY <1>1, <1>5, <2>1, <3>1, PutAllStores DEF CacheOK
    <3>3. /\ IsCache(cache')
          /\ \A j \in DOMAIN cache' :
               \/ j \in listed /\ cache'[j].version = v
               \/ /\ j \in DOMAIN cache /\ cache'[j].version = cache[j].version
                  /\ cache'[j].fresh = cache[j].fresh
      BY <3>2 DEF StoresAll
    <3>4. \A j \in DOMAIN cache' : cache'[j].version <= market'
      BY <1>1, <1>2, <1>5, <3>3 DEF CacheOK
    <3>5. \A j \in Keys : j \in DOMAIN cache' =>
            /\ j \in DOMAIN cache /\ cache'[j].version = cache[j].version
            /\ cache'[j].fresh = cache[j].fresh
      BY <3>1, <3>3, Limits
    <3> QED
      BY <1>1, <1>2, <2>1, <3>3, <3>4, <3>5 DEF CacheOK, get
  <2> QED
    BY <2>5, <2>6 DEF Steady
<1> QED
  BY <1>6, <1>7

\* What replaces an answer is what was answered last.
LEMMA FallBackStep ==
  ASSUME Steady, NEW r \in Requests, req[r] # None, req[r].pc = "calling", FallBack(r),
         UNCHANGED market
  PROVE  Steady'
<1>1. TablesOK /\ CacheOK /\ QueueOK /\ FlightOK /\ TasksOK
  BY DEF Steady
<1>2. /\ req[r] \in Task /\ TaskOK(req[r], newest) /\ market \in 0 .. MaxMoves
      /\ req[r].key = None \/ req[r].key \in Keys
      /\ req[r].batch \subseteq Coins /\ req[r].rest \subseteq Coins
  BY OfTask
<1>3. CASE req[r].key # None
  <2> DEFINE k == req[r].key
             stale == get_stale(cache, k)
             v == IF stale = None THEN Error ELSE stale
             t == Done(req[r], v)
  <2>1. /\ WakeAndPop(r, t, v) /\ newest' = Seen(k, v) /\ UNCHANGED <<cache, queue>>
        /\ k \in Keys
    BY <1>2, <1>3 DEF FallBack
  <2>2. newest[k] \in 0 .. MaxMoves
    BY <1>1, <2>1 DEF TablesOK
  <2>3. v = Error \/ v = newest[k]
    BY <1>1, <2>1 DEF get_stale, CacheOK
  <2> HIDE DEF v
  <2>4. newest' = newest /\ v \in Cancelled .. MaxMoves
    <3>1. v <= newest[k] /\ v \in Cancelled .. MaxMoves
      BY <2>2, <2>3, Limits DEF Error, Cancelled
    <3>2. ~(v > newest[k])
      BY <2>2, <3>1 DEF Cancelled
    <3> QED
      BY <1>1, <2>1, <3>1, <3>2 DEF Seen, TablesOK
  <2>5. t \in Task /\ t.pc = "done" /\ t.key = k /\ t.answer = v /\ t.floor = req[r].floor
    BY <1>2, <2>4, DoneTask
  <2> HIDE DEF t
  <2>6. TaskOK(t, newest')
    <3>1. req[r].floor <= newest[k]
      BY <1>2, <1>3 DEF TaskOK
    <3> QED
      BY <1>3, <2>3, <2>4, <2>5, <3>1 DEF TaskOK
  <2>7. TablesOK' /\ FlightOK' /\ TasksOK'
    <3>1. newest' \in [Keys -> 0 .. MaxMoves] /\ newest[k] <= newest'[k]
          /\ (v \notin {Error, Cancelled} => newest[k] <= v /\ v <= newest'[k])
      BY <1>1, <2>2, <2>3, <2>4 DEF TablesOK
    <3> QED
      BY <1>1, <2>1, <2>4, <2>5, <2>6, <3>1, WakeStep DEF Fetching
  <2>8. QueueOK'
    <3>1. Distinct(queue') /\ ~Waits(queue, r) /\ \A s : Waits(queue', s) <=> Waits(queue, s)
      BY <1>1, <2>1 DEF QueueOK
    <3> QED
      BY <1>1, <2>1, <2>5, <3>1, WakeQueue
  <2>9. CacheOK'
    <3>1. inflight' = [inflight EXCEPT ![k] = None]
      BY <2>1 DEF WakeAndPop
    <3> QED
      BY <1>1, <2>1, <2>4, <3>1, CacheStays DEF TablesOK
  <2> QED
    BY <2>7, <2>8, <2>9 DEF Steady
<1>4. CASE req[r].key = None
  <2>1. UNCHANGED <<cache, inflight, newest>>
    BY <1>4 DEF FallBack
  <2>2. CacheOK'
    BY <1>1, <2>1, CacheStays
  <2>3. TablesOK' /\ QueueOK' /\ FlightOK' /\ TasksOK'
    <3>1. CASE \A c \in req[r].batch : get_stale(cache, c) # None
      <4> DEFINE t == [req[r] EXCEPT !.quotes = @ \cup req[r].batch]
      <4>1. NextBatch(r, t, req[r].rest)
        BY <1>4, <3>1 DEF FallBack
      <4>2. /\ t \in Task /\ t.key = None /\ t.asked = req[r].asked
            /\ t.quotes = req[r].quotes \cup req[r].batch /\ t.unlisted = req[r].unlisted
        BY <1>2, <1>4 DEF Task
      <4>3. /\ IsFiniteSet(req[r].asked)
            /\ req[r].quotes \cup req[r].unlisted \cup req[r].batch \cup req[r].rest
                 = req[r].asked
        BY <1>2, <1>4 DEF TaskOK, Fetches
      <4> HIDE DEF t
      <4>4. t.quotes \cup t.unlisted \cup req[r].rest = t.asked
        BY <4>2, <4>3
      <4> QED
        BY <1>1, <1>2, <1>4, <2>1, <4>1, <4>2, <4>3, <4>4, NextBatchStep
    <3>2. CASE ~\A c \in req[r].batch : get_stale(cache, c) # None
      <4> DEFINE t == Done(req[r], Error)
      <4>1. req' = [req EXCEPT ![r] = t] /\ UNCHANGED queue
        BY <1>4, <3>2 DEF FallBack
      <4>2. Error \in Cancelled .. MaxMoves
        BY Limits DEF Error, Cancelled
      <4>3. t \in Task /\ t.pc = "done" /\ t.key = None /\ t.answer = Error
            /\ t.asked = req[r].asked
        BY <1>2, <1>4, <4>2, DoneTask
      <4> HIDE DEF t
      <4>4. t # None /\ Becomes(r, t)
        BY <1>1, <4>1, <4>3, ExceptBecomes, NoneIsNone
      <4>5. TaskOK(t, newest)
        BY <1>2, <1>4, <4>3 DEF TaskOK, Fetches
      <4>6. TablesOK' /\ FlightOK' /\ TasksOK'
        BY <1>1, <1>2, <1>4, <2>1, <4>3, <4>4, <4>5, NoneIsNone, OneTaskStep
        DEF Fetches, Leads
      <4>7. QueueOK'
        BY <1>1, <4>1, <4>3, <4>4, QueueStays
      <4> QED
        BY <4>6, <4>7
    <3> QED
      BY <3>1, <3>2
  <2> QED
    BY <2>2, <2>3 DEF Steady
<1> QED
  BY <1>3, <1>4

\* A failed attempt sleeps with all it had, or falls back when it was the last.
LEMMA FailStep ==
  ASSUME Steady, NEW r \in Requests, Fail(r)
  PROVE  Steady'
<1>1. TablesOK /\ CacheOK /\ QueueOK /\ FlightOK /\ TasksOK
  BY DEF Steady
<1>2. req[r] # None /\ req[r].pc = "calling" /\ UNCHANGED market
  BY DEF Fail
<1>3. CASE FallBack(r)
  BY <1>2, <1>3, FallBackStep
<1>4. CASE ~FallBack(r)
  <2> DEFINE t == [req[r] EXCEPT !.pc = "sleeping", !.sent = 0]
  <2>1. req' = [req EXCEPT ![r] = t] /\ UNCHANGED <<cache, inflight, queue, newest>>
    BY <1>1, <1>4 DEF Fail, TablesOK
  <2>2. req[r] \in Task /\ TaskOK(req[r], newest) /\ market \in 0 .. MaxMoves
    BY <1>2, OfTask
  <2>3. /\ t \in Task /\ t.pc = "sleeping" /\ t.key = req[r].key
        /\ t.floor = req[r].floor /\ t.asked = req[r].asked /\ t.quotes = req[r].quotes
        /\ t.unlisted = req[r].unlisted /\ t.batch = req[r].batch /\ t.rest = req[r].rest
    <3>1. 0 \in 0 .. MaxMoves
      BY Limits
    <3> QED
      BY <2>2, <3>1 DEF Task
  <2> HIDE DEF t
  <2>4. t # None /\ Becomes(r, t)
    BY <1>1, <2>1, <2>3, ExceptBecomes, NoneIsNone
  <2>5. TaskOK(t, newest)
    BY <1>2, <2>2, <2>3 DEF TaskOK, Fetches
  <2>6. TablesOK' /\ FlightOK' /\ TasksOK'
    BY <1>1, <1>2, <2>1, <2>2, <2>3, <2>4, <2>5, OneTaskStep DEF Leads, Fetching, Fetches
  <2>7. QueueOK'
    BY <1>1, <1>2, <2>1, <2>3, <2>4, QueueStays
  <2>8. CacheOK'
    BY <1>1, <1>2, <2>1, CacheStays
  <2> QED
    BY <2>6, <2>7, <2>8 DEF Steady
<1> QED
  BY <1>3, <1>4

\* The next attempt waits for the semaphore like the first.
LEMMA WakeUpStep ==
  ASSUME Steady, NEW r \in Requests, WakeUp(r)
  PROVE  Steady'
<1> DEFINE t == [req[r] EXCEPT !.pc = "queued", !.attempt = @ + 1]
<1>1. TablesOK /\ CacheOK /\ QueueOK /\ FlightOK /\ TasksOK
  BY DEF Steady
<1>2. /\ req[r] # None /\ req[r].pc = "sleeping" /\ req[r].attempt < MaxRetries
      /\ queue' = Append(queue, r) /\ UNCHANGED <<cache, inflight, market, newest>>
      /\ req' = [req EXCEPT ![r] = t]
  BY <1>1 DEF WakeUp, TablesOK
<1>3. req[r] \in Task /\ TaskOK(req[r], newest) /\ market \in 0 .. MaxMoves
  BY <1>2, OfTask
<1>4. /\ t \in Task /\ t.pc = "queued" /\ t.key = req[r].key
      /\ t.floor = req[r].floor /\ t.asked = req[r].asked /\ t.quotes = req[r].quotes
      /\ t.unlisted = req[r].unlisted /\ t.batch = req[r].batch /\ t.rest = req[r].rest
  <2>1. req[r].attempt \in 0 .. MaxRetries
    BY <1>3 DEF Task
  <2>2. req[r].attempt + 1 \in 0 .. MaxRetries
    BY <1>2, <2>1, Limits
  <2> QED
    BY <1>3, <2>2 DEF Task
<1> HIDE DEF t
<1>5. t # None /\ Becomes(r, t)
  BY <1>1, <1>2, <1>4, ExceptBecomes, NoneIsNone
<1>6. TaskOK(t, newest)
  BY <1>2, <1>3, <1>4 DEF TaskOK, Fetches
<1>7. TablesOK' /\ FlightOK' /\ TasksOK'
  BY <1>1, <1>2, <1>3, <1>4, <1>5, <1>6, OneTaskStep DEF Leads, Fetching, Fetches
<1>8. QueueOK'
  BY <1>1, <1>2, <1>4, <1>5, QueueGrows
<1>9. CacheOK'
  BY <1>1, <1>2, CacheStays
<1> QED
  BY <1>7, <1>8, <1>9 DEF Steady

\* A leader that is cancelled wakes those that follow it and leaves the queue.
LEMMA CancelStep ==
  ASSUME Steady, NEW r \in Requests, Cancel(r)
  PROVE  Steady'
<1>1. TablesOK /\ CacheOK /\ QueueOK /\ FlightOK /\ TasksOK
  BY DEF Steady
<1>2. /\ Fetching(r) /\ req[r] # None /\ queue' = RemoveFirst(queue, r)
      /\ UNCHANGED <<cache, market, newest>>
  BY DEF Cancel, Fetching
<1>3. req[r] \in Task /\ (req[r].key = None \/ req[r].key \in Keys) /\ market \in 0 .. MaxMoves
  BY <1>2, OfTask
<1>4. Distinct(queue') /\ \A s : Waits(queue', s) <=> Waits(queue, s) /\ s # r
  BY <1>1, <1>2, Withdrawn DEF QueueOK
<1>5. CASE req[r].key # None
  <2> DEFINE k == req[r].key
  <2>1. WakeAndPop(r, None, Cancelled) /\ k \in Keys
    BY <1>3, <1>5 DEF Cancel
  <2>2. Cancelled \in Cancelled .. MaxMoves
    BY Limits DEF Cancelled
  <2>3. newest[k] <= newest'[k] /\ newest' \in [Keys -> 0 .. MaxMoves]
    BY <1>1, <1>2, <2>1 DEF TablesOK
  <2>4. TablesOK' /\ FlightOK' /\ TasksOK'
    BY <1>1, <1>2, <2>1, <2>2, <2>3, WakeStep
  <2>5. QueueOK'
    BY <1>1, <1>4, <2>1, WakeQueue
  <2>6. CacheOK'
    <3>1. inflight' = [inflight EXCEPT ![k] = None]
      BY <2>1 DEF WakeAndPop
    <3> QED
      BY <1>1, <1>2, <2>1, <3>1, CacheStays DEF TablesOK
  <2> QED
    BY <2>4, <2>5, <2>6 DEF Steady
<1>6. CASE req[r].key = None
  <2>1. Becomes(r, None) /\ UNCHANGED inflight
    BY <1>1, <1>6, ExceptBecomes DEF Cancel
  <2>2. \A k \in Keys : ~Leads(r, k)
    BY <1>6, NoneIsNone DEF Leads
  <2>3. TablesOK' /\ FlightOK' /\ TasksOK'
    BY <1>1, <1>2, <1>3, <2>1, <2>2, OneTaskStep
  <2>4. QueueOK'
    BY <1>1, <1>4, <2>1, QueueStep
  <2>5. CacheOK'
    BY <1>1, <1>2, <2>1, CacheStays
  <2> QED
    BY <2>3, <2>4, <2>5 DEF Steady
<1> QED
  BY <1>5, <1>6

\* A follower that is cancelled goes on following until it runs.
LEMMA CancelFollowerStep ==
  ASSUME Steady, NEW r \in Requests, CancelFollower(r)
  PROVE  Steady'
<1> DEFINE t == [req[r] EXCEPT !.cancelled = TRUE]
<1>1. TablesOK /\ CacheOK /\ QueueOK /\ FlightOK /\ TasksOK
  BY DEF Steady
<1>2. /\ req[r] # None /\ req[r].pc \in {"following", "woken"}
      /\ UNCHANGED <<cache, inflight, queue, market, newest>>
      /\ req' = [req EXCEPT ![r] = t]
  BY <1>1 DEF CancelFollower, TablesOK
<1>3. req[r] \in Task /\ TaskOK(req[r], newest) /\ market \in 0 .. MaxMoves
  BY <1>2, OfTask
<1>4. /\ t \in Task /\ t.pc = req[r].pc /\ t.key = req[r].key
      /\ t.floor = req[r].floor /\ t.asked = req[r].asked /\ t.answer = req[r].answer
  BY <1>3 DEF Task
<1> HIDE DEF t
<1>5. t # None /\ Becomes(r, t)
  BY <1>1, <1>2, <1>4, ExceptBecomes, NoneIsNone
<1>6. TaskOK(t, newest)
  BY <1>2, <1>3, <1>4 DEF TaskOK, Fetches
<1>7. t.pc = "following" /\ t.key \in Keys => inflight[t.key] # None
  BY <1>1, <1>2, <1>4 DEF FlightOK, Followers
<1>8. TablesOK' /\ FlightOK' /\ TasksOK'
  BY <1>1, <1>2, <1>3, <1>4, <1>5, <1>6, <1>7, OneTaskStep DEF Leads, Fetching, Fetches
<1>9. QueueOK'
  BY <1>1, <1>2, <1>4, <1>5, QueueStays
<1>10. CacheOK'
  BY <1>1, <1>2, CacheStays
<1> QED
  BY <1>8, <1>9, <1>10 DEF Steady

\* A follower asks anew, is cancelled, or takes the answer of its leader, which
\* is no older than what it had seen and no newer than the newest.
LEMMA ResumeStep ==
  ASSUME Steady, NEW r \in Requests, Resume(r)
  PROVE  Steady'
<1>1. TablesOK /\ CacheOK /\ QueueOK /\ FlightOK /\ TasksOK
  BY DEF Steady
<1>2. req[r] # None /\ UNCHANGED <<cache, market>>
  BY DEF Resume
<1>3. /\ req[r] \in Task /\ TaskOK(req[r], newest) /\ market \in 0 .. MaxMoves
      /\ (req[r].key = None \/ req[r].key \in Keys) /\ req[r].answer \in Cancelled .. MaxMoves
  BY <1>2, OfTask
<1>4. CASE /\ req[r].pc = "woken" /\ req[r].answer = Cancelled
           /\ GetJson(r, [req[r] EXCEPT !.answer = Error, !.cancelled = FALSE])
  <2> DEFINE t == [req[r] EXCEPT !.answer = Error, !.cancelled = FALSE]
  <2>1. req[r].key \in Keys /\ req[r].floor <= newest[req[r].key]
    BY <1>3, <1>4 DEF TaskOK
  <2>2. t \in Task /\ t.key = req[r].key /\ t.answer = Error /\ t.floor = req[r].floor
    <3>1. Error \in Cancelled .. MaxMoves
      BY Limits DEF Error, Cancelled
    <3> QED
      BY <1>3, <3>1 DEF Task
  <2>3. GetJson(r, t)
    BY <1>4
  <2> HIDE DEF t
  <2> QED
    BY <1>2, <1>4, <2>1, <2>2, <2>3, GetJsonStep
<1>5. CASE /\ req[r].pc \in {"woken", "following"} /\ req[r].answer # Cancelled
           /\ req[r].cancelled
           /\ req' = [req EXCEPT ![r] = None]
           /\ UNCHANGED <<inflight, queue, newest>>
  <2>1. Becomes(r, None)
    BY <1>1, <1>5, ExceptBecomes
  <2>2. TablesOK' /\ FlightOK' /\ TasksOK'
    BY <1>1, <1>2, <1>3, <1>5, <2>1, OneTaskStep DEF Leads, Fetching
  <2>3. QueueOK'
    BY <1>1, <1>5, <2>1, QueueStays
  <2>4. CacheOK'
    BY <1>1, <1>2, <1>5, CacheStays
  <2> QED
    BY <2>2, <2>3, <2>4 DEF Steady
<1>6. CASE /\ req[r].pc = "woken" /\ req[r].answer # Cancelled /\ ~req[r].cancelled
           /\ req' = [req EXCEPT ![r] = Done(@, @.answer)]
           /\ newest' = Seen(req[r].key, req[r].answer)
           /\ UNCHANGED <<inflight, queue>>
  <2> DEFINE k == req[r].key
             v == req[r].answer
             t == Done(req[r], v)
  <2>1. req' = [req EXCEPT ![r] = t]
    BY <1>1, <1>6 DEF TablesOK
  <2>2. k \in Keys
    BY <1>3, <1>6 DEF TaskOK
  <2>3. newest[k] \in 0 .. MaxMoves
    BY <1>1, <2>2 DEF TablesOK
  <2>4. v = Error \/ (req[r].floor <= v /\ v <= newest[k])
    BY <1>3, <1>6, <2>2, NoneIsNone DEF TaskOK
  <2>5. newest' = newest
    <3>1. ~(v > newest[k])
      BY <1>3, <2>3, <2>4 DEF Error, Cancelled
    <3> QED
      BY <1>1, <1>6, <2>2, <3>1 DEF Seen, TablesOK
  <2>6. t \in Task /\ t.pc = "done" /\ t.key = k /\ t.answer = v /\ t.floor = req[r].floor
    BY <1>3, DoneTask
  <2> HIDE DEF t
  <2>7. t # None /\ Becomes(r, t)
    BY <1>1, <2>1, <2>6, ExceptBecomes, NoneIsNone
  <2>8. TaskOK(t, newest)
    BY <1>3, <2>2, <2>4, <2>6, NoneIsNone DEF TaskOK
  <2>9. TablesOK' /\ FlightOK' /\ TasksOK'
    BY <1>1, <1>2, <1>3, <1>6, <2>5, <2>6, <2>7, <2>8, OneTaskStep DEF Leads, Fetching, Fetches
  <2>10. QueueOK'
    BY <1>1, <1>6, <2>6, <2>7, QueueStays
  <2>11. CacheOK'
    BY <1>1, <1>2, <1>6, <2>5, CacheStays
  <2> QED
    BY <2>9, <2>10, <2>11 DEF Steady
<1> QED
  BY <1>4, <1>5, <1>6 DEF Resume

\* The market moves on.
LEMMA MoveStep ==
  ASSUME Steady, Move
  PROVE  Steady'
<1>1. TablesOK /\ CacheOK /\ QueueOK /\ FlightOK /\ TasksOK
  BY DEF Steady
<1>2. /\ market < MaxMoves /\ market' = market + 1
      /\ UNCHANGED <<cache, inflight, queue, req, newest>>
  BY DEF Move
<1>3. market \in 0 .. MaxMoves /\ market' \in 0 .. MaxMoves
  BY <1>1, <1>2, Limits DEF TablesOK
<1>4. TablesOK' /\ QueueOK' /\ FlightOK' /\ TasksOK'
  BY <1>1, <1>2, <1>3
  DEF TablesOK, QueueOK, FlightOK, TasksOK, Leads, Fetching, Followers
<1>5. CacheOK'
  <2>1. \A k \in DOMAIN cache : cache[k].version \in Nat
    BY <1>1 DEF CacheOK, IsCache, Entry
  <2>2. \A k \in Keys : newest[k] \in Nat
    BY <1>1 DEF TablesOK
  <2> QED
    BY <1>1, <1>2, <1>3, <2>1, <2>2 DEF CacheOK, get
<1> QED
  BY <1>4, <1>5 DEF Steady

\* The lifetime of an entry ends: its value stays.
LEMMA ExpireStep ==
  ASSUME Steady, NEW k \in Keys \cup Coins, Expire(k)
  PROVE  Steady'
<1>1. TablesOK /\ CacheOK /\ QueueOK /\ FlightOK /\ TasksOK
  BY DEF Steady
<1>2. /\ k \in DOMAIN cache /\ cache' = [cache EXCEPT ![k].fresh = FALSE]
      /\ UNCHANGED <<inflight, queue, req, market, newest>>
  BY DEF Expire
<1>3. TablesOK' /\ QueueOK' /\ FlightOK' /\ TasksOK'
  BY <1>1, <1>2 DEF TablesOK, QueueOK, FlightOK, TasksOK, Leads, Fetching, Followers
<1>4. cache \in [DOMAIN cache -> Entry]
  BY <1>1 DEF CacheOK, IsCache
<1>5. /\ DOMAIN cache' = DOMAIN cache /\ cache' \in [DOMAIN cache -> Entry]
      /\ \A j \in DOMAIN cache :
           /\ cache'[j].version = cache[j].version /\ cache'[j].stored_at = cache[j].stored_at
           /\ cache'[j].fresh => cache[j].fresh
  <2>1. \A j \in DOMAIN cache :
          cache'[j] = IF j = k THEN [cache[k] EXCEPT !.fresh = FALSE] ELSE cache[j]
    BY <1>2, <1>4
  <2>2. DOMAIN cache' = DOMAIN cache /\ cache' = [j \in DOMAIN cache |-> cache'[j]]
    BY <1>2, <1>4
  <2>3. [cache[k] EXCEPT !.fresh = FALSE] \in Entry
    BY <1>2, <1>4 DEF Entry
  <2>4. /\ [cache[k] EXCEPT !.fresh = FALSE].version = cache[k].version
        /\ [cache[k] EXCEPT !.fresh = FALSE].stored_at = cache[k].stored_at
        /\ [cache[k] EXCEPT !.fresh = FALSE].fresh = FALSE
    BY <1>2, <1>4 DEF Entry
  <2> QED
    BY <1>4, <2>1, <2>2, <2>3, <2>4
<1>6. IsCache(cache')
  BY <1>1, <1>5 DEF CacheOK, IsCache
<1>7. CacheOK'
  <2>1. \A j \in DOMAIN cache' : cache'[j].version <= market'
    BY <1>1, <1>2, <1>5 DEF CacheOK
  <2>2. \A j \in Keys : get(cache, j) = None => get(cache', j) = None
    <3>1. \A j \in DOMAIN cache : cache[j].version # None
      BY <1>4, NoneIsNone DEF Entry
    <3> QED
      BY <1>5, <3>1 DEF get
  <2> QED
    BY <1>1, <1>2, <1>5, <1>6, <2>1, <2>2 DEF CacheOK
<1> QED
  BY <1>3, <1>7 DEF Steady

-----------------------------------------------------------------------------
(***************************************************************************)
(* The invariant holds, and what follows from it.                          *)
(***************************************************************************)

\* The invariant holds of an empty service.
LEMMA SteadyInit ==
  Init => Steady
<1> SUFFICES ASSUME Init PROVE Steady
  OBVIOUS
<1>1. /\ cache = [k \in {} |-> None] /\ queue = << >> /\ market = 0
      /\ inflight = [k \in Keys |-> None] /\ req = [r \in Requests |-> None]
      /\ newest = [k \in Keys |-> 0]
  BY DEF Init
<1>2. TablesOK
  BY <1>1, Limits DEF TablesOK
<1>3. CacheOK
  <2>1. DOMAIN cache = {} /\ cache \in [{} -> Entry]
    BY <1>1
  <2>2. IsFiniteSet({}) /\ Cardinality({}) = 0
    BY FS_EmptySet
  <2>3. IsCache(cache)
    BY <2>1, <2>2, Limits DEF IsCache
  <2> QED
    BY <1>1, <2>1, <2>3 DEF CacheOK
<1>4. QueueOK
  BY <1>1 DEF QueueOK, Distinct, Waits
<1>5. FlightOK /\ TasksOK
  BY <1>1, NoneIsNone DEF FlightOK, TasksOK, Leads, Fetching, Followers
<1> QED
  BY <1>2, <1>3, <1>4, <1>5 DEF Steady

\* Every step keeps the invariant.
LEMMA SteadyStep ==
  Steady /\ [Next]_vars => Steady'
<1> SUFFICES ASSUME Steady, [Next]_vars PROVE Steady'
  OBVIOUS
<1>1. ASSUME NEW r \in Requests, NEW k \in Keys, AskKey(r, k) PROVE Steady'
  BY <1>1, AskKeyStep
<1>2. ASSUME NEW r \in Requests, NEW coins \in Wants[r], get_simple_prices(r, coins)
      PROVE  Steady'
  BY <1>2, GetSimplePricesStep
<1>3. ASSUME NEW r \in Requests, Return(r) PROVE Steady'
  BY <1>3, ReturnStep
<1>4. ASSUME NEW r \in Requests, Acquire(r) PROVE Steady'
  BY <1>4, AcquireStep
<1>5. ASSUME NEW r \in Requests, Receive(r) PROVE Steady'
  BY <1>5, ReceiveStep
<1>6. ASSUME NEW r \in Requests, Refuse(r) PROVE Steady'
  BY <1>6, FallBackStep DEF Refuse
<1>7. ASSUME NEW r \in Requests, Fail(r) PROVE Steady'
  BY <1>7, FailStep
<1>8. ASSUME NEW r \in Requests, WakeUp(r) PROVE Steady'
  BY <1>8, WakeUpStep
<1>9. ASSUME NEW r \in Requests, Resume(r) PROVE Steady'
  BY <1>9, ResumeStep
<1>10. ASSUME NEW r \in Requests, Cancel(r) PROVE Steady'
  BY <1>10, CancelStep
<1>11. ASSUME NEW r \in Requests, CancelFollower(r) PROVE Steady'
  BY <1>11, CancelFollowerStep
<1>12. CASE Move
  BY <1>12, MoveStep
<1>13. ASSUME NEW k \in Keys \cup Coins, Expire(k) PROVE Steady'
  BY <1>13, ExpireStep
<1>14. CASE UNCHANGED vars
  BY <1>14 DEF vars, Steady, TablesOK, CacheOK, QueueOK, FlightOK, TasksOK, Leads, Fetching,
               Followers
<1> QED
  BY <1>1, <1>2, <1>3, <1>4, <1>5, <1>6, <1>7, <1>8, <1>9, <1>10, <1>11, <1>12, <1>13, <1>14
  DEF Next, Progress, Settle

\* The invariant always holds.
LEMMA AlwaysSteady ==
  Spec => []Steady
BY SteadyInit, SteadyStep, PTL DEF Spec

\* Every variable has its type, whatever the order of the calls: the cache never
\* grows past its limit and always knows its oldest entry, and whoever waits for
\* the semaphore waits once.
THEOREM CoinGeckoTypes ==
  Spec => []CoinGeckoTypeOK
<1>1. Steady => CoinGeckoTypeOK
  <2> SUFFICES ASSUME Steady PROVE CoinGeckoTypeOK
    OBVIOUS
  <2>1. TablesOK /\ CacheOK /\ QueueOK
    BY DEF Steady
  <2>2. Len(queue) = Cardinality(ToSet(queue))
    BY <2>1, QueueLength DEF QueueOK
  <2>3. ToSet(queue) = {r \in Requests : req[r] # None /\ req[r].pc = "queued"}
    <3>1. queue \in Seq(Requests) /\ \A i \in 1 .. Len(queue) : queue[i] \in Requests
      BY <2>1 DEF QueueOK, Distinct
    <3>2. \A s : s \in ToSet(queue) <=> Waits(queue, s)
      BY <3>1 DEF ToSet, Waits
    <3>3. \A s : Waits(queue, s) => s \in Requests
      BY <3>1 DEF Waits
    <3> QED
      BY <2>1, <3>2, <3>3 DEF QueueOK
  <2> QED
    BY <2>1, <2>2, <2>3 DEF CoinGeckoTypeOK, TablesOK, CacheOK
<1> QED
  BY <1>1, AlwaysSteady, PTL

\* One request fetches a key, the one the table names, and those that follow it
\* are woken before it is forgotten.
THEOREM OneFlightPerKey ==
  Spec => []SingleFlight
<1>1. Steady => SingleFlight
  <2> SUFFICES ASSUME Steady, NEW k \in Keys
               PROVE  LET leaders == {r \in Requests : Fetching(r) /\ req[r].key = k}
                      IN /\ leaders = IF inflight[k] = None THEN {} ELSE {inflight[k]}
                         /\ Followers(k) # {} => inflight[k] # None
    BY DEF SingleFlight
  <2>1. \A r \in Requests : (Fetching(r) /\ req[r].key = k) <=> inflight[k] = r
    BY DEF Steady, FlightOK, Leads
  <2>2. inflight[k] \in Requests \cup {None}
    BY DEF Steady, TablesOK
  <2>3. Followers(k) # {} => inflight[k] # None
    BY DEF Steady, FlightOK, Followers
  <2> QED
    BY <2>1, <2>2, <2>3, NoneIsNone
<1> QED
  BY <1>1, AlwaysSteady, PTL

\* No answer to a key is older than one that somebody had when it was asked for.
THEOREM AnswersOnlyGoForward ==
  Spec => []AnswersNeverGoBack
<1>1. Steady => AnswersNeverGoBack
  <2> SUFFICES ASSUME Steady, NEW r \in Requests, req[r] # None, req[r].key # None,
                      req[r].pc = "done", req[r].answer # Error
               PROVE  req[r].answer >= req[r].floor
    BY DEF AnswersNeverGoBack
  <2>1. req[r] \in Task /\ req[r].floor <= req[r].answer
    BY OfTask DEF TaskOK
  <2>2. req[r].floor \in Int /\ req[r].answer \in Int
    BY <2>1 DEF Task, Cancelled
  <2> QED
    BY <2>1, <2>2
<1> QED
  BY <1>1, AlwaysSteady, PTL

\* A result for several coins is complete: a coin without a price is one that
\* CoinGecko did not list, however many batches it took and whichever failed.
THEOREM PricesAreComplete ==
  Spec => []NoSilentGap
<1>1. Steady => NoSilentGap
  BY DEF Steady, TasksOK, TaskOK, NoSilentGap
<1> QED
  BY <1>1, AlwaysSteady, PTL

\* No step replaces the fresh value of a key: only who leads its fetch stores it,
\* and nobody leads one while the value is fresh.
THEOREM KeysAreKept ==
  Spec => KeysLastTheirTTL
<1>1. Steady /\ [Next]_vars => [LastsItsTTL(Keys)]_vars
  <2> SUFFICES ASSUME Steady, [Next]_vars, NEW k \in Keys,
                      get(cache, k) # None, get(cache', k) # None
               PROVE  get(cache', k) = get(cache, k)
    BY DEF LastsItsTTL
  <2>1. TablesOK /\ CacheOK /\ FlightOK
    BY DEF Steady
  <2>2. CASE UNCHANGED cache
    BY <2>2
  <2>3. ASSUME NEW r \in Requests, Receive(r) PROVE get(cache', k) = get(cache, k)
    <3>1. PICK v \in req[r].sent .. market :
            IF req[r].key # None
            THEN cache' = put(cache, req[r].key, v)
            ELSE \E gone \in SUBSET (req[r].batch \cap Delisted) :
                   cache' \in putAll(cache, req[r].batch \ gone, v)
      BY <2>3, Zenon DEF Receive
    <3>2. /\ req[r] # None /\ req[r].pc = "calling" /\ req[r] \in Task
          /\ TaskOK(req[r], newest) /\ (req[r].key = None \/ req[r].key \in Keys)
          /\ req[r].batch \subseteq Coins
      BY <2>3, OfTask DEF Receive
    <3>3. v \in 0 .. MaxMoves
      <4>1. req[r].sent \in 0 .. MaxMoves /\ market \in 0 .. MaxMoves
        BY <2>1, <3>2 DEF Task, TablesOK
      <4> QED
        BY <4>1, Limits
    <3>4. CASE req[r].key # None
      <4>1. inflight[req[r].key] = r
        BY <2>1, <3>2, <3>4 DEF FlightOK, Leads, Fetching
      <4>2. k # req[r].key
        BY <2>1, <3>2, <4>1, NoneIsNone DEF CacheOK
      <4>3. Stores(cache, cache', req[r].key, v)
        BY <2>1, <3>1, <3>2, <3>3, <3>4, PutStores DEF CacheOK
      <4> QED
        BY <4>2, <4>3 DEF Stores, get
    <3>5. CASE req[r].key = None
      <4>1. PICK gone \in SUBSET (req[r].batch \cap Delisted) :
              cache' \in putAll(cache, req[r].batch \ gone, v)
        BY <3>1, <3>5
      <4>2. req[r].batch \subseteq req[r].asked /\ IsFiniteSet(req[r].asked)
        BY <3>2, <3>5 DEF TaskOK, Fetches
      <4>3. IsFiniteSet(req[r].batch \ gone) /\ req[r].batch \ gone \in SUBSET Coins
        BY <3>2, <4>2, FS_Subset
      <4>4. StoresAll(cache, cache', req[r].batch \ gone, v)
        BY <2>1, <3>3, <4>1, <4>3, PutAllStores DEF CacheOK
      <4> QED
        BY <4>3, <4>4, Limits DEF StoresAll, get
    <3> QED
      BY <3>4, <3>5
  <2>4. ASSUME NEW j \in Keys \cup Coins, Expire(j) PROVE get(cache', k) = get(cache, k)
    <3>1. cache' = [cache EXCEPT ![j].fresh = FALSE] /\ cache \in [DOMAIN cache -> Entry]
      BY <2>1, <2>4 DEF Expire, CacheOK, IsCache
    <3>2. CASE k = j
      <4>1. get(cache', k) = None
        BY <3>1, <3>2 DEF get, Entry
      <4> QED
        BY <4>1
    <3>3. CASE k # j
      BY <3>1, <3>3 DEF get
    <3> QED
      BY <3>2, <3>3
  <2> QED
    BY <2>2, <2>3, <2>4
    DEF Next, Progress, Settle, AskKey, get_simple_prices, Return, Acquire, Refuse, Fail,
        FallBack, WakeUp, Resume, Cancel, CancelFollower, Move, vars
<1> QED
  BY <1>1, AlwaysSteady, PTL DEF Spec, KeysLastTheirTTL
=============================================================================
