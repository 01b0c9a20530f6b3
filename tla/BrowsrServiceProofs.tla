------------------------- MODULE BrowsrServiceProofs -------------------------
(***************************************************************************)
(* First, that the cache keeps the promise of PageStore, for every set of  *)
(* pages, every limit and every time to live.  Ages come between: a page   *)
(* that is stored late may never be served, a second may end many pages,   *)
(* a sweep removes pages in the order of their ages.  To a reader of the   *)
(* cache all of these are a Store or a Forget.                             *)
(*                                                                         *)
(* Then, what the locks promise to the calls of a session, for every       *)
(* number of calls and sessions.  That who holds and who awaits a lock     *)
(* agrees with the calls is always so; that calls run in the order of      *)
(* their arrival and keep their session needs that the maintenance task    *)
(* takes no lock from a session in use.                                    *)
(***************************************************************************)
EXTENDS BrowsrService, FiniteSetTheorems, TLAPS

\* What gets return.
View == [k \in Keys |-> IF Served(k) THEN rows[k].page ELSE NoPage]

\* Storing keeps the rows typed.
LEMMA PutPageTyped ==
  ASSUME CacheTypeOK, NEW p \in Pages, NEW age \in 0..MaxDelay, PutPage(p, age)
  PROVE  CacheTypeOK'
<1>1. p.url \in Keys /\ p.final \in Keys /\ age \in 0..(PageTTL + 1)
  BY CacheAssumption DEF CacheAssumption
<1>2. /\ DOMAIN rows' = DOMAIN rows \cup {p.url, p.final}
      /\ \A k \in DOMAIN rows' :
           rows'[k] = IF k \in {p.url, p.final} THEN [page |-> p, age |-> age] ELSE rows[k]
      /\ found' = found
  BY DEF PutPage, Aliases
<1>3. [page |-> p, age |-> age] \in [page : Pages, age : 0..(PageTTL + 1)]
  BY <1>1
<1> QED
  BY <1>1, <1>2, <1>3 DEF CacheTypeOK

\* Storing a search keeps the types.
LEMMA PutSearchTyped ==
  ASSUME CacheTypeOK, NEW q \in Queries, PutSearch(q)
  PROVE  CacheTypeOK'
<1>1. 0 \in 0..(SearchTTL + 1)
  BY CacheAssumption DEF CacheAssumption
<1> QED
  BY <1>1 DEF PutSearch, CacheTypeOK

\* A sweep removes rows and changes none.
LEMMA SweepEffect ==
  ASSUME SweepCache
  PROVE  /\ DOMAIN rows' \subseteq DOMAIN rows /\ \A k \in DOMAIN rows' : rows'[k] = rows[k]
         /\ DOMAIN found' \subseteq DOMAIN found /\ \A q \in DOMAIN found' : found'[q] = found[q]
  BY DEF SweepCache, Restrict

\* A sweep keeps the types.
LEMMA SweepTyped ==
  ASSUME CacheTypeOK, SweepCache
  PROVE  CacheTypeOK'
  BY SweepEffect DEF CacheTypeOK

\* A second adds one to an age, up to the first that is never served.
LEMMA GrowTyped ==
  ASSUME NEW ttl \in Nat, NEW age \in 0..(ttl + 1)
  PROVE  Grow(age, ttl) \in 0..(ttl + 1) /\ Grow(age, ttl) >= age
  BY DEF Grow

\* What the clock does to pages and searches.
LEMMA TickEffect ==
  ASSUME CacheTypeOK, CacheTick
  PROVE  /\ DOMAIN rows' = DOMAIN rows /\ DOMAIN found' = DOMAIN found
         /\ \A k \in DOMAIN rows :
              /\ rows'[k].page = rows[k].page
              /\ rows'[k].age = Grow(rows[k].age, PageTTL)
              /\ rows'[k] \in [page : Pages, age : 0..(PageTTL + 1)]
<1>1. DOMAIN rows' = DOMAIN rows /\ DOMAIN found' = DOMAIN found
  BY DEF CacheTick
<1>2. ASSUME NEW k \in DOMAIN rows
      PROVE  /\ rows'[k].page = rows[k].page
             /\ rows'[k].age = Grow(rows[k].age, PageTTL)
             /\ rows'[k] \in [page : Pages, age : 0..(PageTTL + 1)]
  <2>1. rows'[k] = [rows[k] EXCEPT !.age = Grow(rows[k].age, PageTTL)]
    BY DEF CacheTick
  <2>2. rows[k] \in [page : Pages, age : 0..(PageTTL + 1)]
    BY DEF CacheTypeOK
  <2>3. Grow(rows[k].age, PageTTL) \in 0..(PageTTL + 1)
    BY <2>2, GrowTyped, CacheAssumption DEF CacheAssumption
  <2> QED
    BY <2>1, <2>2, <2>3
<1> QED
  BY <1>1, <1>2

\* The clock keeps the types.
LEMMA TickTyped ==
  ASSUME CacheTypeOK, CacheTick
  PROVE  CacheTypeOK'
<1>1. \A q \in DOMAIN found : Grow(found[q], SearchTTL) \in 0..(SearchTTL + 1)
  BY GrowTyped, CacheAssumption DEF CacheTypeOK, CacheAssumption
<1>2. found' = [q \in DOMAIN found |-> Grow(found[q], SearchTTL)]
  BY DEF CacheTick
<1> QED
  BY <1>1, <1>2, TickEffect DEF CacheTypeOK

\* What a step of the service does to the cache.
LEMMA CacheStep ==
  ASSUME ServiceNext
  PROVE  \/ \E p \in Pages, age \in 0..MaxDelay : PutPage(p, age)
         \/ \E q \in Queries : PutSearch(q)
         \/ SweepCache
         \/ CacheTick
         \/ UNCHANGED cacheVars
  BY DEF ServiceNext, CallStep, StorePage, StoreSearch, Round, RoundGoesOn, RoundFails,
         CacheSwept, CacheSweepFails, Second

\* The rows of the cache stay typed.
THEOREM CacheTyped == ServiceSpec => []CacheTypeOK
<1>1. ServiceInit => CacheTypeOK
  BY DEF ServiceInit, CacheInit, CacheTypeOK
<1>2. ASSUME CacheTypeOK, [ServiceNext]_allVars PROVE CacheTypeOK'
  <2>1. UNCHANGED cacheVars => CacheTypeOK'
    BY <1>2 DEF cacheVars, CacheTypeOK
  <2>2. CASE ServiceNext
    BY <1>2, <2>1, <2>2, CacheStep, PutPageTyped, PutSearchTyped, SweepTyped, TickTyped
  <2>3. CASE UNCHANGED allVars
    BY <2>1, <2>3 DEF allVars
  <2> QED
    BY <1>2, <2>2, <2>3
<1> QED
  BY <1>1, <1>2, PTL DEF ServiceSpec

-----------------------------------------------------------------------------
(* Each operation of the cache as an operation of the store                *)

\* A page is shown under both its URLs, or, when it was stored too late,
\* nothing is.
LEMMA PutPageShown ==
  ASSUME CacheTypeOK, NEW p \in Pages, NEW age \in 0..MaxDelay, PutPage(p, age)
  PROVE  \/ \A k \in Keys : View'[k] = IF k \in {p.url, p.final} THEN p ELSE View[k]
         \/ \A k \in Keys : View'[k] = IF k \in {p.url, p.final} THEN NoPage ELSE View[k]
<1>1. /\ DOMAIN rows' = DOMAIN rows \cup {p.url, p.final}
      /\ \A k \in DOMAIN rows' :
           rows'[k] = IF k \in {p.url, p.final} THEN [page |-> p, age |-> age] ELSE rows[k]
  BY DEF PutPage, Aliases
<1> QED
  BY <1>1 DEF View, Served

\* An age only grows, so a second only ends pages.
LEMMA TickShown ==
  ASSUME CacheTypeOK, CacheTick, NEW k \in Keys
  PROVE  View'[k] \in {View[k], NoPage}
<1>1. CASE k \in DOMAIN rows
  <2>1. rows[k].age \in 0..(PageTTL + 1)
    BY <1>1 DEF CacheTypeOK
  <2>2. Grow(rows[k].age, PageTTL) \in Nat /\ Grow(rows[k].age, PageTTL) >= rows[k].age
    <3>1. PageTTL \in Nat
      BY CacheAssumption DEF CacheAssumption
    <3>2. /\ Grow(rows[k].age, PageTTL) \in 0..(PageTTL + 1)
          /\ Grow(rows[k].age, PageTTL) >= rows[k].age
      BY <2>1, <3>1, GrowTyped
    <3> QED
      BY <3>1, <3>2
  <2>3. rows'[k].page = rows[k].page /\ rows'[k].age >= rows[k].age /\ rows'[k].age \in Nat
    BY <1>1, <2>2, TickEffect
  <2> QED
    BY <1>1, <2>1, <2>3, TickEffect, CacheAssumption DEF View, Served, CacheAssumption
<1>2. CASE k \notin DOMAIN rows
  BY <1>2, TickEffect DEF View, Served
<1> QED
  BY <1>1, <1>2

\* A sweep is a step of the store, or none.
LEMMA SweepShown ==
  ASSUME SweepCache, NEW k \in Keys
  PROVE  View'[k] \in {View[k], NoPage}
  BY SweepEffect DEF View, Served

\* Pages that disappear are forgotten.
LEMMA GoneIsForgotten ==
  ASSUME \A k \in Keys : View'[k] \in {View[k], NoPage}
  PROVE  \E ks \in SUBSET Keys : Store!Forget(ks)
<1> DEFINE gone == {k \in Keys : View'[k] = NoPage}
<1>1. \A k \in Keys : View'[k] = IF k \in gone THEN NoPage ELSE View[k]
  OBVIOUS
<1>2. Store!Forget(gone)
  BY <1>1 DEF Store!Forget, View
<1>3. gone \in SUBSET Keys
  OBVIOUS
<1> QED
  BY <1>2, <1>3 DEF Store!Forget

\* Every step of the service is a step of the store, or none.
LEMMA StoreStep ==
  ASSUME CacheTypeOK, [ServiceNext]_allVars
  PROVE  [Store!Next]_View
<1>1. UNCHANGED cacheVars => UNCHANGED View
  BY DEF cacheVars, View, Served
<1>2. CASE \E p \in Pages, age \in 0..MaxDelay : PutPage(p, age)
  <2>1. PICK p \in Pages, age \in 0..MaxDelay : PutPage(p, age)
    BY <1>2
  <2>2. CASE \A k \in Keys : View'[k] = IF k \in {p.url, p.final} THEN p ELSE View[k]
    <3>1. Store!Store(p)
      BY <2>2 DEF Store!Store, View
    <3> QED
      BY <3>1 DEF Store!Next
  <2>3. CASE \A k \in Keys : View'[k] = IF k \in {p.url, p.final} THEN NoPage ELSE View[k]
    <3>1. \A k \in Keys : View'[k] \in {View[k], NoPage}
      BY <2>3
    <3> QED
      BY <3>1, GoneIsForgotten DEF Store!Next
  <2> QED
    BY <2>1, <2>2, <2>3, PutPageShown
<1>3. CASE \E q \in Queries : PutSearch(q)
  BY <1>3 DEF PutSearch, View, Served
<1>4. CASE SweepCache \/ CacheTick
  <2>1. \A k \in Keys : View'[k] \in {View[k], NoPage}
    BY <1>4, SweepShown, TickShown
  <2> QED
    BY <2>1, GoneIsForgotten DEF Store!Next
<1>5. CASE ServiceNext
  BY <1>1, <1>2, <1>3, <1>4, <1>5, CacheStep
<1>6. CASE UNCHANGED allVars
  BY <1>1, <1>6 DEF allVars
<1> QED
  BY <1>5, <1>6

\* What a get returns for a URL is the page stored last under it, and a page that
\* has expired or been swept comes back only when it is stored again.
THEOREM CacheImplementsStore == ServiceSpec => StoreImplemented
<1>1. ServiceInit => Store!Init
  BY DEF ServiceInit, CacheInit, Store!Init, Served
<1>2. CacheTypeOK /\ [ServiceNext]_allVars
      => [Store!Next]_([k \in Keys |-> IF Served(k) THEN rows[k].page ELSE NoPage])
  BY StoreStep DEF View
<1> QED
  BY <1>1, <1>2, CacheTyped, PTL DEF ServiceSpec, StoreImplemented, Store!Spec

-----------------------------------------------------------------------------
(* Locks and calls: the invariants                                         *)

\* A lock serves one session.
LocksApart ==
  /\ \A c, d \in Calls : Unfinished(c) /\ Unfinished(d) /\ lock[c] = lock[d] => sidOf[c] = sidOf[d]
  /\ \A c \in Calls, s \in Sids : Unfinished(c) /\ lockOf[s] = lock[c] => s = sidOf[c]
  /\ \A s, t \in Sids : lockOf[s] = lockOf[t] /\ lockOf[s] # NoLock => s = t

ArrivedAre ==
  /\ \A s \in Sids : NoRepeat(arrived[s])
  /\ \A s \in Sids, c \in Calls : In(arrived[s], c) <=> Unfinished(c) /\ sidOf[c] = s

LockInv == TypeOK /\ LocksHeld /\ LocksApart /\ ArrivedAre

\* The task goes on with a session that has no calls: the locks of the sessions
\* that a sweep has removed are popped one by one, with waits in between, and a
\* session may have been called again by then (service.py:108-112).
CleanUpIdle == DropReturns => \A s \in Sids : lockOf'[s] # lockOf[s] => arrived[s] = <<>>

\* Every call of a session uses the lock that is registered for it.
Registered == \A c \in Calls : Unfinished(c) => lockOf[sidOf[c]] = lock[c]

Holder(o) == IF o = Nobody THEN <<>> ELSE <<o>>

\* The calls of a session are the holder of its lock and those who await it, in order.
Queued == \A s \in Sids : lockOf[s] # NoLock => arrived[s] = Holder(owner[lockOf[s]]) \o waiters[lockOf[s]]

\* A lock that is handed over keeps its session fresh.
HandedOver == \A c \in Calls : pc[c] = "waiting" /\ owner[lock[c]] = Nobody => idle[sidOf[c]] = 0

OrderInv == LockInv /\ Registered /\ Queued /\ HandedOver /\ SessionKept

-----------------------------------------------------------------------------
(* Queues                                                                  *)

\* RemoveAt closes the gap.
LEMMA RemoveAtShifts ==
  ASSUME NEW S, NEW s \in Seq(S), NEW i \in DOMAIN s
  PROVE  /\ RemoveAt(s, i) \in Seq(S) /\ Len(RemoveAt(s, i)) = Len(s) - 1
         /\ \A k \in 1..(Len(s) - 1) : RemoveAt(s, i)[k] = IF k < i THEN s[k] ELSE s[k + 1]
<1> DEFINE a == SubSeq(s, 1, i - 1)
           b == SubSeq(s, i + 1, Len(s))
<1>1. i \in 1..Len(s) /\ Len(s) \in Nat
  OBVIOUS
<1>2. a \in Seq(S) /\ Len(a) = i - 1 /\ \A k \in 1..(i - 1) : a[k] = s[k]
  BY <1>1
<1>3. b \in Seq(S) /\ Len(b) = Len(s) - i /\ \A k \in 1..(Len(s) - i) : b[k] = s[k + i]
  BY <1>1
<1> HIDE DEF a, b
<1>4. /\ a \o b \in Seq(S) /\ Len(a \o b) = Len(s) - 1
      /\ \A k \in 1..(Len(s) - 1) : (a \o b)[k] = IF k <= i - 1 THEN a[k] ELSE b[k - (i - 1)]
  BY <1>1, <1>2, <1>3, SMTT(30)
<1>5. \A k \in 1..(Len(s) - 1) : (a \o b)[k] = IF k < i THEN s[k] ELSE s[k + 1]
  <2>1. TAKE k \in 1..(Len(s) - 1)
  <2>2. CASE k < i
    BY <1>1, <1>2, <1>4, <2>2
  <2>3. CASE ~ (k < i)
    <3>1. PICK j \in 1..(Len(s) - i) : j = k - (i - 1) /\ j + i = k + 1
      BY <1>1, <2>3
    <3>2. b[j] = s[k + 1]
      BY <1>3, <3>1
    <3>3. (a \o b)[k] = b[j]
      <4>1. (a \o b)[k] = b[k - (i - 1)]
        <5>1. ~ (k <= i - 1)
          BY <1>1, <2>3
        <5> QED
          BY <1>4, <5>1
      <4> QED
        BY <3>1, <4>1
    <3> QED
      BY <2>3, <3>2, <3>3
  <2> QED
    BY <2>2, <2>3
<1> QED
  BY <1>4, <1>5 DEF RemoveAt, a, b

\* A call that leaves a queue leaves the others in their order.
LEMMA WithoutEffect ==
  ASSUME NEW S, NEW q \in Seq(S), NEW c, In(q, c), NoRepeat(q)
  PROVE  \E i \in DOMAIN q :
           /\ q[i] = c
           /\ Without(q, c) \in Seq(S) /\ Len(Without(q, c)) = Len(q) - 1
           /\ \A k \in 1..(Len(q) - 1) : Without(q, c)[k] = IF k < i THEN q[k] ELSE q[k + 1]
<1>1. PICK i \in DOMAIN q : q[i] = c
  BY DEF In
<1>2. (CHOOSE j \in DOMAIN q : q[j] = c) = i
  BY <1>1 DEF NoRepeat
<1>3. Without(q, c) = RemoveAt(q, i)
  BY <1>2 DEF Without
<1> QED
  BY <1>1, <1>3, RemoveAtShifts

\* It is gone, and nobody else is.
LEMMA WithoutIn ==
  ASSUME NEW S, NEW q \in Seq(S), NEW c, In(q, c), NoRepeat(q)
  PROVE  /\ Without(q, c) \in Seq(S) /\ NoRepeat(Without(q, c))
         /\ \A d : In(Without(q, c), d) <=> In(q, d) /\ d # c
<1> DEFINE w == Without(q, c)
<1>1. PICK i \in DOMAIN q :
        /\ q[i] = c
        /\ w \in Seq(S) /\ Len(w) = Len(q) - 1
        /\ \A k \in 1..(Len(q) - 1) : w[k] = IF k < i THEN q[k] ELSE q[k + 1]
  BY WithoutEffect
<1> HIDE DEF w
<1>2. i \in 1..Len(q) /\ Len(q) \in Nat /\ DOMAIN q = 1..Len(q) /\ DOMAIN w = 1..(Len(q) - 1)
  BY <1>1
<1>3. \A k, l \in DOMAIN q : q[k] = q[l] => k = l
  BY DEF NoRepeat
<1>4. NoRepeat(w)
  <2>1. ASSUME NEW k \in DOMAIN w, NEW l \in DOMAIN w, w[k] = w[l] PROVE k = l
    <3>1. /\ k \in DOMAIN q /\ l \in DOMAIN q /\ k + 1 \in DOMAIN q /\ l + 1 \in DOMAIN q
          /\ k \in Nat /\ l \in Nat /\ i \in Nat
      BY <1>2
    <3>2. w[k] = (IF k < i THEN q[k] ELSE q[k + 1]) /\ w[l] = IF l < i THEN q[l] ELSE q[l + 1]
      BY <1>1, <1>2
    <3>3. (IF k < i THEN k ELSE k + 1) = (IF l < i THEN l ELSE l + 1)
      BY <1>3, <2>1, <3>1, <3>2
    <3> QED
      BY <3>1, <3>3
  <2> QED
    BY <2>1 DEF NoRepeat
<1>5. ASSUME NEW d, In(w, d) PROVE In(q, d) /\ d # c
  <2>1. PICK k \in DOMAIN w : w[k] = d
    BY <1>5 DEF In
  <2>2. CASE k < i
    <3>1. k \in DOMAIN q /\ k # i /\ q[k] = d
      BY <1>1, <1>2, <2>1, <2>2
    <3> QED
      BY <1>1, <1>3, <3>1 DEF In
  <2>3. CASE ~ (k < i)
    <3>1. k + 1 \in DOMAIN q /\ k + 1 # i /\ q[k + 1] = d
      BY <1>1, <1>2, <2>1, <2>3
    <3> QED
      BY <1>1, <1>3, <3>1 DEF In
  <2> QED
    BY <2>2, <2>3
<1>6. ASSUME NEW d, In(q, d), d # c PROVE In(w, d)
  <2>1. PICK k \in DOMAIN q : q[k] = d
    BY <1>6 DEF In
  <2>2. k # i
    BY <1>1, <1>6, <2>1
  <2>3. CASE k < i
    <3>1. k \in DOMAIN w /\ w[k] = d
      BY <1>1, <1>2, <2>1, <2>3
    <3> QED
      BY <3>1 DEF In
  <2>4. CASE ~ (k < i)
    <3>1. k - 1 \in DOMAIN w /\ w[k - 1] = d
      BY <1>1, <1>2, <2>1, <2>2, <2>4
    <3> QED
      BY <3>1 DEF In
  <2> QED
    BY <2>3, <2>4
<1> QED
  BY <1>1, <1>4, <1>5, <1>6 DEF w

\* A call joins a queue at its end.
LEMMA AppendIn ==
  ASSUME NEW S, NEW q \in Seq(S), NEW c \in S
  PROVE  /\ Append(q, c) \in Seq(S)
         /\ ~ In(q, c) /\ NoRepeat(q) => NoRepeat(Append(q, c))
         /\ \A d : In(Append(q, c), d) <=> In(q, d) \/ d = c
<1>1. /\ DOMAIN q = 1..Len(q) /\ Len(q) \in Nat /\ DOMAIN Append(q, c) = 1..(Len(q) + 1)
      /\ Append(q, c)[Len(q) + 1] = c /\ \A k \in DOMAIN q : Append(q, c)[k] = q[k]
  OBVIOUS
<1>2. ASSUME ~ In(q, c), NoRepeat(q) PROVE NoRepeat(Append(q, c))
  BY <1>1, <1>2 DEF In, NoRepeat
<1>3. ASSUME NEW d PROVE In(Append(q, c), d) <=> In(q, d) \/ d = c
  <2>1. Len(q) + 1 \in DOMAIN Append(q, c) /\ \A k \in DOMAIN q : k \in DOMAIN Append(q, c)
    BY <1>1
  <2>2. \A k \in DOMAIN Append(q, c) : k \in DOMAIN q \/ k = Len(q) + 1
    BY <1>1
  <2> QED
    BY <1>1, <2>1, <2>2 DEF In
<1> QED
  BY <1>2, <1>3

\* The first of a queue leaves it.
LEMMA TailIn ==
  ASSUME NEW S, NEW q \in Seq(S), q # <<>>, NoRepeat(q)
  PROVE  /\ Tail(q) \in Seq(S) /\ NoRepeat(Tail(q)) /\ Head(q) \in S
         /\ q = <<Head(q)>> \o Tail(q)
         /\ \A d : In(Tail(q), d) <=> In(q, d) /\ d # Head(q)
<1>1. /\ DOMAIN q = 1..Len(q) /\ Len(q) \in Nat /\ Len(q) > 0 /\ Tail(q) \in Seq(S) /\ Head(q) \in S
      /\ DOMAIN Tail(q) = 1..(Len(q) - 1) /\ Head(q) = q[1]
      /\ \A k \in 1..(Len(q) - 1) : Tail(q)[k] = q[k + 1]
  OBVIOUS
<1>2. \A k \in DOMAIN Tail(q) : k + 1 \in DOMAIN q /\ k + 1 # 1 /\ Tail(q)[k] = q[k + 1]
  BY <1>1
<1>3. \A k \in DOMAIN q : k # 1 => k - 1 \in DOMAIN Tail(q) /\ Tail(q)[k - 1] = q[k]
  BY <1>1
<1>4. 1 \in DOMAIN q
  BY <1>1
<1>5. NoRepeat(Tail(q))
  BY <1>1, <1>2 DEF NoRepeat
<1>6. \A d : In(Tail(q), d) <=> In(q, d) /\ d # Head(q)
  BY <1>1, <1>2, <1>3, <1>4 DEF In, NoRepeat
<1>7. q = <<Head(q)>> \o Tail(q)
  BY <1>1
<1> QED
  BY <1>1, <1>5, <1>6, <1>7

\* The first of a queue is found at once.
LEMMA WithoutFirst ==
  ASSUME NEW S, NEW w \in Seq(S), NEW c \in S, NoRepeat(<<c>> \o w)
  PROVE  Without(<<c>> \o w, c) = w
<1> DEFINE q == <<c>> \o w
<1>1. /\ q \in Seq(S) /\ Len(q) = Len(w) + 1 /\ q[1] = c /\ Len(w) \in Nat
      /\ DOMAIN q = 1..(Len(w) + 1) /\ \A k \in 1..Len(w) : q[k + 1] = w[k]
  OBVIOUS
<1> HIDE DEF q
<1>2. In(q, c) /\ 1 \in DOMAIN q
  BY <1>1 DEF In
<1>3. PICK i \in DOMAIN q :
        /\ q[i] = c
        /\ Without(q, c) \in Seq(S) /\ Len(Without(q, c)) = Len(q) - 1
        /\ \A k \in 1..(Len(q) - 1) : Without(q, c)[k] = IF k < i THEN q[k] ELSE q[k + 1]
  BY <1>1, <1>2, WithoutEffect DEF q
<1>4. i = 1
  BY <1>1, <1>2, <1>3 DEF NoRepeat, q
<1>5. Len(Without(q, c)) = Len(w) /\ \A k \in 1..Len(w) : Without(q, c)[k] = w[k]
  BY <1>1, <1>3, <1>4
<1> QED
  BY <1>3, <1>5 DEF q

\* One that is not the first is found behind it.
LEMMA WithoutBehind ==
  ASSUME NEW S, NEW w \in Seq(S), NEW o \in S, NEW c \in S, In(w, c), NoRepeat(<<o>> \o w)
  PROVE  Without(<<o>> \o w, c) = <<o>> \o Without(w, c)
<1> DEFINE q == <<o>> \o w
           x == Without(w, c)
           y == Without(q, c)
<1>1. /\ q \in Seq(S) /\ Len(q) = Len(w) + 1 /\ q[1] = o /\ Len(w) \in Nat
      /\ DOMAIN q = 1..(Len(w) + 1) /\ DOMAIN w = 1..Len(w) /\ \A k \in 1..Len(w) : q[k + 1] = w[k]
  OBVIOUS
<1>0. NoRepeat(q) /\ q \in Seq(S)
  OBVIOUS
<1> HIDE DEF q
<1>2. NoRepeat(w)
  <2>1. \A k \in DOMAIN w : k + 1 \in DOMAIN q /\ q[k + 1] = w[k] /\ k \in Nat
    BY <1>1
  <2> QED
    BY <1>0, <2>1 DEF NoRepeat
<1>3. PICK j \in DOMAIN w :
        /\ w[j] = c
        /\ x \in Seq(S) /\ Len(x) = Len(w) - 1
        /\ \A k \in 1..(Len(w) - 1) : x[k] = IF k < j THEN w[k] ELSE w[k + 1]
  BY <1>2, WithoutEffect
<1>4. q[j + 1] = c /\ j + 1 \in DOMAIN q
  BY <1>1, <1>3
<1>5. In(q, c)
  BY <1>4 DEF In
<1>6. PICK i \in DOMAIN q :
        /\ q[i] = c
        /\ y \in Seq(S) /\ Len(y) = Len(q) - 1
        /\ \A k \in 1..(Len(q) - 1) : y[k] = IF k < i THEN q[k] ELSE q[k + 1]
  BY <1>0, <1>5, WithoutEffect
<1> HIDE DEF x, y
<1>7. i = j + 1
  BY <1>0, <1>4, <1>6 DEF NoRepeat
<1>8. /\ <<o>> \o x \in Seq(S) /\ Len(<<o>> \o x) = Len(w)
      /\ (<<o>> \o x)[1] = o /\ \A k \in 1..(Len(w) - 1) : (<<o>> \o x)[k + 1] = x[k]
  BY <1>3
<1>9. ASSUME NEW k \in 1..Len(w) PROVE y[k] = (<<o>> \o x)[k]
  <2>1. CASE k = 1
    BY <1>1, <1>3, <1>6, <1>7, <1>8, <2>1
  <2>2. CASE k # 1
    <3>1. PICK m \in 1..(Len(w) - 1) : k = m + 1
      BY <1>1, <2>2
    <3>2. (<<o>> \o x)[k] = IF m < j THEN w[m] ELSE w[m + 1]
      BY <1>3, <1>8, <3>1
    <3>3. y[k] = IF m + 1 < j + 1 THEN q[m + 1] ELSE q[m + 2]
      BY <1>1, <1>6, <1>7, <3>1
    <3>4. q[m + 1] = w[m] /\ q[m + 2] = w[m + 1] /\ j \in Nat /\ m \in Nat
      <4>1. m \in 1..Len(w) /\ m + 1 \in 1..Len(w) /\ (m + 1) + 1 = m + 2 /\ m \in Nat
        BY <1>1, <3>1
      <4>2. j \in Nat
        BY <1>1, <1>3
      <4>3. q[m + 1] = w[m] /\ q[(m + 1) + 1] = w[m + 1]
        BY <1>1, <4>1
      <4> QED
        BY <4>1, <4>2, <4>3
    <3>5. m + 1 < j + 1 <=> m < j
      BY <3>4
    <3>6. CASE m < j
      BY <3>1, <3>2, <3>3, <3>4, <3>5, <3>6, Zenon
    <3>7. CASE ~ (m < j)
      BY <3>1, <3>2, <3>3, <3>4, <3>5, <3>7, Zenon
    <3> QED
      BY <3>6, <3>7
  <2> QED
    BY <2>1, <2>2
<1>10. y \in Seq(S) /\ Len(y) = Len(w)
  BY <1>1, <1>6
<1>11. y = <<o>> \o x
  BY <1>8, <1>9, <1>10
<1> QED
  BY <1>11 DEF q, x, y

-----------------------------------------------------------------------------
(* A lock for a session                                                    *)

\* The values of a function are not more than its arguments.
LEMMA ValuesBounded ==
  ASSUME NEW S, IsFiniteSet(S), NEW f
  PROVE  /\ IsFiniteSet({f[x] : x \in S})
         /\ Cardinality({f[x] : x \in S}) <= Cardinality(S)
<1> DEFINE T == {f[x] : x \in S}
           g == [x \in S |-> f[x]]
<1>1. g \in Surjection(S, T)
  BY DEF Surjection
<1> HIDE DEF T, g
<1>2. IsFiniteSet(T) /\ Cardinality(T) <= Cardinality(S)
  BY <1>1, FS_Surjection
<1> QED
  BY <1>2 DEF T

\* A call that arrives leaves a lock over for a session that has none.
LEMMA LockLeft ==
  ASSUME LockInv, NEW c \in Calls, NEW s \in Sids, pc[c] = "outside", lockOf[s] = NoLock
  PROVE  \E l \in Locks : Fresh(l)
<1> DEFINE registered == {lockOf[t] : t \in Sids \ {s}}
           taken == {lock[d] : d \in Calls \ {c}}
           used == registered \cup taken
<1> USE DEF LockInv
<1>1. /\ IsFiniteSet(Calls) /\ IsFiniteSet(Sids) /\ IsFiniteSet(Locks)
      /\ Cardinality(Calls) \in Nat /\ Cardinality(Sids) \in Nat /\ Cardinality(Locks) \in Nat
      /\ Cardinality(Locks) >= Cardinality(Calls) + Cardinality(Sids)
  BY ServiceAssumption, FS_CardinalityType DEF ServiceAssumption
<1>2. /\ IsFiniteSet(Calls \ {c}) /\ Cardinality(Calls \ {c}) = Cardinality(Calls) - 1
      /\ IsFiniteSet(Sids \ {s}) /\ Cardinality(Sids \ {s}) = Cardinality(Sids) - 1
  BY <1>1, FS_RemoveElement
<1>3. /\ IsFiniteSet(registered) /\ Cardinality(registered) <= Cardinality(Sids) - 1
      /\ IsFiniteSet(taken) /\ Cardinality(taken) <= Cardinality(Calls) - 1
  BY <1>2, ValuesBounded
<1> HIDE DEF registered, taken
<1>4. /\ Cardinality(registered) \in Nat /\ Cardinality(taken) \in Nat
      /\ Cardinality(registered \cap taken) \in Nat
      /\ IsFiniteSet(used)
      /\ Cardinality(used) = Cardinality(registered) + Cardinality(taken) - Cardinality(registered \cap taken)
  BY <1>3, FS_Union, FS_Intersection, FS_CardinalityType
<1> HIDE DEF used
<1>5. Cardinality(used) \in Nat /\ Cardinality(used) < Cardinality(Locks)
  BY <1>1, <1>3, <1>4, FS_CardinalityType
<1>6. ~ (Locks \subseteq used)
  <2>1. Locks \subseteq used => Cardinality(Locks) <= Cardinality(used)
    BY <1>4, FS_Subset
  <2> QED
    BY <1>1, <1>5, <2>1
<1>7. PICK l \in Locks : l \notin used
  BY <1>6
<1>8. /\ \A t \in Sids \ {s} : lockOf[t] # l
      /\ \A d \in Calls \ {c} : lock[d] # l
  BY <1>7 DEF used, registered, taken
<1>9. \A t \in Sids : lockOf[t] # l
  BY <1>8, ServiceAssumption DEF ServiceAssumption
<1>10. owner[l] = Nobody
  <2>1. owner[l] # Nobody => owner[l] \in Calls
    BY DEF TypeOK
  <2>2. owner[l] # Nobody => pc[owner[l]] = "running" /\ lock[owner[l]] = l
    BY DEF LocksHeld
  <2> QED
    BY <1>8, <2>1, <2>2
<1>11. waiters[l] = <<>>
  <2>1. waiters[l] \in Seq(Calls)
    BY DEF TypeOK
  <2>2. ASSUME waiters[l] # <<>> PROVE FALSE
    <3>1. waiters[l][1] \in Calls /\ 1 \in DOMAIN waiters[l]
      BY <2>1, <2>2
    <3>2. In(waiters[l], waiters[l][1])
      BY <3>1 DEF In
    <3>3. pc[waiters[l][1]] = "waiting" /\ lock[waiters[l][1]] = l
      BY <3>1, <3>2 DEF LocksHeld
    <3> QED
      BY <1>8, <3>1, <3>3
  <2> QED
    BY <2>2
<1> QED
  BY <1>9, <1>10, <1>11 DEF Fresh

\* The lock a call finds is the one of its session, or nobody uses it.
LEMMA LockFound ==
  ASSUME LockInv, NEW c \in Calls, NEW s \in Sids, pc[c] = "outside"
  PROVE  LockFor(s) \in Locks /\ (lockOf[s] = LockFor(s) \/ (lockOf[s] = NoLock /\ Fresh(LockFor(s))))
<1>1. lockOf[s] \in Locks \cup {NoLock}
  BY DEF LockInv, TypeOK
<1>2. CASE lockOf[s] # NoLock
  BY <1>1, <1>2 DEF LockFor
<1>3. CASE lockOf[s] = NoLock
  <2>1. LockFor(s) \in Locks /\ Fresh(LockFor(s))
    BY <1>3, LockLeft DEF LockFor
  <2> QED
    BY <1>3, <2>1
<1> QED
  BY <1>2, <1>3

-----------------------------------------------------------------------------
(* Locks and calls, whatever the maintenance task does                     *)

\* At first nobody calls.
LEMMA LockInit == Init => LockInv
<1> SUFFICES ASSUME Init PROVE LockInv
  OBVIOUS
<1>1. TypeOK
  BY ServiceAssumption DEF Init, TypeOK, ServiceAssumption
<1>2. LocksHeld /\ LocksApart /\ ArrivedAre
  BY ServiceAssumption DEF Init, LocksHeld, LocksApart, ArrivedAre, In, NoRepeat, Unfinished, ServiceAssumption
<1> QED
  BY <1>1, <1>2 DEF LockInv

\* A call arrives: it takes the lock or joins its queue.
LEMMA ArriveKept ==
  ASSUME LockInv, NEW c \in Calls, NEW s \in Sids, Arrive(c, s)
  PROVE  LockInv'
<1> DEFINE l == LockFor(s)
           free == owner[l] = Nobody /\ waiters[l] = <<>>
<1> USE DEF LockInv
<1>1. /\ pc[c] = "outside"
      /\ store' = store \cup {s} /\ idle' = [idle EXCEPT ![s] = 0]
      /\ lockOf' = [lockOf EXCEPT ![s] = l] /\ sidOf' = [sidOf EXCEPT ![c] = s]
      /\ lock' = [lock EXCEPT ![c] = l] /\ mine' = [mine EXCEPT ![c] = TRUE]
      /\ arrived' = [arrived EXCEPT ![s] = Append(arrived[s], c)]
      /\ expired' = expired /\ dropping' = dropping
      /\ pc' = [pc EXCEPT ![c] = IF free THEN "running" ELSE "waiting"]
      /\ owner' = IF free THEN [owner EXCEPT ![l] = c] ELSE owner
      /\ waiters' = IF free THEN waiters ELSE [waiters EXCEPT ![l] = Append(waiters[l], c)]
  BY DEF Arrive
<1>2. l \in Locks /\ (lockOf[s] = l \/ (lockOf[s] = NoLock /\ Fresh(l)))
  BY <1>1, LockFound
<1> HIDE DEF l
<1>3. waiters[l] \in Seq(Calls) /\ arrived[s] \in Seq(Calls)
  BY <1>2 DEF TypeOK
<1>4. /\ Append(waiters[l], c) \in Seq(Calls)
      /\ ~ In(waiters[l], c) /\ NoRepeat(waiters[l]) => NoRepeat(Append(waiters[l], c))
      /\ \A d : In(Append(waiters[l], c), d) <=> In(waiters[l], d) \/ d = c
  BY <1>3, AppendIn
<1>5. /\ Append(arrived[s], c) \in Seq(Calls)
      /\ ~ In(arrived[s], c) /\ NoRepeat(arrived[s]) => NoRepeat(Append(arrived[s], c))
      /\ \A d : In(Append(arrived[s], c), d) <=> In(arrived[s], d) \/ d = c
  BY <1>3, AppendIn
<1>6. TypeOK'
  <2>1. /\ store' \subseteq Sids /\ idle' \in [Sids -> 0..TTL] /\ lockOf' \in [Sids -> Locks \cup {NoLock}]
        /\ sidOf' \in [Calls -> Sids \cup {NoSid}] /\ lock' \in [Calls -> Locks \cup {NoLock}]
        /\ mine' \in [Calls -> BOOLEAN] /\ expired' \subseteq Sids /\ dropping' \in Sids \cup {NoSid}
    BY <1>1, <1>2, ServiceAssumption DEF TypeOK, ServiceAssumption
  <2>2. arrived' \in [Sids -> Seq(Calls)]
    BY <1>1, <1>5 DEF TypeOK
  <2>3. /\ pc' \in [Calls -> {"outside", "waiting", "running"}]
        /\ owner' \in [Locks -> Calls \cup {Nobody}]
    BY <1>1, <1>2 DEF TypeOK
  <2>4. waiters' \in [Locks -> Seq(Calls)]
    BY <1>1, <1>2, <1>4 DEF TypeOK
  <2> QED
    BY <2>1, <2>2, <2>3, <2>4 DEF TypeOK
<1>7. /\ pc'[c] \in {"running", "waiting"} /\ (pc'[c] = "running" <=> free)
      /\ sidOf'[c] = s /\ lock'[c] = l
      /\ \A d \in Calls : d # c => pc'[d] = pc[d] /\ sidOf'[d] = sidOf[d] /\ lock'[d] = lock[d]
  BY <1>1 DEF TypeOK
<1>8. /\ lockOf'[s] = l /\ \A t \in Sids : t # s => lockOf'[t] = lockOf[t]
      /\ \A k \in Locks : k # l => owner'[k] = owner[k] /\ waiters'[k] = waiters[k]
      /\ free => owner'[l] = c /\ waiters'[l] = waiters[l]
      /\ ~ free => owner'[l] = owner[l] /\ waiters'[l] = Append(waiters[l], c)
      /\ arrived'[s] = Append(arrived[s], c) /\ \A t \in Sids : t # s => arrived'[t] = arrived[t]
  BY <1>1, <1>2 DEF TypeOK
<1>9. /\ \A k \in Locks : ~ In(waiters[k], c)
      /\ \A k \in Locks : owner[k] # c
      /\ \A t \in Sids : ~ In(arrived[t], c)
  BY <1>1, ServiceAssumption DEF LocksHeld, ArrivedAre, Unfinished, ServiceAssumption
<1>10. LocksHeld'
  <2>1. \A d \in Calls : Unfinished(d)' => sidOf'[d] \in Sids /\ lock'[d] \in Locks
    BY <1>2, <1>7 DEF LocksHeld, Unfinished
  <2>2. \A d \in Calls : pc'[d] = "running" => owner'[lock'[d]] = d
    <3>1. ASSUME NEW d \in Calls, pc'[d] = "running", d # c PROVE owner'[lock'[d]] = d
      <4>1. pc[d] = "running" /\ lock'[d] = lock[d] /\ owner[lock[d]] = d /\ lock[d] \in Locks
        BY <1>7, <3>1 DEF LocksHeld, Unfinished
      <4>2. free => lock[d] # l
        BY <4>1, ServiceAssumption DEF ServiceAssumption
      <4> QED
        BY <1>8, <4>1, <4>2
    <3> QED
      BY <1>7, <1>8, <3>1
  <2>3. \A k \in Locks : owner'[k] # Nobody => pc'[owner'[k]] = "running" /\ lock'[owner'[k]] = k
    <3>1. ASSUME NEW k \in Locks, owner'[k] # Nobody, owner'[k] = owner[k]
          PROVE  pc'[owner'[k]] = "running" /\ lock'[owner'[k]] = k
      <4>1. owner[k] \in Calls /\ pc[owner[k]] = "running" /\ lock[owner[k]] = k
        BY <3>1 DEF LocksHeld, TypeOK
      <4> QED
        BY <1>1, <1>7, <3>1, <4>1
    <3>2. ASSUME NEW k \in Locks, owner'[k] # owner[k] PROVE k = l /\ free /\ owner'[k] = c
      BY <1>8, <3>2
    <3> QED
      BY <1>7, <3>1, <3>2
  <2>4. ASSUME NEW k \in Locks PROVE NoRepeat(waiters'[k])
    <3>1. NoRepeat(waiters[k]) /\ NoRepeat(waiters[l])
      BY <1>2 DEF LocksHeld
    <3>2. NoRepeat(Append(waiters[l], c))
      BY <1>2, <1>4, <1>9, <3>1
    <3>3. waiters'[k] = waiters[k] \/ waiters'[k] = Append(waiters[l], c)
      BY <1>8
    <3> QED
      BY <3>1, <3>2, <3>3
  <2>5. \A k \in Locks, d \in Calls : In(waiters'[k], d) <=> pc'[d] = "waiting" /\ lock'[d] = k
    <3>1. TAKE k \in Locks, d \in Calls
    <3>2. In(waiters[k], d) <=> pc[d] = "waiting" /\ lock[d] = k
      BY DEF LocksHeld
    <3>3. In(waiters'[k], d) <=> In(waiters[k], d) \/ (~ free /\ k = l /\ d = c)
      <4>1. CASE ~ free /\ k = l
        <5>1. waiters'[k] = Append(waiters[l], c)
          BY <1>8, <4>1
        <5> QED
          BY <1>4, <4>1, <5>1
      <4>2. CASE free \/ k # l
        <5>1. waiters'[k] = waiters[k]
          BY <1>8, <4>2
        <5> QED
          BY <4>2, <5>1
      <4> QED
        BY <4>1, <4>2
    <3>4. CASE d = c
      BY <1>1, <1>7, <3>2, <3>3, <3>4
    <3>5. CASE d # c
      BY <1>7, <3>2, <3>3, <3>5
    <3> QED
      BY <3>4, <3>5
  <2> QED
    BY <2>1, <2>2, <2>3, <2>4, <2>5 DEF LocksHeld
<1>11. LocksApart'
  <2>1. ASSUME Fresh(l), NEW d \in Calls, Unfinished(d) PROVE lock[d] # l
    <3>1. pc[d] = "running" => owner[lock[d]] = d
      BY DEF LocksHeld
    <3>2. pc[d] = "waiting" /\ lock[d] = l => In(waiters[l], d)
      BY <1>2 DEF LocksHeld
    <3>3. ~ In(waiters[l], d) /\ owner[l] = Nobody
      BY <1>3, <2>1 DEF Fresh, In
    <3>4. pc[d] \in {"running", "waiting"}
      BY <2>1 DEF Unfinished, TypeOK
    <3> QED
      BY <3>1, <3>2, <3>3, <3>4, ServiceAssumption DEF ServiceAssumption
  <2>2. \A d \in Calls : Unfinished(d) /\ lock[d] = l => sidOf[d] = s
    BY <1>2, <2>1 DEF LocksApart
  <2>3. \A t \in Sids : t # s => lockOf[t] # l
    BY <1>2, ServiceAssumption DEF Fresh, LocksApart, ServiceAssumption
  <2>4. \A d \in Calls : d # c => (Unfinished(d)' <=> Unfinished(d))
    BY <1>7 DEF Unfinished
  <2>5. \A d, e \in Calls : Unfinished(d)' /\ Unfinished(e)' /\ lock'[d] = lock'[e] => sidOf'[d] = sidOf'[e]
    <3>1. TAKE d, e \in Calls
    <3>2. HAVE Unfinished(d)' /\ Unfinished(e)' /\ lock'[d] = lock'[e]
    <3>3. CASE d = c
      BY <1>7, <2>2, <2>4, <3>2, <3>3
    <3>4. CASE e = c
      BY <1>7, <2>2, <2>4, <3>2, <3>4
    <3>5. CASE d # c /\ e # c
      BY <1>7, <2>4, <3>2, <3>5 DEF LocksApart
    <3> QED
      BY <3>3, <3>4, <3>5
  <2>6. \A d \in Calls, t \in Sids : Unfinished(d)' /\ lockOf'[t] = lock'[d] => t = sidOf'[d]
    <3>1. TAKE d \in Calls, t \in Sids
    <3>2. HAVE Unfinished(d)' /\ lockOf'[t] = lock'[d]
    <3>3. CASE d = c
      BY <1>7, <1>8, <2>3, <3>2, <3>3
    <3>4. CASE d # c /\ t = s
      BY <1>7, <1>8, <2>2, <2>4, <3>2, <3>4
    <3>5. CASE d # c /\ t # s
      BY <1>7, <1>8, <2>4, <3>2, <3>5 DEF LocksApart
    <3> QED
      BY <3>3, <3>4, <3>5
  <2>7. \A t, u \in Sids : lockOf'[t] = lockOf'[u] /\ lockOf'[t] # NoLock => t = u
    BY <1>8, <2>3 DEF LocksApart
  <2> QED
    BY <2>5, <2>6, <2>7 DEF LocksApart
<1>12. ArrivedAre'
  <2>1. ASSUME NEW t \in Sids PROVE NoRepeat(arrived'[t])
    <3>1. NoRepeat(arrived[t]) /\ ~ In(arrived[t], c)
      BY <1>9 DEF ArrivedAre
    <3>2. CASE t = s
      <4>1. NoRepeat(Append(arrived[s], c))
        BY <1>5, <3>1, <3>2
      <4> QED
        BY <1>8, <3>2, <4>1
    <3>3. CASE t # s
      BY <1>8, <3>1, <3>3
    <3> QED
      BY <3>2, <3>3
  <2>2. \A t \in Sids, d \in Calls : In(arrived'[t], d) <=> Unfinished(d)' /\ sidOf'[d] = t
    <3>1. TAKE t \in Sids, d \in Calls
    <3>2. In(arrived[t], d) <=> Unfinished(d) /\ sidOf[d] = t
      BY DEF ArrivedAre
    <3>3. In(arrived'[t], d) <=> In(arrived[t], d) \/ (t = s /\ d = c)
      <4>1. CASE t = s
        <5>1. arrived'[t] = Append(arrived[s], c)
          BY <1>8, <4>1
        <5> QED
          BY <1>5, <4>1, <5>1
      <4>2. CASE t # s
        <5>1. arrived'[t] = arrived[t]
          BY <1>8, <4>2
        <5> QED
          BY <4>2, <5>1
      <4> QED
        BY <4>1, <4>2
    <3> QED
      BY <1>1, <1>7, <3>2, <3>3 DEF Unfinished
  <2> QED
    BY <2>1, <2>2 DEF ArrivedAre
<1> QED
  BY <1>6, <1>10, <1>11, <1>12

\* A woken call takes the lock.
LEMMA WakeKept ==
  ASSUME LockInv, NEW c \in Calls, Wake(c)
  PROVE  LockInv'
<1> DEFINE l == lock[c]
<1> USE DEF LockInv
<1>1. /\ pc[c] = "waiting" /\ owner[l] = Nobody /\ Head(waiters[l]) = c
      /\ owner' = [owner EXCEPT ![l] = c] /\ waiters' = [waiters EXCEPT ![l] = Tail(waiters[l])]
      /\ pc' = [pc EXCEPT ![c] = "running"]
      /\ UNCHANGED <<store, idle, lockOf, sidOf, lock, mine, arrived, expired, dropping>>
  BY DEF Wake, Woken
<1>2. l \in Locks /\ Unfinished(c)
  BY <1>1 DEF LocksHeld, Unfinished
<1>3. In(waiters[l], c) /\ waiters[l] \in Seq(Calls) /\ NoRepeat(waiters[l])
  BY <1>1, <1>2 DEF LocksHeld, TypeOK
<1>4. waiters[l] # <<>>
  BY <1>3 DEF In
<1>5. /\ Tail(waiters[l]) \in Seq(Calls) /\ NoRepeat(Tail(waiters[l]))
      /\ \A d : In(Tail(waiters[l]), d) <=> In(waiters[l], d) /\ d # c
  <2> DEFINE q == waiters[l]
  <2>1. q \in Seq(Calls) /\ q # <<>> /\ NoRepeat(q) /\ Head(q) = c
    BY <1>1, <1>3, <1>4
  <2> HIDE DEF q
  <2>2. Tail(q) \in Seq(Calls) /\ NoRepeat(Tail(q)) /\ \A d : In(Tail(q), d) <=> In(q, d) /\ d # Head(q)
    BY <2>1, TailIn, Zenon
  <2> QED
    BY <2>1, <2>2 DEF q
<1> HIDE DEF l
<1>6. /\ pc'[c] = "running" /\ \A d \in Calls : d # c => pc'[d] = pc[d]
      /\ owner'[l] = c /\ waiters'[l] = Tail(waiters[l])
      /\ \A k \in Locks : k # l => owner'[k] = owner[k] /\ waiters'[k] = waiters[k]
      /\ \A d \in Calls : Unfinished(d)' <=> Unfinished(d)
  BY <1>1, <1>2 DEF TypeOK, Unfinished
<1>7. TypeOK'
  BY <1>1, <1>2, <1>5 DEF TypeOK
<1>8. LocksHeld'
  <2>1. \A d \in Calls : Unfinished(d)' => sidOf'[d] \in Sids /\ lock'[d] \in Locks
    BY <1>1, <1>6 DEF LocksHeld
  <2>2. ASSUME NEW d \in Calls, pc'[d] = "running" PROVE owner'[lock'[d]] = d
    <3>1. CASE d = c
      BY <1>1, <1>6, <3>1 DEF l
    <3>2. CASE d # c
      <4>1. pc[d] = "running" /\ owner[lock[d]] = d /\ lock[d] \in Locks
        BY <1>6, <2>2, <3>2 DEF LocksHeld, Unfinished
      <4>2. lock[d] # l
        BY <1>1, <4>1, ServiceAssumption DEF ServiceAssumption
      <4> QED
        BY <1>1, <1>6, <4>1, <4>2
    <3> QED
      BY <3>1, <3>2
  <2>3. ASSUME NEW k \in Locks, owner'[k] # Nobody PROVE pc'[owner'[k]] = "running" /\ lock'[owner'[k]] = k
    <3>1. CASE k = l
      BY <1>1, <1>6, <3>1 DEF l
    <3>2. CASE k # l
      <4>1. owner[k] \in Calls /\ pc[owner[k]] = "running" /\ lock[owner[k]] = k
        BY <1>6, <2>3, <3>2 DEF LocksHeld, TypeOK
      <4> QED
        BY <1>1, <1>6, <3>2, <4>1
    <3> QED
      BY <3>1, <3>2
  <2>4. \A k \in Locks : NoRepeat(waiters'[k])
    BY <1>5, <1>6 DEF LocksHeld
  <2>5. ASSUME NEW k \in Locks, NEW d \in Calls
        PROVE  In(waiters'[k], d) <=> pc'[d] = "waiting" /\ lock'[d] = k
    <3>1. In(waiters[k], d) <=> pc[d] = "waiting" /\ lock[d] = k
      BY DEF LocksHeld
    <3>2. CASE d = c
      <4>1. ~ In(waiters'[k], d)
        BY <1>5, <1>6, <3>1, <3>2 DEF l
      <4> QED
        BY <1>6, <3>2, <4>1
    <3>3. CASE d # c
      BY <1>1, <1>5, <1>6, <3>1, <3>3
    <3> QED
      BY <3>2, <3>3
  <2> QED
    BY <2>1, <2>2, <2>3, <2>4, <2>5 DEF LocksHeld
<1>9. LocksApart' /\ ArrivedAre'
  BY <1>1, <1>6 DEF LocksApart, ArrivedAre
<1> QED
  BY <1>7, <1>8, <1>9

\* A call ends, and is taken off what it holds or awaits.
LEMMA LeaveKept ==
  ASSUME LockInv, NEW c \in Calls, Unfinished(c), Leave(c),
         owner' \in [Locks -> Calls \cup {Nobody}], waiters' \in [Locks -> Seq(Calls)],
         \A l \in Locks : owner'[l] = IF owner[l] = c THEN Nobody ELSE owner[l],
         \A l \in Locks : NoRepeat(waiters'[l]),
         \A l \in Locks, d \in Calls : In(waiters'[l], d) <=> In(waiters[l], d) /\ d # c
  PROVE  LockInv'
<1> DEFINE s == sidOf[c]
<1> USE DEF LockInv
<1>1. s \in Sids
  BY DEF LocksHeld
<1>2. In(arrived[s], c) /\ NoRepeat(arrived[s]) /\ arrived[s] \in Seq(Calls)
  BY <1>1 DEF ArrivedAre, TypeOK
<1>3. /\ Without(arrived[s], c) \in Seq(Calls) /\ NoRepeat(Without(arrived[s], c))
      /\ \A d : In(Without(arrived[s], c), d) <=> In(arrived[s], d) /\ d # c
  BY <1>2, WithoutIn
<1>4. /\ idle' = IF mine[c] THEN [idle EXCEPT ![s] = 0] ELSE idle
      /\ pc' = [pc EXCEPT ![c] = "outside"] /\ sidOf' = [sidOf EXCEPT ![c] = NoSid]
      /\ lock' = [lock EXCEPT ![c] = NoLock] /\ mine' = [mine EXCEPT ![c] = FALSE]
      /\ arrived' = [arrived EXCEPT ![s] = Without(arrived[s], c)]
      /\ UNCHANGED <<store, lockOf, expired, dropping>>
  BY DEF Leave
<1> HIDE DEF s
<1>5. /\ pc'[c] = "outside" /\ \A d \in Calls : d # c => pc'[d] = pc[d] /\ sidOf'[d] = sidOf[d] /\ lock'[d] = lock[d]
      /\ \A d \in Calls : Unfinished(d)' <=> Unfinished(d) /\ d # c
  BY <1>4 DEF TypeOK, Unfinished
<1>6. arrived'[s] = Without(arrived[s], c) /\ \A t \in Sids : t # s => arrived'[t] = arrived[t]
  BY <1>1, <1>4 DEF TypeOK
<1>7. TypeOK'
  <2>1. arrived' \in [Sids -> Seq(Calls)]
    BY <1>3, <1>4 DEF TypeOK
  <2>2. /\ store' \subseteq Sids /\ idle' \in [Sids -> 0..TTL] /\ lockOf' \in [Sids -> Locks \cup {NoLock}]
        /\ expired' \subseteq Sids /\ dropping' \in Sids \cup {NoSid}
    BY <1>1, <1>4, ServiceAssumption DEF TypeOK, ServiceAssumption
  <2>3. /\ sidOf' \in [Calls -> Sids \cup {NoSid}] /\ lock' \in [Calls -> Locks \cup {NoLock}]
        /\ mine' \in [Calls -> BOOLEAN] /\ pc' \in [Calls -> {"outside", "waiting", "running"}]
    BY <1>4 DEF TypeOK
  <2> QED
    BY <2>1, <2>2, <2>3 DEF TypeOK
<1>8. LocksHeld'
  <2>1. \A d \in Calls : Unfinished(d)' => sidOf'[d] \in Sids /\ lock'[d] \in Locks
    BY <1>5 DEF LocksHeld
  <2>2. ASSUME NEW d \in Calls, pc'[d] = "running" PROVE owner'[lock'[d]] = d
    <3>1. d # c /\ pc[d] = "running" /\ lock'[d] = lock[d]
      BY <1>5, <2>2
    <3>2. owner[lock[d]] = d /\ lock[d] \in Locks
      BY <3>1 DEF LocksHeld, Unfinished
    <3> QED
      BY <3>1, <3>2
  <2>3. ASSUME NEW k \in Locks, owner'[k] # Nobody PROVE pc'[owner'[k]] = "running" /\ lock'[owner'[k]] = k
    <3>1. owner'[k] = owner[k] /\ owner[k] # c /\ owner[k] # Nobody
      BY <2>3
    <3>2. owner[k] \in Calls /\ pc[owner[k]] = "running" /\ lock[owner[k]] = k
      BY <3>1 DEF LocksHeld, TypeOK
    <3> QED
      BY <1>5, <3>1, <3>2
  <2>4. ASSUME NEW k \in Locks, NEW d \in Calls
        PROVE  In(waiters'[k], d) <=> pc'[d] = "waiting" /\ lock'[d] = k
    <3>1. In(waiters[k], d) <=> pc[d] = "waiting" /\ lock[d] = k
      BY DEF LocksHeld
    <3> QED
      BY <1>5, <3>1
  <2> QED
    BY <2>1, <2>2, <2>3, <2>4 DEF LocksHeld
<1>9. LocksApart'
  BY <1>4, <1>5 DEF LocksApart
<1>10. ArrivedAre'
  <2>1. \A t \in Sids : NoRepeat(arrived'[t])
    BY <1>3, <1>6 DEF ArrivedAre
  <2>2. ASSUME NEW t \in Sids, NEW d \in Calls
        PROVE  In(arrived'[t], d) <=> Unfinished(d)' /\ sidOf'[d] = t
    <3>1. In(arrived[t], d) <=> Unfinished(d) /\ sidOf[d] = t
      BY DEF ArrivedAre
    <3>2. In(arrived'[t], d) <=> In(arrived[t], d) /\ ~ (t = s /\ d = c)
      BY <1>3, <1>6
    <3> QED
      BY <1>5, <3>1, <3>2 DEF s
  <2> QED
    BY <2>1, <2>2 DEF ArrivedAre
<1> QED
  BY <1>7, <1>8, <1>9, <1>10

\* What a call that ends does to the locks.
LEMMA FinishEffect ==
  ASSUME LockInv, NEW c \in Calls, Finish(c)
  PROVE  /\ Unfinished(c) /\ Leave(c) /\ lock[c] \in Locks /\ owner[lock[c]] = c /\ waiters' = waiters
         /\ owner' \in [Locks -> Calls \cup {Nobody}]
         /\ \A l \in Locks : owner'[l] = IF l = lock[c] THEN Nobody ELSE owner[l]
         /\ \A l \in Locks : owner'[l] = IF owner[l] = c THEN Nobody ELSE owner[l]
<1> USE DEF LockInv
<1>1. pc[c] = "running" /\ owner' = [owner EXCEPT ![lock[c]] = Nobody] /\ waiters' = waiters /\ Leave(c)
  BY DEF Finish
<1>2. Unfinished(c) /\ lock[c] \in Locks /\ owner[lock[c]] = c
  BY <1>1 DEF LocksHeld, Unfinished
<1>3. /\ owner' \in [Locks -> Calls \cup {Nobody}]
      /\ \A l \in Locks : owner'[l] = IF l = lock[c] THEN Nobody ELSE owner[l]
  BY <1>1, <1>2 DEF TypeOK
<1>4. \A l \in Locks : owner[l] = c => l = lock[c]
  BY ServiceAssumption DEF LocksHeld, ServiceAssumption
<1> QED
  BY <1>1, <1>2, <1>3, <1>4

\* What a call does to the locks that is given up before it runs.
LEMMA CancelEffect ==
  ASSUME LockInv, NEW c \in Calls, CancelWaiting(c)
  PROVE  /\ Unfinished(c) /\ Leave(c) /\ lock[c] \in Locks /\ In(waiters[lock[c]], c) /\ owner' = owner
         /\ \A l \in Locks : owner[l] # c
         /\ waiters' \in [Locks -> Seq(Calls)]
         /\ \A l \in Locks : waiters'[l] = IF l = lock[c] THEN Without(waiters[l], c) ELSE waiters[l]
<1> USE DEF LockInv
<1>1. /\ pc[c] = "waiting" /\ owner' = owner /\ Leave(c)
      /\ waiters' = [waiters EXCEPT ![lock[c]] = Without(waiters[lock[c]], c)]
  BY DEF CancelWaiting
<1>2. Unfinished(c) /\ lock[c] \in Locks /\ In(waiters[lock[c]], c)
  BY <1>1 DEF LocksHeld, Unfinished
<1>3. NoRepeat(waiters[lock[c]]) /\ waiters[lock[c]] \in Seq(Calls)
  BY <1>2 DEF LocksHeld, TypeOK
<1>4. Without(waiters[lock[c]], c) \in Seq(Calls)
  BY <1>2, <1>3, WithoutIn
<1>5. \A l \in Locks : owner[l] # c
  BY <1>1, ServiceAssumption DEF LocksHeld, ServiceAssumption
<1> QED
  BY <1>1, <1>2, <1>4, <1>5 DEF TypeOK

\* The end of a call keeps the locks right.
LEMMA EndKept ==
  ASSUME LockInv, NEW c \in Calls, Finish(c) \/ CancelWaiting(c)
  PROVE  LockInv'
<1>1. CASE Finish(c)
  <2>1. \A l \in Locks, d \in Calls : In(waiters[l], d) => pc[d] = "waiting"
    BY DEF LockInv, LocksHeld
  <2>2. pc[c] = "running"
    BY <1>1 DEF Finish
  <2>3. \A l \in Locks, d \in Calls : In(waiters[l], d) => d # c
    BY <2>1, <2>2
  <2>4. waiters' = waiters
    BY <1>1, FinishEffect
  <2>5. \A l \in Locks, d \in Calls : In(waiters'[l], d) <=> In(waiters[l], d) /\ d # c
    BY <2>3, <2>4
  <2>6. waiters' \in [Locks -> Seq(Calls)] /\ \A l \in Locks : NoRepeat(waiters'[l])
    BY <2>4 DEF LockInv, LocksHeld, TypeOK
  <2> QED
    BY <1>1, <2>5, <2>6, FinishEffect, LeaveKept
<1>2. CASE CancelWaiting(c)
  <2> DEFINE l == lock[c]
  <2>1. NoRepeat(waiters[l]) /\ waiters[l] \in Seq(Calls) /\ In(waiters[l], c)
    BY <1>2, CancelEffect DEF LockInv, LocksHeld, TypeOK
  <2>2. /\ NoRepeat(Without(waiters[l], c))
        /\ \A d : In(Without(waiters[l], c), d) <=> In(waiters[l], d) /\ d # c
    BY <2>1, WithoutIn
  <2>3. \A k \in Locks : waiters'[k] = IF k = l THEN Without(waiters[k], c) ELSE waiters[k]
    BY <1>2, CancelEffect
  <2>4. \A k \in Locks : In(waiters[k], c) => k = l
    BY DEF LockInv, LocksHeld
  <2>5. \A k \in Locks : NoRepeat(waiters'[k])
    BY <2>2, <2>3 DEF LockInv, LocksHeld
  <2>6. \A k \in Locks, d \in Calls : In(waiters'[k], d) <=> In(waiters[k], d) /\ d # c
    BY <2>2, <2>3, <2>4
  <2>7. owner' \in [Locks -> Calls \cup {Nobody}]
    BY <1>2, CancelEffect DEF LockInv, TypeOK
  <2>8. \A k \in Locks : owner'[k] = IF owner[k] = c THEN Nobody ELSE owner[k]
    BY <1>2, CancelEffect
  <2> QED
    BY <1>2, <2>5, <2>6, <2>7, <2>8, CancelEffect, LeaveKept
<1> QED
  BY <1>1, <1>2

\* What the task and the clock do: they touch neither calls nor their queues,
\* and take locks only from sessions.
LEMMA TaskEffect ==
  ASSUME TypeOK, Sweep \/ DropReturns \/ DropFails \/ Tick
  PROVE  /\ TypeOK' /\ UNCHANGED <<owner, waiters, pc, sidOf, lock, arrived>>
         /\ \A s \in Sids : lockOf'[s] \in {lockOf[s], NoLock}
<1>0. TTL \in Nat /\ 0 \in 0..TTL
  BY ServiceAssumption DEF ServiceAssumption
<1>1. ASSUME NEW pending \in SUBSET Sids, DropNext(pending)
      PROVE  /\ expired' \subseteq Sids /\ dropping' \in Sids \cup {NoSid}
             /\ lockOf' \in [Sids -> Locks \cup {NoLock}]
             /\ \A s \in Sids : lockOf'[s] \in {lockOf[s], NoLock}
  BY <1>1 DEF DropNext, TypeOK
<1>2. CASE Sweep
  <2> DEFINE refreshed == [s \in Sids |-> IF s \in Busy THEN 0 ELSE idle[s]]
             old == {s \in store \cup Busy : refreshed[s] >= TTL}
  <2>1. /\ idle' = [s \in Sids |-> IF s \in old THEN 0 ELSE refreshed[s]]
        /\ store' = (store \cup Busy) \ old
        /\ mine' = [c \in Calls |-> mine[c] /\ sidOf[c] \notin old]
        /\ DropNext(old) /\ UNCHANGED <<owner, waiters, pc, sidOf, lock, arrived>>
    BY <1>2 DEF Sweep
  <2>2. old \subseteq Sids /\ store \subseteq Sids /\ Busy \subseteq Sids
    BY DEF Busy, TypeOK
  <2>3. refreshed \in [Sids -> 0..TTL]
    BY <1>0 DEF TypeOK
  <2> HIDE DEF old, refreshed
  <2>4. idle' \in [Sids -> 0..TTL]
    BY <1>0, <2>1, <2>3
  <2>5. mine' \in [Calls -> BOOLEAN]
    BY <2>1
  <2> QED
    BY <1>1, <2>1, <2>2, <2>4, <2>5 DEF TypeOK
<1>3. CASE DropReturns
  BY <1>1, <1>3 DEF DropReturns, TypeOK, callVars
<1>4. CASE DropFails
  BY <1>1, <1>4 DEF DropFails, TypeOK, callVars
<1>5. CASE Tick
  <2>1. /\ idle' = [s \in Sids |-> IF s \in store /\ idle[s] < TTL THEN idle[s] + 1 ELSE idle[s]]
        /\ UNCHANGED <<store, lockOf, owner, waiters, pc, sidOf, lock, mine, arrived, expired, dropping>>
    BY <1>5 DEF Tick, lockVars, callVars
  <2>2. ASSUME NEW s \in Sids
        PROVE  (IF s \in store /\ idle[s] < TTL THEN idle[s] + 1 ELSE idle[s]) \in 0..TTL
    BY <1>0 DEF TypeOK
  <2>3. idle' \in [Sids -> 0..TTL]
    BY <2>1, <2>2
  <2> QED
    BY <2>1, <2>3 DEF TypeOK
<1> QED
  BY <1>2, <1>3, <1>4, <1>5

\* A lock that is taken from a session leaves its calls on that lock.
LEMMA TaskKept ==
  ASSUME LockInv, Sweep \/ DropReturns \/ DropFails \/ Tick
  PROVE  LockInv'
<1>1. /\ TypeOK' /\ UNCHANGED <<owner, waiters, pc, sidOf, lock, arrived>>
      /\ \A s \in Sids : lockOf'[s] \in {lockOf[s], NoLock}
  BY TaskEffect DEF LockInv
<1>2. \A d \in Calls : Unfinished(d)' <=> Unfinished(d)
  BY <1>1 DEF Unfinished
<1>3. LocksHeld' /\ ArrivedAre'
  BY <1>1, <1>2 DEF LockInv, LocksHeld, ArrivedAre
<1>4. LocksApart'
  <2>1. \A c \in Calls : Unfinished(c) => lock[c] # NoLock
    BY ServiceAssumption DEF LockInv, LocksHeld, ServiceAssumption
  <2> QED
    BY <1>1, <1>2, <2>1 DEF LockInv, LocksApart
<1> QED
  BY <1>1, <1>3, <1>4 DEF LockInv

\* Every step keeps the locks right.
LEMMA LockStep == LockInv /\ [Next]_vars => LockInv'
<1> SUFFICES ASSUME LockInv, [Next]_vars PROVE LockInv'
  OBVIOUS
<1>1. ASSUME NEW c \in Calls, NEW s \in Sids, Arrive(c, s) PROVE LockInv'
  BY <1>1, ArriveKept
<1>2. ASSUME NEW c \in Calls, Wake(c) PROVE LockInv'
  BY <1>2, WakeKept
<1>3. ASSUME NEW c \in Calls, Finish(c) \/ CancelWaiting(c) PROVE LockInv'
  BY <1>3, EndKept
<1>4. CASE Sweep \/ DropReturns \/ DropFails \/ Tick
  BY <1>4, TaskKept
<1>5. CASE UNCHANGED vars
  BY <1>5 DEF vars, lockVars, callVars, LockInv, TypeOK, LocksHeld, LocksApart, ArrivedAre, Unfinished
<1> QED
  BY <1>1, <1>2, <1>3, <1>4, <1>5 DEF Next

-----------------------------------------------------------------------------
(* Order and kept sessions, while no lock is taken from a session in use   *)

\* A session without a registered lock has no calls.
LEMMA UnregisteredIdle ==
  ASSUME LockInv, Registered, NEW s \in Sids, lockOf[s] = NoLock
  PROVE  arrived[s] = <<>>
<1>1. arrived[s] \in Seq(Calls)
  BY DEF LockInv, TypeOK
<1>2. ASSUME arrived[s] # <<>> PROVE FALSE
  <2>1. arrived[s][1] \in Calls /\ 1 \in DOMAIN arrived[s]
    BY <1>1, <1>2
  <2>2. In(arrived[s], arrived[s][1])
    BY <2>1 DEF In
  <2>3. Unfinished(arrived[s][1]) /\ sidOf[arrived[s][1]] = s
    BY <2>1, <2>2 DEF LockInv, ArrivedAre
  <2>4. lock[arrived[s][1]] = NoLock /\ lock[arrived[s][1]] \in Locks
    BY <2>1, <2>3 DEF Registered, LockInv, LocksHeld
  <2> QED
    BY <2>4, ServiceAssumption DEF ServiceAssumption
<1> QED
  BY <1>2

\* What a call that ends leaves alone.
LEMMA LeaveEffect ==
  ASSUME LockInv, NEW c \in Calls, Unfinished(c), Leave(c)
  PROVE  /\ sidOf[c] \in Sids /\ lockOf' = lockOf /\ store' = store
         /\ \A d \in Calls : Unfinished(d)' <=> Unfinished(d) /\ d # c
         /\ \A d \in Calls : d # c => /\ pc'[d] = pc[d] /\ sidOf'[d] = sidOf[d]
                                      /\ lock'[d] = lock[d] /\ mine'[d] = mine[d]
         /\ arrived'[sidOf[c]] = Without(arrived[sidOf[c]], c)
         /\ \A t \in Sids : t # sidOf[c] => arrived'[t] = arrived[t]
         /\ \A t \in Sids : idle'[t] = IF mine[c] /\ t = sidOf[c] THEN 0 ELSE idle[t]
<1>1. sidOf[c] \in Sids /\ TypeOK
  BY DEF LockInv, LocksHeld
<1>2. /\ lockOf' = lockOf /\ store' = store
      /\ \A d \in Calls : d # c => /\ pc'[d] = pc[d] /\ sidOf'[d] = sidOf[d]
                                   /\ lock'[d] = lock[d] /\ mine'[d] = mine[d]
      /\ pc'[c] = "outside"
  BY <1>1 DEF Leave, TypeOK
<1>3. /\ arrived'[sidOf[c]] = Without(arrived[sidOf[c]], c)
      /\ \A t \in Sids : t # sidOf[c] => arrived'[t] = arrived[t]
      /\ \A t \in Sids : idle'[t] = IF mine[c] /\ t = sidOf[c] THEN 0 ELSE idle[t]
  BY <1>1 DEF Leave, TypeOK
<1> QED
  BY <1>1, <1>2, <1>3 DEF Unfinished

\* The queue behind the holder.
LEMMA HolderQueue ==
  ASSUME TypeOK, NEW l \in Locks
  PROVE  /\ owner[l] = Nobody => Holder(owner[l]) \o waiters[l] = waiters[l]
         /\ owner[l] # Nobody => Holder(owner[l]) \o waiters[l] = <<owner[l]>> \o waiters[l]
<1>1. waiters[l] \in Seq(Calls)
  BY DEF TypeOK
<1>2. <<>> \o waiters[l] = waiters[l]
  BY <1>1
<1> QED
  BY <1>2 DEF Holder

\* Registered and waiting calls stay in order when one arrives.
LEMMA ArriveOrder ==
  ASSUME OrderInv, NEW c \in Calls, NEW s \in Sids, Arrive(c, s)
  PROVE  OrderInv'
<1> DEFINE l == LockFor(s)
           free == owner[l] = Nobody /\ waiters[l] = <<>>
<1>0. LockInv /\ Registered /\ Queued /\ HandedOver /\ SessionKept /\ TypeOK
  BY DEF OrderInv, LockInv
<1>1. /\ pc[c] = "outside"
      /\ store' = store \cup {s} /\ idle' = [idle EXCEPT ![s] = 0]
      /\ lockOf' = [lockOf EXCEPT ![s] = l] /\ sidOf' = [sidOf EXCEPT ![c] = s]
      /\ lock' = [lock EXCEPT ![c] = l] /\ mine' = [mine EXCEPT ![c] = TRUE]
      /\ arrived' = [arrived EXCEPT ![s] = Append(arrived[s], c)]
      /\ pc' = [pc EXCEPT ![c] = IF free THEN "running" ELSE "waiting"]
      /\ owner' = IF free THEN [owner EXCEPT ![l] = c] ELSE owner
      /\ waiters' = IF free THEN waiters ELSE [waiters EXCEPT ![l] = Append(waiters[l], c)]
  BY DEF Arrive
<1>2. l \in Locks /\ (lockOf[s] = l \/ (lockOf[s] = NoLock /\ Fresh(l)))
  BY <1>0, <1>1, LockFound
<1> HIDE DEF l
<1>3. /\ pc'[c] \in {"running", "waiting"} /\ sidOf'[c] = s /\ lock'[c] = l /\ mine'[c] = TRUE
      /\ \A d \in Calls : d # c => /\ pc'[d] = pc[d] /\ sidOf'[d] = sidOf[d]
                                   /\ lock'[d] = lock[d] /\ mine'[d] = mine[d]
      /\ \A d \in Calls : d # c => (Unfinished(d)' <=> Unfinished(d))
      /\ idle'[s] = 0 /\ \A t \in Sids : t # s => idle'[t] = idle[t]
  BY <1>0, <1>1 DEF TypeOK, Unfinished
<1>4. /\ lockOf'[s] = l /\ \A t \in Sids : t # s => lockOf'[t] = lockOf[t]
      /\ \A k \in Locks : k # l => owner'[k] = owner[k] /\ waiters'[k] = waiters[k]
      /\ free => owner'[l] = c /\ waiters'[l] = waiters[l]
      /\ ~ free => owner'[l] = owner[l] /\ waiters'[l] = Append(waiters[l], c)
      /\ arrived'[s] = Append(arrived[s], c) /\ \A t \in Sids : t # s => arrived'[t] = arrived[t]
  BY <1>0, <1>1, <1>2 DEF TypeOK
<1>5. LockInv'
  BY <1>0, ArriveKept
<1>6. \A d \in Calls : Unfinished(d) /\ sidOf[d] = s => lock[d] = l
  BY <1>0, <1>2, ServiceAssumption DEF Registered, LockInv, LocksHeld, ServiceAssumption
<1>7. Registered'
  <2>1. ASSUME NEW d \in Calls, d # c, Unfinished(d) PROVE lockOf'[sidOf'[d]] = lock'[d]
    <3>1. sidOf'[d] = sidOf[d] /\ lock'[d] = lock[d] /\ sidOf[d] \in Sids /\ lockOf[sidOf[d]] = lock[d]
      BY <1>0, <1>3, <2>1 DEF Registered, LockInv, LocksHeld
    <3> QED
      BY <1>4, <1>6, <2>1, <3>1
  <2> QED
    BY <1>3, <1>4, <2>1 DEF Registered
<1>8. SessionKept'
  BY <1>0, <1>1, <1>3 DEF SessionKept
<1>9. HandedOver'
  <2>1. ASSUME NEW d \in Calls, pc'[d] = "waiting", owner'[lock'[d]] = Nobody, sidOf'[d] # s
        PROVE  idle'[sidOf'[d]] = 0
    <3>1. d # c /\ pc[d] = "waiting" /\ Unfinished(d)
      BY <1>3, <2>1 DEF Unfinished
    <3>2. sidOf'[d] = sidOf[d] /\ lock'[d] = lock[d] /\ sidOf[d] \in Sids /\ lock[d] \in Locks
      BY <1>0, <1>3, <3>1 DEF LockInv, LocksHeld
    <3>3. owner[lock[d]] = Nobody
      BY <1>4, <2>1, <3>2, ServiceAssumption DEF ServiceAssumption
    <3> QED
      BY <1>0, <1>3, <2>1, <3>1, <3>2, <3>3 DEF HandedOver
  <2>2. \A d \in Calls : sidOf'[d] = s => idle'[sidOf'[d]] = 0
    BY <1>3
  <2> QED
    BY <2>1, <2>2 DEF HandedOver
<1>10. Queued'
  <2>1. ASSUME NEW t \in Sids, t # s, lockOf'[t] # NoLock
        PROVE  arrived'[t] = Holder(owner'[lockOf'[t]]) \o waiters'[lockOf'[t]]
    <3>1. lockOf'[t] = lockOf[t] /\ lockOf[t] # l /\ lockOf[t] \in Locks
      BY <1>0, <1>4, <1>5, <2>1, ServiceAssumption DEF LockInv, LocksApart, TypeOK, ServiceAssumption
    <3>2. owner'[lockOf[t]] = owner[lockOf[t]] /\ waiters'[lockOf[t]] = waiters[lockOf[t]]
      BY <1>4, <3>1
    <3>3. arrived[t] = Holder(owner[lockOf[t]]) \o waiters[lockOf[t]]
      BY <1>0, <2>1, <3>1 DEF Queued
    <3> QED
      BY <1>4, <2>1, <3>1, <3>2, <3>3 DEF Holder
  <2>2. waiters[l] \in Seq(Calls) /\ owner[l] \in Calls \cup {Nobody}
    BY <1>0, <1>2 DEF TypeOK
  <2>3. arrived[s] = Holder(owner[l]) \o waiters[l]
    <3>1. CASE lockOf[s] = l
      BY <1>0, <1>2, <3>1, ServiceAssumption DEF Queued, ServiceAssumption
    <3>2. CASE lockOf[s] = NoLock /\ Fresh(l)
      <4>1. arrived[s] = <<>>
        BY <1>0, <3>2, UnregisteredIdle
      <4>2. Holder(owner[l]) \o waiters[l] = waiters[l] /\ waiters[l] = <<>>
        BY <1>0, <1>2, <3>2, HolderQueue DEF Fresh
      <4> QED
        BY <4>1, <4>2
    <3> QED
      BY <1>2, <3>1, <3>2
  <2>4. arrived'[s] = Holder(owner'[l]) \o waiters'[l]
    <3>1. CASE free
      <4>1. arrived[s] = <<>>
        BY <1>0, <1>2, <2>3, <3>1, HolderQueue
      <4>2. Holder(owner'[l]) = <<c>> /\ waiters'[l] = <<>>
        <5>1. owner'[l] = c /\ waiters'[l] = <<>> /\ c # Nobody
          BY <1>4, <3>1, ServiceAssumption DEF ServiceAssumption
        <5> QED
          BY <5>1 DEF Holder
      <4> QED
        BY <1>4, <4>1, <4>2
    <3>2. CASE ~ free
      <4>1. Holder(owner'[l]) = Holder(owner[l]) /\ Holder(owner[l]) \in Seq(Calls)
        <5>1. owner'[l] = owner[l] /\ (owner[l] # Nobody => owner[l] \in Calls)
          BY <1>4, <2>2, <3>2
        <5> QED
          BY <5>1 DEF Holder
      <4>2. Append(Holder(owner[l]) \o waiters[l], c) = Holder(owner[l]) \o Append(waiters[l], c)
        <5> DEFINE h == Holder(owner[l])
                   w == waiters[l]
        <5>1. h \in Seq(Calls) /\ w \in Seq(Calls)
          BY <2>2, <4>1
        <5> HIDE DEF h, w
        <5>2. Append(h \o w, c) = h \o Append(w, c)
          BY <5>1
        <5> QED
          BY <5>2 DEF h, w
      <4> QED
        BY <1>4, <2>3, <3>2, <4>1, <4>2
    <3> QED
      BY <3>1, <3>2
  <2> QED
    BY <1>4, <2>1, <2>4 DEF Queued
<1> QED
  BY <1>5, <1>7, <1>8, <1>9, <1>10 DEF OrderInv

\* The first of the queue becomes the holder.
LEMMA WakeOrder ==
  ASSUME OrderInv, NEW c \in Calls, Wake(c)
  PROVE  OrderInv'
<1> DEFINE l == lock[c]
<1>0. LockInv /\ Registered /\ Queued /\ HandedOver /\ SessionKept /\ TypeOK
  BY DEF OrderInv, LockInv
<1>1. /\ pc[c] = "waiting" /\ owner[l] = Nobody /\ Head(waiters[l]) = c
      /\ owner' = [owner EXCEPT ![l] = c] /\ waiters' = [waiters EXCEPT ![l] = Tail(waiters[l])]
      /\ pc' = [pc EXCEPT ![c] = "running"]
      /\ UNCHANGED <<store, idle, lockOf, sidOf, lock, mine, arrived>>
  BY DEF Wake, Woken
<1>2. l \in Locks /\ Unfinished(c) /\ In(waiters[l], c)
  BY <1>0, <1>1 DEF LockInv, LocksHeld, Unfinished
<1>3. waiters[l] \in Seq(Calls) /\ NoRepeat(waiters[l]) /\ waiters[l] # <<>>
  BY <1>0, <1>2 DEF LockInv, LocksHeld, TypeOK, In
<1>4. waiters[l] = <<c>> \o Tail(waiters[l])
  <2> DEFINE q == waiters[l]
  <2>1. q \in Seq(Calls) /\ q # <<>> /\ NoRepeat(q) /\ Head(q) = c
    BY <1>1, <1>3
  <2> HIDE DEF q
  <2>2. q = <<Head(q)>> \o Tail(q)
    BY <2>1, TailIn, Zenon
  <2> QED
    BY <2>1, <2>2 DEF q
<1> HIDE DEF l
<1>5. /\ pc'[c] = "running" /\ \A d \in Calls : d # c => pc'[d] = pc[d]
      /\ \A d \in Calls : Unfinished(d)' <=> Unfinished(d)
      /\ owner'[l] = c /\ waiters'[l] = Tail(waiters[l])
      /\ \A k \in Locks : k # l => owner'[k] = owner[k] /\ waiters'[k] = waiters[k]
  BY <1>0, <1>1, <1>2 DEF TypeOK, Unfinished
<1>6. LockInv'
  BY <1>0, WakeKept
<1>7. Registered' /\ SessionKept'
  BY <1>0, <1>1, <1>5 DEF Registered, SessionKept
<1>8. HandedOver'
  <2>1. ASSUME NEW d \in Calls, pc'[d] = "waiting", owner'[lock'[d]] = Nobody
        PROVE  idle'[sidOf'[d]] = 0
    <3>1. d # c /\ pc[d] = "waiting" /\ lock'[d] = lock[d]
      BY <1>1, <1>5, <2>1
    <3>2. lock[d] \in Locks
      BY <1>0, <3>1 DEF LockInv, LocksHeld, Unfinished
    <3>3. owner[lock[d]] = Nobody
      BY <1>1, <1>5, <2>1, <3>1, <3>2
    <3> QED
      BY <1>0, <1>1, <3>1, <3>3 DEF HandedOver
  <2> QED
    BY <2>1 DEF HandedOver
<1>9. Queued'
  <2>1. ASSUME NEW t \in Sids, lockOf'[t] # NoLock
        PROVE  arrived'[t] = Holder(owner'[lockOf'[t]]) \o waiters'[lockOf'[t]]
    <3>1. arrived'[t] = arrived[t] /\ lockOf'[t] = lockOf[t] /\ lockOf[t] \in Locks
      BY <1>0, <1>1, <2>1 DEF TypeOK
    <3>2. arrived[t] = Holder(owner[lockOf[t]]) \o waiters[lockOf[t]]
      BY <1>0, <2>1, <3>1 DEF Queued
    <3>3. CASE lockOf[t] = l
      <4>1. arrived[t] = waiters[l]
        BY <1>0, <1>1, <1>2, <3>2, <3>3, HolderQueue
      <4>2. Holder(owner'[l]) = <<c>>
        BY <1>5, ServiceAssumption DEF Holder, ServiceAssumption
      <4> QED
        BY <1>4, <1>5, <3>1, <3>3, <4>1, <4>2
    <3>4. CASE lockOf[t] # l
      <4>1. owner'[lockOf[t]] = owner[lockOf[t]] /\ waiters'[lockOf[t]] = waiters[lockOf[t]]
        BY <1>5, <3>1, <3>4
      <4> QED
        BY <3>1, <3>2, <4>1 DEF Holder
    <3> QED
      BY <3>3, <3>4
  <2> QED
    BY <2>1 DEF Queued
<1> QED
  BY <1>6, <1>7, <1>8, <1>9 DEF OrderInv

\* A call that ends, run or not, leaves its place to those behind it.
LEMMA EndOrder ==
  ASSUME OrderInv, NEW c \in Calls, Finish(c) \/ CancelWaiting(c)
  PROVE  OrderInv'
<1> DEFINE l == lock[c]
           s == sidOf[c]
<1>0. LockInv /\ Registered /\ Queued /\ HandedOver /\ SessionKept /\ TypeOK
  BY DEF OrderInv, LockInv
<1>1. Unfinished(c) /\ Leave(c) /\ l \in Locks
  BY <1>0, FinishEffect, CancelEffect
<1>2. /\ s \in Sids /\ lockOf' = lockOf /\ store' = store
      /\ \A d \in Calls : Unfinished(d)' <=> Unfinished(d) /\ d # c
      /\ \A d \in Calls : d # c => /\ pc'[d] = pc[d] /\ sidOf'[d] = sidOf[d]
                                   /\ lock'[d] = lock[d] /\ mine'[d] = mine[d]
      /\ arrived'[s] = Without(arrived[s], c)
      /\ \A t \in Sids : t # s => arrived'[t] = arrived[t]
      /\ \A t \in Sids : idle'[t] = IF mine[c] /\ t = s THEN 0 ELSE idle[t]
  BY <1>0, <1>1, LeaveEffect
<1>3. mine[c] /\ lockOf[s] = l /\ l # NoLock
  BY <1>0, <1>1, ServiceAssumption DEF SessionKept, Registered, ServiceAssumption
<1>4. /\ \A t \in Sids : lockOf[t] = l => t = s
      /\ \A k \in Locks : k # l => owner'[k] = owner[k] /\ waiters'[k] = waiters[k]
  <2>1. \A t \in Sids : lockOf[t] = l => t = s
    BY <1>0, <1>2, <1>3 DEF LockInv, LocksApart
  <2>2. CASE Finish(c)
    BY <1>0, <2>1, <2>2, FinishEffect
  <2>3. CASE CancelWaiting(c)
    BY <1>0, <2>1, <2>3, CancelEffect
  <2> QED
    BY <2>2, <2>3
<1>5. LockInv'
  BY <1>0, EndKept
<1>6. Registered' /\ SessionKept'
  BY <1>0, <1>2 DEF Registered, SessionKept
<1>7. arrived'[s] = Holder(owner'[l]) \o waiters'[l]
  <2>1. arrived[s] = Holder(owner[l]) \o waiters[l] /\ NoRepeat(arrived[s])
    <3>1. NoRepeat(arrived[s])
      BY <1>0, <1>2 DEF LockInv, ArrivedAre
    <3>2. lockOf[s] # NoLock => arrived[s] = Holder(owner[lockOf[s]]) \o waiters[lockOf[s]]
      BY <1>0, <1>2 DEF Queued
    <3> QED
      BY <1>3, <3>1, <3>2
  <2>2. waiters[l] \in Seq(Calls) /\ owner[l] \in Calls \cup {Nobody}
    BY <1>0, <1>1 DEF TypeOK
  <2>3. CASE Finish(c)
    <3>1. owner[l] = c /\ owner'[l] = Nobody /\ waiters'[l] = waiters[l] /\ c # Nobody
      BY <1>0, <2>3, FinishEffect, ServiceAssumption DEF ServiceAssumption
    <3>2. arrived[s] = <<c>> \o waiters[l]
      BY <2>1, <3>1 DEF Holder
    <3>3. Without(<<c>> \o waiters[l], c) = waiters[l]
      BY <2>1, <2>2, <3>2, WithoutFirst
    <3>4. Holder(owner'[l]) \o waiters'[l] = waiters[l]
      <4>1. Holder(owner'[l]) = <<>>
        BY <3>1 DEF Holder
      <4>2. <<>> \o waiters[l] = waiters[l]
        BY <2>2
      <4> QED
        BY <3>1, <4>1, <4>2
    <3> QED
      BY <1>2, <3>2, <3>3, <3>4
  <2>4. CASE CancelWaiting(c)
    <3>1. owner'[l] = owner[l] /\ waiters'[l] = Without(waiters[l], c) /\ In(waiters[l], c)
      BY <1>0, <2>4, CancelEffect
    <3>2. CASE owner[l] = Nobody
      <4>1. arrived[s] = waiters[l] /\ Holder(owner'[l]) = <<>>
        BY <1>0, <1>1, <2>1, <3>1, <3>2, HolderQueue DEF Holder
      <4>2. Without(waiters[l], c) \in Seq(Calls)
        BY <2>1, <2>2, <3>1, <4>1, WithoutIn
      <4>3. <<>> \o Without(waiters[l], c) = Without(waiters[l], c)
        BY <4>2
      <4> QED
        BY <1>2, <3>1, <4>1, <4>3
    <3>3. CASE owner[l] # Nobody
      <4>1. arrived[s] = <<owner[l]>> \o waiters[l] /\ Holder(owner'[l]) = <<owner[l]>> /\ owner[l] \in Calls
        BY <2>1, <2>2, <3>1, <3>3 DEF Holder
      <4>2. Without(<<owner[l]>> \o waiters[l], c) = <<owner[l]>> \o Without(waiters[l], c)
        BY <2>1, <2>2, <3>1, <4>1, WithoutBehind
      <4> QED
        BY <1>2, <3>1, <4>1, <4>2
    <3> QED
      BY <3>2, <3>3
  <2> QED
    BY <2>3, <2>4
<1>8. Queued'
  <2>1. ASSUME NEW t \in Sids, lockOf'[t] # NoLock
        PROVE  arrived'[t] = Holder(owner'[lockOf'[t]]) \o waiters'[lockOf'[t]]
    <3>1. CASE t = s
      BY <1>2, <1>3, <1>7, <3>1
    <3>2. CASE t # s
      <4>1. lockOf'[t] = lockOf[t] /\ lockOf[t] \in Locks /\ lockOf[t] # l
        BY <1>0, <1>2, <1>4, <2>1, <3>2 DEF TypeOK
      <4>2. arrived[t] = Holder(owner[lockOf[t]]) \o waiters[lockOf[t]]
        BY <1>0, <2>1, <4>1 DEF Queued
      <4>3. owner'[lockOf[t]] = owner[lockOf[t]] /\ waiters'[lockOf[t]] = waiters[lockOf[t]]
        BY <1>4, <4>1
      <4> QED
        BY <1>2, <3>2, <4>1, <4>2, <4>3 DEF Holder
    <3> QED
      BY <3>1, <3>2
  <2> QED
    BY <2>1 DEF Queued
<1>9. HandedOver'
  <2>1. ASSUME NEW d \in Calls, pc'[d] = "waiting", owner'[lock'[d]] = Nobody
        PROVE  idle'[sidOf'[d]] = 0
    <3>1. Unfinished(d) /\ d # c
      BY <1>2, <2>1 DEF Unfinished
    <3>2. /\ pc[d] = "waiting" /\ sidOf'[d] = sidOf[d] /\ lock'[d] = lock[d]
          /\ sidOf[d] \in Sids /\ lock[d] \in Locks
      BY <1>0, <1>2, <2>1, <3>1 DEF LockInv, LocksHeld
    <3>3. CASE lock[d] = l
      <4>1. sidOf[d] = s
        BY <1>0, <1>1, <3>1, <3>3 DEF LockInv, LocksApart
      <4> QED
        BY <1>2, <1>3, <3>2, <4>1
    <3>4. CASE lock[d] # l
      <4>1. owner[lock[d]] = Nobody
        BY <1>4, <2>1, <3>2, <3>4
      <4>2. idle[sidOf[d]] = 0
        BY <1>0, <3>2, <4>1 DEF HandedOver
      <4> QED
        BY <1>2, <3>2, <4>2
    <3> QED
      BY <3>3, <3>4
  <2> QED
    BY <2>1 DEF HandedOver
<1> QED
  BY <1>5, <1>6, <1>8, <1>9 DEF OrderInv

\* A sweep keeps every session that has calls: it is in use, or its lock was
\* handed over just now.
LEMMA SweepOrder ==
  ASSUME OrderInv, Sweep
  PROVE  OrderInv'
<1> DEFINE refreshed == [s \in Sids |-> IF s \in Busy THEN 0 ELSE idle[s]]
           old == {s \in store \cup Busy : refreshed[s] >= TTL}
<1>0. LockInv /\ Registered /\ Queued /\ HandedOver /\ SessionKept /\ TypeOK
  BY DEF OrderInv, LockInv
<1>1. /\ idle' = [s \in Sids |-> IF s \in old THEN 0 ELSE refreshed[s]]
      /\ store' = (store \cup Busy) \ old
      /\ mine' = [c \in Calls |-> mine[c] /\ sidOf[c] \notin old]
      /\ DropNext(old)
      /\ UNCHANGED <<owner, waiters, pc, sidOf, lock, arrived>>
  BY DEF Sweep
<1>2. old \subseteq Sids
  BY <1>0 DEF Busy, TypeOK
<1>3. \A s \in Sids : idle'[s] = IF s \in old \/ s \in Busy THEN 0 ELSE idle[s]
  BY <1>1
<1>4. ASSUME NEW c \in Calls, Unfinished(c) PROVE sidOf[c] \in Sids /\ sidOf[c] \notin old
  <2>1. sidOf[c] \in Sids /\ lock[c] \in Locks /\ lockOf[sidOf[c]] = lock[c]
    BY <1>0, <1>4 DEF Registered, LockInv, LocksHeld
  <2>2. CASE owner[lock[c]] # Nobody
    <3>1. sidOf[c] \in Busy
      BY <2>1, <2>2, ServiceAssumption DEF Busy, ServiceAssumption
    <3> QED
      BY <2>1, <3>1, ServiceAssumption DEF ServiceAssumption
  <2>3. CASE owner[lock[c]] = Nobody
    <3>1. pc[c] # "running"
      BY <1>0, <2>3, ServiceAssumption DEF LockInv, LocksHeld, ServiceAssumption
    <3>2. pc[c] = "waiting"
      BY <1>0, <1>4, <3>1 DEF Unfinished, TypeOK
    <3>3. idle[sidOf[c]] = 0
      BY <1>0, <2>3, <3>2 DEF HandedOver
    <3> QED
      BY <2>1, <3>3, ServiceAssumption DEF ServiceAssumption
  <2> QED
    BY <2>2, <2>3
<1> HIDE DEF old, refreshed
<1>5. /\ LockInv' /\ \A s \in Sids : lockOf'[s] \in {lockOf[s], NoLock}
      /\ \A s \in Sids : s \notin old => lockOf'[s] = lockOf[s]
      /\ \A c \in Calls : Unfinished(c)' <=> Unfinished(c)
  <2>1. \A s \in Sids : s \notin old => lockOf'[s] = lockOf[s]
    BY <1>0, <1>1, <1>2 DEF DropNext, TypeOK
  <2>2. \A c \in Calls : Unfinished(c)' <=> Unfinished(c)
    BY <1>1 DEF Unfinished
  <2> QED
    BY <1>0, <2>1, <2>2, TaskKept, TaskEffect
<1>6. Registered'
  BY <1>0, <1>1, <1>4, <1>5 DEF Registered
<1>7. Queued'
  <2>1. ASSUME NEW t \in Sids, lockOf'[t] # NoLock
        PROVE  arrived'[t] = Holder(owner'[lockOf'[t]]) \o waiters'[lockOf'[t]]
    <3>1. lockOf'[t] = lockOf[t]
      BY <1>5, <2>1
    <3> QED
      BY <1>0, <1>1, <2>1, <3>1 DEF Queued
  <2> QED
    BY <2>1 DEF Queued
<1>8. HandedOver'
  <2>1. ASSUME NEW c \in Calls, pc'[c] = "waiting", owner'[lock'[c]] = Nobody
        PROVE  idle'[sidOf'[c]] = 0
    <3>1. pc[c] = "waiting" /\ owner[lock[c]] = Nobody /\ sidOf'[c] = sidOf[c] /\ Unfinished(c)
      BY <1>1, <2>1 DEF Unfinished
    <3>2. idle[sidOf[c]] = 0 /\ sidOf[c] \in Sids
      BY <1>0, <1>4, <3>1 DEF HandedOver
    <3> QED
      BY <1>3, <3>1, <3>2
  <2> QED
    BY <2>1 DEF HandedOver
<1>9. SessionKept'
  BY <1>0, <1>1, <1>4, <1>5 DEF SessionKept
<1> QED
  BY <1>5, <1>6, <1>7, <1>8, <1>9 DEF OrderInv

\* The task goes on to a session without calls, or gives up.
LEMMA DropOrder ==
  ASSUME OrderInv, DropReturns \/ DropFails, CleanUpIdle
  PROVE  OrderInv'
<1>0. LockInv /\ Registered /\ Queued /\ HandedOver /\ SessionKept /\ TypeOK
  BY DEF OrderInv, LockInv
<1>1. UNCHANGED <<store, idle, owner, waiters, pc, sidOf, lock, mine, arrived>>
  BY DEF DropReturns, DropFails, callVars
<1>2. \A s \in Sids : lockOf'[s] # lockOf[s] => arrived[s] = <<>>
  BY DEF CleanUpIdle, DropFails, DropNext
<1>3. \A s \in Sids : lockOf'[s] \in {lockOf[s], NoLock}
  BY <1>0, TaskEffect
<1>4. LockInv'
  BY <1>0, TaskKept
<1>5. \A c \in Calls : Unfinished(c)' <=> Unfinished(c)
  BY <1>1 DEF Unfinished
<1>6. ASSUME NEW c \in Calls, Unfinished(c) PROVE lockOf'[sidOf[c]] = lock[c]
  <2>1. sidOf[c] \in Sids /\ In(arrived[sidOf[c]], c) /\ lockOf[sidOf[c]] = lock[c]
    BY <1>0, <1>6 DEF LockInv, LocksHeld, ArrivedAre, Registered
  <2>2. arrived[sidOf[c]] # <<>>
    BY <2>1 DEF In
  <2> QED
    BY <1>2, <2>1, <2>2
<1>7. Registered' /\ HandedOver' /\ SessionKept'
  BY <1>0, <1>1, <1>5, <1>6 DEF Registered, HandedOver, SessionKept
<1>8. Queued'
  <2>1. ASSUME NEW t \in Sids, lockOf'[t] # NoLock
        PROVE  arrived'[t] = Holder(owner'[lockOf'[t]]) \o waiters'[lockOf'[t]]
    <3>1. lockOf'[t] = lockOf[t]
      BY <1>3, <2>1
    <3> QED
      BY <1>0, <1>1, <2>1, <3>1 DEF Queued
  <2> QED
    BY <2>1 DEF Queued
<1> QED
  BY <1>4, <1>7, <1>8 DEF OrderInv

\* While a lock is handed over no time passes.
LEMMA TickOrder ==
  ASSUME OrderInv, Tick
  PROVE  OrderInv'
<1>0. LockInv /\ Registered /\ Queued /\ HandedOver /\ SessionKept /\ TypeOK
  BY DEF OrderInv, LockInv
<1>1. /\ UNCHANGED <<store, lockOf, owner, waiters, pc, sidOf, lock, mine, arrived>>
      /\ \A c \in Calls : ~ Woken(c)
  BY DEF Tick, lockVars, callVars
<1>2. ASSUME NEW c \in Calls, pc[c] = "waiting" PROVE owner[lock[c]] # Nobody
  <2> DEFINE l == lock[c]
  <2>1. l \in Locks /\ In(waiters[l], c) /\ waiters[l] \in Seq(Calls) /\ NoRepeat(waiters[l])
    BY <1>0, <1>2 DEF LockInv, LocksHeld, Unfinished, TypeOK
  <2>2. waiters[l] # <<>>
    BY <2>1 DEF In
  <2>3. Head(waiters[l]) = waiters[l][1] /\ waiters[l][1] \in Calls /\ 1 \in DOMAIN waiters[l]
    BY <2>1, <2>2
  <2>4. pc[waiters[l][1]] = "waiting" /\ lock[waiters[l][1]] = l
    <3>1. In(waiters[l], waiters[l][1])
      BY <2>3 DEF In
    <3> QED
      BY <1>0, <2>1, <2>3, <3>1 DEF LockInv, LocksHeld
  <2> QED
    BY <1>1, <2>3, <2>4 DEF Woken
<1>3. LockInv'
  BY <1>0, TaskKept
<1>4. Registered' /\ SessionKept' /\ Queued'
  BY <1>0, <1>1 DEF Registered, SessionKept, Queued, Unfinished
<1>5. HandedOver'
  BY <1>1, <1>2 DEF HandedOver
<1> QED
  BY <1>3, <1>4, <1>5 DEF OrderInv

\* Every step keeps the order, when the task goes on with idle sessions only.
LEMMA OrderStep == OrderInv /\ [Next]_vars /\ CleanUpIdle => OrderInv'
<1> SUFFICES ASSUME OrderInv, [Next]_vars, CleanUpIdle PROVE OrderInv'
  OBVIOUS
<1>1. ASSUME NEW c \in Calls, NEW s \in Sids, Arrive(c, s) PROVE OrderInv'
  BY <1>1, ArriveOrder
<1>2. ASSUME NEW c \in Calls, Wake(c) PROVE OrderInv'
  BY <1>2, WakeOrder
<1>3. ASSUME NEW c \in Calls, Finish(c) \/ CancelWaiting(c) PROVE OrderInv'
  BY <1>3, EndOrder
<1>4. CASE Sweep
  BY <1>4, SweepOrder
<1>5. CASE DropReturns \/ DropFails
  BY <1>5, DropOrder
<1>6. CASE Tick
  BY <1>6, TickOrder
<1>7. CASE UNCHANGED vars
  <2>1. LockInv'
    BY <1>7, LockStep DEF OrderInv
  <2>2. Registered' /\ Queued' /\ HandedOver' /\ SessionKept'
    BY <1>7 DEF vars, lockVars, callVars, OrderInv, Registered, Queued, HandedOver, SessionKept, Unfinished
  <2> QED
    BY <2>1, <2>2 DEF OrderInv
<1> QED
  BY <1>1, <1>2, <1>3, <1>4, <1>5, <1>6, <1>7 DEF Next

\* At first every session is idle.
LEMMA OrderInit == Init => OrderInv
<1> SUFFICES ASSUME Init PROVE OrderInv
  OBVIOUS
<1>1. Registered /\ Queued /\ HandedOver /\ SessionKept
  BY DEF Init, Registered, Queued, HandedOver, SessionKept, Unfinished
<1> QED
  BY <1>1, LockInit DEF OrderInv

\* The one that runs is the one that arrived first.
LEMMA FirstRuns == OrderInv => InOrder
<1> SUFFICES ASSUME OrderInv, NEW c \in Calls, pc[c] = "running" PROVE Head(arrived[sidOf[c]]) = c
  BY DEF InOrder
<1>1. sidOf[c] \in Sids /\ lock[c] \in Locks /\ owner[lock[c]] = c /\ lockOf[sidOf[c]] = lock[c]
  BY DEF OrderInv, LockInv, LocksHeld, Registered, Unfinished
<1>2. arrived[sidOf[c]] = <<c>> \o waiters[lock[c]]
  BY <1>1, ServiceAssumption DEF OrderInv, Queued, Holder, ServiceAssumption
<1>3. waiters[lock[c]] \in Seq(Calls)
  BY <1>1 DEF OrderInv, LockInv, TypeOK
<1> QED
  BY <1>2, <1>3

\* The variables keep their types; more than that, the locks and the calls agree
\* on who holds and who awaits what, and a lock serves one session.  (Locks may
\* be taken from sessions in use: this part holds all the same.)
THEOREM LocksRight == Spec => []LockInv
<1> QED
  BY LockInit, LockStep, PTL DEF Spec

\* The calls of a session run one at a time, in the order of their arrival, and
\* its Session object is not removed under them (docs/IMPLEMENTATION.md:12), as
\* long as the task never goes on with a session that was called again while it
\* waited for a context to be dropped (service.py:104-112).
THEOREM OrderKept == Spec /\ [][CleanUpIdle]_vars => []InOrder /\ []SessionKept
<1>1. OrderInv /\ [Next]_vars /\ [CleanUpIdle]_vars => OrderInv'
  <2>1. vars' = vars => CleanUpIdle
    BY DEF vars, lockVars, CleanUpIdle
  <2> QED
    BY <2>1, OrderStep
<1>2. OrderInv => InOrder /\ SessionKept
  BY FirstRuns DEF OrderInv
<1> QED
  BY <1>1, <1>2, OrderInit, PTL DEF Spec

\* With a single session a sweep finds at most that one to remove, and pops its
\* lock at once: nothing is left to go on with.
LEMMA OneSwept ==
  ASSUME NEW sid, Sids = {sid}, LockInv, expired = {}, [Next]_vars
  PROVE  expired' = {} /\ CleanUpIdle
<1>1. ASSUME NEW pending \in SUBSET Sids, DropNext(pending) PROVE expired' = {}
  BY <1>1 DEF DropNext
<1>2. CASE Sweep
  <2> DEFINE refreshed == [s \in Sids |-> IF s \in Busy THEN 0 ELSE idle[s]]
             old == {s \in store \cup Busy : refreshed[s] >= TTL}
  <2>1. DropNext(old) /\ dropping = NoSid
    BY <1>2 DEF Sweep
  <2>2. old \in SUBSET Sids
    BY DEF Busy, LockInv, TypeOK
  <2> HIDE DEF old, refreshed
  <2> QED
    BY <1>1, <2>1, <2>2 DEF CleanUpIdle, DropReturns
<1>3. CASE DropReturns
  BY <1>3 DEF DropReturns, DropNext, CleanUpIdle
<1>4. CASE DropFails
  <2>1. expired' = {} /\ lockOf' = lockOf
    BY <1>4 DEF DropFails, DropNext
  <2> QED
    BY <2>1 DEF CleanUpIdle
<1>5. ASSUME lockOf' = lockOf PROVE CleanUpIdle
  BY <1>5 DEF CleanUpIdle
<1>6. CASE Tick \/ UNCHANGED vars
  <2>1. lockOf' = lockOf /\ expired' = expired
    BY <1>6 DEF Tick, vars, lockVars
  <2> QED
    BY <1>5, <2>1
<1>7. ASSUME NEW c \in Calls, NEW s \in Sids, Arrive(c, s) PROVE expired' = {} /\ CleanUpIdle
  <2>1. expired' = expired /\ dropping' = dropping /\ pc' = [pc EXCEPT ![c] = pc'[c]] /\ pc[c] = "outside"
    BY <1>7 DEF Arrive, LockInv, TypeOK
  <2>2. pc'[c] # "outside"
    BY <1>7 DEF Arrive, LockInv, TypeOK
  <2>3. ~ DropReturns
    BY <2>1, <2>2 DEF DropReturns, callVars
  <2> QED
    BY <2>1, <2>3 DEF CleanUpIdle
<1>8. ASSUME NEW c \in Calls, Wake(c) \/ Finish(c) \/ CancelWaiting(c) PROVE expired' = {} /\ CleanUpIdle
  <2>1. lockOf' = lockOf /\ expired' = expired
    BY <1>8 DEF Wake, Finish, CancelWaiting, Leave
  <2> QED
    BY <1>5, <2>1
<1> QED
  BY <1>2, <1>3, <1>4, <1>6, <1>7, <1>8 DEF Next

\* A server with one session (browsr-mcp on stdio serves one client:
\* interfaces/mcp_server.py) keeps the order and its session, always.
THEOREM OneSessionKept ==
  ASSUME NEW sid, Sids = {sid}
  PROVE  Spec => []InOrder /\ []SessionKept
<1>1. LockInv /\ expired = {} /\ [Next]_vars => (expired = {})' /\ CleanUpIdle
  BY OneSwept
<1>2. OrderInv => LockInv
  BY DEF OrderInv
<1>3. OrderInv => InOrder /\ SessionKept
  BY FirstRuns DEF OrderInv
<1>4. Init => expired = {}
  BY DEF Init
<1> QED
  BY <1>1, <1>2, <1>3, <1>4, OrderInit, OrderStep, PTL DEF Spec

-----------------------------------------------------------------------------
(* The whole service                                                       *)

\* What the service does to sessions and locks is what SessionService does.
LEMMA ServiceStep == [ServiceNext]_allVars => [Next]_vars
<1>1. CallStep => Next
  BY DEF CallStep, Next
<1>2. (Round => Sweep) /\ (RoundGoesOn => DropReturns) /\ (RoundFails => DropFails)
  BY DEF Round, RoundGoesOn, RoundFails
<1>3. Second => Tick \/ UNCHANGED vars
  BY DEF Second
<1>4. StorePage \/ StoreSearch \/ CacheSwept \/ CacheSweepFails => UNCHANGED vars
  BY DEF StorePage, StoreSearch, CacheSwept, CacheSweepFails
<1> QED
  BY <1>1, <1>2, <1>3, <1>4 DEF ServiceNext, allVars, Next

\* The service is a SessionService, so all that is proved of one holds of it.
THEOREM ServiceIsSessions == ServiceSpec => Spec
<1>1. ServiceInit => Init
  BY DEF ServiceInit
<1> QED
  BY <1>1, ServiceStep, PTL DEF ServiceSpec, Spec

\* The counter of rounds stays below the rounds between two sweeps of the cache.
LEMMA CountTyped ==
  ASSUME rounds \in 0..(Every - 1), due \in BOOLEAN, Count
  PROVE  rounds' \in 0..(Every - 1) /\ due' \in BOOLEAN
<1>1. Every \in Nat \ {0}
  BY CacheAssumption DEF CacheAssumption
<1>2. (rounds + 1) % Every \in 0..(Every - 1)
  BY <1>1
<1> QED
  BY <1>2 DEF Count, taskVars

\* Sessions, locks, calls, cache and counters keep their types, and a lock is
\* held by the call that runs with it, whoever is cancelled (service.py:131-136).
THEOREM ServiceTyped == ServiceSpec => []ServiceTypeOK
<1> DEFINE Counters == rounds \in 0..(Every - 1) /\ due \in BOOLEAN
<1>1. ServiceInit => Counters
  <2>1. 0 \in 0..(Every - 1)
    BY CacheAssumption DEF CacheAssumption
  <2> QED
    BY <2>1 DEF ServiceInit
<1>2. ASSUME Counters, [ServiceNext]_allVars PROVE Counters'
  <2>1. CASE Round \/ RoundGoesOn
    BY <1>2, <2>1, CountTyped DEF Round, RoundGoesOn
  <2>2. CASE UNCHANGED taskVars
    BY <1>2, <2>2 DEF taskVars
  <2>3. CASE CacheSwept \/ CacheSweepFails
    BY <1>2, <2>3 DEF CacheSwept, CacheSweepFails
  <2> QED
    BY <1>2, <2>1, <2>2, <2>3 DEF ServiceNext, CallStep, StorePage, StoreSearch, RoundFails, Second, allVars
<1>3. LockInv /\ CacheTypeOK /\ Counters => ServiceTypeOK
  BY DEF LockInv, ServiceTypeOK
<1> QED
  BY <1>1, <1>2, <1>3, CacheTyped, ServiceIsSessions, LocksRight, PTL DEF ServiceSpec

-----------------------------------------------------------------------------
(* A sweep of the cache                                                    *)

\* How many pages of a set go before a page.
Rank(V, k) == Cardinality({j \in V : Before(j, k)})

\* Pages go in a total order: the oldest first, then by key.
LEMMA BeforeOrders ==
  ASSUME CacheTypeOK
  PROVE  /\ \A k \in DOMAIN rows : ~ Before(k, k)
         /\ \A i, j, k \in DOMAIN rows : Before(i, j) /\ Before(j, k) => Before(i, k)
         /\ \A j, k \in DOMAIN rows : j # k => Before(j, k) \/ Before(k, j)
<1>1. \A k \in DOMAIN rows : k \in Nat /\ rows[k].age \in Nat
  <2>1. TAKE k \in DOMAIN rows
  <2>2. rows[k].age \in 0..(PageTTL + 1) /\ k \in Keys /\ PageTTL \in Nat
    BY CacheAssumption DEF CacheTypeOK, CacheAssumption
  <2> QED
    BY <2>2, CacheAssumption DEF CacheAssumption
<1> QED
  BY <1>1 DEF Before

\* The rank of a page is the number of some other pages.
LEMMA RankBounded ==
  ASSUME CacheTypeOK, NEW V \in SUBSET DOMAIN rows, IsFiniteSet(V), NEW k \in V
  PROVE  Cardinality(V) \in Nat /\ Rank(V, k) \in 0..(Cardinality(V) - 1)
<1> DEFINE B == {j \in V : Before(j, k)}
<1>1. B \subseteq V \ {k}
  BY BeforeOrders
<1>2. /\ IsFiniteSet(V \ {k}) /\ Cardinality(V \ {k}) = Cardinality(V) - 1
      /\ Cardinality(V) \in Nat
  BY FS_RemoveElement, FS_CardinalityType
<1> HIDE DEF B
<1>3. /\ IsFiniteSet(B) /\ Cardinality(B) <= Cardinality(V) - 1
  BY <1>1, <1>2, FS_Subset
<1>4. Cardinality(B) \in Nat
  BY <1>3, FS_CardinalityType
<1>5. Rank(V, k) = Cardinality(B)
  BY DEF Rank, B
<1> QED
  BY <1>2, <1>3, <1>4, <1>5

\* A page has a higher rank than those that go before it.
LEMMA RankGrows ==
  ASSUME CacheTypeOK, NEW V \in SUBSET DOMAIN rows, IsFiniteSet(V), NEW j \in V, NEW k \in V, Before(j, k)
  PROVE  Rank(V, j) < Rank(V, k)
<1> DEFINE A == {i \in V : Before(i, j)}
           B == {i \in V : Before(i, k)}
<1>1. A \subseteq B \ {j} /\ j \in B /\ B \subseteq V
  BY BeforeOrders
<1> HIDE DEF A, B
<1>2. IsFiniteSet(B) /\ IsFiniteSet(B \ {j}) /\ Cardinality(B \ {j}) = Cardinality(B) - 1
  BY <1>1, FS_Subset, FS_RemoveElement
<1>3. IsFiniteSet(A) /\ Cardinality(A) <= Cardinality(B) - 1
  BY <1>1, <1>2, FS_Subset
<1>4. Cardinality(A) \in Nat /\ Cardinality(B) \in Nat
  BY <1>2, <1>3, FS_CardinalityType
<1>5. Rank(V, j) = Cardinality(A) /\ Rank(V, k) = Cardinality(B)
  BY DEF Rank, A, B
<1> QED
  BY <1>3, <1>4, <1>5

\* The ranks of n pages are the numbers below n, so as many pages have a rank
\* of at least e as there are numbers from e up to n.
LEMMA RankedCount ==
  ASSUME CacheTypeOK, NEW V \in SUBSET DOMAIN rows, IsFiniteSet(V), NEW e \in 0..Cardinality(V)
  PROVE  Cardinality({k \in V : Rank(V, k) >= e}) = Cardinality(V) - e
<1> DEFINE n == Cardinality(V)
           kept == {k \in V : Rank(V, k) >= e}
           r == [k \in V |-> Rank(V, k)]
           f == [k \in kept |-> Rank(V, k)]
<1>1. n \in Nat /\ e \in Nat /\ e <= n
  BY FS_CardinalityType
<1>2. \A k \in V : Rank(V, k) \in 0..(n - 1)
  BY RankBounded
<1>3. \A j, k \in V : Rank(V, j) = Rank(V, k) => j = k
  <2>1. SUFFICES ASSUME NEW j \in V, NEW k \in V, Rank(V, j) = Rank(V, k), j # k PROVE FALSE
    OBVIOUS
  <2>2. Before(j, k) \/ Before(k, j)
    BY <2>1, BeforeOrders
  <2>3. Rank(V, j) < Rank(V, k) \/ Rank(V, k) < Rank(V, j)
    BY <2>2, RankGrows
  <2>4. Rank(V, j) \in Nat /\ Rank(V, k) \in Nat
    BY <1>2
  <2> QED
    BY <2>1, <2>3, <2>4
<1> HIDE DEF n
<1>4. r \in Injection(V, 0..(n - 1))
  BY <1>2, <1>3 DEF Injection, IsInjective
<1>5. IsFiniteSet(0..(n - 1)) /\ Cardinality(0..(n - 1)) = n
  <2>1. n - 1 \in Int /\ 0 \in Int
    BY <1>1
  <2>2. /\ IsFiniteSet(0..(n - 1))
        /\ Cardinality(0..(n - 1)) = IF 0 > n - 1 THEN 0 ELSE n - 1 - 0 + 1
    BY <2>1, FS_Interval
  <2> QED
    BY <1>1, <2>2
<1>6. r \in Surjection(V, 0..(n - 1))
  <2> HIDE DEF r
  <2> QED
    BY <1>4, <1>5, FS_Injection DEF n
<1>7. \A m \in 0..(n - 1) : \E k \in V : Rank(V, k) = m
  BY <1>6 DEF Surjection
<1>8. f \in Bijection(kept, e..(n - 1))
  <2>1. \A k \in kept : Rank(V, k) \in e..(n - 1)
    BY <1>1, <1>2
  <2>2. \A m \in e..(n - 1) : \E k \in kept : Rank(V, k) = m
    <3>1. TAKE m \in e..(n - 1)
    <3>2. m \in 0..(n - 1) /\ m >= e
      BY <1>1
    <3>3. PICK k \in V : Rank(V, k) = m
      BY <1>7, <3>2
    <3> QED
      BY <3>2, <3>3
  <2>3. kept \subseteq V
    OBVIOUS
  <2> HIDE DEF kept
  <2> QED
    BY <1>3, <2>1, <2>2, <2>3 DEF Bijection, Injection, Surjection, IsInjective
<1>9. IsFiniteSet(kept)
  <2>1. kept \in SUBSET V
    OBVIOUS
  <2> HIDE DEF kept
  <2> QED
    BY <2>1, FS_Subset
<1>10. Cardinality(e..(n - 1)) = Cardinality(kept)
  <2> HIDE DEF kept, f
  <2>1. ExistsBijection(kept, e..(n - 1))
    BY <1>8 DEF ExistsBijection
  <2> QED
    BY <1>9, <2>1, FS_Bijection
<1>11. Cardinality(e..(n - 1)) = n - e
  <2>1. n - 1 \in Int /\ e \in Int
    BY <1>1
  <2>2. Cardinality(e..(n - 1)) = IF e > n - 1 THEN 0 ELSE n - 1 - e + 1
    BY <2>1, FS_Interval
  <2> QED
    BY <1>1, <2>2
<1> QED
  BY <1>10, <1>11 DEF n

\* Finitely many pages are stored.
LEMMA RowsFinite ==
  ASSUME CacheTypeOK, IsFiniteSet(DOMAIN rows), [ServiceNext]_allVars
  PROVE  IsFiniteSet(DOMAIN rows)'
<1>1. ASSUME NEW p \in Pages, NEW age \in 0..MaxDelay, PutPage(p, age) PROVE IsFiniteSet(DOMAIN rows')
  <2>1. DOMAIN rows' = (DOMAIN rows \cup {p.url}) \cup {p.final}
    BY <1>1 DEF PutPage, Aliases
  <2>2. IsFiniteSet(DOMAIN rows \cup {p.url})
    BY FS_AddElement
  <2>3. IsFiniteSet((DOMAIN rows \cup {p.url}) \cup {p.final})
    BY <2>2, FS_AddElement
  <2> QED
    BY <2>1, <2>3
<1>2. CASE SweepCache
  BY <1>2, SweepEffect, FS_Subset
<1>3. CASE CacheTick
  BY <1>3, TickEffect
<1>4. ASSUME NEW q \in Queries, PutSearch(q) PROVE IsFiniteSet(DOMAIN rows')
  BY <1>4 DEF PutSearch
<1>5. CASE UNCHANGED cacheVars
  BY <1>5 DEF cacheVars
<1> QED
  BY <1>1, <1>2, <1>3, <1>4, <1>5, CacheStep DEF allVars

\* What a sweep leaves.
LEMMA SweepCounts ==
  ASSUME CacheTypeOK, IsFiniteSet(DOMAIN rows), SweepCache
  PROVE  /\ Cardinality(DOMAIN rows') <= MaxPages
         /\ \A k \in DOMAIN rows \ DOMAIN rows' : Served(k) =>
              /\ Cardinality(DOMAIN rows') = MaxPages
              /\ \A j \in DOMAIN rows' : rows[j].age <= rows[k].age
<1> DEFINE valid == {k \in DOMAIN rows : ~ Expired(k)}
           excess == Cardinality(valid) - MaxPages
           kept == {k \in valid : Rank(valid, k) >= excess}
<1>1. DOMAIN rows' = kept
  BY DEF SweepCache, Restrict, Rank
<1>2. MaxPages \in Nat /\ PageTTL \in Nat
  BY CacheAssumption DEF CacheAssumption
<1>3. valid \in SUBSET DOMAIN rows
  OBVIOUS
<1>4. \A k \in DOMAIN rows : Served(k) => k \in valid
  <2>1. \A k \in DOMAIN rows : rows[k].age \in Nat
    BY <1>2 DEF CacheTypeOK
  <2> QED
    BY <1>2, <2>1 DEF Served, Expired
<1> HIDE DEF valid
<1>5. IsFiniteSet(valid) /\ Cardinality(valid) \in Nat
  BY <1>3, FS_Subset, FS_CardinalityType
<1>6. \A k \in valid : Rank(valid, k) \in Nat
  BY <1>3, <1>5, RankBounded
<1>7. CASE excess <= 0
  <2>1. kept = valid
    BY <1>2, <1>5, <1>6, <1>7
  <2> QED
    BY <1>1, <1>2, <1>4, <1>5, <1>7, <2>1
<1>8. CASE excess > 0
  <2>1. excess \in 0..Cardinality(valid) /\ Cardinality(valid) - excess = MaxPages
    BY <1>2, <1>5, <1>8
  <2>2. Cardinality(kept) = MaxPages
    <3> HIDE DEF excess
    <3> QED
      BY <1>3, <1>5, <2>1, RankedCount
  <2>3. ASSUME NEW k \in DOMAIN rows \ kept, Served(k), NEW j \in kept
        PROVE  rows[j].age <= rows[k].age
    <3>1. k \in valid /\ j \in valid /\ Rank(valid, k) < excess /\ Rank(valid, j) >= excess
      BY <1>2, <1>4, <1>5, <1>6, <2>3
    <3>2. ~ (Rank(valid, j) < Rank(valid, k))
      BY <1>2, <1>5, <1>6, <3>1
    <3>3. ~ Before(j, k)
      BY <1>3, <1>5, <3>1, <3>2, RankGrows
    <3>4. rows[j].age \in Nat /\ rows[k].age \in Nat
      BY <1>2, <1>3, <3>1 DEF CacheTypeOK
    <3> QED
      BY <3>3, <3>4 DEF Before
  <2>4. MaxPages <= MaxPages
    BY <1>2
  <2> HIDE DEF kept
  <2> QED
    BY <1>1, <2>2, <2>3, <2>4
<1> QED
  BY <1>2, <1>5, <1>7, <1>8

\* A sweep leaves at most MaxPages pages, and gives up one that is still served
\* only when the limit is reached by pages that are not older (cache.py:190-204).
THEOREM SweepsExact == ServiceSpec => SweepExact
<1> DEFINE Exact == CacheSwept =>
       /\ Cardinality(DOMAIN rows') <= MaxPages
       /\ \A k \in DOMAIN rows \ DOMAIN rows' : Served(k) =>
            /\ Cardinality(DOMAIN rows') = MaxPages
            /\ \A j \in DOMAIN rows' : rows[j].age <= rows[k].age
<1>1. ServiceInit => IsFiniteSet(DOMAIN rows)
  <2>1. IsFiniteSet({})
    BY FS_EmptySet
  <2> QED
    BY <2>1 DEF ServiceInit, CacheInit
<1>2. CacheTypeOK /\ IsFiniteSet(DOMAIN rows) /\ [ServiceNext]_allVars => IsFiniteSet(DOMAIN rows)'
  BY RowsFinite
<1>3. CacheTypeOK /\ IsFiniteSet(DOMAIN rows) => Exact
  BY SweepCounts DEF CacheSwept
<1> QED
  BY <1>1, <1>2, <1>3, CacheTyped, PTL DEF ServiceSpec, SweepExact
=============================================================================
