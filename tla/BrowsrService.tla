---------------------------- MODULE BrowsrService ----------------------------
(***************************************************************************)
(* Calls, sessions and the cache under one maintenance task: Browsr.call   *)
(* and Browsr._maintain of browsr/service.py.  A round of the task removes *)
(* expired sessions and drops their contexts; every tenth round that does  *)
(* not fail also sweeps the cache, while running calls store pages and     *)
(* search results in it.                                                   *)
(***************************************************************************)
EXTENDS SessionService, PageCache

CONSTANTS
  Every,    \* rounds between two sweeps of the cache
  MaxDelay, \* bound: seconds from the creation of a page to its storing
  NoPage

ASSUME CacheAssumption ==
  /\ Keys \subseteq Nat /\ Pages \subseteq [url : Keys, final : Keys] /\ NoPage \notin Pages
  /\ {PageTTL, SearchTTL, MaxPages, MaxDelay} \subseteq Nat /\ MaxDelay <= PageTTL + 1
  /\ Every \in Nat \ {0}

VARIABLES
  rounds,  \* count, modulo Every
  due      \* the task is waiting for cache.sweep

taskVars == <<rounds, due>>
allVars == <<vars, cacheVars, taskVars>>

ServiceInit == Init /\ CacheInit /\ rounds = 0 /\ due = FALSE

\* The calls of a session, as far as sessions and locks are concerned.
CallStep ==
  /\ \E c \in Calls : (\E s \in Sids : Arrive(c, s)) \/ Wake(c) \/ Finish(c) \/ CancelWaiting(c)
  /\ UNCHANGED <<cacheVars, taskVars>>

\* A load stores its page, also after every call that shared it has left: it
\* is a task of its own (pages.py:54-59).
StorePage ==
  /\ \E p \in Pages, age \in 0..MaxDelay : PutPage(p, age)
  /\ UNCHANGED <<vars, taskVars>>

\* A running call stores what it has found.
StoreSearch ==
  /\ \E c \in Calls : pc[c] = "running"
  /\ \E q \in Queries : PutSearch(q)
  /\ UNCHANGED <<vars, taskVars>>

\* Mutant: rounds are not counted.
CountNever == UNCHANGED taskVars

\* The round is complete when no context is left to be dropped.
Count ==
  IF dropping' # NoSid THEN UNCHANGED taskVars
  ELSE rounds' = (rounds + 1) % Every /\ due' = (rounds' = 0)

Round == ~ due /\ Sweep /\ Count /\ UNCHANGED cacheVars
RoundGoesOn == DropReturns /\ Count /\ UNCHANGED cacheVars

\* An exception ends the round before it is counted.
RoundFails == DropFails /\ UNCHANGED <<cacheVars, taskVars>>

CacheSwept == due /\ due' = FALSE /\ SweepCache /\ UNCHANGED <<vars, rounds>>
CacheSweepFails == due /\ due' = FALSE /\ UNCHANGED <<vars, cacheVars, rounds>>

Second ==
  /\ Tick \/ ((\A c \in Calls : ~ Woken(c)) /\ (\A s \in store : idle[s] = TTL) /\ UNCHANGED vars)
  /\ CacheTick
  /\ UNCHANGED taskVars

ServiceNext ==
  \/ CallStep \/ StorePage \/ StoreSearch
  \/ Round \/ RoundGoesOn \/ RoundFails \/ CacheSwept \/ CacheSweepFails
  \/ Second

ServiceSpec == ServiceInit /\ [][ServiceNext]_allVars

Alone == UNCHANGED <<cacheVars, taskVars>>

\* As Fairness of SessionService; a sweep of the cache ends too.
FairService ==
  /\ ServiceSpec
  /\ \A c \in Calls : WF_allVars(Wake(c) /\ Alone) /\ WF_allVars(Finish(c) /\ Alone)
  /\ WF_allVars(RoundGoesOn \/ RoundFails)
  /\ WF_allVars(Round)
  /\ WF_allVars(CacheSwept \/ CacheSweepFails)
  /\ WF_allVars(Second)

-----------------------------------------------------------------------------

\* The types, and that locks and calls agree.
ServiceTypeOK ==
  /\ TypeOK
  /\ LocksHeld
  /\ CacheTypeOK
  /\ rounds \in 0..(Every - 1)
  /\ due \in BOOLEAN

Store ==
  INSTANCE PageStore WITH
    shown <- [k \in Keys |-> IF Served(k) THEN rows[k].page ELSE NoPage],
    KeysOf <- [p \in Pages |-> {p.url, p.final}]

\* The cache keeps the promise of PageStore: what a get returns for a URL is
\* the page stored last under it, and an expired page stays away, whatever
\* sweeps, ages and stores in between (cache.py:132-204).
StoreImplemented == Store!Spec

\* A sweep leaves at most MaxPages pages, and it removes a page that a get
\* would still return only for a newer one, up to the limit (cache.py:146, 190-204).
SweepExact ==
  [][CacheSwept =>
       /\ Cardinality(DOMAIN rows') <= MaxPages
       /\ \A k \in DOMAIN rows \ DOMAIN rows' : Served(k) =>
            /\ Cardinality(DOMAIN rows') = MaxPages
            /\ \A j \in DOMAIN rows' : rows[j].age <= rows[k].age]_allVars

\* An expired page does not stay in the cache, unless rounds or sweeps go on
\* failing for ever (service.py:90-100).
ExpiredRemoved ==
  \/ \A k \in Keys : (k \in DOMAIN rows /\ ~ Served(k)) ~> (k \notin DOMAIN rows \/ Served(k))
  \/ []<><<RoundFails \/ CacheSweepFails>>_allVars
=============================================================================
