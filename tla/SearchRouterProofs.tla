------------------------- MODULE SearchRouterProofs -------------------------
(***************************************************************************)
(* Two requests to a backend start at least its interval apart, for every  *)
(* number of searches, every sequence of backends and all lengths of time. *)
(*                                                                         *)
(* The argument is a queue in time: the sleepers of a backend, the request *)
(* that was sent last and the next free slot are pairwise an interval      *)
(* apart.  A cancelled search only leaves a hole in the queue.             *)
(*                                                                         *)
(* And a backend that was put to rest is asked only by those who were in   *)
(* its queue by then.                                                      *)
(***************************************************************************)
EXTENDS SearchRouter, NaturalsInduction, WellFoundedInduction, FiniteSetTheorems, TLAPS

\* A search that is not idle has a backend.
PlaceOK == \A q \in Searches : pc[q] # "idle" => at[q] \in DOMAIN Backends

Sleeps(q, b) == pc[q] = "sleeping" /\ Backends[at[q]] = b

\* From the last request of b to each turn that was given and to the next slot,
\* and from one turn to another, it is at least the interval of b.
Queue(b) ==
  /\ gap[b] + slot[b] >= Interval[b]
  /\ \A q \in Searches : Sleeps(q, b) =>
       gap[b] + wait[q] >= Interval[b] /\ slot[b] >= wait[q] + Interval[b]
  /\ \A q, s \in Searches : q # s /\ Sleeps(q, b) /\ Sleeps(s, b) =>
       wait[q] >= wait[s] + Interval[b] \/ wait[s] >= wait[q] + Interval[b]

Maps ==
  /\ slot = [b \in Names |-> slot[b]] /\ gap = [b \in Names |-> gap[b]]

Inv == TypeOK /\ Maps /\ PlaceOK /\ \A b \in Names : Queue(b)

-----------------------------------------------------------------------------
(* Constants and the extremes of small sets                                *)

\* What is assumed of the configuration.
LEMMA Constants ==
  /\ \A i \in DOMAIN Backends : Backends[i] \in Names
  /\ DOMAIN Backends = 1..Len(Backends) /\ Len(Backends) \in Nat
  /\ \A b \in Names : Interval[b] \in Nat /\ Interval[b] > 0
  /\ MaxWait \in Nat /\ Cooldown \in Nat /\ Threshold \in Nat /\ Threshold > 0
BY RouterAssumption DEF Names

\* The least of the naturals of a set that is not empty.
LEMMA LeastExists ==
  ASSUME NEW S, S \subseteq Nat, S # {}
  PROVE  Min(S) \in S
<1> DEFINE R == {pair \in Nat \X Nat : pair[1] < pair[2]}
<1>0. IsWellFoundedOn(R, Nat)
  BY NatLessThanWellFounded DEF OpToRel
<1>1. \E x \in S : \A y \in S : ~ (<<y, x>> \in R)
  <2> HIDE DEF R
  <2> QED
    BY <1>0, WFMin
<1>2. \E x \in S : \A y \in S : x <= y
  <2>1. PICK x \in S : \A y \in S : ~ (<<y, x>> \in R)
    BY <1>1
  <2>2. ASSUME NEW y \in S PROVE x <= y
    <3>1. x \in Nat /\ y \in Nat
      OBVIOUS
    <3>2. ~ (<<y, x>> \in R)
      BY <2>1
    <3>3. ~ (y < x)
      BY <3>1, <3>2
    <3> QED
      BY <3>1, <3>3
  <2> QED
    BY <2>2
<1> QED
  BY <1>2 DEF Min

\* A time that goes down stops at zero.
LEMMA MaxOfTwo ==
  ASSUME NEW n \in Nat
  PROVE  Max({0, n - 1}) = IF n = 0 THEN 0 ELSE n - 1
<1>1. \E m \in {0, n - 1} : \A x \in {0, n - 1} : m >= x
  OBVIOUS
<1> QED
  BY <1>1 DEF Max

\* The least of two numbers.
LEMMA MinOfTwo ==
  ASSUME NEW n \in Nat, NEW m \in Nat
  PROVE  Min({n, m}) = IF n <= m THEN n ELSE m
<1>1. \E k \in {n, m} : \A x \in {n, m} : k <= x
  OBVIOUS
<1> QED
  BY <1>1 DEF Min

-----------------------------------------------------------------------------
(* One search moves on                                                     *)

\* The times of Return, Approach and GoOn.
TimesOK(q) ==
  /\ pc' \in [Searches -> {"idle", "sleeping", "asking"}]
  /\ at' \in [Searches -> 0..Len(Backends)]
  /\ wait' \in [Searches -> 0..MaxWait]
  /\ \A b \in Names : slot'[b] \in 0..(MaxWait + Interval[b]) /\ gap'[b] \in 0..Interval[b]
  /\ Maps' /\ PlaceOK' /\ \A b \in Names : Queue(b)'
  /\ \A s \in Searches : Asks(s) => gap[Backends[at'[s]]] = Interval[Backends[at'[s]]]

\* A search that ends leaves the queues as they are.
LEMMA ReturnKept ==
  ASSUME NEW q \in Searches, Inv, Return(q)
  PROVE  TimesOK(q)
<1> USE DEF Inv, TypeOK
<1>1. /\ pc' = [pc EXCEPT ![q] = "idle"] /\ at' = [at EXCEPT ![q] = 0]
      /\ wait' = wait /\ slot' = slot /\ gap' = gap
  BY DEF Return
<1>2. PlaceOK' /\ Maps'
  BY <1>1 DEF PlaceOK, Maps
<1>3. \A b \in Names, s \in Searches : Sleeps(s, b)' => Sleeps(s, b)
  BY <1>1 DEF Sleeps
<1>4. \A b \in Names : Queue(b)'
  BY <1>1, <1>3 DEF Queue
<1>5. \A s \in Searches : ~ Asks(s)
  BY <1>1 DEF Asks
<1>6. at' \in [Searches -> 0..Len(Backends)]
  BY <1>1, Constants
<1> QED
  BY <1>1, <1>2, <1>4, <1>5, <1>6 DEF TimesOK

\* A turn is given behind all others; without a wait it is due now, and then
\* nobody sleeps for this backend.
LEMMA ApproachKept ==
  ASSUME NEW q \in Searches, Inv, NEW i \in DOMAIN Backends, slot[Backends[i]] <= MaxWait,
         ~ Sleeps(q, Backends[i]), Approach(q, i)
  PROVE  TimesOK(q)
<1> DEFINE b == Backends[i]
<1> USE DEF Inv, TypeOK
<1>1. /\ at' = [at EXCEPT ![q] = i] /\ wait' = [wait EXCEPT ![q] = slot[b]]
      /\ pc' = [pc EXCEPT ![q] = IF slot[b] = 0 THEN "asking" ELSE "sleeping"]
      /\ gap' = IF slot[b] = 0 THEN [gap EXCEPT ![b] = 0] ELSE gap
      /\ slot' = [slot EXCEPT ![b] = slot[b] + Interval[b]]
  BY DEF Approach, Reserve
<1>2. /\ b \in Names /\ slot[b] \in Nat /\ gap[b] \in Nat /\ gap[b] <= Interval[b]
      /\ Interval[b] \in Nat /\ Interval[b] > 0 /\ i \in 1..Len(Backends)
  BY Constants
<1>3. /\ pc' \in [Searches -> {"idle", "sleeping", "asking"}]
      /\ at' \in [Searches -> 0..Len(Backends)]
      /\ wait' \in [Searches -> 0..MaxWait]
  BY <1>1, <1>2, Constants, SMTT(30)
<1>4. Maps' /\ PlaceOK'
  BY <1>1, <1>2 DEF Maps, PlaceOK
<1>5. \A c \in Names : /\ slot'[c] = IF c = b THEN slot[b] + Interval[b] ELSE slot[c]
                       /\ gap'[c] = IF c = b /\ slot[b] = 0 THEN 0 ELSE gap[c]
  BY <1>1, <1>2 DEF Maps
<1>6. \A c \in Names : slot'[c] \in 0..(MaxWait + Interval[c]) /\ gap'[c] \in 0..Interval[c]
  <2>1. TAKE c \in Names
  <2>2. slot[c] \in 0..(MaxWait + Interval[c]) /\ gap[c] \in 0..Interval[c] /\ Interval[c] \in Nat
    BY Constants
  <2>3. CASE c = b
    <3>1. slot'[c] = slot[b] + Interval[b] /\ (gap'[c] = 0 \/ gap'[c] = gap[b])
      BY <1>5, <2>3
    <3>2. MaxWait \in Nat /\ slot[b] <= MaxWait
      BY Constants
    <3>3. slot'[c] \in 0..(MaxWait + Interval[c])
      BY <1>2, <2>3, <3>1, <3>2
    <3>4. gap'[c] \in 0..Interval[c]
      BY <1>2, <2>3, <3>1
    <3> QED
      BY <3>3, <3>4
  <2>4. CASE c # b
    BY <1>5, <2>2, <2>4
  <2> QED
    BY <2>3, <2>4
<1>7. \A s \in Searches : s # q => wait'[s] = wait[s] /\ pc'[s] = pc[s] /\ at'[s] = at[s]
  BY <1>1
<1>8. pc'[q] = "sleeping" => slot[b] > 0
  BY <1>1, <1>2
<1>9. wait'[q] = slot[b] /\ at'[q] = i
  BY <1>1
<1>10. ASSUME NEW c \in Names
       PROVE  Queue(c)'
  <2>1. /\ slot[c] \in Nat /\ gap[c] \in Nat /\ Interval[c] \in Nat /\ Interval[c] > 0
        /\ \A s \in Searches : wait[s] \in Nat
    BY Constants
  <2>2. Queue(c)
    OBVIOUS
  <2>3. CASE c # b
    <3>1. slot'[c] = slot[c] /\ gap'[c] = gap[c]
      BY <1>5, <2>3
    <3>2. \A s \in Searches : Sleeps(s, c)' => s # q /\ Sleeps(s, c) /\ wait'[s] = wait[s]
      BY <1>7, <1>9, <2>3 DEF Sleeps
    <3> QED
      BY <2>2, <3>1, <3>2 DEF Queue
  <2>4. CASE c = b
    <3>1. \A s \in Searches : s # q /\ Sleeps(s, b)' => Sleeps(s, b) /\ wait'[s] = wait[s]
      BY <1>7 DEF Sleeps
    <3>2. \A s \in Searches : Sleeps(s, b) => slot[b] >= wait[s] + Interval[b] /\ gap[b] + wait[s] >= Interval[b]
      BY <2>2, <2>4 DEF Queue
    <3>3. gap[b] + slot[b] >= Interval[b]
      BY <2>2, <2>4 DEF Queue
    <3>4. Sleeps(q, b)' => slot[b] > 0
      BY <1>8 DEF Sleeps
    <3>5. slot'[b] = slot[b] + Interval[b] /\ gap'[b] = IF slot[b] = 0 THEN 0 ELSE gap[b]
      BY <1>2, <1>5
    <3>6. gap'[b] + slot'[b] >= Interval[b]
      BY <1>2, <3>5
    <3>7. \A s \in Searches : Sleeps(s, b)' =>
            gap'[b] + wait'[s] >= Interval[b] /\ slot'[b] >= wait'[s] + Interval[b]
      <4>1. TAKE s \in Searches
      <4>2. HAVE Sleeps(s, b)'
      <4>3. CASE s = q
        BY <1>2, <1>9, <3>3, <3>4, <3>5, <4>2, <4>3
      <4>4. CASE s # q
        <5>1. wait'[s] = wait[s] /\ slot[b] >= wait[s] + Interval[b] /\ gap[b] + wait[s] >= Interval[b]
          BY <3>1, <3>2, <4>2, <4>4
        <5>2. slot[b] > 0 /\ wait[s] \in Nat
          BY <1>2, <2>1, <5>1, SMTT(30)
        <5> QED
          BY <1>2, <3>5, <5>1, <5>2, SMTT(30)
      <4> QED
        BY <4>3, <4>4
    <3>8. \A r, s \in Searches : r # s /\ Sleeps(r, b)' /\ Sleeps(s, b)' =>
            wait'[r] >= wait'[s] + Interval[b] \/ wait'[s] >= wait'[r] + Interval[b]
      <4>1. TAKE r, s \in Searches
      <4>2. HAVE r # s /\ Sleeps(r, b)' /\ Sleeps(s, b)'
      <4>3. CASE q \in {r, s}
        BY <1>9, <3>1, <3>2, <4>2, <4>3
      <4>4. CASE q \notin {r, s}
        BY <2>2, <2>4, <3>1, <4>2, <4>4 DEF Queue
      <4> QED
        BY <4>3, <4>4
    <3> QED
      BY <2>4, <3>6, <3>7, <3>8 DEF Queue
  <2> QED
    BY <2>3, <2>4
<1>11. ASSUME NEW s \in Searches, Asks(s)
       PROVE  gap[Backends[at'[s]]] = Interval[Backends[at'[s]]]
  <2>1. s = q
    BY <1>7, <1>11 DEF Asks
  <2>2. slot[b] = 0
    BY <1>1, <1>11, <2>1 DEF Asks
  <2>3. gap[b] + slot[b] >= Interval[b]
    BY <1>2 DEF Queue
  <2> QED
    BY <1>2, <1>9, <2>1, <2>2, <2>3
<1> QED
  BY <1>3, <1>4, <1>6, <1>10, <1>11 DEF TimesOK

\* The for loop: the next backend that can be used, or the end.
LEMMA GoOnKept ==
  ASSUME NEW q \in Searches, Inv, NEW first \in Nat, GoOn(q, first), pc[q] # "sleeping"
  PROVE  TimesOK(q)
<1>1. CASE UsableFrom(first) = {}
  BY <1>1, ReturnKept DEF GoOn
<1>2. CASE UsableFrom(first) # {}
  <2>1. UsableFrom(first) \subseteq Nat
    BY Constants DEF UsableFrom
  <2>2. Min(UsableFrom(first)) \in UsableFrom(first)
    BY <1>2, <2>1, LeastExists
  <2>3. PICK i \in DOMAIN Backends : i = Min(UsableFrom(first)) /\ slot[Backends[i]] <= MaxWait
    BY <2>2 DEF UsableFrom, Usable
  <2>4. Approach(q, i)
    BY <1>2, <2>3 DEF GoOn, Approach, Reserve
  <2>5. ~ Sleeps(q, Backends[i])
    BY DEF Sleeps
  <2> QED
    BY <2>3, <2>4, <2>5, ApproachKept
<1> QED
  BY <1>1, <1>2

-----------------------------------------------------------------------------
(* The actions                                                             *)

\* The breaker counts below its threshold and rests for at most its cooldown.
LEMMA BreakerTyped ==
  ASSUME Inv, NEW b \in Names, Success(b) \/ Trip(b) \/ Fail(b)
  PROVE  fails' \in [Names -> 0..(Threshold - 1)] /\ rest' \in [Names -> 0..Cooldown]
<1>1. CASE Fail(b) /\ ~ Trip(b)
  <2>1. /\ fails[b] + 1 < Threshold /\ fails[b] \in Nat /\ rest' = rest
        /\ fails' = [fails EXCEPT ![b] = fails[b] + 1]
    BY <1>1, Constants DEF Fail, Inv, TypeOK
  <2>2. fails[b] + 1 \in 0..(Threshold - 1)
    BY <2>1, Constants
  <2> QED
    BY <2>1, <2>2 DEF Inv, TypeOK
<1>2. CASE Success(b)
  BY <1>2, Constants DEF Success, Inv, TypeOK
<1>3. CASE Trip(b)
  BY <1>3, Constants DEF Trip, Inv, TypeOK
<1> QED
  BY <1>1, <1>2, <1>3

\* What a step does to the times is TimesOK, whatever the breaker says.
StepOK(q) ==
  /\ TimesOK(q)
  /\ answered' \in [Searches -> BOOLEAN]
  /\ fails' \in [Names -> 0..(Threshold - 1)] /\ rest' \in [Names -> 0..Cooldown]

\* StepOK gives back the invariant and spaces the requests.
LEMMA StepKept ==
  ASSUME NEW q \in Searches, StepOK(q)
  PROVE  Inv' /\ \A s \in Searches : Asks(s) => gap[Backends[at'[s]]] = Interval[Backends[at'[s]]]
BY DEF StepOK, TimesOK, Inv, TypeOK

\* An answer ends the search or leads to the next backend.
LEMMA AnswerKept ==
  ASSUME NEW q \in Searches, Inv, Answer(q)
  PROVE  StepOK(q)
<1>1. pc[q] = "asking" /\ at[q] \in DOMAIN Backends /\ at[q] + 1 \in Nat /\ Backends[at[q]] \in Names
  BY Constants DEF Answer, Results, NoResults, Blocked, Fails, Inv, PlaceOK
<1>2. Success(Backends[at[q]]) \/ Trip(Backends[at[q]]) \/ Fail(Backends[at[q]])
  BY DEF Answer, Results, NoResults, Blocked, Fails
<1>3. fails' \in [Names -> 0..(Threshold - 1)] /\ rest' \in [Names -> 0..Cooldown]
  BY <1>1, <1>2, BreakerTyped
<1>4. answered' \in [Searches -> BOOLEAN]
  BY DEF Answer, Results, NoResults, Blocked, Fails, Inv, TypeOK
<1>5. PICK next \in Nat : next = at[q] + 1
  BY <1>1
<1>6. Return(q) \/ GoOn(q, next)
  BY <1>5 DEF Answer, Results, NoResults, Blocked, Fails, GoOn, UsableFrom
<1>7. TimesOK(q)
  BY <1>1, <1>6, ReturnKept, GoOnKept
<1> QED
  BY <1>3, <1>4, <1>7 DEF StepOK

\* A search begins, or is cancelled.
LEMMA BeginKept ==
  ASSUME NEW q \in Searches, Inv, Begin(q) \/ Cancel(q)
  PROVE  StepOK(q)
<1>1. CASE Begin(q)
  <2>1. GoOn(q, 1) /\ pc[q] # "sleeping" /\ 1 \in Nat
    BY <1>1 DEF Begin
  <2> QED
    BY <1>1, <2>1, GoOnKept DEF StepOK, Begin, Inv, TypeOK
<1>2. CASE Cancel(q)
  BY <1>2, ReturnKept DEF StepOK, Cancel, Inv, TypeOK
<1> QED
  BY <1>1, <1>2

\* A sleeper whose turn has come: by the queue the last request is an interval ago.
LEMMA WakeKept ==
  ASSUME NEW q \in Searches, Inv, Wake(q)
  PROVE  StepOK(q)
<1> USE DEF Inv, TypeOK
<1>0. PICK b \in Names : b = Backends[at[q]]
  BY Constants DEF Wake, PlaceOK
<1>1. /\ pc[q] = "sleeping" /\ wait[q] = 0 /\ pc' = [pc EXCEPT ![q] = "asking"]
      /\ gap' = [gap EXCEPT ![b] = 0] /\ UNCHANGED <<at, wait, answered, fails, rest, slot>>
  BY <1>0 DEF Wake
<1>2. b \in Names /\ Interval[b] \in Nat /\ gap[b] \in 0..Interval[b] /\ slot[b] \in Nat
  BY <1>1, Constants DEF PlaceOK
<1>3. Sleeps(q, b) /\ Queue(b)
  BY <1>0, <1>1, <1>2 DEF Sleeps
<1>4. gap[b] = Interval[b] /\ slot[b] >= Interval[b]
  BY <1>1, <1>2, <1>3 DEF Queue
<1>5. \A c \in Names : gap'[c] = IF c = b THEN 0 ELSE gap[c]
  BY <1>1, <1>2 DEF Maps
<1>6. \A c \in Names : slot'[c] \in 0..(MaxWait + Interval[c]) /\ gap'[c] \in 0..Interval[c]
  BY <1>1, <1>2, <1>5, Constants, SMTT(30)
<1>7. \A c \in Names, s \in Searches : Sleeps(s, c)' => s # q /\ Sleeps(s, c)
  BY <1>1 DEF Sleeps
<1>8. ASSUME NEW c \in Names
      PROVE  Queue(c)'
  <2>1. CASE c # b
    BY <1>1, <1>5, <1>7, <2>1 DEF Queue
  <2>2. CASE c = b
    <3>1. \A s \in Searches : Sleeps(s, b)' => wait[s] >= Interval[b]
      <4>1. TAKE s \in Searches
      <4>2. HAVE Sleeps(s, b)'
      <4>3. wait[s] >= wait[q] + Interval[b] \/ wait[q] >= wait[s] + Interval[b]
        <5>1. s # q /\ Sleeps(s, b)
          BY <1>2, <1>7, <4>2
        <5> QED
          BY <1>3, <5>1 DEF Queue
      <4>4. wait[s] \in Nat /\ Interval[b] > 0
        BY <1>2, Constants
      <4> QED
        BY <1>1, <1>2, <4>3, <4>4
    <3>2. /\ \A s \in Searches : wait'[s] = wait[s] /\ wait[s] \in Nat
          /\ slot'[b] = slot[b] /\ gap'[b] = 0
      BY <1>1, <1>2, <1>5, Constants
    <3>3. \A s \in Searches : Sleeps(s, b)' => Sleeps(s, b)
      BY <1>2, <1>7
    <3>4. gap'[b] + slot'[b] >= Interval[b]
      BY <1>2, <1>4, <3>2
    <3>5. \A s \in Searches : Sleeps(s, b)' =>
            gap'[b] + wait'[s] >= Interval[b] /\ slot'[b] >= wait'[s] + Interval[b]
      <4>1. \A s \in Searches : Sleeps(s, b) => slot[b] >= wait[s] + Interval[b]
        BY <1>3 DEF Queue
      <4> QED
        BY <1>2, <3>1, <3>2, <3>3, <4>1
    <3>6. \A r, s \in Searches : r # s /\ Sleeps(r, b)' /\ Sleeps(s, b)' =>
            wait'[r] >= wait'[s] + Interval[b] \/ wait'[s] >= wait'[r] + Interval[b]
      BY <1>3, <3>2, <3>3 DEF Queue
    <3> QED
      BY <2>2, <3>4, <3>5, <3>6 DEF Queue
  <2> QED
    BY <2>1, <2>2
<1>9. Maps' /\ PlaceOK'
  BY <1>1 DEF Maps, PlaceOK
<1>10. \A s \in Searches : Asks(s) => gap[Backends[at'[s]]] = Interval[Backends[at'[s]]]
  BY <1>0, <1>1, <1>4 DEF Asks
<1> QED
  BY <1>1, <1>6, <1>8, <1>9, <1>10 DEF StepOK, TimesOK

\* The clock moves only when no sleeper is due, so all sleeps get shorter at once.
LEMMA TickKept ==
  ASSUME Inv, Tick
  PROVE  Inv' /\ \A s \in Searches : ~ Asks(s)
<1> USE DEF Inv, TypeOK
<1>1. UNCHANGED <<pc, at, answered, fails>>
  BY DEF Tick
<1>0. /\ MaxWait \in Nat /\ Cooldown \in Nat
      /\ \A b \in Names : Interval[b] \in Nat /\ Interval[b] > 0
  BY Constants
<1>2. \A q \in Searches : /\ wait[q] \in 0..MaxWait
                          /\ wait'[q] = IF wait[q] = 0 THEN 0 ELSE wait[q] - 1
                          /\ pc[q] = "sleeping" => wait[q] > 0
  <2>1. TAKE q \in Searches
  <2>2. wait[q] \in 0..MaxWait /\ wait[q] \in Nat /\ (pc[q] = "sleeping" => wait[q] > 0)
    BY <1>0 DEF Tick
  <2>3. wait'[q] = Max({0, wait[q] - 1})
    BY DEF Tick
  <2>4. PICK n \in Nat : n = wait[q]
    BY <2>2
  <2>5. Max({0, n - 1}) = IF n = 0 THEN 0 ELSE n - 1
    BY MaxOfTwo
  <2> QED
    BY <2>2, <2>3, <2>4, <2>5
<1>3. \A b \in Names : /\ slot[b] \in Nat /\ slot[b] <= MaxWait + Interval[b]
                       /\ slot'[b] = IF slot[b] = 0 THEN 0 ELSE slot[b] - 1
  <2>1. TAKE b \in Names
  <2>2. slot[b] \in Nat /\ slot[b] <= MaxWait + Interval[b]
    BY <1>0
  <2>3. slot'[b] = Max({0, slot[b] - 1})
    BY DEF Tick
  <2>4. PICK n \in Nat : n = slot[b]
    BY <2>2
  <2>5. Max({0, n - 1}) = IF n = 0 THEN 0 ELSE n - 1
    BY MaxOfTwo
  <2> QED
    BY <2>2, <2>3, <2>4, <2>5
<1>4. \A b \in Names : /\ rest[b] \in 0..Cooldown
                       /\ rest'[b] = IF rest[b] = 0 THEN 0 ELSE rest[b] - 1
  <2>1. TAKE b \in Names
  <2>2. rest[b] \in 0..Cooldown /\ rest[b] \in Nat
    BY <1>0
  <2>3. rest'[b] = Max({0, rest[b] - 1})
    BY DEF Tick
  <2>4. PICK n \in Nat : n = rest[b]
    BY <2>2
  <2>5. Max({0, n - 1}) = IF n = 0 THEN 0 ELSE n - 1
    BY MaxOfTwo
  <2> QED
    BY <2>2, <2>3, <2>4, <2>5
<1>5. \A b \in Names : /\ gap[b] \in 0..Interval[b] /\ Interval[b] \in Nat /\ Interval[b] > 0
                       /\ gap'[b] = IF gap[b] < Interval[b] THEN gap[b] + 1 ELSE Interval[b]
  <2>1. TAKE b \in Names
  <2>2. gap[b] \in 0..Interval[b] /\ Interval[b] \in Nat /\ Interval[b] > 0 /\ gap[b] + 1 \in Nat
    BY Constants
  <2>3. gap'[b] = Min({Interval[b], gap[b] + 1})
    BY DEF Tick
  <2>4. PICK n \in Nat, m \in Nat : n = Interval[b] /\ m = gap[b] + 1
    BY <2>2
  <2>5. Min({n, m}) = IF n <= m THEN n ELSE m
    BY MinOfTwo
  <2> QED
    BY <2>2, <2>3, <2>4, <2>5
<1>6. wait' \in [Searches -> 0..MaxWait]
  <2>1. \A q \in Searches : wait'[q] \in 0..MaxWait
    BY <1>0, <1>2
  <2> QED
    BY <2>1 DEF Tick
<1>7. rest' \in [Names -> 0..Cooldown]
  <2>1. \A b \in Names : rest'[b] \in 0..Cooldown
    BY <1>0, <1>4
  <2> QED
    BY <2>1 DEF Tick
<1>8. \A b \in Names : slot'[b] \in 0..(MaxWait + Interval[b]) /\ gap'[b] \in 0..Interval[b]
  <2>1. TAKE b \in Names
  <2>2. slot'[b] \in 0..(MaxWait + Interval[b])
    <3>1. /\ slot[b] \in Nat /\ slot[b] <= MaxWait + Interval[b] /\ MaxWait \in Nat /\ Interval[b] \in Nat
          /\ slot'[b] = IF slot[b] = 0 THEN 0 ELSE slot[b] - 1
      BY <1>0, <1>3
    <3>2. slot'[b] \in Nat /\ slot'[b] <= MaxWait + Interval[b]
      BY <3>1
    <3> QED
      BY <3>1, <3>2
  <2>3. gap'[b] \in 0..Interval[b]
    <3>1. /\ gap[b] \in Nat /\ gap[b] <= Interval[b] /\ Interval[b] \in Nat
          /\ gap'[b] = IF gap[b] < Interval[b] THEN gap[b] + 1 ELSE Interval[b]
      BY <1>5
    <3>2. gap'[b] \in Nat /\ gap'[b] <= Interval[b]
      BY <3>1
    <3> QED
      BY <3>1, <3>2
  <2> QED
    BY <2>2, <2>3
<1>9. Maps' /\ PlaceOK'
  BY <1>1 DEF Tick, Maps, PlaceOK
<1>10. \A b \in Names, q \in Searches : Sleeps(q, b)' <=> Sleeps(q, b)
  BY <1>1 DEF Sleeps
<1>11. ASSUME NEW b \in Names
       PROVE  Queue(b)'
  <2>1. Queue(b)
    OBVIOUS
  <2>2. gap'[b] + slot'[b] >= Interval[b]
    <3>1. gap[b] + slot[b] >= Interval[b]
      BY <2>1 DEF Queue
    <3> QED
      BY <1>3, <1>5, <3>1
  <2>3. \A q \in Searches : Sleeps(q, b) =>
          gap'[b] + wait'[q] >= Interval[b] /\ slot'[b] >= wait'[q] + Interval[b]
    <3>1. TAKE q \in Searches
    <3>2. HAVE Sleeps(q, b)
    <3>3. gap[b] + wait[q] >= Interval[b] /\ slot[b] >= wait[q] + Interval[b]
      BY <2>1, <3>2 DEF Queue
    <3>4. wait[q] > 0
      BY <1>2, <3>2 DEF Sleeps
    <3> QED
      <4>1. wait[q] \in Nat /\ wait'[q] = wait[q] - 1
        BY <1>0, <1>2, <3>4
      <4>2. slot[b] \in Nat /\ (slot[b] > 0 => slot'[b] = slot[b] - 1)
        BY <1>3
      <4>3. /\ gap[b] \in Nat /\ gap[b] <= Interval[b] /\ Interval[b] \in Nat /\ Interval[b] > 0
            /\ gap'[b] = IF gap[b] < Interval[b] THEN gap[b] + 1 ELSE Interval[b]
        BY <1>5
      <4>4. slot'[b] = slot[b] - 1
        BY <3>3, <3>4, <4>2, <4>3
      <4>5. slot'[b] >= wait'[q] + Interval[b]
        BY <3>3, <4>1, <4>2, <4>3, <4>4, SMTT(30)
      <4>6. gap'[b] + wait'[q] >= Interval[b]
        <5>1. CASE gap[b] < Interval[b]
          BY <3>3, <4>1, <4>3, <5>1
        <5>2. CASE ~ (gap[b] < Interval[b])
          BY <3>4, <4>1, <4>3, <5>2
        <5> QED
          BY <5>1, <5>2
      <4> QED
        BY <4>5, <4>6
  <2>4. \A q, s \in Searches : q # s /\ Sleeps(q, b) /\ Sleeps(s, b) =>
          wait'[q] >= wait'[s] + Interval[b] \/ wait'[s] >= wait'[q] + Interval[b]
    <3>1. TAKE q, s \in Searches
    <3>2. HAVE q # s /\ Sleeps(q, b) /\ Sleeps(s, b)
    <3>3. wait[q] >= wait[s] + Interval[b] \/ wait[s] >= wait[q] + Interval[b]
      BY <2>1, <3>2 DEF Queue
    <3>4. wait[q] > 0 /\ wait[s] > 0
      BY <1>2, <3>2 DEF Sleeps
    <3> QED
      <4>1. wait[q] \in Nat /\ wait'[q] = wait[q] - 1 /\ wait[s] \in Nat /\ wait'[s] = wait[s] - 1
        BY <1>0, <1>2, <3>4
      <4> QED
        BY <1>0, <3>3, <4>1, SMTT(30)
  <2> QED
    BY <1>10, <2>2, <2>3, <2>4 DEF Queue
<1>12. \A s \in Searches : ~ Asks(s)
  BY <1>1 DEF Asks
<1> QED
  BY <1>1, <1>6, <1>7, <1>8, <1>9, <1>11, <1>12

-----------------------------------------------------------------------------

\* Nothing has been asked yet, and every slot is free.
LEMMA InvInit == Init => Inv
<1> SUFFICES ASSUME Init PROVE Inv
  OBVIOUS
<1>1. TypeOK
  BY Constants DEF Init, TypeOK
<1>2. \A b \in Names : Queue(b)
  <2>1. TAKE b \in Names
  <2>2. gap[b] = Interval[b] /\ slot[b] = 0 /\ \A q \in Searches : ~ Sleeps(q, b)
    BY DEF Init, Sleeps
  <2> QED
    BY <2>2, Constants DEF Queue
<1>3. Maps
  <2>1. gap = [b \in Names |-> gap[b]]
    BY RouterAssumption DEF Init
  <2> QED
    BY <2>1 DEF Init, Maps
<1> QED
  BY <1>1, <1>2, <1>3 DEF Init, Inv, PlaceOK

\* Every step keeps the queues, and a request is sent only at its turn.
LEMMA InvStep ==
  ASSUME Inv, [Next]_vars
  PROVE  Inv' /\ \A s \in Searches : Asks(s) => gap[Backends[at'[s]]] = Interval[Backends[at'[s]]]
<1>1. CASE \E q \in Searches : Begin(q) \/ Wake(q) \/ Answer(q) \/ Cancel(q)
  BY <1>1, BeginKept, WakeKept, AnswerKept, StepKept
<1>2. CASE Tick
  BY <1>2, TickKept
<1>3. CASE UNCHANGED vars
  <2> USE <1>3 DEF vars
  <2>1. TypeOK' /\ Maps' /\ PlaceOK'
    BY DEF Inv, TypeOK, Maps, PlaceOK
  <2>2. \A b \in Names : Queue(b)'
    BY DEF Inv, Queue, Sleeps
  <2>3. \A s \in Searches : ~ Asks(s)
    BY DEF Asks
  <2> QED
    BY <2>1, <2>2, <2>3 DEF Inv
<1> QED
  BY <1>1, <1>2, <1>3 DEF Next

\* The queues of all backends are in order in every reachable state
\* (ratelimit.py:14-24, router.py:62-97).
THEOREM RouterCorrect == Spec => []Inv
BY InvInit, InvStep, PTL DEF Spec

\* Type correctness of the router, with the bounds of breaker and limiter
\* (breaker.py:18-33, ratelimit.py:14-24).
THEOREM RouterTyped == Spec => []TypeOK
<1>1. Inv => TypeOK
  BY DEF Inv
<1> QED
  BY <1>1, RouterCorrect, PTL

\* Two requests to a backend start at least its interval apart (ratelimit.py:14-24).
THEOREM RouterSpacesRequests == Spec => RequestsSpaced
<1>1. Inv /\ [Next]_vars =>
        [\A q \in Searches : Asks(q) => gap[Backends[at'[q]]] = Interval[Backends[at'[q]]]]_vars
  BY InvStep
<1> QED
  BY <1>1, RouterCorrect, PTL DEF Spec, RequestsSpaced

-----------------------------------------------------------------------------
(* A backend that was put to rest while searches sleep for it              *)

\* A search does not ask the breaker again after its sleep (router.py:69-73),
\* so a backend that rests may be asked; but only by searches that had their
\* turn when it was put to rest, and so within MaxWait of that: the rest that
\* docs/SPEC.md:129 promises is disturbed at its beginning only.
RestsRespected ==
  [][\A q \in Searches : Asks(q) =>
       LET b == Backends[at'[q]] IN rest[b] = 0 \/ rest[b] >= Cooldown - MaxWait]_vars

\* Who sleeps for a backend that rests wakes within MaxWait of its trip.
Disturbs(q, b) == Sleeps(q, b) /\ rest[b] > 0

SleptBefore ==
  \A q \in Searches, b \in Names : Disturbs(q, b) => (Cooldown - rest[b]) + wait[q] <= MaxWait

\* A search that moves on sleeps only for a backend that is available.
LEMMA MoveFresh ==
  ASSUME Inv, NEW q \in Searches, NEW first \in Nat, GoOn(q, first) \/ Return(q)
  PROVE  /\ \A s \in Searches : s # q => pc'[s] = pc[s] /\ at'[s] = at[s] /\ wait'[s] = wait[s]
         /\ pc'[q] # "idle" => at'[q] \in DOMAIN Backends /\ at'[q] >= first /\ rest[Backends[at'[q]]] = 0
<1> USE DEF Inv, TypeOK
<1>1. CASE Return(q)
  BY <1>1 DEF Return
<1>2. CASE GoOn(q, first) /\ UsableFrom(first) # {}
  <2>1. UsableFrom(first) \subseteq Nat
    BY Constants DEF UsableFrom
  <2>2. Min(UsableFrom(first)) \in UsableFrom(first)
    BY <1>2, <2>1, LeastExists
  <2>3. PICK i \in DOMAIN Backends : /\ i = Min(UsableFrom(first)) /\ i >= first
                                     /\ rest[Backends[i]] = 0
    BY <2>2 DEF UsableFrom, Usable
  <2>4. Approach(q, i)
    BY <1>2, <2>3 DEF GoOn, Approach, Reserve
  <2>5. /\ at' = [at EXCEPT ![q] = i] /\ wait' = [wait EXCEPT ![q] = slot[Backends[i]]]
        /\ pc' = [pc EXCEPT ![q] = IF slot[Backends[i]] = 0 THEN "asking" ELSE "sleeping"]
    BY <2>4 DEF Approach
  <2>6. i \in 0..Len(Backends)
    BY Constants
  <2> QED
    BY <2>3, <2>5, <2>6
<1>3. CASE GoOn(q, first) /\ UsableFrom(first) = {}
  BY <1>3, <1>1 DEF GoOn, Return
<1> QED
  BY <1>1, <1>2, <1>3

\* Different positions hold different backends.
LEMMA NamesDiffer ==
  ASSUME NEW i \in DOMAIN Backends, NEW j \in DOMAIN Backends, i < j
  PROVE  Backends[i] # Backends[j]
<1>1. /\ Backends \in Surjection(1..Len(Backends), Names)
      /\ DOMAIN Backends = 1..Len(Backends) /\ Len(Backends) \in Nat
  <2>1. DOMAIN Backends = 1..Len(Backends) /\ Len(Backends) \in Nat
    BY Constants
  <2>2. Backends \in [1..Len(Backends) -> Names]
    BY <2>1, RouterAssumption
  <2>3. \A b \in Names : \E k \in 1..Len(Backends) : Backends[k] = b
    BY <2>1 DEF Names
  <2> QED
    BY <2>1, <2>2, <2>3 DEF Surjection
<1>2. IsFiniteSet(1..Len(Backends)) /\ Cardinality(1..Len(Backends)) = Len(Backends)
  <2>1. PICK n \in Nat : n = Len(Backends)
    BY <1>1
  <2>2. IsFiniteSet(1..n) /\ Cardinality(1..n) = IF 1 > n THEN 0 ELSE n - 1 + 1
    BY FS_Interval
  <2>3. IsFiniteSet(1..n) /\ Cardinality(1..n) = n
    BY <2>2
  <2> QED
    BY <2>1, <2>3
<1>3. Cardinality(Names) = Len(Backends)
  BY RouterAssumption
<1>4. Backends \in Injection(1..Len(Backends), Names)
  BY <1>1, <1>2, <1>3, FS_SurjSameCardinalityImpliesInj
<1> QED
  BY <1>1, <1>4 DEF Injection, IsInjective

\* The rest of a backend starts anew or is left.
RestOrTrip == \A b \in Names : rest'[b] = rest[b] \/ rest'[b] = Cooldown

\* Other searches sleep as before; a rest that starts now is behind their wait.
LEMMA OthersFresh ==
  ASSUME Inv, Inv', SleptBefore, RestOrTrip, NEW q \in Searches,
         \A s \in Searches : s # q => pc'[s] = pc[s] /\ at'[s] = at[s] /\ wait'[s] = wait[s],
         \A b \in Names : ~ Disturbs(q, b)'
  PROVE  SleptBefore'
<1> SUFFICES ASSUME NEW s \in Searches, NEW b \in Names, Disturbs(s, b)'
             PROVE  (Cooldown - rest'[b]) + wait'[s] <= MaxWait
  BY DEF SleptBefore
<1>1. s # q /\ Sleeps(s, b) /\ wait'[s] = wait[s]
  BY DEF Disturbs, Sleeps
<1>2. wait[s] \in 0..MaxWait /\ MaxWait \in Nat /\ Cooldown \in Nat
  BY Constants DEF Inv, TypeOK
<1>3. CASE rest'[b] = Cooldown
  BY <1>1, <1>2, <1>3
<1>4. CASE rest'[b] = rest[b]
  <2>1. Disturbs(s, b)
    BY <1>1, <1>4 DEF Disturbs
  <2> QED
    BY <1>1, <1>4, <2>1 DEF SleptBefore
<1> QED
  BY <1>3, <1>4 DEF RestOrTrip

\* The requests of a step disturb a rest only at its beginning.
AsksEarly ==
  \A q \in Searches : Asks(q) =>
    LET b == Backends[at'[q]] IN rest[b] = 0 \/ rest[b] >= Cooldown - MaxWait

\* A search begins, is answered or is cancelled: the backend it turns to is
\* available, and another one than the one put to rest.
LEMMA MoveKeepsFresh ==
  ASSUME Inv, Inv', SleptBefore, NEW q \in Searches, Begin(q) \/ Answer(q) \/ Cancel(q)
  PROVE  SleptBefore' /\ AsksEarly
<1>1. PICK first \in Nat : /\ GoOn(q, first) \/ Return(q)
                           /\ \/ rest' = rest
                              \/ /\ pc[q] = "asking" /\ first = at[q] + 1
                                 /\ rest' = [rest EXCEPT ![Backends[at[q]]] = Cooldown]
  <2>1. CASE Begin(q) \/ Cancel(q)
    BY <2>1 DEF Begin, Cancel
  <2>2. CASE Answer(q)
    <3>1. pc[q] = "asking" /\ at[q] \in DOMAIN Backends /\ at[q] + 1 \in Nat
      BY <2>2, Constants DEF Answer, Results, NoResults, Blocked, Fails, Inv, PlaceOK
    <3>2. PICK next \in Nat : next = at[q] + 1
      BY <3>1
    <3>3. GoOn(q, next) \/ Return(q)
      BY <2>2, <3>2 DEF Answer, Results, NoResults, Blocked, Fails, GoOn, UsableFrom
    <3>4. rest' = rest \/ rest' = [rest EXCEPT ![Backends[at[q]]] = Cooldown]
      BY <2>2 DEF Answer, Results, NoResults, Blocked, Fails, Success, Trip, Fail
    <3> QED
      BY <3>1, <3>2, <3>3, <3>4
  <2> QED
    BY <2>1, <2>2
<1>2. /\ \A s \in Searches : s # q => pc'[s] = pc[s] /\ at'[s] = at[s] /\ wait'[s] = wait[s]
      /\ pc'[q] # "idle" => at'[q] \in DOMAIN Backends /\ at'[q] >= first /\ rest[Backends[at'[q]]] = 0
  BY <1>1, MoveFresh
<1>3. pc'[q] # "idle" => rest'[Backends[at'[q]]] = 0
  <2>1. SUFFICES ASSUME pc'[q] # "idle" PROVE rest'[Backends[at'[q]]] = 0
    OBVIOUS
  <2>2. CASE rest' = rest
    BY <1>2, <2>1, <2>2
  <2>3. CASE pc[q] = "asking" /\ first = at[q] + 1 /\ rest' = [rest EXCEPT ![Backends[at[q]]] = Cooldown]
    <3>1. at[q] \in DOMAIN Backends /\ at'[q] \in DOMAIN Backends /\ at[q] < at'[q]
      BY <1>2, <2>1, <2>3, Constants DEF Inv, PlaceOK
    <3>2. Backends[at[q]] # Backends[at'[q]]
      BY <3>1, NamesDiffer
    <3>3. Backends[at'[q]] \in Names
      BY <3>1, Constants
    <3> QED
      BY <1>2, <2>1, <2>3, <3>2, <3>3 DEF Inv, TypeOK
  <2> QED
    BY <1>1, <2>2, <2>3
<1>4. RestOrTrip
  BY <1>1 DEF RestOrTrip, Inv, TypeOK
<1>5. \A b \in Names : ~ Disturbs(q, b)'
  BY <1>3 DEF Disturbs, Sleeps
<1>6. SleptBefore'
  BY <1>2, <1>4, <1>5, OthersFresh
<1>7. AsksEarly
  <2>1. ASSUME NEW s \in Searches, Asks(s) PROVE rest[Backends[at'[s]]] = 0
    <3>1. s = q
      BY <1>2, <2>1 DEF Asks
    <3> QED
      BY <1>2, <2>1, <3>1 DEF Asks
  <2> QED
    BY <2>1 DEF AsksEarly
<1> QED
  BY <1>6, <1>7

\* A sleeper wakes without a look at the breaker.
LEMMA WakeKeepsFresh ==
  ASSUME Inv, Inv', SleptBefore, NEW q \in Searches, Wake(q)
  PROVE  SleptBefore' /\ AsksEarly
<1> USE DEF Inv, TypeOK
<1>1. /\ pc[q] = "sleeping" /\ wait[q] = 0 /\ pc' = [pc EXCEPT ![q] = "asking"]
      /\ at' = at /\ wait' = wait /\ rest' = rest
  BY DEF Wake
<1>2. PICK b \in Names : b = Backends[at[q]]
  BY <1>1, Constants DEF PlaceOK
<1>3. RestOrTrip /\ \A c \in Names : ~ Disturbs(q, c)'
  BY <1>1 DEF RestOrTrip, Disturbs, Sleeps
<1>4. SleptBefore'
  BY <1>1, <1>3, OthersFresh
<1>5. rest[b] = 0 \/ rest[b] >= Cooldown - MaxWait
  <2>1. rest[b] \in 0..Cooldown /\ MaxWait \in Nat /\ Cooldown \in Nat
    BY Constants
  <2>2. CASE rest[b] > 0
    <3>1. Disturbs(q, b)
      BY <1>1, <1>2, <2>2 DEF Disturbs, Sleeps
    <3>2. (Cooldown - rest[b]) + wait[q] <= MaxWait
      BY <3>1 DEF SleptBefore
    <3> QED
      BY <1>1, <2>1, <3>2
  <2> QED
    BY <2>1, <2>2
<1>6. \A s \in Searches : Asks(s) => s = q
  BY <1>1 DEF Asks
<1> QED
  BY <1>1, <1>2, <1>4, <1>5, <1>6 DEF AsksEarly

\* The rest and the sleeps get shorter at once.
LEMMA TickKeepsFresh ==
  ASSUME Inv, Inv', SleptBefore, Tick
  PROVE  SleptBefore' /\ AsksEarly
<1>1. pc' = pc /\ at' = at
  BY DEF Tick
<1>2. ASSUME NEW s \in Searches, NEW b \in Names, Disturbs(s, b)'
      PROVE  (Cooldown - rest'[b]) + wait'[s] <= MaxWait
  <2>1. Sleeps(s, b) /\ pc[s] = "sleeping"
    BY <1>1, <1>2 DEF Disturbs, Sleeps
  <2>2. /\ wait[s] \in Nat /\ wait[s] > 0 /\ rest[b] \in Nat
        /\ MaxWait \in Nat /\ Cooldown \in Nat
    BY <2>1, Constants DEF Tick, Inv, TypeOK
  <2>3. PICK n \in Nat, m \in Nat : n = wait[s] /\ m = rest[b]
    BY <2>2
  <2>4. wait'[s] = Max({0, n - 1}) /\ rest'[b] = Max({0, m - 1})
    BY <2>3 DEF Tick
  <2>5. wait'[s] = n - 1 /\ rest'[b] = IF m = 0 THEN 0 ELSE m - 1
    <3>1. /\ Max({0, n - 1}) = IF n = 0 THEN 0 ELSE n - 1
          /\ Max({0, m - 1}) = IF m = 0 THEN 0 ELSE m - 1
      BY MaxOfTwo
    <3> QED
      BY <2>2, <2>3, <2>4, <3>1
  <2>6. m > 0 /\ rest'[b] = m - 1
    BY <1>2, <2>5 DEF Disturbs
  <2>7. (Cooldown - m) + n <= MaxWait
    BY <2>1, <2>3, <2>6 DEF SleptBefore, Disturbs
  <2>8. (Cooldown - (m - 1)) + (n - 1) <= MaxWait
    BY <2>2, <2>7
  <2> QED
    BY <2>5, <2>6, <2>8
<1>3. SleptBefore'
  BY <1>2 DEF SleptBefore
<1>4. \A s \in Searches : ~ Asks(s)
  BY <1>1 DEF Asks
<1> QED
  BY <1>3, <1>4 DEF AsksEarly

\* Every step.
LEMMA FreshStep ==
  ASSUME Inv, SleptBefore, [Next]_vars
  PROVE  SleptBefore' /\ AsksEarly
<1>0. Inv'
  BY InvStep
<1>1. CASE \E q \in Searches : Begin(q) \/ Wake(q) \/ Answer(q) \/ Cancel(q)
  BY <1>0, <1>1, MoveKeepsFresh, WakeKeepsFresh
<1>2. CASE Tick
  BY <1>0, <1>2, TickKeepsFresh
<1>3. CASE UNCHANGED vars
  <2>1. SleptBefore'
    BY <1>3 DEF vars, SleptBefore, Disturbs, Sleeps
  <2>2. \A s \in Searches : ~ Asks(s)
    BY <1>3 DEF vars, Asks
  <2> QED
    BY <2>1, <2>2 DEF AsksEarly
<1> QED
  BY <1>1, <1>2, <1>3 DEF Next

\* A backend that rests is asked only within MaxWait of having been put to rest,
\* by searches that had their turn before (router.py:67-73, breaker.py:18-33).
THEOREM RouterRespectsRests == Spec => RestsRespected
<1>1. Init => SleptBefore
  BY DEF Init, SleptBefore, Disturbs, Sleeps
<1>2. Inv /\ SleptBefore /\ [Next]_vars => SleptBefore'
  BY FreshStep
<1>3. Inv /\ SleptBefore /\ [Next]_vars =>
        [\A q \in Searches : Asks(q) =>
           LET b == Backends[at'[q]] IN rest[b] = 0 \/ rest[b] >= Cooldown - MaxWait]_vars
  BY FreshStep DEF AsksEarly
<1>4. Spec => []SleptBefore
  BY <1>1, <1>2, RouterCorrect, PTL DEF Spec
<1> QED
  BY <1>3, <1>4, RouterCorrect, PTL DEF Spec, RestsRespected
=============================================================================
