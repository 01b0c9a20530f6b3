---------------------------- MODULE SearchRouter ----------------------------
(***************************************************************************)
(* Searching: SearchRouter.search (browsr/search/router.py) with the       *)
(* circuit breaker (browsr/breaker.py) and the interval limiter            *)
(* (browsr/ratelimit.py).                                                  *)
(*                                                                         *)
(* A search takes the configured backends in order and passes over those   *)
(* that rest and those whose next free slot is too far away.  It reserves  *)
(* a slot of the first one left, sleeps until the slot, and asks.  Between *)
(* two backends nothing is awaited, so one step leads from the answer of a *)
(* backend to the sleep before the next.  Times are kept as the time that  *)
(* is left.                                                                *)
(***************************************************************************)
EXTENDS Integers, FiniteSets, Sequences, FiniteSetsExt

CONSTANTS
  Searches,   \* concurrent callers; each may search again
  Backends,   \* search.backends: a sequence of different names
  Interval,   \* backend -> interval_s
  MaxWait,    \* search.max_wait_s
  Cooldown,   \* Breaker.cooldown_s
  Threshold   \* Breaker.fail_threshold

Names == {Backends[i] : i \in DOMAIN Backends}

ASSUME RouterAssumption ==
  /\ IsFiniteSet(Searches)
  /\ Backends \in Seq(Names) /\ Cardinality(Names) = Len(Backends)
  /\ Interval \in [Names -> Nat \ {0}]
  /\ MaxWait \in Nat /\ Cooldown \in Nat /\ Threshold \in Nat \ {0}

VARIABLES
  pc,       \* search -> where it is
  at,       \* search -> position of the backend it sleeps for or asks
  wait,     \* search -> what is left of its sleep
  answered, \* search -> whether a backend has answered it
  fails,    \* Breaker.fails
  rest,     \* Breaker.open_until: time until the backend is available
  slot,     \* RateLimiter._next: time until the next free slot
  gap       \* history: time since the last request to a backend, up to Interval

vars == <<pc, at, wait, answered, fails, rest, slot, gap>>

Init ==
  /\ pc = [q \in Searches |-> "idle"]
  /\ at = [q \in Searches |-> 0]
  /\ wait = [q \in Searches |-> 0]
  /\ answered = [q \in Searches |-> FALSE]
  /\ fails = [b \in Names |-> 0]
  /\ rest = [b \in Names |-> 0]
  /\ slot = [b \in Names |-> 0]
  /\ gap = Interval

-----------------------------------------------------------------------------

\* Breaker.available and the refusal of RateLimiter.acquire.
Usable(b) == rest[b] = 0 /\ slot[b] <= MaxWait

UsableFrom(first) == {i \in DOMAIN Backends : i >= first /\ Usable(Backends[i])}

\* Mutant: the next slot is counted from now instead of from the last one.
ReserveFromNow(b) == slot' = [slot EXCEPT ![b] = Interval[b]]

\* RateLimiter.acquire: the slot is reserved before the sleep.
Reserve(b) == slot' = [slot EXCEPT ![b] = @ + Interval[b]]

\* The request of a search to a backend starts now or after its sleep.
Approach(q, i) ==
  LET b == Backends[i] IN
  /\ at' = [at EXCEPT ![q] = i]
  /\ wait' = [wait EXCEPT ![q] = slot[b]]
  /\ pc' = [pc EXCEPT ![q] = IF slot[b] = 0 THEN "asking" ELSE "sleeping"]
  /\ gap' = IF slot[b] = 0 THEN [gap EXCEPT ![b] = 0] ELSE gap
  /\ Reserve(b)

\* The end of a search: results, [] or search_unavailable.
Return(q) ==
  /\ pc' = [pc EXCEPT ![q] = "idle"]
  /\ at' = [at EXCEPT ![q] = 0]
  /\ UNCHANGED <<wait, slot, gap>>

\* The for loop from a position on.
GoOn(q, first) ==
  IF UsableFrom(first) = {} THEN Return(q) ELSE Approach(q, Min(UsableFrom(first)))

Begin(q) ==
  /\ pc[q] = "idle"
  /\ answered' = [answered EXCEPT ![q] = FALSE]
  /\ GoOn(q, 1)
  /\ UNCHANGED <<fails, rest>>

Wake(q) ==
  /\ pc[q] = "sleeping" /\ wait[q] = 0
  /\ pc' = [pc EXCEPT ![q] = "asking"]
  /\ gap' = [gap EXCEPT ![Backends[at[q]]] = 0]
  /\ UNCHANGED <<at, wait, answered, fails, rest, slot>>

Success(b) ==
  /\ fails' = [fails EXCEPT ![b] = 0]
  /\ UNCHANGED rest

\* Mutant: the count of failures is left when the breaker opens.
TripKeepingCount(b) ==
  /\ rest' = [rest EXCEPT ![b] = Cooldown]
  /\ fails' = [fails EXCEPT ![b] = @ + 1]

Trip(b) ==
  /\ rest' = [rest EXCEPT ![b] = Cooldown]
  /\ fails' = [fails EXCEPT ![b] = 0]

Fail(b) ==
  \/ fails[b] + 1 >= Threshold /\ Trip(b)
  \/ /\ fails[b] + 1 < Threshold
     /\ fails' = [fails EXCEPT ![b] = @ + 1]
     /\ UNCHANGED rest

Results(q) ==
  /\ pc[q] = "asking"
  /\ Success(Backends[at[q]])
  /\ answered' = [answered EXCEPT ![q] = TRUE]
  /\ Return(q)

\* Mutant: an empty answer makes the search ask again.
AskAgainIfEmpty(q) ==
  /\ pc[q] = "asking"
  /\ Success(Backends[at[q]])
  /\ answered' = [answered EXCEPT ![q] = TRUE]
  /\ GoOn(q, at[q])

\* No result, or none with a usable URL.
NoResults(q) ==
  /\ pc[q] = "asking"
  /\ Success(Backends[at[q]])
  /\ answered' = [answered EXCEPT ![q] = TRUE]
  /\ GoOn(q, at[q] + 1)

Blocked(q) ==
  /\ pc[q] = "asking"
  /\ Trip(Backends[at[q]])
  /\ GoOn(q, at[q] + 1)
  /\ UNCHANGED answered

\* A timeout of wait_for or of the backend, or any other exception.
Fails(q) ==
  /\ pc[q] = "asking"
  /\ Fail(Backends[at[q]])
  /\ GoOn(q, at[q] + 1)
  /\ UNCHANGED answered

\* The client disconnects; a reserved slot stays reserved.
Cancel(q) ==
  /\ pc[q] \in {"sleeping", "asking"}
  /\ Return(q)
  /\ UNCHANGED <<answered, fails, rest>>

\* Timers fire on time.
Tick ==
  /\ \A q \in Searches : ~(pc[q] = "sleeping" /\ wait[q] = 0)
  /\ wait' = [q \in Searches |-> Max({0, wait[q] - 1})]
  /\ rest' = [b \in Names |-> Max({0, rest[b] - 1})]
  /\ slot' = [b \in Names |-> Max({0, slot[b] - 1})]
  /\ gap' = [b \in Names |-> Min({Interval[b], gap[b] + 1})]
  /\ UNCHANGED <<pc, at, answered, fails>>

Answer(q) == Results(q) \/ NoResults(q) \/ Blocked(q) \/ Fails(q)

Next ==
  \/ \E q \in Searches : Begin(q) \/ Wake(q) \/ Answer(q) \/ Cancel(q)
  \/ Tick

Spec == Init /\ [][Next]_vars

\* Time passes, sleepers wake, and wait_for bounds every request.
FairSpec == Spec /\ WF_vars(Tick) /\ \A q \in Searches : WF_vars(Wake(q)) /\ WF_vars(Answer(q))

-----------------------------------------------------------------------------

TypeOK ==
  /\ pc \in [Searches -> {"idle", "sleeping", "asking"}]
  /\ at \in [Searches -> 0..Len(Backends)]
  /\ wait \in [Searches -> 0..MaxWait]
  /\ answered \in [Searches -> BOOLEAN]
  /\ fails \in [Names -> 0..(Threshold - 1)]
  /\ rest \in [Names -> 0..Cooldown]
  /\ \A b \in Names : slot[b] \in 0..(MaxWait + Interval[b]) /\ gap[b] \in 0..Interval[b]

\* A request starts in this step.
Asks(q) == pc'[q] = "asking" /\ (pc[q] # "asking" \/ at'[q] # at[q])

\* Two requests to a backend start at least its interval apart, whatever
\* searches sleep, fail over or are cancelled meanwhile (ratelimit.py:14-24).
RequestsSpaced ==
  [][\A q \in Searches : Asks(q) => gap[Backends[at'[q]]] = Interval[Backends[at'[q]]]]_vars

\* Every search ends: no backend can hold it for ever, and the backends that
\* rest or fail cannot send it round in circles; a backend that rests becomes
\* available again, although late answers to requests sent before it was put to
\* rest may prolong the rest (router.py:67-95, breaker.py:18-33).
SearchesEnd ==
  /\ \A q \in Searches : pc[q] # "idle" ~> pc[q] = "idle"
  /\ \A b \in Names : rest[b] > 0 ~> rest[b] = 0
=============================================================================
