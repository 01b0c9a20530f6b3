--------------------------- MODULE SessionService ---------------------------
(***************************************************************************)
(* Concurrent calls, the per-session locks and the maintenance task:       *)
(* Browsr.call and Browsr._sweep_sessions of browsr/service.py with the   *)
(* SessionStore of browsr/session.py.                                      *)
(*                                                                         *)
(* Everything runs on one event loop, so what happens between two awaits   *)
(* is one action.  A call looks up its session and its lock, waits for the *)
(* lock, runs, and refreshes the session as it ends.  The maintenance task *)
(* removes all expired sessions at once and then, session by session, pops *)
(* the lock and waits for the browser context to be dropped; calls arrive  *)
(* and end during those waits.                                             *)
(***************************************************************************)
EXTENDS Naturals, Sequences, FiniteSets, SequencesExt

CONSTANTS
  Calls,  \* concurrent callers; each may call again after it returned
  Sids,   \* session ids
  Locks,  \* asyncio.Lock objects
  TTL,    \* session.ttl_s, in ticks of the clock
  Nobody, \* no owner
  NoLock, \* no registered lock
  NoSid   \* the maintenance task is dropping no context

ASSUME ServiceAssumption ==
  /\ IsFiniteSet(Calls) /\ IsFiniteSet(Sids) /\ IsFiniteSet(Locks)
  /\ Cardinality(Locks) >= Cardinality(Calls) + Cardinality(Sids)
  /\ TTL \in Nat \ {0}
  /\ Nobody \notin Calls /\ NoLock \notin Locks /\ NoSid \notin Sids

VARIABLES
  store,     \* SessionStore._sessions: ids that have a session
  idle,      \* time since last_access of the session of an id, up to TTL
  lockOf,    \* _session_locks: id -> lock
  owner,     \* lock -> the call that holds it
  waiters,   \* lock -> calls queued for it, first in first out
  pc,        \* call -> where it is
  sidOf,     \* call -> the session id it was made with
  lock,      \* call -> the lock object it looked up
  mine,      \* call -> its Session object is still the one in the store
  expired,   \* maintenance: ids swept but not yet cleaned up
  dropping,  \* maintenance: the id whose context is being dropped
  arrived    \* history: id -> its unfinished calls in order of arrival

callVars == <<pc, sidOf, lock, mine, arrived>>
lockVars == <<lockOf, owner, waiters>>
vars == <<store, idle, lockVars, callVars, expired, dropping>>

Init ==
  /\ store = {}
  /\ idle = [s \in Sids |-> 0]
  /\ lockOf = [s \in Sids |-> NoLock]
  /\ owner = [l \in Locks |-> Nobody]
  /\ waiters = [l \in Locks |-> <<>>]
  /\ pc = [c \in Calls |-> "outside"]
  /\ sidOf = [c \in Calls |-> NoSid]
  /\ lock = [c \in Calls |-> NoLock]
  /\ mine = [c \in Calls |-> FALSE]
  /\ expired = {}
  /\ dropping = NoSid
  /\ arrived = [s \in Sids |-> <<>>]

-----------------------------------------------------------------------------
(* A call                                                                  *)

\* A call leaves a queue, wherever in it it is.
Without(queue, c) == RemoveAt(queue, CHOOSE i \in DOMAIN queue : queue[i] = c)

Fresh(l) ==
  /\ \A s \in Sids : lockOf[s] # l
  /\ owner[l] = Nobody
  /\ waiters[l] = <<>>

\* Mutant: the lock is not shared, each call creates its own.
LockForEachCall(s) == CHOOSE l \in Locks : Fresh(l)

\* setdefault: the registered lock, or a new one that gets registered.
LockFor(s) == IF lockOf[s] # NoLock THEN lockOf[s] ELSE CHOOSE l \in Locks : Fresh(l)

\* sessions.get, setdefault and an uncontended acquire do not suspend.
Arrive(c, s) ==
  LET l == LockFor(s)
      free == owner[l] = Nobody /\ waiters[l] = <<>>
  IN  /\ pc[c] = "outside"
      /\ store' = store \cup {s}
      /\ idle' = [idle EXCEPT ![s] = 0]
      /\ lockOf' = [lockOf EXCEPT ![s] = l]
      /\ sidOf' = [sidOf EXCEPT ![c] = s]
      /\ lock' = [lock EXCEPT ![c] = l]
      /\ mine' = [mine EXCEPT ![c] = TRUE]
      /\ arrived' = [arrived EXCEPT ![s] = Append(@, c)]
      /\ IF free
         THEN /\ pc' = [pc EXCEPT ![c] = "running"]
              /\ owner' = [owner EXCEPT ![l] = c]
              /\ UNCHANGED waiters
         ELSE /\ pc' = [pc EXCEPT ![c] = "waiting"]
              /\ waiters' = [waiters EXCEPT ![l] = Append(@, c)]
              /\ UNCHANGED owner
      /\ UNCHANGED <<expired, dropping>>

\* release has woken this waiter: it is the first in the queue of a free lock.
Woken(c) == pc[c] = "waiting" /\ owner[lock[c]] = Nobody /\ Head(waiters[lock[c]]) = c

Wake(c) ==
  LET l == lock[c]
  IN  /\ Woken(c)
      /\ owner' = [owner EXCEPT ![l] = c]
      /\ waiters' = [waiters EXCEPT ![l] = Tail(@)]
      /\ pc' = [pc EXCEPT ![c] = "running"]
      /\ UNCHANGED <<store, idle, lockOf, sidOf, lock, mine, arrived, expired, dropping>>

\* last_access is refreshed on the Session object the call holds, which may no
\* longer be the one in the store.
Leave(c) ==
  LET s == sidOf[c]
  IN  /\ idle' = IF mine[c] THEN [idle EXCEPT ![s] = 0] ELSE idle
      /\ pc' = [pc EXCEPT ![c] = "outside"]
      /\ sidOf' = [sidOf EXCEPT ![c] = NoSid]
      /\ lock' = [lock EXCEPT ![c] = NoLock]
      /\ mine' = [mine EXCEPT ![c] = FALSE]
      /\ arrived' = [arrived EXCEPT ![s] = Without(@, c)]
      /\ UNCHANGED <<store, lockOf, expired, dropping>>

\* Mutant: the lock is not released.
FinishHoldingLock(c) ==
  /\ pc[c] = "running"
  /\ UNCHANGED <<owner, waiters>>
  /\ Leave(c)

\* The handler returns, raises or is cancelled: the lock is released first.
Finish(c) ==
  /\ pc[c] = "running"
  /\ owner' = [owner EXCEPT ![lock[c]] = Nobody]
  /\ UNCHANGED waiters
  /\ Leave(c)

\* Mutant: a call that is cancelled while it waits releases the lock too.
CancelReleasing(c) ==
  /\ pc[c] = "waiting"
  /\ waiters' = [waiters EXCEPT ![lock[c]] = Without(@, c)]
  /\ owner' = [owner EXCEPT ![lock[c]] = Nobody]
  /\ Leave(c)

\* The caller goes away while the call waits for the lock.
CancelWaiting(c) ==
  /\ pc[c] = "waiting"
  /\ waiters' = [waiters EXCEPT ![lock[c]] = Without(@, c)]
  /\ UNCHANGED owner
  /\ Leave(c)

-----------------------------------------------------------------------------
(* The maintenance task                                                    *)

\* Mutant: every session with a lock counts as busy.
RegisteredIsBusy == {s \in Sids : lockOf[s] # NoLock}

Busy == {s \in Sids : lockOf[s] # NoLock /\ owner[lockOf[s]] # Nobody}

\* The loop pops the lock of the next id and starts dropping its contexts.
DropNext(pending) ==
  IF pending = {}
  THEN /\ expired' = {}
       /\ dropping' = NoSid
       /\ UNCHANGED lockOf
  ELSE \E s \in pending :
         /\ expired' = pending \ {s}
         /\ dropping' = s
         /\ lockOf' = [lockOf EXCEPT ![s] = NoLock]

\* Mutant: busy sessions are not refreshed.
SweepBusyToo ==
  LET old == {s \in store : idle[s] >= TTL}
  IN  /\ dropping = NoSid
      /\ store' = store \ old
      /\ idle' = [s \in Sids |-> IF s \in old THEN 0 ELSE idle[s]]
      /\ mine' = [c \in Calls |-> mine[c] /\ sidOf[c] \notin old]
      /\ DropNext(old)
      /\ UNCHANGED <<owner, waiters, pc, sidOf, lock, arrived>>

\* Busy sessions are refreshed, then every expired session is removed.
Sweep ==
  LET refreshed == [s \in Sids |-> IF s \in Busy THEN 0 ELSE idle[s]]
      old == {s \in store \cup Busy : refreshed[s] >= TTL}
  IN  /\ dropping = NoSid
      /\ idle' = [s \in Sids |-> IF s \in old THEN 0 ELSE refreshed[s]]
      /\ store' = (store \cup Busy) \ old
      /\ mine' = [c \in Calls |-> mine[c] /\ sidOf[c] \notin old]
      /\ DropNext(old)
      /\ UNCHANGED <<owner, waiters, pc, sidOf, lock, arrived>>

DropReturns ==
  /\ dropping # NoSid
  /\ DropNext(expired)
  /\ UNCHANGED <<store, idle, owner, waiters, callVars>>

\* Closing a context raises: the rest of this round is abandoned.
DropFails ==
  /\ dropping # NoSid
  /\ DropNext({})
  /\ UNCHANGED <<store, idle, owner, waiters, callVars>>

\* A woken waiter runs before the loop lets a tick pass.
Tick ==
  /\ \A c \in Calls : ~ Woken(c)
  /\ \E s \in store : idle[s] < TTL
  /\ idle' = [s \in Sids |-> IF s \in store /\ idle[s] < TTL THEN idle[s] + 1 ELSE idle[s]]
  /\ UNCHANGED <<store, lockVars, callVars, expired, dropping>>

-----------------------------------------------------------------------------

Next ==
  \/ \E c \in Calls : \/ \E s \in Sids : Arrive(c, s)
                      \/ Wake(c) \/ Finish(c) \/ CancelWaiting(c)
  \/ Sweep \/ DropReturns \/ DropFails \/ Tick

Spec == Init /\ [][Next]_vars

\* Handlers end (every fetch has a timeout), the loop resumes what is ready,
\* a context that is being dropped is eventually dropped or fails to, and the
\* clock and the 60 s timer go on.  Arrivals and cancellations are not fair.
Fairness ==
  /\ \A c \in Calls : WF_vars(Wake(c)) /\ WF_vars(Finish(c))
  /\ WF_vars(DropReturns \/ DropFails)
  /\ WF_vars(Sweep)
  /\ WF_vars(Tick)

FairSpec == Spec /\ Fairness

-----------------------------------------------------------------------------

Unfinished(c) == pc[c] # "outside"

\* Who is in a queue, and that nobody is in it twice.
In(queue, c) == \E i \in DOMAIN queue : queue[i] = c
NoRepeat(queue) == \A i, j \in DOMAIN queue : queue[i] = queue[j] => i = j

\* The locks and the calls agree on who holds and who awaits what: a lock is
\* held by just the call that runs with it (service.py:131-136).
LocksHeld ==
  /\ \A c \in Calls : Unfinished(c) => sidOf[c] \in Sids /\ lock[c] \in Locks
  /\ \A c \in Calls : pc[c] = "running" => owner[lock[c]] = c
  /\ \A l \in Locks : owner[l] # Nobody => pc[owner[l]] = "running" /\ lock[owner[l]] = l
  /\ \A l \in Locks : NoRepeat(waiters[l])
  /\ \A l \in Locks, c \in Calls : In(waiters[l], c) <=> pc[c] = "waiting" /\ lock[c] = l

TypeOK ==
  /\ store \subseteq Sids
  /\ idle \in [Sids -> 0..TTL]
  /\ lockOf \in [Sids -> Locks \cup {NoLock}]
  /\ owner \in [Locks -> Calls \cup {Nobody}]
  /\ waiters \in [Locks -> Seq(Calls)]
  /\ pc \in [Calls -> {"outside", "waiting", "running"}]
  /\ sidOf \in [Calls -> Sids \cup {NoSid}]
  /\ lock \in [Calls -> Locks \cup {NoLock}]
  /\ mine \in [Calls -> BOOLEAN]
  /\ expired \subseteq Sids
  /\ dropping \in Sids \cup {NoSid}
  /\ arrived \in [Sids -> Seq(Calls)]

\* docs/IMPLEMENTATION.md:12: the calls of a session keep their order.  A call
\* runs only when every call that arrived before it in its session has ended;
\* so two calls of a session never run at the same time.
InOrder == \A c \in Calls : pc[c] = "running" => Head(arrived[sidOf[c]]) = c

\* docs/IMPLEMENTATION.md:12: maintenance does not expire a session that is
\* being used.  Until a call ends, the Session object with the numbers it
\* works on stays the one that later calls will find (service.py:102-112).
SessionKept == \A c \in Calls : Unfinished(c) => mine[c] /\ sidOf[c] \in store

\* Every call gets the lock and ends, whatever other callers and the
\* maintenance task do (service.py:132).
CallsReturn == \A c \in Calls : Unfinished(c) ~> ~ Unfinished(c)

\* A session nobody calls any more is eventually removed: what the task
\* refreshes, and a round that fails, do not keep it (service.py:90-112).
IdleSessionsExpire ==
  \A s \in Sids :
    (s \in store /\ arrived[s] = <<>>) ~> (s \notin store \/ arrived[s] # <<>>)
=============================================================================
