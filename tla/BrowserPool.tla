----------------------------- MODULE BrowserPool -----------------------------
(***************************************************************************)
(* The browser pool: BrowserPool.start, _shutdown, _context, _release,     *)
(* drop_context and the frame of run and fetch (browsr/fetch/browser.py).  *)
(*                                                                         *)
(* A fetch takes one of max_tabs permits, makes sure the browser runs,     *)
(* gets the browser context of its session under a condition variable,     *)
(* works on a page of its own, and releases the context.  At most          *)
(* max_contexts contexts are registered; one that nobody uses may be       *)
(* evicted.  The lock of the condition is held across the awaits that      *)
(* close and create contexts, and what fails or is cancelled there may     *)
(* leave a context open that is not registered.  What a fetch does on its  *)
(* page is the step Finish.  A restart runs between the steps of the other *)
(* fetches.                                                                *)
(***************************************************************************)
EXTENDS Integers, FiniteSets, SequencesExt

CONSTANTS
  Fetches,      \* fetches, each performed once
  Drops,        \* calls of drop_context by the maintenance task
  Arrivals,     \* sets of calls to consider: task -> session id
  SearchSid,    \* the session id of the search backends, "__search__"
  MaxTabs,      \* browser.max_tabs
  MaxContexts,  \* browser.max_contexts
  RestartLimit, \* restarts allowed within 300 s
  MaxCrashes,   \* bound: times the browser disconnects
  Nobody

Tasks == Fetches \cup Drops

ASSUME PoolAssumption ==
  /\ Fetches \cap Drops = {} /\ Nobody \notin Tasks
  /\ IsFiniteSet(Fetches) /\ \A a \in Arrivals : DOMAIN a = Tasks
  /\ MaxTabs \in Nat \ {0} /\ MaxContexts \in Nat \ {0}
  /\ RestartLimit \in Nat /\ MaxCrashes \in Nat

VARIABLES
  sidOf,      \* task -> the session id it was called with
  pc,         \* task -> where it is
  entry,      \* fetch -> the _Context it uses, named after the fetch that made it
  contexts,   \* _contexts: the OrderedDict, least recently used first
  active,     \* _Context -> its active count
  holder,     \* owner of the lock of _context_condition
  starter,    \* owner of _start_lock
  connected,  \* self.connected
  browser,    \* whether _browser is a browser that runs
  restarts,   \* restarts within the last 300 s
  crashes,    \* disconnects so far
  closing,    \* task -> the contexts it has taken out of contexts and closes
  open,       \* contexts that are open in the browser that runs
  leaked      \* history: those of them that a failure or a cancellation left behind

vars == <<sidOf, pc, entry, contexts, active, holder, starter, connected, browser,
          restarts, crashes, closing, open, leaked>>
startVars == <<starter, connected, browser, restarts, crashes>>
openVars == <<closing, open, leaked>>
poolVars == <<sidOf, entry, contexts, active>>

Init ==
  /\ sidOf \in Arrivals
  /\ pc = [t \in Tasks |-> IF t \in Fetches THEN "sem" ELSE "locking"]
  /\ entry = [f \in Fetches |-> Nobody]
  /\ contexts = <<>>
  /\ active = [x \in Fetches |-> 0]
  /\ holder = Nobody
  /\ starter = Nobody
  /\ connected = TRUE
  /\ browser = TRUE
  /\ restarts = 0
  /\ crashes = 0
  /\ closing = [t \in Tasks |-> {}]
  /\ open = {}
  /\ leaked = {}

Goto(t, place) == pc' = [pc EXCEPT ![t] = place]

\* notify_all: every waiter goes on to take the lock of the condition.
GotoAndNotify(t, place) ==
  pc' = [u \in Tasks |-> IF u = t THEN place
                         ELSE IF pc[u] = "waiting" THEN "locking" ELSE pc[u]]

Permits == {f \in Fetches : pc[f] \notin {"sem", "done"}}

ContextsOf(sid) == {i \in DOMAIN contexts : sidOf[contexts[i]] = sid}

IdleContexts == {i \in DOMAIN contexts : active[contexts[i]] = 0}

\* What task t was closing is done with; the contexts in left stay open.
Close(t, left) ==
  /\ open' = (open \ closing[t]) \cup left
  /\ leaked' = (leaked \ closing[t]) \cup left
  /\ closing' = [closing EXCEPT ![t] = {}]

\* close raises or is cancelled: what was open may stay open.
GiveUpClosing(t) == \E left \in SUBSET (open \cap closing[t]) : Close(t, left)

\* With the browser end all its contexts.
BrowserEnds ==
  /\ browser' = FALSE
  /\ open' = {}
  /\ leaked' = {}

-----------------------------------------------------------------------------
(* Permit and browser                                                      *)

Enter(f) ==
  /\ pc[f] = "sem"
  /\ Cardinality(Permits) < MaxTabs
  /\ Goto(f, IF connected THEN "locking" ELSE "starting")
  /\ UNCHANGED <<poolVars, holder, startVars, openVars>>

\* Another task has restarted the browser in the meantime.
StartNotNeeded(f) ==
  /\ pc[f] = "starting" /\ starter = Nobody
  /\ connected
  /\ Goto(f, "locking")
  /\ UNCHANGED <<poolVars, holder, startVars, openVars>>

StartRefused(f) ==
  /\ pc[f] = "starting" /\ starter = Nobody
  /\ ~connected /\ restarts >= RestartLimit
  /\ Goto(f, "done")
  /\ UNCHANGED <<poolVars, holder, startVars, openVars>>

Restart(f) ==
  /\ pc[f] = "starting" /\ starter = Nobody
  /\ ~connected /\ restarts < RestartLimit
  /\ restarts' = restarts + 1
  /\ starter' = f
  /\ Goto(f, "shutdown")
  /\ UNCHANGED <<poolVars, holder, connected, browser, crashes, openVars>>

\* _shutdown forgets all contexts, also those in use, and wakes the waiters.
ClearContexts(f) ==
  /\ \/ pc[f] = "shutdown" /\ GotoAndNotify(f, "stopping")
     \/ pc[f] = "undo" /\ GotoAndNotify(f, "undoing")
  /\ holder = Nobody
  /\ contexts' = <<>>
  /\ closing' = [closing EXCEPT ![f] = ToSet(contexts)]
  /\ UNCHANGED <<sidOf, entry, active, holder, startVars, open, leaked>>

\* The second half of _shutdown closes the contexts and ends a browser that
\* still runs.
Stopped(f) ==
  /\ pc[f] = "stopping"
  /\ BrowserEnds
  /\ closing' = [closing EXCEPT ![f] = {}]
  /\ Goto(f, "launching")
  /\ UNCHANGED <<poolVars, holder, starter, connected, restarts, crashes>>

\* _browser is set while the probe page still has to report the user agent.
Launched(f) ==
  /\ pc[f] = "launching"
  /\ browser' = TRUE
  /\ Goto(f, "probing")
  /\ UNCHANGED <<poolVars, holder, starter, connected, restarts, crashes, openVars>>

Probed(f) ==
  /\ pc[f] = "probing" /\ browser
  /\ connected' = TRUE
  /\ starter' = Nobody
  /\ Goto(f, "locking")
  /\ UNCHANGED <<poolVars, holder, browser, restarts, crashes, openVars>>

LaunchFails(f) ==
  /\ pc[f] \in {"launching", "probing"}
  /\ Goto(f, "undo")
  /\ UNCHANGED <<poolVars, holder, startVars, openVars>>

Undone(f) ==
  /\ pc[f] = "undoing"
  /\ BrowserEnds
  /\ closing' = [closing EXCEPT ![f] = {}]
  /\ starter' = Nobody
  /\ Goto(f, "done")
  /\ UNCHANGED <<poolVars, holder, connected, restarts, crashes>>

\* The browser process ends: the "disconnected" event.
Disconnect ==
  /\ browser /\ crashes < MaxCrashes
  /\ connected' = FALSE
  /\ BrowserEnds
  /\ crashes' = crashes + 1
  /\ UNCHANGED <<pc, poolVars, holder, starter, restarts, closing>>

\* A restart leaves the window of 300 s.
ForgetRestart ==
  /\ restarts > 0
  /\ restarts' = restarts - 1
  /\ UNCHANGED <<pc, poolVars, holder, starter, connected, browser, crashes, openVars>>

-----------------------------------------------------------------------------
(* _context                                                                *)

\* Mutant: a second user is not counted.
ReuseUncounted(f) ==
  /\ pc[f] = "locking" /\ holder = Nobody
  /\ \E i \in ContextsOf(sidOf[f]) :
       /\ entry' = [entry EXCEPT ![f] = contexts[i]]
       /\ contexts' = Append(RemoveAt(contexts, i), contexts[i])
  /\ Goto(f, "using")
  /\ UNCHANGED <<sidOf, active, holder, startVars, openVars>>

Reuse(f) ==
  /\ pc[f] = "locking" /\ holder = Nobody
  /\ \E i \in ContextsOf(sidOf[f]) :
       /\ entry' = [entry EXCEPT ![f] = contexts[i]]
       /\ active' = [active EXCEPT ![contexts[i]] = @ + 1]
       /\ contexts' = Append(RemoveAt(contexts, i), contexts[i])
  /\ Goto(f, "using")
  /\ UNCHANGED <<sidOf, holder, startVars, openVars>>

NeedsContext(f) == pc[f] = "locking" /\ holder = Nobody /\ ContextsOf(sidOf[f]) = {}

\* Mutant: the limit is compared with <=.
StartCreateAtLimit(f) ==
  /\ NeedsContext(f)
  /\ Len(contexts) <= MaxContexts
  /\ holder' = f
  /\ Goto(f, "creating")
  /\ UNCHANGED <<poolVars, startVars, openVars>>

\* Mutant: the lock is given up while the new context is made.
StartCreateUnlocked(f) ==
  /\ NeedsContext(f)
  /\ Len(contexts) < MaxContexts
  /\ Goto(f, "creating")
  /\ UNCHANGED <<poolVars, holder, startVars, openVars>>

StartCreate(f) ==
  /\ NeedsContext(f)
  /\ Len(contexts) < MaxContexts
  /\ holder' = f
  /\ Goto(f, "creating")
  /\ UNCHANGED <<poolVars, startVars, openVars>>

\* Mutant: the evicted context is not closed.
StartEvictUnclosed(f) ==
  /\ NeedsContext(f)
  /\ Len(contexts) >= MaxContexts
  /\ \E i \in IdleContexts :
       /\ \A j \in IdleContexts : i <= j
       /\ contexts' = RemoveAt(contexts, i)
  /\ holder' = f
  /\ Goto(f, "creating")
  /\ UNCHANGED <<sidOf, entry, active, startVars, openVars>>

\* The least recently used context that nobody uses is taken out and closed
\* while the lock is held.
StartEvict(f) ==
  /\ NeedsContext(f)
  /\ Len(contexts) >= MaxContexts
  /\ \E i \in IdleContexts :
       /\ \A j \in IdleContexts : i <= j
       /\ contexts' = RemoveAt(contexts, i)
       /\ closing' = [closing EXCEPT ![f] = {contexts[i]}]
  /\ holder' = f
  /\ Goto(f, "evicting")
  /\ UNCHANGED <<sidOf, entry, active, startVars, open, leaked>>

Evicted(f) ==
  /\ pc[f] = "evicting"
  /\ Close(f, {})
  /\ Goto(f, "creating")
  /\ UNCHANGED <<poolVars, holder, startVars>>

WaitForIdle(f) ==
  /\ NeedsContext(f)
  /\ Len(contexts) >= MaxContexts
  /\ IdleContexts = {}
  /\ Goto(f, "waiting")
  /\ UNCHANGED <<poolVars, holder, startVars, openVars>>

\* new_context needs a browser that runs; the requests of the new context are
\* then routed through the guard.
NewContext(f) ==
  /\ pc[f] = "creating" /\ browser
  /\ open' = open \cup {f}
  /\ Goto(f, "routing")
  /\ UNCHANGED <<poolVars, holder, startVars, closing, leaked>>

Created(f) ==
  /\ pc[f] = "routing" /\ f \in open
  /\ contexts' = Append(contexts, f)
  /\ active' = [active EXCEPT ![f] = 1]
  /\ entry' = [entry EXCEPT ![f] = f]
  /\ holder' = Nobody
  /\ Goto(f, "using")
  /\ UNCHANGED <<sidOf, startVars, openVars>>

\* close, new_context or route raises, or the fetch is cancelled meanwhile: the
\* context that was to be closed, or the one that was made, may stay open.
ContextFails(f) ==
  /\ \/ pc[f] = "evicting" /\ GiveUpClosing(f)
     \/ pc[f] = "creating" /\ UNCHANGED openVars
     \/ /\ \/ pc[f] = "creating" /\ browser
           \/ pc[f] = "routing" /\ f \in open
        /\ open' = open \cup {f}
        /\ leaked' = leaked \cup {f}
        /\ UNCHANGED closing
     \/ pc[f] = "routing" /\ f \notin open /\ UNCHANGED openVars
  /\ holder' = Nobody
  /\ Goto(f, "done")
  /\ UNCHANGED <<poolVars, startVars>>

-----------------------------------------------------------------------------
(* run and fetch                                                           *)

\* The work on the page returns, raises or is cancelled, and the finally block
\* closes the page; it then waits for the lock.
Finish(f) ==
  /\ pc[f] = "using"
  /\ Goto(f, "releasing")
  /\ UNCHANGED <<poolVars, holder, startVars, openVars>>

\* Mutant: a release wakes nobody.
ReleaseQuietly(f) ==
  /\ pc[f] = "releasing" /\ holder = Nobody
  /\ active' = [active EXCEPT ![entry[f]] = @ - 1]
  /\ entry' = [entry EXCEPT ![f] = Nobody]
  /\ Goto(f, "done")
  /\ UNCHANGED <<sidOf, contexts, holder, startVars, openVars>>

Release(f) ==
  /\ pc[f] = "releasing" /\ holder = Nobody
  /\ active' = [active EXCEPT ![entry[f]] = @ - 1]
  /\ entry' = [entry EXCEPT ![f] = Nobody]
  /\ GotoAndNotify(f, "done")
  /\ UNCHANGED <<sidOf, contexts, holder, startVars, openVars>>

\* The search router cancels what its backends run after a timeout; a page load
\* is shielded from its callers.
Cancellable(f) == sidOf[f] = SearchSid

\* Cancellation of a fetch that has not got its context yet.
CancelEarly(f) ==
  /\ Cancellable(f)
  /\ \/ pc[f] \in {"sem", "starting"}
     \/ pc[f] = "locking" /\ holder # Nobody
     \/ pc[f] = "waiting" /\ holder = Nobody
  /\ Goto(f, "done")
  /\ UNCHANGED <<poolVars, holder, startVars, openVars>>

\* A restart that is cancelled leaves the browser as it is at that point, with
\* the contexts it has not closed yet.
CancelStart(f) ==
  /\ Cancellable(f)
  /\ \/ pc[f] \in {"shutdown", "undo"} /\ holder # Nobody
     \/ pc[f] \in {"stopping", "launching", "probing", "undoing"}
  /\ GiveUpClosing(f)
  /\ starter' = Nobody
  /\ Goto(f, "done")
  /\ UNCHANGED <<poolVars, holder, connected, browser, restarts, crashes>>

\* A cancellation that arrives while the finally block waits for the page to
\* close or for the lock skips the rest of the block.
CancelInFinally(f) ==
  /\ Cancellable(f)
  /\ pc[f] = "releasing"
  /\ Goto(f, "done")
  /\ UNCHANGED <<poolVars, holder, startVars, openVars>>

-----------------------------------------------------------------------------
(* drop_context                                                            *)

\* Mutant: drop_context waits as long as there is a context.
InUseAtAll(d) == ContextsOf(sidOf[d]) # {}

InUse(d) == \E i \in ContextsOf(sidOf[d]) : active[contexts[i]] > 0

DropWaits(d) ==
  /\ pc[d] = "locking" /\ holder = Nobody
  /\ InUse(d)
  /\ Goto(d, "waiting")
  /\ UNCHANGED <<poolVars, holder, startVars, openVars>>

DropCloses(d) ==
  /\ pc[d] = "locking" /\ holder = Nobody
  /\ ~InUse(d)
  /\ \E i \in ContextsOf(sidOf[d]) :
       /\ contexts' = RemoveAt(contexts, i)
       /\ closing' = [closing EXCEPT ![d] = {contexts[i]}]
  /\ holder' = d
  /\ Goto(d, "dropping")
  /\ UNCHANGED <<sidOf, entry, active, startVars, open, leaked>>

NothingToDrop(d) ==
  /\ pc[d] = "locking" /\ holder = Nobody
  /\ ContextsOf(sidOf[d]) = {}
  /\ Goto(d, "done")
  /\ UNCHANGED <<poolVars, holder, startVars, openVars>>

\* close returns, or raises and may leave the context open.
Dropped(d) ==
  /\ pc[d] = "dropping"
  /\ GiveUpClosing(d)
  /\ holder' = Nobody
  /\ Goto(d, "done")
  /\ UNCHANGED <<poolVars, startVars>>

-----------------------------------------------------------------------------

\* Steps that go on as soon as the event loop, a lock or a permit lets them.
LoopStep(f) ==
  \/ Enter(f) \/ StartNotNeeded(f) \/ StartRefused(f) \/ Restart(f) \/ ClearContexts(f)
  \/ Reuse(f) \/ StartCreate(f) \/ StartEvict(f) \/ WaitForIdle(f) \/ Release(f)

\* Steps that end an await on the browser.
BrowserStep(f) ==
  \/ Stopped(f) \/ Launched(f) \/ Probed(f) \/ LaunchFails(f) \/ Undone(f)
  \/ Evicted(f) \/ NewContext(f) \/ Created(f) \/ ContextFails(f) \/ Finish(f)

DropStep(d) == DropWaits(d) \/ DropCloses(d) \/ NothingToDrop(d)

Next ==
  \/ \E f \in Fetches : LoopStep(f) \/ BrowserStep(f) \/ CancelEarly(f) \/ CancelStart(f)
  \/ \E d \in Drops : DropStep(d) \/ Dropped(d)
  \/ Disconnect \/ ForgetRestart

Spec == Init /\ [][Next]_vars

\* The event loop resumes what can go on.  asyncio.Lock and Semaphore serve
\* their waiters in order, so a task that waits for a lock or a permit which is
\* released again and again gets it: strong fairness.  Nothing has to be
\* dropped, to be cancelled or to crash.
LoopFairness ==
  /\ \A f \in Fetches : SF_vars(LoopStep(f))
  /\ \A d \in Drops : SF_vars(DropStep(d))

\* An assumption on the browser and not a fact of the code: every await on it
\* returns or raises.  Only goto, the launch and the requests made without a page
\* have a timeout; evaluate, the reading of a body and the closing and making of
\* pages and contexts have none.
BrowserAnswers ==
  /\ \A f \in Fetches : WF_vars(BrowserStep(f))
  /\ \A d \in Drops : WF_vars(Dropped(d))

Fairness == LoopFairness /\ BrowserAnswers

FairSpec == Spec /\ Fairness

\* The same system when the cancellation may also hit the finally block.
NextWithLateCancel == Next \/ \E f \in Fetches : CancelInFinally(f)

LateCancelSpec == Init /\ [][NextWithLateCancel]_vars /\ Fairness

-----------------------------------------------------------------------------

Places ==
  {"sem", "starting", "shutdown", "stopping", "launching", "probing", "undo", "undoing",
   "locking", "waiting", "evicting", "creating", "routing", "using", "releasing",
   "dropping", "done"}

Making == {f \in Fetches : pc[f] \in {"evicting", "creating", "routing"}}

\* Types; the registered contexts, with the one being made, stay within
\* max_contexts (browser.py:154-175).
TypeOK ==
  /\ sidOf \in Arrivals
  /\ pc \in [Tasks -> Places]
  /\ entry \in [Fetches -> Fetches \cup {Nobody}]
  /\ contexts \in Seq(Fetches)
  /\ Len(contexts) + Cardinality(Making) <= MaxContexts
  /\ active \in [Fetches -> Nat]
  /\ holder \in Tasks \cup {Nobody}
  /\ starter \in Fetches \cup {Nobody}
  /\ connected \in BOOLEAN /\ browser \in BOOLEAN
  /\ restarts \in 0..RestartLimit
  /\ crashes \in 0..MaxCrashes
  /\ closing \in [Tasks -> SUBSET Fetches]
  /\ leaked \subseteq open /\ open \subseteq Fetches

\* Contexts of a browser that is about to be closed as a whole.
Ending == UNION {closing[f] : f \in {g \in Fetches : pc[g] \in {"stopping", "undoing"}}}

\* Not more than max_contexts contexts are open, unless a close, a new_context or
\* a route failed or was cancelled: an eviction, drop_context and a restart
\* forget no context that they do not close, whatever runs between their awaits.
\* Those that failures leave are open until the browser ends
\* (browser.py:112-121, 154-175, 183-189).
OpenWithinLimit == Cardinality(open \ (leaked \cup Ending)) <= MaxContexts

Users(x) == {f \in Fetches : entry[f] = x /\ pc[f] \in {"using", "releasing"}}

\* The active count of a context is the number of fetches that still use it:
\* no way through _context, an eviction, a restart or an error path leaves it
\* too high, which would pin the context, or too low, which would let it be
\* closed under a page (browser.py:149-151, 174, 178-181).
ActiveExact == \A x \in Fetches : active[x] = Cardinality(Users(x))

\* A session has one context: concurrent fetches of a session share its cookies
\* even when they arrive while the context is being created (browser.py:149-175).
OneContextPerSession ==
  \A i, j \in DOMAIN contexts : sidOf[contexts[i]] = sidOf[contexts[j]] => i = j

\* As long as the browser answers, every fetch ends: it gets one of the permits
\* others give back, a waiter is woken whenever a context becomes free, and no
\* order of waiting for permit, start lock and condition blocks all of them
\* (browser.py:145-181, 249, 283).
FetchesEnd == <>(\A f \in Fetches : pc[f] = "done")

\* As long as the browser answers, drop_context returns once the context it
\* waits for is no longer used, so the maintenance task goes on
\* (browser.py:183-189).
DropsEnd == <>(\A d \in Drops : pc[d] = "done")

\* tests/integration/test_browser.py:319: a fetch that waits because every
\* context is busy is served after the busy one has ended.
WaiterServed == \A f \in Fetches : pc[f] = "waiting" ~> pc[f] # "waiting"
=============================================================================
