----------------------------- MODULE PageLoader -----------------------------
(***************************************************************************)
(* Cached, shared page loading: PageLoader.get, _shared_load, _finished    *)
(* and _load (browsr/pages.py) with the cache calls they make.             *)
(*                                                                         *)
(* A get reads the cache in a worker thread, and on a miss waits for the   *)
(* load of its URL, which it starts when none is in flight.  The load is a *)
(* task of its own: it waits for the domain's turn, fixes the list of      *)
(* methods, tries them in order, checks the final URL, stores the page and *)
(* ends.  A load is named after the get that starts it.                    *)
(***************************************************************************)
EXTENDS Integers, FiniteSets, Sequences

CONSTANTS
  Gets,         \* calls of get, each performed once
  Urls,         \* normalized URLs
  Arrivals,     \* sets of calls to consider: get -> URL
  FinalOf,      \* URL -> the URL it redirects to, or itself
  Hosts,
  HostOf,       \* URL -> host, without "www."
  AdapterUrls,  \* URLs that a site adapter handles
  AutoMode,     \* fetch.mode = "auto"
  Fallbacks,    \* the fallbacks of fetch.fallbacks that are available
  Memory,       \* fetch.blocked_memory_s, in ticks
  NoLoad, NoPage

ASSUME LoaderAssumption ==
  /\ IsFiniteSet(Gets) /\ Arrivals \subseteq [Gets -> Urls] /\ NoLoad \notin Gets /\ NoPage \notin Urls
  /\ FinalOf \in [Urls -> Urls] /\ HostOf \in [Urls -> Hosts]
  /\ AdapterUrls \subseteq Urls /\ AutoMode \in BOOLEAN
  /\ Fallbacks \in Seq({"http", "camoufox"})
  /\ Memory \in Nat

VARIABLES
  pc,       \* get -> where it is
  urlOf,    \* get -> its URL
  page,     \* get -> the page it read from the cache or returned: the URL it was loaded for
  job,      \* get -> the load it waits for
  stage,    \* load -> where it is
  plan,     \* load -> the methods left; the first is being tried
  outcome,  \* load -> how it ended
  inflight, \* _inflight: URL -> load
  row,      \* the unexpired cache row of a URL: the URL its page was loaded for
  left,     \* _blocked: host -> time until the block is forgotten
  fresh,    \* history: URLs stored by a load and not expired since
  old,      \* history: get -> the loads of its URL that were over when it began
  had       \* history: gets that began with a fresh URL, still fresh

getVars == <<pc, urlOf, page, job>>
loadVars == <<stage, plan, outcome>>
cacheVars == <<row, fresh, had>>
vars == <<getVars, loadVars, inflight, cacheVars, left, old>>

Init ==
  /\ pc = [g \in Gets |-> "new"]
  /\ urlOf \in Arrivals
  /\ page = [g \in Gets |-> NoPage]
  /\ job = [g \in Gets |-> NoLoad]
  /\ stage = [g \in Gets |-> "none"]
  /\ plan = [g \in Gets |-> <<>>]
  /\ outcome = [g \in Gets |-> "none"]
  /\ inflight = [u \in Urls |-> NoLoad]
  /\ row = [u \in Urls |-> NoPage]
  /\ left = [h \in Hosts |-> 0]
  /\ fresh = {}
  /\ old = [g \in Gets |-> {}]
  /\ had = {}

Host(g) == HostOf[urlOf[g]]

-----------------------------------------------------------------------------
(* get                                                                     *)

Begin(g) ==
  /\ pc[g] = "new"
  /\ pc' = [pc EXCEPT ![g] = "reading"]
  /\ old' = [old EXCEPT ![g] =
       {t \in Gets : urlOf[t] = urlOf[g] /\ stage[t] \in {"ended", "over"}}]
  /\ had' = IF urlOf[g] \in fresh THEN had \cup {g} ELSE had
  /\ UNCHANGED <<urlOf, page, job, loadVars, inflight, row, fresh, left>>

\* The worker thread reads the row; the get goes on some time later.
ReadRow(g) ==
  /\ pc[g] = "reading"
  /\ page' = [page EXCEPT ![g] = row[urlOf[g]]]
  /\ pc' = [pc EXCEPT ![g] = "read"]
  /\ UNCHANGED <<urlOf, job, loadVars, inflight, cacheVars, left, old>>

Fail(g) ==
  /\ pc' = [pc EXCEPT ![g] = "failed"]
  /\ page' = [page EXCEPT ![g] = NoPage]

\* A cached page is returned if its final URL is still allowed.
CacheHit(g) ==
  /\ pc[g] = "read" /\ page[g] # NoPage
  /\ \/ /\ pc' = [pc EXCEPT ![g] = "returned"]
        /\ UNCHANGED page
     \/ Fail(g)
  /\ UNCHANGED <<urlOf, job, loadVars, inflight, cacheVars, left, old>>

\* The cache has answered without a page.  The event loop runs callbacks in
\* order: those of the loads that had ended when the get began have run.
Missed(g) ==
  /\ pc[g] = "read" /\ page[g] = NoPage
  /\ \A t \in old[g] : stage[t] = "over"

Share(g) ==
  /\ Missed(g)
  /\ inflight[urlOf[g]] # NoLoad
  /\ job' = [job EXCEPT ![g] = inflight[urlOf[g]]]
  /\ pc' = [pc EXCEPT ![g] = "waiting"]
  /\ UNCHANGED <<urlOf, page, loadVars, inflight, cacheVars, left, old>>

StartLoad(g) ==
  /\ Missed(g)
  /\ inflight[urlOf[g]] = NoLoad
  /\ inflight' = [inflight EXCEPT ![urlOf[g]] = g]
  /\ stage' = [stage EXCEPT ![g] = "pacing"]
  /\ job' = [job EXCEPT ![g] = g]
  /\ pc' = [pc EXCEPT ![g] = "waiting"]
  /\ UNCHANGED <<urlOf, page, plan, outcome, cacheVars, left, old>>

\* The task has ended: its page or its exception.
Resume(g) ==
  /\ pc[g] = "waiting" /\ stage[job[g]] \in {"ended", "over"}
  /\ IF outcome[job[g]] = "page"
     THEN /\ page' = [page EXCEPT ![g] = urlOf[job[g]]]
          /\ pc' = [pc EXCEPT ![g] = "returned"]
     ELSE Fail(g)
  /\ job' = [job EXCEPT ![g] = NoLoad]
  /\ UNCHANGED <<urlOf, loadVars, inflight, cacheVars, left, old>>

\* Mutant: a cancelled get unregisters the load it waits for.
CancelUnregisters(g) ==
  /\ pc[g] \in {"reading", "read", "waiting"}
  /\ pc' = [pc EXCEPT ![g] = "cancelled"]
  /\ page' = [page EXCEPT ![g] = NoPage]
  /\ job' = [job EXCEPT ![g] = NoLoad]
  /\ inflight' = [u \in Urls |-> IF inflight[u] = job[g] THEN NoLoad ELSE inflight[u]]
  /\ UNCHANGED <<urlOf, loadVars, cacheVars, left, old>>

\* Mutant: the load runs inside the get that starts it and stops with it.
CancelStopsLoad(g) ==
  /\ pc[g] \in {"reading", "read", "waiting"}
  /\ pc' = [pc EXCEPT ![g] = "cancelled"]
  /\ page' = [page EXCEPT ![g] = NoPage]
  /\ job' = [job EXCEPT ![g] = NoLoad]
  /\ stage' = [stage EXCEPT ![g] = "none"]
  /\ UNCHANGED <<urlOf, plan, outcome, inflight, cacheVars, left, old>>

\* The client of a get disconnects; the load is shielded from it.
Cancel(g) ==
  /\ pc[g] \in {"reading", "read", "waiting"}
  /\ pc' = [pc EXCEPT ![g] = "cancelled"]
  /\ page' = [page EXCEPT ![g] = NoPage]
  /\ job' = [job EXCEPT ![g] = NoLoad]
  /\ UNCHANGED <<urlOf, loadVars, inflight, cacheVars, left, old>>

-----------------------------------------------------------------------------
(* _load                                                                   *)

Methods(t) ==
  (IF urlOf[t] \in AdapterUrls THEN <<"adapter">> ELSE <<>>)
  \o (IF AutoMode THEN <<"auto">> ELSE <<>>)
  \o (IF left[Host(t)] = 0 THEN <<"browser">> ELSE <<>>)
  \o Fallbacks

End(t, how) ==
  /\ stage' = [stage EXCEPT ![t] = "ended"]
  /\ plan' = [plan EXCEPT ![t] = <<>>]
  /\ outcome' = [outcome EXCEPT ![t] = how]

\* before_fetch returns; the methods are fixed for the whole load.
FixMethods(t) ==
  /\ stage[t] = "pacing"
  /\ IF Methods(t) = <<>> THEN End(t, "error")
     ELSE /\ stage' = [stage EXCEPT ![t] = "trying"]
          /\ plan' = [plan EXCEPT ![t] = Methods(t)]
          /\ UNCHANGED outcome
  /\ UNCHANGED <<getVars, inflight, cacheVars, left, old>>

TryNext(t) ==
  IF Len(plan[t]) = 1 THEN End(t, "error")
  ELSE plan' = [plan EXCEPT ![t] = Tail(@)] /\ UNCHANGED <<stage, outcome>>

\* fetch_failed, blocked by another method, an exception, or no page from try_fetch.
MethodFails(t) ==
  /\ stage[t] = "trying"
  /\ TryNext(t)
  /\ UNCHANGED <<getVars, inflight, cacheVars, left, old>>

\* Mutant: a second block adds to the time left.
BrowserBlockedLonger(t) ==
  /\ stage[t] = "trying" /\ Head(plan[t]) = "browser"
  /\ left' = [left EXCEPT ![Host(t)] = @ + Memory]
  /\ TryNext(t)
  /\ UNCHANGED <<getVars, inflight, cacheVars, old>>

BrowserBlocked(t) ==
  /\ stage[t] = "trying" /\ Head(plan[t]) = "browser"
  /\ left' = [left EXCEPT ![Host(t)] = Memory]
  /\ TryNext(t)
  /\ UNCHANGED <<getVars, inflight, cacheVars, old>>

MethodLoads(t) ==
  /\ stage[t] = "trying"
  /\ stage' = [stage EXCEPT ![t] = "storing"]
  /\ plan' = [plan EXCEPT ![t] = <<>>]
  /\ UNCHANGED <<getVars, outcome, inflight, cacheVars, left, old>>

\* before_fetch refuses, a method fails for good (timeout, not_found, ...), the
\* final URL is not allowed, or the page cannot be stored.
LoadFails(t) ==
  /\ stage[t] \in {"pacing", "trying", "storing"}
  /\ End(t, "error")
  /\ UNCHANGED <<getVars, inflight, cacheVars, left, old>>

\* Mutant: the key of a row is only the host.
StoredForHost(t) == {u \in Urls : HostOf[u] = Host(t)}

\* Mutant: a redirected page is stored under its final URL only.
StoredAsFinal(t) == {FinalOf[urlOf[t]]}

StoredAs(t) == {urlOf[t], FinalOf[urlOf[t]]}

\* The final URL is allowed and the page stored under both its URLs.
Store(t) ==
  /\ stage[t] = "storing"
  /\ row' = [u \in Urls |-> IF u \in StoredAs(t) THEN urlOf[t] ELSE row[u]]
  /\ fresh' = fresh \cup {urlOf[t], FinalOf[urlOf[t]]}
  /\ End(t, "page")
  /\ UNCHANGED <<getVars, inflight, had, left, old>>

\* Mutant: only a successful load is unregistered.
FinishedWell(t) ==
  /\ stage[t] = "ended"
  /\ stage' = [stage EXCEPT ![t] = "over"]
  /\ inflight' = [inflight EXCEPT ![urlOf[t]] =
       IF @ = t /\ outcome[t] = "page" THEN NoLoad ELSE @]
  /\ UNCHANGED <<getVars, plan, outcome, cacheVars, left, old>>

\* The callback of the ended task, one turn of the event loop later.
Finished(t) ==
  /\ stage[t] = "ended"
  /\ stage' = [stage EXCEPT ![t] = "over"]
  /\ inflight' = [inflight EXCEPT ![urlOf[t]] = IF @ = t THEN NoLoad ELSE @]
  /\ UNCHANGED <<getVars, plan, outcome, cacheVars, left, old>>

-----------------------------------------------------------------------------

Tick ==
  /\ \E h \in Hosts : left[h] > 0
  /\ left' = [h \in Hosts |-> IF left[h] > 0 THEN left[h] - 1 ELSE 0]
  /\ UNCHANGED <<getVars, loadVars, inflight, cacheVars, old>>

\* A row outlives cache.page_ttl_s or is swept because of cache.max_pages.
Expire(u) ==
  /\ row[u] # NoPage
  /\ row' = [row EXCEPT ![u] = NoPage]
  /\ fresh' = fresh \ {u}
  /\ had' = {g \in had : urlOf[g] # u}
  /\ UNCHANGED <<getVars, loadVars, inflight, left, old>>

GetStep(g) == ReadRow(g) \/ CacheHit(g) \/ Share(g) \/ StartLoad(g) \/ Resume(g)

LoadStep(t) ==
  \/ FixMethods(t) \/ MethodFails(t) \/ BrowserBlocked(t) \/ MethodLoads(t)
  \/ LoadFails(t) \/ Store(t) \/ Finished(t)

Next ==
  \/ \E g \in Gets : Begin(g) \/ GetStep(g) \/ Cancel(g) \/ LoadStep(g)
  \/ Tick
  \/ \E u \in Urls : Expire(u)

Spec == Init /\ [][Next]_vars

\* The event loop resumes what has become ready, and a step of a load returns,
\* raises or times out.  The last is assumed of the browser: some of its awaits
\* have no timeout of their own (browser.py:319-322, 349, 411).
FairSpec ==
  Spec /\ \A g \in Gets : WF_vars(GetStep(g)) /\ WF_vars(LoadStep(g))

-----------------------------------------------------------------------------

Running(t) == stage[t] \in {"pacing", "trying", "storing"}

TypeOK ==
  /\ pc \in [Gets -> {"new", "reading", "read", "waiting", "returned", "failed", "cancelled"}]
  /\ urlOf \in Arrivals
  /\ page \in [Gets -> Urls \cup {NoPage}]
  /\ job \in [Gets -> Gets \cup {NoLoad}]
  /\ stage \in [Gets -> {"none", "pacing", "trying", "storing", "ended", "over"}]
  /\ plan \in [Gets -> Seq({"adapter", "auto", "browser", "http", "camoufox"})]
  /\ outcome \in [Gets -> {"none", "page", "error"}]
  /\ inflight \in [Urls -> Gets \cup {NoLoad}]
  /\ row \in [Urls -> Urls \cup {NoPage}]
  /\ left \in [Hosts -> 0..Memory]
  /\ fresh \subseteq Urls
  /\ old \in [Gets -> SUBSET Gets]
  /\ had \subseteq Gets

\* Concurrent gets of a URL share one load: two loads of it never run at the
\* same time, whoever was cancelled meanwhile (pages.py:52-62, 72-74).
OneLoadPerUrl ==
  \A t, s \in Gets : Running(t) /\ Running(s) /\ urlOf[t] = urlOf[s] => t = s

\* A get returns a page that was loaded for its URL or redirected to it, also
\* when the load or the cache row belongs to another get (pages.py:45-59, 155).
RightPage ==
  \A g \in Gets :
    pc[g] = "returned" => page[g] # NoPage /\ urlOf[g] \in {page[g], FinalOf[page[g]]}

\* A failure is not remembered: a get never waits for a load that had ended
\* before the get began, although the load is unregistered only by a callback
\* that runs later (pages.py:52-56, 72-74).
FailureNotRemembered == \A g \in Gets : job[g] \notin old[g]

\* A page that was stored is not loaded again by a get that begins while the
\* row is live, whatever ran in between (pages.py:45-51, 155).
NoNeedlessLoad == \A g \in had : stage[g] = "none"

\* Every get that a client does not give up ends, and a load goes on to its end
\* when the get that started it is cancelled (pages.py:57-59).
GetsEnd == \A g \in Gets : pc[g] = "reading" ~> pc[g] \in {"returned", "failed", "cancelled"}

\* docs/SPEC.md:140: while a host is remembered as blocked, the browser step is
\* skipped; so no load turns to the browser then.
BlockedSkipsBrowser ==
  [][\A t \in Gets :
       /\ left[Host(t)] > 0
       /\ plan'[t] # <<>> /\ plan'[t] # plan[t]
       => Head(plan'[t]) # "browser"]_vars
=============================================================================
