----------------------------- MODULE GuardedLoad -----------------------------
(***************************************************************************)
(* What one load does on the network: PageLoader._load of browsr/pages.py  *)
(* with Guard (browsr/fetch/guard.py), RateLimiter, HttpFetcher            *)
(* (browsr/fetch/http.py), the PyPI adapter and the navigation of          *)
(* BrowserPool.fetch.                                                      *)
(*                                                                         *)
(* A load waits for the turn of its domain, asks robots.txt, and tries its *)
(* methods.  Before every request, redirects included, the host is checked *)
(* against the DNS verdicts, which all loads share and which are kept for  *)
(* a while.  Checking a host may suspend the load; names may resolve       *)
(* differently each time.  Times are what is left of them, in ticks.       *)
(***************************************************************************)
EXTENDS Integers, FiniteSets, Sequences

CONSTANTS
  Loads, Urls, Hosts,
  HostOf,      \* URL -> host
  Local,       \* hosts that are refused by name
  Plan,        \* URL -> methods of its load
  ApiOf,       \* URL -> the API request of the adapter
  Redirects,   \* pairs of URLs: the first may redirect to the second
  MaxHops,     \* redirects that a request follows
  Responses,   \* answers to consider, see Answers
  DnsTTL,      \* 300 seconds
  Interval,    \* security.domain_interval_s
  MaxWait,     \* 10 seconds
  RespectRobots,
  None         \* no answer

\* title, sample: challenge marks in the title, in the text; text: length of the
\* visible text, below 1500, below 2000 or longer; md: length of the extracted
\* text, none, below fetch.min_text_chars or longer.
Answers ==
  [status : {200, 403, 404, 500}, html : BOOLEAN, fits : BOOLEAN, title : BOOLEAN, sample : BOOLEAN,
   text : {"short", "middle", "long"}, js : BOOLEAN, md : {"none", "thin", "full"}]

ASSUME LoadAssumption ==
  /\ HostOf \in [Urls -> Hosts] /\ Local \subseteq Hosts /\ ApiOf \in [Urls -> Urls]
  /\ Plan \in [Urls -> Seq({"adapter", "auto", "browser", "http"})]
  /\ Redirects \subseteq Urls \X Urls /\ Responses \subseteq Answers
  /\ {DnsTTL, Interval} \subseteq Nat \ {0} /\ {MaxWait, MaxHops} \subseteq Nat
  /\ RespectRobots \in BOOLEAN /\ None \notin Answers

VARIABLES
  pc,         \* load -> where it is
  url,        \* load -> the URL it was asked for
  goal,       \* load -> what it does when the URL it checks is allowed
  at,         \* load -> the URL that is checked or requested
  asked,      \* load -> time since its DNS lookup began
  wait,       \* load -> time until its turn
  plan,       \* load -> methods left; the first is being tried
  hops,       \* load -> redirects of the request
  requested,  \* load -> URLs its browser page has requested
  checked,    \* load -> those that _check_requested has found allowed
  barred,     \* load -> a request of its browser page was refused
  got,        \* load -> the answer its page was made from
  dns,        \* _dns: host -> verdict, time it is kept, time since it was asked for
  slot,       \* limiter: host -> time until its next turn
  robots,     \* _robots: host -> what robots.txt says
  gap         \* history: host -> time since a load last took its turn, up to Interval

netVars == <<dns, slot, robots, gap>>
browserVars == <<requested, checked, barred>>
loadVars == <<pc, url, goal, at, asked, wait, plan, hops, got>>
vars == <<loadVars, browserVars, netVars>>

Unasked == [ok |-> TRUE, left |-> 0, age |-> DnsTTL]

\* An earlier load may just have taken the turn of a host.
Init ==
  /\ pc = [t \in Loads |-> "new"]
  /\ url \in [Loads -> Urls] /\ at = url
  /\ goal = [t \in Loads |-> "pace"]
  /\ asked = [t \in Loads |-> 0] /\ wait = [t \in Loads |-> 0]
  /\ plan = [t \in Loads |-> Plan[url[t]]]
  /\ hops = [t \in Loads |-> 0]
  /\ requested = [t \in Loads |-> {}] /\ checked = [t \in Loads |-> {}]
  /\ barred = [t \in Loads |-> FALSE]
  /\ got = [t \in Loads |-> None]
  /\ dns = [h \in Hosts |-> Unasked]
  /\ slot \in [Hosts -> {0, Interval}] /\ \A h \in Local : slot[h] = 0
  /\ robots = [h \in Hosts |-> "unknown"]
  /\ gap = [h \in Hosts |-> Interval - slot[h]]

HostAt(t) == HostOf[at[t]]

\* Why the requests of a browser page are inspected.
Inspections == {"failed", "goto", "settle", "extract"}

-----------------------------------------------------------------------------
(* How a load goes on                                                      *)

Set(f, t, value) == f' = [f EXCEPT ![t] = value]

\* The load is over; what it has gathered is forgotten.
End(t) ==
  /\ Set(pc, t, "ended") /\ Set(at, t, url[t]) /\ Set(goal, t, "pace") /\ Set(plan, t, <<>>)
  /\ Set(hops, t, 0) /\ Set(got, t, None)
  /\ Set(requested, t, {}) /\ Set(checked, t, {}) /\ Set(barred, t, FALSE)

\* check_url(u), and then g.
Check(t, u, g) == Set(pc, t, "checking") /\ Set(at, t, u) /\ Set(goal, t, g)

FirstGoal(method) == CASE method = "adapter" -> "api" [] method = "browser" -> "visit" [] OTHER -> "request"

Try(t, methods) ==
  IF methods = <<>> THEN End(t)
  ELSE /\ Set(plan, t, methods)
       /\ Check(t, url[t], FirstGoal(Head(methods)))
       /\ Set(hops, t, 0)
       /\ Set(requested, t, {}) /\ Set(checked, t, {}) /\ Set(barred, t, FALSE)
       /\ UNCHANGED got

\* blocked and fetch_failed turn to the next method.
TryNext(t) == Try(t, Tail(plan[t]))

\* What a load does with a URL that is allowed.
Allowed(t) ==
  CASE goal[t] = "pace" -> Set(pc, t, "pace") /\ UNCHANGED <<goal, at, checked, plan, hops, got, requested, barred>>
    [] goal[t] = "api" -> Check(t, ApiOf[url[t]], "request") /\ UNCHANGED <<checked, plan, hops, got, requested, barred>>
    [] goal[t] = "request" -> Check(t, at[t], "hop") /\ UNCHANGED <<checked, plan, hops, got, requested, barred>>
    [] goal[t] = "hop" -> Set(pc, t, "requesting") /\ UNCHANGED <<goal, at, checked, plan, hops, got, requested, barred>>
    [] goal[t] = "visit" ->
         /\ Set(pc, t, "loading") /\ Set(requested, t, {url[t]})
         /\ UNCHANGED <<goal, at, checked, plan, hops, got, barred>>
    [] goal[t] \in Inspections ->
         /\ Set(pc, t, "inspecting") /\ Set(checked, t, checked[t] \cup {at[t]}) /\ Set(at, t, url[t])
         /\ UNCHANGED <<goal, plan, hops, got, requested, barred>>
    [] goal[t] = "store" -> End(t)

Decide(t, ok) == IF ok THEN Allowed(t) ELSE End(t)

-----------------------------------------------------------------------------
(* Guard.check_url and host_allowed                                        *)

Known(h) == dns[h].left > 0

Begin(t) ==
  /\ pc[t] = "new"
  /\ Set(pc, t, "checking")
  /\ UNCHANGED <<url, goal, at, asked, wait, plan, hops, got, browserVars, netVars>>

CheckByName(t) ==
  /\ pc[t] = "checking" /\ HostAt(t) \in Local
  /\ Decide(t, FALSE)
  /\ UNCHANGED <<url, asked, wait, netVars>>

CheckKnown(t) ==
  /\ pc[t] = "checking" /\ HostAt(t) \notin Local /\ Known(HostAt(t))
  /\ Decide(t, dns[HostAt(t)].ok)
  /\ UNCHANGED <<url, asked, wait, netVars>>

Lookup(t) ==
  /\ pc[t] = "checking" /\ HostAt(t) \notin Local /\ ~ Known(HostAt(t))
  /\ Set(pc, t, "lookup") /\ Set(asked, t, 0)
  /\ UNCHANGED <<url, goal, at, wait, plan, hops, got, browserVars, netVars>>

\* Mutant: the verdict is kept from the time of the answer.
VerdictFromAnswer(t, ok) == [ok |-> ok, left |-> DnsTTL, age |-> asked[t]]

\* Kept from the time of the question; a late answer may be of no use.
Verdict(t, ok) ==
  IF asked[t] < DnsTTL THEN [ok |-> ok, left |-> DnsTTL - asked[t], age |-> asked[t]] ELSE Unasked

Resolved(t) ==
  /\ pc[t] = "lookup"
  /\ \E ok \in BOOLEAN :
       /\ dns' = [dns EXCEPT ![HostAt(t)] = Verdict(t, ok)]
       /\ Decide(t, ok)
  /\ Set(asked, t, 0)
  /\ UNCHANGED <<url, wait, slot, robots, gap>>

\* An unknown name is left to the request.
Unresolved(t) ==
  /\ pc[t] = "lookup"
  /\ Decide(t, TRUE)
  /\ Set(asked, t, 0)
  /\ UNCHANGED <<url, wait, netVars>>

-----------------------------------------------------------------------------
(* Guard.before_fetch                                                      *)

\* Mutant: a load that is refused takes a turn as well.
ReserveRefused(t) == slot' = [slot EXCEPT ![HostAt(t)] = @ + Interval]

\* Mutant: the next turn is counted from now, not from the last turn given.
ReserveFromNow(t) == slot' = [slot EXCEPT ![HostAt(t)] = IF @ > MaxWait THEN @ ELSE Interval]

\* A load that would have to wait too long leaves the turns alone.
Reserve(t) ==
  slot' = [slot EXCEPT ![HostAt(t)] = IF @ > MaxWait THEN @ ELSE @ + Interval]

Pace(t) ==
  /\ pc[t] = "pace"
  /\ Reserve(t)
  /\ IF slot[HostAt(t)] > MaxWait THEN End(t) /\ UNCHANGED wait
     ELSE /\ Set(wait, t, slot[HostAt(t)])
          /\ Set(pc, t, "sleeping")
          /\ UNCHANGED <<goal, at, plan, hops, got, browserVars>>
  /\ UNCHANGED <<url, asked, dns, robots, gap>>

Wake(t) ==
  /\ pc[t] = "sleeping" /\ wait[t] = 0
  /\ IF ~ RespectRobots \/ robots[HostAt(t)] = "open" THEN Try(t, plan[t])
     ELSE IF robots[HostAt(t)] = "closed" THEN End(t)
     ELSE Set(pc, t, "robots") /\ UNCHANGED <<goal, at, plan, hops, got, browserVars>>
  /\ gap' = [gap EXCEPT ![HostAt(t)] = 0]
  /\ UNCHANGED <<url, asked, wait, dns, slot, robots>>

\* The requests for robots.txt, redirects included, are checked too, and one
\* that is refused fails; their lookups are taken to be answered at once.
RobotsLookups ==
  \E hosts \in SUBSET {h \in Hosts \ Local : ~ Known(h)}, ok \in [Hosts -> BOOLEAN] :
    dns' = [h \in Hosts |-> IF h \in hosts THEN [ok |-> ok[h], left |-> DnsTTL, age |-> 0] ELSE dns[h]]

\* robots.txt that cannot be read closes nothing; it is kept for a day.
RobotsRead(t) ==
  /\ pc[t] = "robots"
  /\ RobotsLookups
  /\ \E rules \in {"open", "closed"} :
       /\ robots' = [robots EXCEPT ![HostAt(t)] = rules]
       /\ IF rules = "closed" THEN End(t) ELSE Try(t, plan[t])
  /\ UNCHANGED <<url, asked, wait, slot, gap>>

-----------------------------------------------------------------------------
(* HttpFetcher.request, _fetch and the adapter                             *)

\* A browser page that turns out to be a file is requested again without a page.
Method(t) == IF Head(plan[t]) = "browser" /\ requested[t] = {} THEN "raw" ELSE Head(plan[t])
Refusal == {401, 403, 429, 503}

\* Mutant: the title of a page that was answered with 200 is not looked at.
ChallengeByStatus(r) ==
  \/ r.text = "short" /\ r.sample
  \/ r.status \in Refusal /\ (r.title \/ r.text # "long")

Challenge(r) ==
  \/ r.title
  \/ r.text = "short" /\ r.sample
  \/ r.status \in Refusal /\ r.text # "long"

\* What HTML is to a method: the code of the error, a page, or nothing.
Read(method, r) ==
  CASE Challenge(r) -> "blocked"
    [] ~ Challenge(r) /\ method = "browser" -> "page"
    [] ~ Challenge(r) /\ method = "auto" -> IF ~ r.js /\ r.md = "full" THEN "page" ELSE "nothing"
    [] ~ Challenge(r) /\ method = "http" -> IF r.md = "none" THEN "fetch_failed" ELSE "page"

Result(method, r) ==
  CASE ~ r.fits -> "unsupported"
    [] r.fits /\ method = "adapter" ->
         IF r.status = 404 THEN "not_found" ELSE IF r.status = 200 /\ ~ r.html THEN "page" ELSE "fetch_failed"
    [] r.fits /\ method # "adapter" /\ r.status >= 400 /\ r.status \notin Refusal -> "not_found"
    [] OTHER ->
         IF r.html /\ method # "raw" THEN Read(method, r)
         ELSE IF r.status \in Refusal THEN "blocked" ELSE "page"

Redirected(t) ==
  /\ pc[t] = "requesting"
  /\ \E v \in Urls :
       /\ <<at[t], v>> \in Redirects
       /\ IF hops[t] < MaxHops
          THEN /\ Check(t, v, "hop") /\ Set(hops, t, hops[t] + 1)
               /\ UNCHANGED <<plan, got, browserVars>>
          ELSE TryNext(t)
  /\ UNCHANGED <<url, asked, wait, netVars>>

\* The final URL is checked, then the page is stored.
PageFrom(t, r, final) ==
  /\ Check(t, final, "store") /\ Set(got, t, r) /\ Set(hops, t, 0)
  /\ UNCHANGED <<plan, browserVars>>

Answered(t) ==
  /\ pc[t] = "requesting"
  /\ \E r \in Responses :
       LET result == Result(Method(t), r)
       IN  CASE result = "page" -> PageFrom(t, r, IF Method(t) = "adapter" THEN url[t] ELSE at[t])
             [] result \in {"nothing", "blocked", "fetch_failed"} -> TryNext(t)
             [] OTHER -> End(t)
  /\ UNCHANGED <<url, asked, wait, netVars>>

\* A timeout ends the load, another transport error the method.
RequestFails(t) ==
  /\ pc[t] = "requesting"
  /\ End(t) \/ TryNext(t)
  /\ UNCHANGED <<url, asked, wait, netVars>>

-----------------------------------------------------------------------------
(* BrowserPool.fetch: goto, settle and extract, with an inspection of what *)
(* the page has requested after each of them                               *)

Visiting(t) == requested[t] # {}

\* _route asks host_allowed as well; its lookup is taken to be answered at once.
Routed(t, v) ==
  \/ /\ HostOf[v] \in Local \/ (Known(HostOf[v]) /\ ~ dns[HostOf[v]].ok)
     /\ Set(barred, t, TRUE) /\ UNCHANGED dns
  \/ /\ HostOf[v] \notin Local /\ Known(HostOf[v]) => dns[HostOf[v]].ok
     /\ UNCHANGED <<barred, dns>>
  \/ /\ HostOf[v] \notin Local /\ ~ Known(HostOf[v])
     /\ \E ok \in BOOLEAN :
          /\ dns' = [dns EXCEPT ![HostOf[v]] = [ok |-> ok, left |-> DnsTTL, age |-> 0]]
          /\ Set(barred, t, barred[t] \/ ~ ok)

\* The page requests a resource, or it is redirected, which is not routed.
BrowserRequests(t) ==
  /\ \/ pc[t] \in {"loading", "settling", "extracting"}
     \/ pc[t] = "lookup" /\ goal[t] \in Inspections
  /\ \E v \in Urls \ requested[t] :
       /\ Set(requested, t, requested[t] \cup {v})
       /\ Routed(t, v) \/ UNCHANGED <<barred, dns>>
  /\ UNCHANGED <<loadVars, checked, slot, robots, gap>>

BrowserStage(t) ==
  /\ \/ pc[t] = "loading" /\ \E g \in {"failed", "goto"} : Set(goal, t, g)
     \/ pc[t] = "settling" /\ Set(goal, t, "settle")
     \/ pc[t] = "extracting" /\ Set(goal, t, "extract")
  /\ Set(pc, t, "inspecting") /\ Set(checked, t, {})
  /\ UNCHANGED <<url, at, asked, wait, plan, hops, got, requested, barred, netVars>>

\* Mutant: only the URLs known when the inspection begins are inspected.
PendingAtFirst(t) == IF checked[t] = {} THEN requested[t] ELSE {}

Pending(t) == requested[t] \ checked[t]

Inspect(t) ==
  /\ pc[t] = "inspecting"
  /\ \E v \in Pending(t) : Set(at, t, v)
  /\ Set(pc, t, "checking")
  /\ UNCHANGED <<url, goal, asked, wait, plan, hops, got, browserVars, netVars>>

\* Whether a request was refused is not asked after settling.
Inspected(t) ==
  /\ pc[t] = "inspecting" /\ Pending(t) = {}
  /\ \/ barred[t] /\ goal[t] # "settle" /\ End(t)
     \/ ~ barred[t] /\ goal[t] = "failed" /\ (End(t) \/ TryNext(t))
     \/ /\ \/ ~ barred[t] /\ goal[t] = "goto" /\ Set(pc, t, "settling")
           \/ goal[t] = "settle" /\ Set(pc, t, "extracting")
        /\ Set(checked, t, {})
        /\ UNCHANGED <<goal, at, plan, hops, got, requested, barred>>
     \/ /\ ~ barred[t] /\ goal[t] = "extract"
        /\ \E final \in requested[t], r \in {s \in Responses : Result("browser", s) = "page"} :
             PageFrom(t, r, final)
  /\ UNCHANGED <<url, asked, wait, netVars>>

\* _fetch_raw: the navigation fails as a download, or its answer is not HTML.
Download(t) ==
  /\ \/ pc[t] = "settling"
     \/ pc[t] = "inspecting" /\ Pending(t) = {} /\ goal[t] = "failed" /\ ~ barred[t]
  /\ Check(t, url[t], "hop")
  /\ Set(requested, t, {}) /\ Set(checked, t, {})
  /\ UNCHANGED <<url, asked, wait, plan, hops, got, barred, netVars>>

\* The page cannot be opened, navigation takes too long, or the answer is an
\* error, a challenge, too large, or too late: nothing is inspected then.
BrowserFails(t) ==
  /\ pc[t] \in {"loading", "settling", "extracting"}
  /\ End(t) \/ TryNext(t)
  /\ UNCHANGED <<url, asked, wait, netVars>>

-----------------------------------------------------------------------------

Down(n) == IF n = 0 THEN 0 ELSE n - 1
Up(n) == IF n < DnsTTL THEN n + 1 ELSE n

\* What needs no waiting is done before the clock moves, and timers fire on time.
AtOnce(t) == pc[t] \in {"checking", "pace", "inspecting"} \/ (pc[t] = "sleeping" /\ wait[t] = 0)

Tick ==
  /\ \A t \in Loads : ~ AtOnce(t)
  /\ dns' = [h \in Hosts |-> IF dns[h].left > 1 THEN [dns[h] EXCEPT !.left = @ - 1, !.age = Up(@)] ELSE Unasked]
  /\ slot' = [h \in Hosts |-> Down(slot[h])]
  /\ gap' = [h \in Hosts |-> IF gap[h] < Interval THEN gap[h] + 1 ELSE Interval]
  /\ wait' = [t \in Loads |-> Down(wait[t])]
  /\ asked' = [t \in Loads |-> IF pc[t] = "lookup" THEN Up(asked[t]) ELSE 0]
  /\ UNCHANGED <<pc, url, goal, at, plan, hops, got, browserVars, robots>>

Step(t) ==
  \/ CheckByName(t) \/ CheckKnown(t) \/ Lookup(t) \/ Resolved(t) \/ Unresolved(t)
  \/ Pace(t) \/ Wake(t) \/ RobotsRead(t)
  \/ Redirected(t) \/ Answered(t) \/ RequestFails(t)
  \/ BrowserStage(t) \/ Inspect(t) \/ Inspected(t) \/ Download(t) \/ BrowserFails(t)

Next ==
  \/ \E t \in Loads : Begin(t) \/ Step(t) \/ BrowserRequests(t)
  \/ Tick

Spec == Init /\ [][Next]_vars

-----------------------------------------------------------------------------

TypeOK ==
  /\ pc \in [Loads -> {"new", "checking", "lookup", "pace", "sleeping", "robots", "requesting",
                       "loading", "settling", "extracting", "inspecting", "ended"}]
  /\ url \in [Loads -> Urls] /\ at \in [Loads -> Urls]
  /\ goal \in [Loads -> {"pace", "api", "request", "hop", "visit", "store"} \cup Inspections]
  /\ asked \in [Loads -> 0..DnsTTL] /\ wait \in [Loads -> 0..MaxWait]
  /\ plan \in [Loads -> Seq({"adapter", "auto", "browser", "http"})]
  /\ hops \in [Loads -> 0..MaxHops]
  /\ requested \in [Loads -> SUBSET Urls] /\ checked \in [Loads -> SUBSET Urls]
  /\ barred \in [Loads -> BOOLEAN]
  /\ got \in [Loads -> Responses \cup {None}]
  /\ dns \in [Hosts -> [ok : BOOLEAN, left : 0..DnsTTL, age : 0..DnsTTL]]
  /\ slot \in [Hosts -> 0..(MaxWait + Interval)]
  /\ robots \in [Hosts -> {"unknown", "open", "closed"}]
  /\ gap \in [Hosts -> 0..Interval]

\* A verdict is used for less than DnsTTL after its name was asked for, however
\* late and in whatever order the answers of concurrent lookups come
\* (guard.py:58-91).
VerdictsFresh == \A h \in Hosts : Known(h) => dns[h].age < DnsTTL

\* Two loads of a domain take their turns at least Interval apart, whether they
\* take them at once or after a sleep, and whatever loads queue or are refused in
\* between (guard.py:98-101, ratelimit.py:14-24).  docs/SPEC.md:161 promises this
\* of requests: those a load makes after its turn take none.
TurnsSpaced ==
  [][\A t \in Loads : pc[t] = "sleeping" /\ pc'[t] # "sleeping" => gap[HostAt(t)] = Interval]_vars

\* A page from the browser is used only if every URL requested up to then was
\* found allowed in the last inspection and none was refused, also those that
\* are requested while the inspection waits for a name (browser.py:214-222, 331-333).
PagesInspected ==
  \A t \in Loads :
    pc[t] = "checking" /\ goal[t] = "store" /\ Visiting(t) => requested[t] = checked[t] /\ ~ barred[t]

\* The HTML of the answer becomes the text of the page.  An adapter takes JSON
\* alone, and of a download only what is not HTML has a text (extract/__init__.py:50-69).
Shown(t) == got[t].html /\ Method(t) # "raw"

\* docs/SPEC.md:115 and docs/DESIGN.md:617-626 say what is an error, a refusal or
\* a challenge: a status from 400 on, unless a refusal (401, 403, 429, 503) comes
\* with long HTML; marks in the title; marks in a short text.  No such answer is
\* stored as content, by whichever method and after whichever others the page was
\* loaded, and none that is too large, or too thin for the method (http.py:161-209,
\* browser.py:331-403, adapters.py:55-80).
ContentOnly ==
  \A t \in Loads : got[t] # None =>
    /\ got[t].fits
    /\ got[t].status >= 400 => got[t].status \in Refusal /\ Shown(t) /\ got[t].text = "long"
    /\ Shown(t) => Method(t) # "adapter" /\ ~ got[t].title /\ (got[t].text = "short" => ~ got[t].sample)
    /\ Shown(t) /\ Method(t) = "auto" => ~ got[t].js /\ got[t].md = "full"
    /\ Shown(t) /\ Method(t) = "http" => got[t].md # "none"
=============================================================================
