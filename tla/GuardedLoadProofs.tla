------------------------- MODULE GuardedLoadProofs -------------------------
(***************************************************************************)
(* What GuardedLoad promises, for every number of loads, URLs, hosts,      *)
(* methods and redirects and for every length of the times.                *)
(*                                                                         *)
(* A step of a load sets the parts of that load alone, so what a load must *)
(* satisfy (LoadOK) is shown of the load that moves, helper by helper, and *)
(* holds of the others because nothing of theirs changes (OthersKept).     *)
(***************************************************************************)
EXTENDS GuardedLoad, TLAPS

Places == {"new", "checking", "lookup", "pace", "sleeping", "robots", "requesting",
           "loading", "settling", "extracting", "inspecting", "ended"}
Goals == {"pace", "api", "request", "hop", "visit", "store"} \cup Inspections
Methods == {"adapter", "auto", "browser", "http"}

\* The parts of a load that End, Try, Check and Allowed set.
ControlTyped ==
  /\ pc \in [Loads -> Places] /\ url \in [Loads -> Urls] /\ at \in [Loads -> Urls]
  /\ goal \in [Loads -> Goals] /\ plan \in [Loads -> Seq(Methods)]
  /\ hops \in [Loads -> 0..MaxHops] /\ got \in [Loads -> Responses \cup {None}]
  /\ requested \in [Loads -> SUBSET Urls] /\ checked \in [Loads -> SUBSET Urls]
  /\ barred \in [Loads -> BOOLEAN]

TimesTyped ==
  /\ asked \in [Loads -> 0..DnsTTL] /\ wait \in [Loads -> 0..MaxWait]
  /\ dns \in [Hosts -> [ok : BOOLEAN, left : 0..DnsTTL, age : 0..DnsTTL]]
  /\ slot \in [Hosts -> 0..(MaxWait + Interval)]
  /\ robots \in [Hosts -> {"unknown", "open", "closed"}]
  /\ gap \in [Hosts -> 0..Interval]

\* Where a load is, why, and by which method.
Placed(t) ==
  /\ pc[t] \in {"new", "pace", "sleeping", "robots", "ended"} => goal[t] = "pace"
  /\ pc[t] = "requesting" => goal[t] = "hop"
  /\ pc[t] = "loading" => goal[t] = "visit"
  /\ pc[t] \in {"settling", "extracting", "inspecting"} => goal[t] \in Inspections
  /\ goal[t] # "pace" => plan[t] # <<>>
  /\ goal[t] \in Inspections \cup {"visit"} => Head(plan[t]) = "browser"

\* What its browser page has requested and what of it was inspected.
Browsed(t) ==
  /\ checked[t] \subseteq requested[t]
  /\ pc[t] \in {"loading", "settling", "extracting"} => checked[t] = {}
  /\ goal[t] \in Inspections \/ pc[t] = "loading" => requested[t] # {}
  /\ requested[t] # {} => goal[t] \in Inspections \cup {"store"} \/ pc[t] = "loading"
  /\ pc[t] \in {"checking", "lookup"} /\ goal[t] \in Inspections => at[t] \in requested[t]
  /\ goal[t] = "store" /\ requested[t] # {} => requested[t] = checked[t] /\ ~ barred[t]

\* An answer that a method may make a page from.
Content(method, r) ==
  LET shown == r.html /\ method # "raw"
  IN  /\ r.fits
      /\ r.status >= 400 => r.status \in Refusal /\ shown /\ r.text = "long"
      /\ shown => method # "adapter" /\ ~ r.title /\ (r.text = "short" => ~ r.sample)
      /\ shown /\ method = "auto" => ~ r.js /\ r.md = "full"
      /\ shown /\ method = "http" => r.md # "none"

Held(t) == got[t] # None => goal[t] = "store" /\ Content(Method(t), got[t])

LoadOK(t) == Placed(t) /\ Browsed(t) /\ Held(t)

\* The verdict and the time since its question fit into the time it is kept.
DnsOK == \A h \in Hosts : Known(h) => dns[h].left + dns[h].age <= DnsTTL

\* The turns that are given lie an interval apart and behind the last one taken,
\* and the next one lies behind all of them.
TurnsApart ==
  /\ \A h \in Hosts : gap[h] + slot[h] >= Interval
  /\ \A t \in Loads : pc[t] = "sleeping" =>
       slot[HostAt(t)] >= wait[t] + Interval /\ gap[HostAt(t)] + wait[t] >= Interval
  /\ \A t, s \in Loads :
       t # s /\ HostAt(t) = HostAt(s) /\ pc[t] = "sleeping" /\ pc[s] = "sleeping" =>
         Interval <= wait[t] - wait[s] \/ Interval <= wait[s] - wait[t]

Control == ControlTyped /\ \A t \in Loads : LoadOK(t)
Times == TimesTyped /\ DnsOK /\ TurnsApart

Inv == Control /\ Times

-----------------------------------------------------------------------------
(* One load moves                                                          *)

\* A step of t leaves the other loads alone.
Only(t) ==
  /\ pc' = [pc EXCEPT ![t] = pc'[t]] /\ at' = [at EXCEPT ![t] = at'[t]]
  /\ goal' = [goal EXCEPT ![t] = goal'[t]] /\ plan' = [plan EXCEPT ![t] = plan'[t]]
  /\ hops' = [hops EXCEPT ![t] = hops'[t]] /\ got' = [got EXCEPT ![t] = got'[t]]
  /\ requested' = [requested EXCEPT ![t] = requested'[t]]
  /\ checked' = [checked EXCEPT ![t] = checked'[t]]
  /\ barred' = [barred EXCEPT ![t] = barred'[t]]
  /\ url' = url

\* Nobody falls asleep, and those who sleep keep their host.
NobodyPaced ==
  \A s \in Loads : pc'[s] = "sleeping" => pc[s] = "sleeping" /\ at'[s] = at[s]

LoadTyped(t) ==
  /\ pc[t] \in Places /\ at[t] \in Urls /\ goal[t] \in Goals /\ plan[t] \in Seq(Methods)
  /\ hops[t] \in 0..MaxHops /\ got[t] \in Responses \cup {None}
  /\ requested[t] \subseteq Urls /\ checked[t] \subseteq Urls /\ barred[t] \in BOOLEAN

\* A step of one load that leaves this load correct leaves all of them correct.
LEMMA OthersKept ==
  ASSUME NEW t \in Loads, Control, Only(t), LoadTyped(t)', LoadOK(t)'
  PROVE  Control' /\ (pc'[t] # "sleeping" => NobodyPaced)
<1>1. ControlTyped'
  BY DEF Control, ControlTyped, Only, LoadTyped
<1>2. ASSUME NEW s \in Loads, s # t
      PROVE  LoadOK(s)'
  <2>1. /\ pc'[s] = pc[s] /\ at'[s] = at[s] /\ goal'[s] = goal[s] /\ plan'[s] = plan[s]
        /\ got'[s] = got[s] /\ requested'[s] = requested[s] /\ checked'[s] = checked[s]
        /\ barred'[s] = barred[s]
    BY <1>2 DEF Control, ControlTyped, Only
  <2>2. LoadOK(s)
    BY DEF Control
  <2>3. Placed(s)'
    BY <2>1, <2>2 DEF LoadOK, Placed
  <2>4. Browsed(s)'
    BY <2>1, <2>2 DEF LoadOK, Browsed
  <2>5. Held(s)'
    BY <2>1, <2>2 DEF LoadOK, Held, Method
  <2> QED
    BY <2>3, <2>4, <2>5 DEF LoadOK
<1>3. pc'[t] # "sleeping" => NobodyPaced
  BY DEF NobodyPaced, Only, Control, ControlTyped
<1> QED
  BY <1>1, <1>2, <1>3 DEF Control

\* A load that is over is correct: it has forgotten everything.
LEMMA EndKept ==
  ASSUME NEW t \in Loads, Control, End(t), url' = url
  PROVE  Control' /\ NobodyPaced
<1> USE DEF Control, ControlTyped
<1>1. /\ pc'[t] = "ended" /\ at'[t] = url[t] /\ goal'[t] = "pace" /\ plan'[t] = <<>>
      /\ hops'[t] = 0 /\ got'[t] = None
      /\ requested'[t] = {} /\ checked'[t] = {} /\ ~ barred'[t]
  BY DEF End, Set
<1>2. Only(t)
  BY <1>1 DEF End, Set, Only
<1>3. LoadTyped(t)'
  BY <1>1, LoadAssumption DEF LoadTyped, Places, Goals, End, Set
<1>4. LoadOK(t)'
  BY <1>1 DEF LoadOK, Placed, Browsed, Held, Inspections
<1> QED
  BY <1>1, <1>2, <1>3, <1>4, OthersKept

\* A method begins with nothing requested; when none is left the load ends.
LEMMA TryKept ==
  ASSUME NEW t \in Loads, Control, NEW methods \in Seq(Methods), Try(t, methods), url' = url,
         goal[t] # "store"
  PROVE  Control' /\ NobodyPaced
<1>1. CASE methods = <<>>
  BY <1>1, EndKept DEF Try
<1>2. CASE methods # <<>>
  <2> USE DEF Control, ControlTyped
  <2>1. /\ pc'[t] = "checking" /\ at'[t] = url[t] /\ goal'[t] = FirstGoal(Head(methods))
        /\ plan'[t] = methods /\ hops'[t] = 0 /\ got' = got
        /\ requested'[t] = {} /\ checked'[t] = {} /\ ~ barred'[t]
    BY <1>2 DEF Try, Check, Set
  <2>2. /\ FirstGoal(Head(methods)) \in {"api", "visit", "request"}
        /\ FirstGoal(Head(methods)) = "visit" => Head(methods) = "browser"
    BY DEF FirstGoal
  <2>3. Only(t)
    BY <1>2, <2>1 DEF Try, Check, Set, Only
  <2>4. LoadTyped(t)'
    <3>1. barred'[t] \in BOOLEAN
      BY <1>2 DEF Try, Set
    <3> QED
      BY <2>1, <2>2, <3>1, LoadAssumption DEF LoadTyped, Places, Goals
  <2>5. got[t] = None
    BY DEF LoadOK, Held
  <2>6. LoadOK(t)'
    BY <1>2, <2>1, <2>2, <2>5 DEF LoadOK, Placed, Browsed, Held, Inspections
  <2> QED
    BY <2>1, <2>3, <2>4, <2>6, OthersKept
<1> QED
  BY <1>1, <1>2

\* blocked and fetch_failed leave a load correct.
LEMMA TryNextKept ==
  ASSUME NEW t \in Loads, Control, TryNext(t), url' = url, goal[t] \notin {"pace", "store"}
  PROVE  Control' /\ NobodyPaced
<1>1. plan[t] # <<>> /\ plan[t] \in Seq(Methods)
  BY DEF Control, ControlTyped, LoadOK, Placed
<1>2. Tail(plan[t]) \in Seq(Methods)
  BY <1>1
<1>3. PICK methods \in Seq(Methods) : methods = Tail(plan[t])
  BY <1>2
<1>4. Try(t, methods)
  BY <1>3 DEF TryNext, Try, Check, Set
<1>5. goal[t] # "store"
  OBVIOUS
<1> QED
  BY <1>4, <1>5, TryKept

\* A load that is told that the URL it checks is allowed, or that it is not.
LEMMA DecideKept ==
  ASSUME NEW t \in Loads, Control, NEW ok \in BOOLEAN, Decide(t, ok), url' = url,
         pc[t] \in {"checking", "lookup"}
  PROVE  Control' /\ NobodyPaced
<1> USE DEF Control, ControlTyped
<1>0. goal[t] \in Goals /\ LoadOK(t)
  OBVIOUS
<1>1. CASE ~ ok \/ goal[t] = "store"
  <2>1. End(t)
    BY <1>1 DEF Decide, Allowed, Inspections
  <2> QED
    BY <2>1, EndKept
<1>2. CASE ok /\ goal[t] \in {"pace", "hop"}
  <2>1. /\ pc'[t] \in {"pace", "requesting"} /\ (pc'[t] = "pace" <=> goal[t] = "pace")
        /\ pc' = [pc EXCEPT ![t] = pc'[t]]
        /\ UNCHANGED <<goal, at, checked, plan, hops, got, requested, barred>>
    BY <1>2 DEF Decide, Allowed, Set, Inspections
  <2>2. Only(t)
    BY <2>1 DEF Only
  <2>3. LoadTyped(t)'
    BY <2>1 DEF LoadTyped, Places, Goals
  <2>4. LoadOK(t)'
    BY <1>0, <1>2, <2>1 DEF LoadOK, Placed, Browsed, Held, Inspections, Method
  <2> QED
    BY <2>1, <2>2, <2>3, <2>4, OthersKept
<1>3. CASE ok /\ goal[t] \in {"api", "request"}
  <2>1. /\ pc'[t] = "checking" /\ goal'[t] \in {"request", "hop"} /\ at'[t] \in Urls
        /\ pc' = [pc EXCEPT ![t] = pc'[t]] /\ goal' = [goal EXCEPT ![t] = goal'[t]]
        /\ at' = [at EXCEPT ![t] = at'[t]]
        /\ UNCHANGED <<checked, plan, hops, got, requested, barred>>
    <3>1. CASE goal[t] = "api"
      <4>1. Check(t, ApiOf[url[t]], "request") /\ UNCHANGED <<checked, plan, hops, got, requested, barred>>
        BY <1>3, <3>1 DEF Decide, Allowed, Inspections
      <4> QED
        BY <4>1, LoadAssumption DEF Check, Set
    <3>2. CASE goal[t] = "request"
      <4>1. Check(t, at[t], "hop") /\ UNCHANGED <<checked, plan, hops, got, requested, barred>>
        BY <1>3, <3>2 DEF Decide, Allowed, Inspections
      <4> QED
        BY <4>1 DEF Check, Set
    <3> QED
      BY <1>3, <3>1, <3>2
  <2>2. Only(t)
    BY <2>1 DEF Only
  <2>3. LoadTyped(t)'
    BY <2>1 DEF LoadTyped, Places, Goals
  <2>4. LoadOK(t)'
    BY <1>0, <1>3, <2>1 DEF LoadOK, Placed, Browsed, Held, Inspections, Method
  <2> QED
    BY <2>1, <2>2, <2>3, <2>4, OthersKept
<1>4. CASE ok /\ goal[t] = "visit"
  <2>1. /\ pc'[t] = "loading" /\ requested'[t] = {url[t]}
        /\ pc' = [pc EXCEPT ![t] = pc'[t]] /\ requested' = [requested EXCEPT ![t] = requested'[t]]
        /\ UNCHANGED <<goal, at, checked, plan, hops, got, barred>>
    BY <1>4 DEF Decide, Allowed, Set, Inspections
  <2>2. Only(t)
    BY <2>1 DEF Only
  <2>3. LoadTyped(t)'
    BY <2>1 DEF LoadTyped, Places, Goals
  <2>4. requested[t] = {} /\ checked[t] = {}
    BY <1>0, <1>4 DEF LoadOK, Browsed, Inspections, Placed
  <2>5. LoadOK(t)'
    BY <1>0, <1>4, <2>1, <2>4 DEF LoadOK, Placed, Browsed, Held, Inspections, Method
  <2> QED
    BY <2>1, <2>2, <2>3, <2>5, OthersKept
<1>5. CASE ok /\ goal[t] \in Inspections
  <2>1. /\ pc'[t] = "inspecting" /\ checked'[t] = checked[t] \cup {at[t]} /\ at'[t] = url[t]
        /\ pc' = [pc EXCEPT ![t] = pc'[t]] /\ checked' = [checked EXCEPT ![t] = checked'[t]]
        /\ at' = [at EXCEPT ![t] = at'[t]]
        /\ UNCHANGED <<goal, plan, hops, got, requested, barred>>
    BY <1>5 DEF Decide, Allowed, Set, Inspections
  <2>2. Only(t)
    BY <2>1 DEF Only
  <2>3. LoadTyped(t)'
    BY <2>1 DEF LoadTyped, Places, Goals
  <2>4. LoadOK(t)'
    BY <1>0, <1>5, <2>1 DEF LoadOK, Placed, Browsed, Held, Inspections, Method
  <2> QED
    BY <2>1, <2>2, <2>3, <2>4, OthersKept
<1> QED
  BY <1>0, <1>1, <1>2, <1>3, <1>4, <1>5 DEF Goals

\* The parts of a page that an answer is judged by.
LEMMA ResultContent ==
  ASSUME NEW method \in Methods \cup {"raw"}, NEW r \in Answers, Result(method, r) = "page"
  PROVE  Content(method, r)
BY DEF Answers, Result, Read, Challenge, Refusal, Content, Methods

\* A page is made of an answer that was judged to be one.
LEMMA PageFromKept ==
  ASSUME NEW t \in Loads, Control, NEW r \in Responses, NEW final \in Urls, PageFrom(t, r, final),
         Content(Method(t), r), goal[t] # "pace", url' = url,
         requested[t] # {} => requested[t] = checked[t] /\ ~ barred[t]
  PROVE  Control' /\ NobodyPaced
<1> USE DEF Control, ControlTyped
<1>1. /\ pc'[t] = "checking" /\ at'[t] = final /\ goal'[t] = "store" /\ got'[t] = r /\ hops'[t] = 0
      /\ plan' = plan /\ requested' = requested /\ checked' = checked /\ barred' = barred
  BY DEF PageFrom, Check, Set, browserVars
<1>2. Only(t)
  BY <1>1 DEF PageFrom, Check, Set, Only
<1>3. LoadTyped(t)'
  BY <1>1, LoadAssumption DEF LoadTyped, Places, Goals
<1>4. Method(t)' = Method(t)
  BY <1>1 DEF Method
<1>5. LoadOK(t)'
  BY <1>1, <1>4 DEF LoadOK, Placed, Browsed, Held, Inspections
<1> QED
  BY <1>1, <1>2, <1>3, <1>5, OthersKept

-----------------------------------------------------------------------------
(* The actions of a load                                                   *)

\* Guard.check_url, with its question to the resolver.
LEMMA ChecksKept ==
  ASSUME NEW t \in Loads, Control, TimesTyped,
         Begin(t) \/ CheckByName(t) \/ CheckKnown(t) \/ Lookup(t) \/ Resolved(t) \/ Unresolved(t)
  PROVE  Control' /\ NobodyPaced
<1>1. HostAt(t) \in Hosts
  BY LoadAssumption DEF Control, ControlTyped, HostAt
<1>2. CASE Begin(t) \/ Lookup(t)
  <2> USE DEF Control, ControlTyped
  <2>1. /\ pc'[t] \in {"checking", "lookup"} /\ pc' = [pc EXCEPT ![t] = pc'[t]]
        /\ pc[t] \in {"new", "checking"}
        /\ UNCHANGED <<url, goal, at, plan, hops, got, requested, checked, barred>>
    BY <1>2 DEF Begin, Lookup, Set, browserVars
  <2>2. Only(t)
    BY <2>1 DEF Only
  <2>3. LoadTyped(t)'
    BY <2>1 DEF LoadTyped, Places, Goals
  <2>4. LoadOK(t)'
    BY <2>1 DEF LoadOK, Placed, Browsed, Held, Inspections, Method
  <2> QED
    BY <2>1, <2>2, <2>3, <2>4, OthersKept
<1>3. CASE CheckByName(t)
  BY <1>3, DecideKept DEF CheckByName
<1>4. CASE CheckKnown(t)
  <2>1. PICK ok \in BOOLEAN : ok = dns[HostAt(t)].ok
    BY <1>1 DEF TimesTyped
  <2>2. Decide(t, ok) /\ pc[t] = "checking" /\ url' = url
    BY <1>4, <2>1 DEF CheckKnown, Decide
  <2> QED
    BY <2>2, DecideKept
<1>5. CASE Resolved(t)
  <2>1. PICK ok \in BOOLEAN : Decide(t, ok)
    BY <1>5 DEF Resolved
  <2> QED
    BY <1>5, <2>1, DecideKept DEF Resolved
<1>6. CASE Unresolved(t)
  BY <1>6, DecideKept DEF Unresolved
<1> QED
  BY <1>2, <1>3, <1>4, <1>5, <1>6

\* Guard.before_fetch; only here a load may fall asleep.
LEMMA PaceKept ==
  ASSUME NEW t \in Loads, Control, Pace(t)
  PROVE  /\ Control'
         /\ \/ slot[HostAt(t)] > MaxWait /\ wait' = wait /\ NobodyPaced
            \/ /\ ~ (slot[HostAt(t)] > MaxWait) /\ wait' = [wait EXCEPT ![t] = slot[HostAt(t)]]
               /\ at' = at /\ pc' = [pc EXCEPT ![t] = "sleeping"]
<1>1. CASE slot[HostAt(t)] > MaxWait
  BY <1>1, EndKept DEF Pace
<1>2. CASE ~ (slot[HostAt(t)] > MaxWait)
  <2> USE DEF Control, ControlTyped
  <2>1. /\ pc'[t] = "sleeping" /\ pc' = [pc EXCEPT ![t] = "sleeping"] /\ pc[t] = "pace"
        /\ wait' = [wait EXCEPT ![t] = slot[HostAt(t)]]
        /\ UNCHANGED <<url, goal, at, plan, hops, got, requested, checked, barred>>
    BY <1>2 DEF Pace, Set, browserVars
  <2>2. Only(t)
    BY <2>1 DEF Only
  <2>3. LoadTyped(t)'
    BY <2>1 DEF LoadTyped, Places, Goals
  <2>4. LoadOK(t)'
    BY <2>1 DEF LoadOK, Placed, Browsed, Held, Inspections, Method
  <2> QED
    BY <1>2, <2>1, <2>2, <2>3, <2>4, OthersKept
<1> QED
  BY <1>1, <1>2

\* After the sleep: robots.txt, and the first method.
LEMMA RobotsKept ==
  ASSUME NEW t \in Loads, Control, Wake(t) \/ RobotsRead(t)
  PROVE  Control' /\ NobodyPaced
<1>1. /\ pc[t] \in {"sleeping", "robots"} /\ url' = url
      /\ \/ Try(t, plan[t])
         \/ End(t)
         \/ Set(pc, t, "robots") /\ UNCHANGED <<goal, at, plan, hops, got, browserVars>>
  BY DEF Wake, RobotsRead
<1>2. goal[t] = "pace"
  BY <1>1 DEF Control, LoadOK, Placed
<1>3. CASE Try(t, plan[t])
  <2>1. PICK methods \in Seq(Methods) : methods = plan[t]
    BY DEF Control, ControlTyped
  <2>2. Try(t, methods)
    BY <1>3, <2>1 DEF Try, Check, Set
  <2>3. goal[t] # "store"
    BY <1>2
  <2> QED
    BY <1>1, <2>2, <2>3, TryKept
<1>4. CASE End(t)
  BY <1>1, <1>4, EndKept
<1>5. CASE Set(pc, t, "robots") /\ UNCHANGED <<goal, at, plan, hops, got, browserVars>>
  <2> USE DEF Control, ControlTyped
  <2>1. /\ pc'[t] = "robots" /\ pc' = [pc EXCEPT ![t] = "robots"]
        /\ UNCHANGED <<url, goal, at, plan, hops, got, requested, checked, barred>>
    BY <1>1, <1>5 DEF Set, browserVars
  <2>2. Only(t)
    BY <2>1 DEF Only
  <2>3. LoadTyped(t)'
    BY <2>1 DEF LoadTyped, Places, Goals
  <2>4. LoadOK(t)'
    BY <1>1, <1>2, <2>1 DEF LoadOK, Placed, Browsed, Held, Inspections, Method
  <2> QED
    BY <2>1, <2>2, <2>3, <2>4, OthersKept
<1> QED
  BY <1>1, <1>3, <1>4, <1>5

\* A request over HTTP: a redirect, an answer or an error.
LEMMA RequestKept ==
  ASSUME NEW t \in Loads, Control, Redirected(t) \/ Answered(t) \/ RequestFails(t)
  PROVE  Control' /\ NobodyPaced
<1>1. pc[t] = "requesting" /\ url' = url
  BY DEF Redirected, Answered, RequestFails
<1>2. goal[t] = "hop" /\ plan[t] # <<>> /\ plan[t] \in Seq(Methods) /\ requested[t] = {} /\ got[t] = None
  BY <1>1 DEF Control, ControlTyped, LoadOK, Placed, Browsed, Held, Inspections
<1>3. CASE End(t)
  BY <1>1, <1>3, EndKept
<1>4. CASE TryNext(t)
  BY <1>1, <1>2, <1>4, TryNextKept
<1>5. CASE Redirected(t) /\ ~ TryNext(t)
  <2>1. PICK v \in Urls : /\ hops[t] < MaxHops
                          /\ Check(t, v, "hop") /\ Set(hops, t, hops[t] + 1)
                          /\ UNCHANGED <<plan, got, browserVars>>
    BY <1>5 DEF Redirected
  <2> USE DEF Control, ControlTyped
  <2>2. /\ pc'[t] = "checking" /\ at'[t] = v /\ goal'[t] = "hop" /\ hops'[t] = hops[t] + 1
        /\ pc' = [pc EXCEPT ![t] = pc'[t]] /\ goal' = [goal EXCEPT ![t] = goal'[t]]
        /\ at' = [at EXCEPT ![t] = at'[t]] /\ hops' = [hops EXCEPT ![t] = hops'[t]]
        /\ UNCHANGED <<plan, got, requested, checked, barred>>
    BY <2>1 DEF Check, Set, browserVars
  <2>3. Only(t)
    BY <1>1, <2>2 DEF Only
  <2>4. LoadTyped(t)'
    <3>1. hops[t] + 1 \in 0..MaxHops
      BY <2>1, LoadAssumption
    <3> QED
      BY <2>2, <3>1 DEF LoadTyped, Places, Goals
  <2>5. LoadOK(t)'
    BY <1>2, <2>2 DEF LoadOK, Placed, Browsed, Held, Inspections, Method
  <2> QED
    BY <2>2, <2>3, <2>4, <2>5, OthersKept
<1>6. CASE Answered(t) /\ ~ TryNext(t) /\ ~ End(t)
  <2>1. PICK r \in Responses :
          /\ Result(Method(t), r) = "page"
          /\ PageFrom(t, r, IF Method(t) = "adapter" THEN url[t] ELSE at[t])
    BY <1>6 DEF Answered
  <2>2. PICK final \in Urls : final = IF Method(t) = "adapter" THEN url[t] ELSE at[t]
    BY DEF Control, ControlTyped
  <2>3. PageFrom(t, r, final)
    BY <2>1, <2>2 DEF PageFrom, Check, Set
  <2>4. PICK method \in Methods \cup {"raw"} : method = Method(t)
    BY <1>2 DEF Method
  <2>5. Content(Method(t), r)
    <3>1. r \in Answers /\ Result(method, r) = "page"
      BY <2>1, <2>4, LoadAssumption
    <3>2. Content(method, r)
      BY <3>1, ResultContent
    <3> QED
      BY <2>4, <3>2
  <2>6. goal[t] # "pace" /\ requested[t] = {}
    BY <1>2
  <2> QED
    BY <1>1, <2>3, <2>5, <2>6, PageFromKept
<1> QED
  BY <1>3, <1>4, <1>5, <1>6 DEF RequestFails

-----------------------------------------------------------------------------
(* The actions of a browser page                                           *)

\* The page requests something, whenever the load waits.
LEMMA BrowserRequestsKept ==
  ASSUME NEW t \in Loads, Control, BrowserRequests(t)
  PROVE  Control' /\ NobodyPaced
<1> USE DEF Control, ControlTyped
<1>1. PICK v \in Urls : /\ Set(requested, t, requested[t] \cup {v})
                        /\ Routed(t, v) \/ UNCHANGED <<barred, dns>>
  BY DEF BrowserRequests
<1>2. /\ \/ pc[t] \in {"loading", "settling", "extracting"}
         \/ pc[t] = "lookup" /\ goal[t] \in Inspections
      /\ UNCHANGED <<pc, url, goal, at, plan, hops, got, checked>>
  BY DEF BrowserRequests, loadVars
<1>3. barred' = [barred EXCEPT ![t] = barred'[t]] /\ barred'[t] \in BOOLEAN
  <2>1. CASE barred' = barred
    BY <2>1
  <2>2. CASE Set(barred, t, TRUE)
    BY <2>2 DEF Set
  <2>3. CASE \E ok \in BOOLEAN : Set(barred, t, barred[t] \/ ~ ok)
    <3>1. PICK ok \in BOOLEAN : Set(barred, t, barred[t] \/ ~ ok)
      BY <2>3
    <3>2. PICK b \in BOOLEAN : b = (barred[t] \/ ~ ok)
      OBVIOUS
    <3>3. barred' = [barred EXCEPT ![t] = b]
      BY <3>1, <3>2 DEF Set
    <3> QED
      BY <3>3
  <2> QED
    BY <1>1, <2>1, <2>2, <2>3 DEF Routed
<1>4. requested'[t] = requested[t] \cup {v} /\ requested' = [requested EXCEPT ![t] = requested'[t]]
  BY <1>1 DEF Set
<1>5. Only(t)
  BY <1>2, <1>3, <1>4 DEF Only
<1>6. LoadTyped(t)'
  BY <1>2, <1>3, <1>4 DEF LoadTyped, Places, Goals
<1>7. requested[t] # {} /\ goal[t] # "store"
  BY <1>2 DEF LoadOK, Placed, Browsed, Inspections
<1>8. LoadOK(t)'
  BY <1>2, <1>4, <1>7 DEF LoadOK, Placed, Browsed, Held, Inspections, Method
<1> QED
  BY <1>2, <1>5, <1>6, <1>8, OthersKept

\* goto, settle and extract end in an inspection, and the inspection asks for
\* one URL after another.
LEMMA InspectKept ==
  ASSUME NEW t \in Loads, Control, BrowserStage(t) \/ Inspect(t)
  PROVE  Control' /\ NobodyPaced
<1> USE DEF Control, ControlTyped
<1>1. CASE BrowserStage(t)
  <2>1. /\ pc'[t] = "inspecting" /\ goal'[t] \in Inspections /\ checked'[t] = {}
        /\ pc' = [pc EXCEPT ![t] = pc'[t]] /\ goal' = [goal EXCEPT ![t] = goal'[t]]
        /\ checked' = [checked EXCEPT ![t] = checked'[t]]
        /\ pc[t] \in {"loading", "settling", "extracting"}
        /\ UNCHANGED <<url, at, plan, hops, got, requested, barred>>
    BY <1>1 DEF BrowserStage, Set, Inspections
  <2>2. Only(t)
    BY <2>1 DEF Only
  <2>3. LoadTyped(t)'
    BY <2>1 DEF LoadTyped, Places, Goals
  <2>4. LoadOK(t)'
    BY <2>1 DEF LoadOK, Placed, Browsed, Held, Inspections, Method
  <2> QED
    BY <2>1, <2>2, <2>3, <2>4, OthersKept
<1>2. CASE Inspect(t)
  <2>1. /\ pc'[t] = "checking" /\ at'[t] \in requested[t] /\ pc[t] = "inspecting"
        /\ pc' = [pc EXCEPT ![t] = pc'[t]] /\ at' = [at EXCEPT ![t] = at'[t]]
        /\ UNCHANGED <<url, goal, plan, hops, got, requested, checked, barred>>
    BY <1>2 DEF Inspect, Set, Pending, browserVars
  <2>2. Only(t)
    BY <2>1 DEF Only
  <2>3. LoadTyped(t)'
    BY <2>1 DEF LoadTyped, Places, Goals
  <2>4. LoadOK(t)'
    BY <2>1 DEF LoadOK, Placed, Browsed, Held, Inspections, Method
  <2> QED
    BY <2>1, <2>2, <2>3, <2>4, OthersKept
<1> QED
  BY <1>1, <1>2

\* The end of an inspection: only one that is complete leads to a page.
LEMMA InspectedKept ==
  ASSUME NEW t \in Loads, Control, Inspected(t)
  PROVE  Control' /\ NobodyPaced
<1>1. pc[t] = "inspecting" /\ url' = url /\ Pending(t) = {}
  BY DEF Inspected
<1>2. /\ goal[t] \in Inspections /\ plan[t] # <<>> /\ plan[t] \in Seq(Methods)
      /\ Head(plan[t]) = "browser" /\ requested[t] # {} /\ requested[t] = checked[t]
  <2>1. /\ requested[t] \subseteq Urls /\ checked[t] \subseteq requested[t]
        /\ requested[t] \ checked[t] = {}
    BY <1>1 DEF Control, ControlTyped, LoadOK, Browsed, Pending
  <2>2. requested[t] = checked[t]
    BY <2>1
  <2>3. goal[t] \in Inspections /\ plan[t] \in Seq(Methods)
    BY <1>1 DEF Control, ControlTyped, LoadOK, Placed
  <2>4. plan[t] # <<>> /\ Head(plan[t]) = "browser"
    BY <2>3 DEF Control, LoadOK, Placed, Inspections
  <2>5. requested[t] # {}
    BY <2>3 DEF Control, LoadOK, Browsed
  <2> QED
    BY <2>2, <2>3, <2>4, <2>5
<1>3. CASE End(t)
  BY <1>1, <1>3, EndKept
<1>4. CASE TryNext(t)
  <2>1. goal[t] \notin {"pace", "store"}
    BY <1>2 DEF Inspections
  <2> QED
    BY <1>1, <1>4, <2>1, TryNextKept
<1>5. CASE /\ Set(pc, t, "settling") \/ Set(pc, t, "extracting")
           /\ Set(checked, t, {})
           /\ UNCHANGED <<goal, at, plan, hops, got, requested, barred>>
  <2> USE DEF Control, ControlTyped
  <2>1. /\ pc'[t] \in {"settling", "extracting"} /\ checked'[t] = {}
        /\ pc' = [pc EXCEPT ![t] = pc'[t]] /\ checked' = [checked EXCEPT ![t] = checked'[t]]
        /\ UNCHANGED <<goal, at, plan, hops, got, requested, barred>>
    BY <1>5 DEF Set
  <2>2. Only(t)
    BY <1>1, <2>1 DEF Only
  <2>3. LoadTyped(t)'
    BY <2>1 DEF LoadTyped, Places, Goals
  <2>4. LoadOK(t)'
    BY <1>2, <2>1 DEF LoadOK, Placed, Browsed, Held, Inspections, Method
  <2> QED
    BY <2>1, <2>2, <2>3, <2>4, OthersKept
<1>6. CASE /\ ~ barred[t] /\ goal[t] = "extract"
           /\ \E final \in requested[t], r \in {s \in Responses : Result("browser", s) = "page"} :
                PageFrom(t, r, final)
  <2>1. PICK final \in requested[t], r \in Responses : Result("browser", r) = "page" /\ PageFrom(t, r, final)
    BY <1>6
  <2>2. final \in Urls
    BY DEF Control, ControlTyped
  <2>3. Method(t) = "browser"
    BY <1>2 DEF Method
  <2>4. Content(Method(t), r)
    <3>1. r \in Answers /\ "browser" \in Methods \cup {"raw"}
      BY LoadAssumption DEF Methods
    <3>2. Content("browser", r)
      BY <2>1, <3>1, ResultContent
    <3> QED
      BY <2>3, <3>2
  <2>5. goal[t] # "pace" /\ (requested[t] # {} => requested[t] = checked[t] /\ ~ barred[t])
    BY <1>2, <1>6
  <2> QED
    BY <1>1, <2>1, <2>2, <2>4, <2>5, PageFromKept
<1> QED
  BY <1>3, <1>4, <1>5, <1>6 DEF Inspected

\* The page turns out to be a file, or fails.
LEMMA BrowserEndsKept ==
  ASSUME NEW t \in Loads, Control, Download(t) \/ BrowserFails(t)
  PROVE  Control' /\ NobodyPaced
<1>1. CASE Download(t)
  <2> USE DEF Control, ControlTyped
  <2>1. /\ pc'[t] = "checking" /\ at'[t] = url[t] /\ goal'[t] = "hop" /\ requested'[t] = {}
        /\ pc' = [pc EXCEPT ![t] = pc'[t]] /\ goal' = [goal EXCEPT ![t] = goal'[t]]
        /\ at' = [at EXCEPT ![t] = at'[t]] /\ requested' = [requested EXCEPT ![t] = requested'[t]]
        /\ pc[t] \in {"settling", "inspecting"} /\ checked'[t] = {}
        /\ checked' = [checked EXCEPT ![t] = checked'[t]]
        /\ UNCHANGED <<url, plan, hops, got, barred>>
    BY <1>1 DEF Download, Check, Set
  <2>2. goal[t] \in Inspections /\ plan[t] # <<>> /\ got[t] = None
    BY <2>1 DEF LoadOK, Placed, Browsed, Held, Inspections
  <2>3. Only(t)
    BY <2>1 DEF Only
  <2>4. LoadTyped(t)'
    BY <2>1 DEF LoadTyped, Places, Goals
  <2>5. LoadOK(t)'
    BY <2>1, <2>2 DEF LoadOK, Placed, Browsed, Held, Inspections
  <2> QED
    BY <2>1, <2>3, <2>4, <2>5, OthersKept
<1>2. CASE BrowserFails(t)
  <2>1. pc[t] \in {"loading", "settling", "extracting"} /\ url' = url /\ (End(t) \/ TryNext(t))
    BY <1>2 DEF BrowserFails
  <2>2. goal[t] \notin {"pace", "store"}
    BY <2>1 DEF Control, LoadOK, Placed, Inspections
  <2>3. CASE End(t)
    BY <2>1, <2>3, EndKept
  <2>4. CASE TryNext(t)
    BY <2>1, <2>2, <2>4, TryNextKept
  <2> QED
    BY <2>1, <2>3, <2>4
<1> QED
  BY <1>1, <1>2

-----------------------------------------------------------------------------
(* Verdicts and turns                                                      *)

\* Loads that neither fall asleep nor wake leave the turns alone.
LEMMA TurnsLeft ==
  ASSUME TurnsApart, NobodyPaced, UNCHANGED <<slot, wait, gap>>
  PROVE  TurnsApart'
BY DEF TurnsApart, NobodyPaced, HostAt

\* Pace gives a turn behind all that were given.
LEMMA PaceTurns ==
  ASSUME NEW t \in Loads, Control, Times, Pace(t)
  PROVE  Times'
<1> DEFINE h == HostAt(t)
<1>1. /\ h \in Hosts /\ slot[h] \in 0..(MaxWait + Interval) /\ gap[h] \in 0..Interval
      /\ MaxWait \in Nat /\ Interval \in Nat
  BY LoadAssumption DEF Control, ControlTyped, Times, TimesTyped, HostAt
<1>2. dns' = dns /\ robots' = robots /\ asked' = asked /\ gap' = gap
  BY DEF Pace
<1>3. DnsOK'
  BY <1>2 DEF Times, DnsOK, Known
<1>4. CASE slot[h] > MaxWait
  <2>1. wait' = wait /\ NobodyPaced
    BY <1>1, <1>4, PaceKept
  <2>2. slot' = slot
    BY <1>1, <1>4 DEF Pace, Reserve, Times, TimesTyped
  <2>3. TurnsApart'
    BY <1>2, <2>1, <2>2, TurnsLeft DEF Times
  <2> QED
    BY <1>2, <1>3, <2>1, <2>2, <2>3 DEF Times, TimesTyped
<1>5. CASE ~ (slot[h] > MaxWait)
  <2>1. /\ wait' = [wait EXCEPT ![t] = slot[h]] /\ at' = at
        /\ pc' = [pc EXCEPT ![t] = "sleeping"]
    BY <1>1, <1>5, PaceKept
  <2>2. slot' = [slot EXCEPT ![h] = slot[h] + Interval]
    BY <1>1, <1>5 DEF Pace, Reserve
  <2>3. TimesTyped'
    BY <1>1, <1>2, <1>5, <2>1, <2>2 DEF Times, TimesTyped
  <2>4. \A g \in Hosts : /\ slot'[g] = IF g = h THEN slot[h] + Interval ELSE slot[g]
                         /\ slot[g] \in Nat /\ gap[g] \in Nat
    BY <1>1, <2>2 DEF Times, TimesTyped
  <2>5. \A s \in Loads : /\ wait'[s] = IF s = t THEN slot[h] ELSE wait[s]
                         /\ wait[s] \in Nat
                         /\ s # t => pc'[s] = pc[s]
                         /\ HostOf[at[s]] \in Hosts /\ at'[s] = at[s]
    BY <2>1, LoadAssumption DEF Control, ControlTyped, Times, TimesTyped
  <2>6. \A g \in Hosts : gap[g] + slot'[g] >= Interval
    BY <1>1, <2>4 DEF Times, TurnsApart
  <2>7. \A s \in Loads : s # t /\ pc'[s] = "sleeping" =>
          /\ slot[HostOf[at[s]]] >= wait[s] + Interval
          /\ gap[HostOf[at[s]]] + wait[s] >= Interval
    BY <2>5 DEF Times, TurnsApart, HostAt
  <2>8. \A s \in Loads : pc'[s] = "sleeping" =>
          /\ slot'[HostOf[at[s]]] >= wait'[s] + Interval
          /\ gap[HostOf[at[s]]] + wait'[s] >= Interval
    <3>1. TAKE s \in Loads
    <3>2. HAVE pc'[s] = "sleeping"
    <3>3. CASE s = t
      <4>1. gap[h] + slot[h] >= Interval
        BY <1>1 DEF Times, TurnsApart
      <4> QED
        BY <1>1, <2>4, <2>5, <3>3, <4>1 DEF HostAt
    <3>4. CASE s # t
      BY <1>1, <2>4, <2>5, <2>7, <3>2, <3>4
    <3> QED
      BY <3>3, <3>4
  <2>9. \A r, s \in Loads : r # s /\ HostOf[at[r]] = HostOf[at[s]] /\ pc'[r] = "sleeping" /\ pc'[s] = "sleeping" =>
          Interval <= wait'[r] - wait'[s] \/ Interval <= wait'[s] - wait'[r]
    <3>1. TAKE r, s \in Loads
    <3>2. HAVE r # s /\ HostOf[at[r]] = HostOf[at[s]] /\ pc'[r] = "sleeping" /\ pc'[s] = "sleeping"
    <3>3. CASE r = t
      <4>1. slot[h] >= wait[s] + Interval
        BY <2>7, <3>2, <3>3 DEF HostAt
      <4> QED
        BY <1>1, <2>5, <3>2, <3>3, <4>1
    <3>4. CASE s = t
      <4>1. slot[h] >= wait[r] + Interval
        BY <2>7, <3>2, <3>4 DEF HostAt
      <4> QED
        BY <1>1, <2>5, <3>2, <3>4, <4>1
    <3>5. CASE t \notin {r, s}
      BY <2>5, <3>2, <3>5 DEF Times, TurnsApart, HostAt
    <3> QED
      BY <3>3, <3>4, <3>5
  <2> QED
    BY <1>2, <1>3, <2>1, <2>3, <2>6, <2>8, <2>9 DEF Times, TurnsApart, HostAt
<1> QED
  BY <1>4, <1>5

\* A load that takes its turn does so an interval after the last one, and the
\* others are an interval behind it.
LEMMA WakeTurns ==
  ASSUME NEW t \in Loads, Control, Times, Wake(t), NobodyPaced
  PROVE  TurnsApart' /\ gap' \in [Hosts -> 0..Interval]
<1> DEFINE h == HostAt(t)
<1>1. h \in Hosts /\ Interval \in Nat /\ pc[t] = "sleeping" /\ wait[t] = 0
  BY LoadAssumption DEF Control, ControlTyped, HostAt, Wake
<1>2. gap' = [gap EXCEPT ![h] = 0] /\ UNCHANGED <<slot, wait>>
  BY DEF Wake
<1>3. gap' \in [Hosts -> 0..Interval]
  BY <1>1, <1>2 DEF Times, TimesTyped
<1>4. \A g \in Hosts : slot[g] \in Nat /\ gap[g] \in Nat /\ gap'[g] = IF g = h THEN 0 ELSE gap[g]
  BY <1>1, <1>2, LoadAssumption DEF Times, TimesTyped
<1>5. pc'[t] # "sleeping"
  BY DEF Wake, Try, End, Check, Set, Control, ControlTyped
<1>6. slot[h] >= Interval
  BY <1>1, <1>4 DEF Times, TurnsApart
<1>7. \A s \in Loads : HostOf[at[s]] \in Hosts /\ wait[s] \in Nat
  BY LoadAssumption DEF Control, ControlTyped, Times, TimesTyped
<1>8. \A g \in Hosts : gap'[g] + slot[g] >= Interval
  BY <1>1, <1>4, <1>6 DEF Times, TurnsApart
<1>9. \A s \in Loads : pc'[s] = "sleeping" =>
        /\ s # t /\ pc[s] = "sleeping" /\ at'[s] = at[s]
        /\ slot[HostOf[at[s]]] >= wait[s] + Interval
        /\ gap'[HostOf[at[s]]] + wait[s] >= Interval
  <2>1. TAKE s \in Loads
  <2>2. HAVE pc'[s] = "sleeping"
  <2>3. s # t /\ pc[s] = "sleeping" /\ at'[s] = at[s]
    BY <1>5, <2>2 DEF NobodyPaced
  <2>4. slot[HostOf[at[s]]] >= wait[s] + Interval /\ gap[HostOf[at[s]]] + wait[s] >= Interval
    BY <2>3 DEF Times, TurnsApart, HostAt
  <2>5. HostOf[at[s]] = h => Interval <= wait[s]
    <3>1. HAVE HostOf[at[s]] = h
    <3>2. Interval <= wait[t] - wait[s] \/ Interval <= wait[s] - wait[t]
      BY <1>1, <2>3, <3>1 DEF Times, TurnsApart, HostAt
    <3>3. Interval > 0
      BY LoadAssumption
    <3> QED
      BY <1>1, <1>7, <3>2, <3>3
  <2> QED
    BY <1>1, <1>4, <1>7, <2>3, <2>4, <2>5
<1>10. \A r, s \in Loads :
         r # s /\ HostOf[at'[r]] = HostOf[at'[s]] /\ pc'[r] = "sleeping" /\ pc'[s] = "sleeping" =>
           Interval <= wait[r] - wait[s] \/ Interval <= wait[s] - wait[r]
  BY <1>9 DEF Times, TurnsApart, HostAt
<1> QED
  BY <1>2, <1>3, <1>8, <1>9, <1>10 DEF TurnsApart, HostAt

\* A verdict is kept from its question on, so it is used for less than DnsTTL.
LEMMA DnsKept ==
  ASSUME NEW t \in Loads, Control, TimesTyped, DnsOK, Resolved(t) \/ RobotsRead(t) \/ BrowserRequests(t)
  PROVE  /\ dns' \in [Hosts -> [ok : BOOLEAN, left : 0..DnsTTL, age : 0..DnsTTL]]
         /\ DnsOK'
<1>1. DnsTTL \in Nat /\ DnsTTL > 0
  BY LoadAssumption
<1>2. CASE RobotsRead(t)
  <2>1. PICK hosts \in SUBSET Hosts, ok \in [Hosts -> BOOLEAN] :
          dns' = [h \in Hosts |-> IF h \in hosts THEN [ok |-> ok[h], left |-> DnsTTL, age |-> 0] ELSE dns[h]]
    BY <1>2 DEF RobotsRead, RobotsLookups
  <2>2. ASSUME NEW h \in Hosts
        PROVE  /\ dns'[h] \in [ok : BOOLEAN, left : 0..DnsTTL, age : 0..DnsTTL]
               /\ dns'[h].left > 0 => dns'[h].left + dns'[h].age <= DnsTTL
    BY <1>1, <2>1 DEF TimesTyped, DnsOK, Known
  <2>3. dns' = [h \in Hosts |-> dns'[h]]
    BY <2>1
  <2> QED
    BY <2>2, <2>3 DEF DnsOK, Known
<1>3. CASE Resolved(t) \/ BrowserRequests(t)
  <2>1. DnsTTL \in Nat /\ DnsTTL > 0
    BY <1>1
  <2>2. SUFFICES ASSUME NEW h \in Hosts, NEW v \in [ok : BOOLEAN, left : 0..DnsTTL, age : 0..DnsTTL],
                        v.left > 0 => v.left + v.age <= DnsTTL,
                        dns' = [dns EXCEPT ![h] = v] \/ dns' = dns
                 PROVE  /\ dns' \in [Hosts -> [ok : BOOLEAN, left : 0..DnsTTL, age : 0..DnsTTL]]
                        /\ DnsOK'
    <3>1. CASE Resolved(t)
      <4>1. PICK ok \in BOOLEAN : dns' = [dns EXCEPT ![HostAt(t)] = Verdict(t, ok)]
        BY <3>1 DEF Resolved
      <4>2. HostAt(t) \in Hosts /\ asked[t] \in 0..DnsTTL
        BY LoadAssumption DEF Control, ControlTyped, TimesTyped, HostAt
      <4>3. /\ Verdict(t, ok) \in [ok : BOOLEAN, left : 0..DnsTTL, age : 0..DnsTTL]
            /\ Verdict(t, ok).left > 0 => Verdict(t, ok).left + Verdict(t, ok).age <= DnsTTL
        BY <2>1, <4>2 DEF Verdict, Unasked
      <4> QED
        BY <2>2, <4>1, <4>2, <4>3
    <3>2. CASE BrowserRequests(t)
      <4>1. PICK u \in Urls : Routed(t, u) \/ UNCHANGED dns
        BY <3>2 DEF BrowserRequests
      <4>2. HostOf[u] \in Hosts
        BY LoadAssumption
      <4>3. CASE dns' = dns
        BY <2>1, <2>2, <4>2, <4>3 DEF TimesTyped, DnsOK, Known
      <4>4. CASE dns' # dns
        <5>1. PICK ok \in BOOLEAN : dns' = [dns EXCEPT ![HostOf[u]] = [ok |-> ok, left |-> DnsTTL, age |-> 0]]
          BY <4>1, <4>4 DEF Routed
        <5>2. PICK v \in [ok : BOOLEAN, left : 0..DnsTTL, age : 0..DnsTTL] : v = [ok |-> ok, left |-> DnsTTL, age |-> 0]
          <6>1. DnsTTL \in 0..DnsTTL /\ 0 \in 0..DnsTTL
            BY <2>1
          <6>2. [ok |-> ok, left |-> DnsTTL, age |-> 0] \in [ok : BOOLEAN, left : 0..DnsTTL, age : 0..DnsTTL]
            BY <6>1
          <6> QED
            BY <6>2
        <5>3. v.left + v.age <= DnsTTL /\ dns' = [dns EXCEPT ![HostOf[u]] = v]
          BY <2>1, <5>1, <5>2
        <5> QED
          BY <2>2, <4>2, <5>3
      <4> QED
        BY <4>3, <4>4
    <3> QED
      BY <1>3, <3>1, <3>2
  <2>3. dns' \in [Hosts -> [ok : BOOLEAN, left : 0..DnsTTL, age : 0..DnsTTL]]
    BY <2>2 DEF TimesTyped
  <2>4. ASSUME NEW g \in Hosts, dns'[g].left > 0
        PROVE  dns'[g].left + dns'[g].age <= DnsTTL
    BY <2>2, <2>4 DEF TimesTyped, DnsOK, Known
  <2> QED
    BY <2>3, <2>4 DEF DnsOK, Known
<1> QED
  BY <1>2, <1>3

\* The clock: everybody's times go down together, so the turns stay apart.
LEMMA TickKept ==
  ASSUME Inv, Tick
  PROVE  Inv'
<1>1. UNCHANGED <<pc, url, goal, at, plan, hops, got, requested, checked, barred, robots>>
  BY DEF Tick, browserVars
<1>2. DnsTTL \in Nat /\ DnsTTL > 0 /\ Interval \in Nat /\ Interval > 0 /\ MaxWait \in Nat
  BY LoadAssumption
<1>3. Control'
  <2>1. ControlTyped'
    BY <1>1 DEF Inv, Control, ControlTyped
  <2>2. \A t \in Loads : Placed(t)'
    BY <1>1 DEF Inv, Control, LoadOK, Placed
  <2>3. \A t \in Loads : Browsed(t)'
    BY <1>1 DEF Inv, Control, LoadOK, Browsed
  <2>4. \A t \in Loads : Held(t)'
    BY <1>1 DEF Inv, Control, LoadOK, Held, Method
  <2> QED
    BY <2>1, <2>2, <2>3, <2>4 DEF Control, LoadOK
<1>4. ASSUME NEW h \in Hosts
      PROVE  /\ dns'[h] \in [ok : BOOLEAN, left : 0..DnsTTL, age : 0..DnsTTL]
             /\ dns'[h].left > 0 => dns'[h].left + dns'[h].age <= DnsTTL
  <2>1. /\ dns[h] \in [ok : BOOLEAN, left : 0..DnsTTL, age : 0..DnsTTL]
        /\ dns[h].left > 0 => dns[h].left + dns[h].age <= DnsTTL
    BY DEF Inv, Times, TimesTyped, DnsOK, Known
  <2>2. CASE dns[h].left > 1
    <3>1. dns'[h] = [dns[h] EXCEPT !.left = @ - 1, !.age = Up(@)]
      BY <2>2 DEF Tick
    <3>2. dns[h].age < DnsTTL
      BY <1>2, <2>1, <2>2
    <3>3. dns'[h] = [ok |-> dns[h].ok, left |-> dns[h].left - 1, age |-> dns[h].age + 1]
      BY <2>1, <3>1, <3>2 DEF Up
    <3> QED
      BY <1>2, <2>1, <2>2, <3>2, <3>3
  <2>3. CASE ~ (dns[h].left > 1)
    <3>1. dns'[h] = [ok |-> TRUE, left |-> 0, age |-> DnsTTL]
      BY <2>3 DEF Tick, Unasked
    <3> QED
      BY <1>2, <3>1
  <2> QED
    BY <2>2, <2>3
<1>5. /\ \A h \in Hosts : slot'[h] = Down(slot[h]) /\ slot[h] \in 0..(MaxWait + Interval)
      /\ \A t \in Loads : /\ wait'[t] = Down(wait[t]) /\ wait[t] \in 0..MaxWait
                          /\ HostOf[at[t]] \in Hosts
  BY LoadAssumption DEF Inv, Control, ControlTyped, Times, TimesTyped, Tick
<1>6. TimesTyped'
  <2>1. dns' \in [Hosts -> [ok : BOOLEAN, left : 0..DnsTTL, age : 0..DnsTTL]]
    <3>1. dns' = [h \in Hosts |-> dns'[h]]
      BY DEF Tick
    <3> QED
      BY <1>4, <3>1
  <2>2. asked' \in [Loads -> 0..DnsTTL]
    <3>1. \A t \in Loads : (IF pc[t] = "lookup" THEN Up(asked[t]) ELSE 0) \in 0..DnsTTL
      BY <1>2 DEF Inv, Times, TimesTyped, Up
    <3> QED
      BY <3>1 DEF Tick
  <2>3. wait' \in [Loads -> 0..MaxWait]
    <3>1. \A t \in Loads : Down(wait[t]) \in 0..MaxWait
      BY <1>2, <1>5 DEF Down
    <3> QED
      BY <3>1 DEF Tick
  <2>4. slot' \in [Hosts -> 0..(MaxWait + Interval)]
    <3>1. \A h \in Hosts : Down(slot[h]) \in 0..(MaxWait + Interval)
      BY <1>2, <1>5 DEF Down
    <3> QED
      BY <3>1 DEF Tick
  <2>5. gap' \in [Hosts -> 0..Interval]
    <3>1. \A h \in Hosts : (IF gap[h] < Interval THEN gap[h] + 1 ELSE Interval) \in 0..Interval
      BY <1>2 DEF Inv, Times, TimesTyped
    <3> QED
      BY <3>1 DEF Tick
  <2> QED
    BY <1>1, <2>1, <2>2, <2>3, <2>4, <2>5 DEF Inv, Times, TimesTyped
<1>7. \A t \in Loads : pc[t] = "sleeping" => wait[t] > 0
  <2>1. TAKE t \in Loads
  <2>2. ~ AtOnce(t)
    BY DEF Tick
  <2> QED
    BY <1>2, <1>5, <2>2 DEF AtOnce
<1>8. \A h \in Hosts : gap'[h] = (IF gap[h] < Interval THEN gap[h] + 1 ELSE Interval) /\ gap[h] \in 0..Interval
  BY DEF Inv, Times, TimesTyped, Tick
<1>9. \A h \in Hosts : gap'[h] + slot'[h] >= Interval
  <2>1. \A h \in Hosts : gap[h] + slot[h] >= Interval
    BY DEF Inv, Times, TurnsApart
  <2> QED
    BY <1>2, <1>5, <1>8, <2>1 DEF Down
<1>10. \A t \in Loads : pc[t] = "sleeping" =>
         slot'[HostOf[at[t]]] >= wait'[t] + Interval /\ gap'[HostOf[at[t]]] + wait'[t] >= Interval
  <2>1. TAKE t \in Loads
  <2>2. HAVE pc[t] = "sleeping"
  <2>3. slot[HostOf[at[t]]] >= wait[t] + Interval /\ gap[HostOf[at[t]]] + wait[t] >= Interval
    BY <2>2 DEF Inv, Times, TurnsApart, HostAt
  <2> QED
    BY <1>2, <1>5, <1>7, <1>8, <2>2, <2>3 DEF Down
<1>11. \A t, s \in Loads :
         t # s /\ HostOf[at[t]] = HostOf[at[s]] /\ pc[t] = "sleeping" /\ pc[s] = "sleeping" =>
           Interval <= wait'[t] - wait'[s] \/ Interval <= wait'[s] - wait'[t]
  <2>1. TAKE t, s \in Loads
  <2>2. HAVE t # s /\ HostOf[at[t]] = HostOf[at[s]] /\ pc[t] = "sleeping" /\ pc[s] = "sleeping"
  <2>3. Interval <= wait[t] - wait[s] \/ Interval <= wait[s] - wait[t]
    BY <2>2 DEF Inv, Times, TurnsApart, HostAt
  <2> QED
    BY <1>2, <1>5, <1>7, <2>2, <2>3 DEF Down
<1>12. TurnsApart'
  BY <1>1, <1>9, <1>10, <1>11 DEF TurnsApart, HostAt
<1> QED
  BY <1>3, <1>4, <1>6, <1>12 DEF Inv, Times, DnsOK, Known

-----------------------------------------------------------------------------

\* No load has begun, and nothing is known of any host.
LEMMA InvInit == Init => Inv
<1> SUFFICES ASSUME Init PROVE Inv
  OBVIOUS
<1>1. ControlTyped
  BY LoadAssumption DEF Init, ControlTyped, Places, Goals, Methods
<1>2. TimesTyped
  <2>1. /\ DnsTTL \in Nat /\ DnsTTL > 0 /\ Interval \in Nat /\ Interval > 0 /\ MaxWait \in Nat
        /\ slot \in [Hosts -> {0, Interval}] /\ gap = [h \in Hosts |-> Interval - slot[h]]
    BY LoadAssumption DEF Init
  <2>2. gap \in [Hosts -> 0..Interval] /\ slot \in [Hosts -> 0..(MaxWait + Interval)]
    <3>1. \A h \in Hosts : slot[h] \in 0..(MaxWait + Interval) /\ Interval - slot[h] \in 0..Interval
      BY <2>1
    <3> QED
      BY <2>1, <3>1
  <2> QED
    BY <2>1, <2>2 DEF Init, TimesTyped, Unasked
<1>3. \A t \in Loads : LoadOK(t)
  BY DEF Init, LoadOK, Placed, Browsed, Held, Inspections
<1>4. DnsOK /\ TurnsApart
  BY LoadAssumption DEF Init, DnsOK, Known, Unasked, TurnsApart, HostAt
<1> QED
  BY <1>1, <1>2, <1>3, <1>4 DEF Inv, Control, Times

\* A load moves: what it sets is LoadOK, and only Pace touches the turns.
LEMMA LoadStep ==
  ASSUME Inv, NEW t \in Loads, Begin(t) \/ Step(t) \/ BrowserRequests(t)
  PROVE  Inv'
<1> USE DEF Inv
<1>1. CASE Pace(t)
  BY <1>1, PaceKept, PaceTurns
<1>2. CASE ~ Pace(t)
  <2>1. Control' /\ NobodyPaced
    BY <1>2, ChecksKept, RobotsKept, RequestKept, BrowserRequestsKept, InspectKept, InspectedKept,
       BrowserEndsKept DEF Step, Times
  <2>2. UNCHANGED <<slot, wait>>
    BY <1>2 DEF Step, Begin, CheckByName, CheckKnown, Lookup, Resolved, Unresolved, Wake, RobotsRead,
       Redirected, Answered, RequestFails, BrowserRequests, BrowserStage, Inspect, Inspected, Download,
       BrowserFails, netVars, loadVars
  <2>3. TurnsApart' /\ gap' \in [Hosts -> 0..Interval]
    <3>1. CASE Wake(t)
      BY <2>1, <3>1, WakeTurns
    <3>2. CASE ~ Wake(t)
      <4>1. gap' = gap
        BY <1>2, <3>2 DEF Step, Begin, CheckByName, CheckKnown, Lookup, Resolved, Unresolved, RobotsRead,
           Redirected, Answered, RequestFails, BrowserRequests, BrowserStage, Inspect, Inspected, Download,
           BrowserFails, netVars
      <4> QED
        BY <2>1, <2>2, <4>1, TurnsLeft DEF Times, TimesTyped
    <3> QED
      BY <3>1, <3>2
  <2>4. /\ dns' \in [Hosts -> [ok : BOOLEAN, left : 0..DnsTTL, age : 0..DnsTTL]]
        /\ DnsOK'
    <3>1. CASE Resolved(t) \/ RobotsRead(t) \/ BrowserRequests(t)
      BY <3>1, DnsKept DEF Times
    <3>2. CASE ~ (Resolved(t) \/ RobotsRead(t) \/ BrowserRequests(t))
      <4>1. dns' = dns
        BY <1>2, <3>2 DEF Step, Begin, CheckByName, CheckKnown, Lookup, Unresolved, Wake,
           Redirected, Answered, RequestFails, BrowserStage, Inspect, Inspected, Download,
           BrowserFails, netVars
      <4> QED
        BY <4>1 DEF Times, TimesTyped, DnsOK, Known
    <3> QED
      BY <3>1, <3>2
  <2>5. asked' \in [Loads -> 0..DnsTTL]
    <3>1. asked' = asked \/ asked' = [asked EXCEPT ![t] = 0]
      BY <1>2 DEF Step, Begin, CheckByName, CheckKnown, Lookup, Resolved, Unresolved, Wake, RobotsRead,
         Redirected, Answered, RequestFails, BrowserRequests, BrowserStage, Inspect, Inspected, Download,
         BrowserFails, loadVars, Set
    <3>2. asked \in [Loads -> 0..DnsTTL] /\ 0 \in 0..DnsTTL
      BY LoadAssumption DEF Times, TimesTyped
    <3> QED
      BY <3>1, <3>2
  <2>6. robots' \in [Hosts -> {"unknown", "open", "closed"}]
    <3>1. robots' = robots \/ \E rules \in {"open", "closed"} : robots' = [robots EXCEPT ![HostAt(t)] = rules]
      BY <1>2 DEF Step, Begin, CheckByName, CheckKnown, Lookup, Resolved, Unresolved, Wake, RobotsRead,
         Redirected, Answered, RequestFails, BrowserRequests, BrowserStage, Inspect, Inspected, Download,
         BrowserFails, netVars
    <3> QED
      BY <3>1 DEF Times, TimesTyped
  <2>7. TimesTyped'
    BY <2>2, <2>3, <2>4, <2>5, <2>6 DEF Times, TimesTyped
  <2> QED
    BY <2>1, <2>3, <2>4, <2>7 DEF Times
<1> QED
  BY <1>1, <1>2

\* Every step keeps the invariant.
LEMMA InvStep == Inv /\ [Next]_vars => Inv'
<1> SUFFICES ASSUME Inv, [Next]_vars PROVE Inv'
  OBVIOUS
<1>1. CASE \E t \in Loads : Begin(t) \/ Step(t) \/ BrowserRequests(t)
  BY <1>1, LoadStep
<1>2. CASE Tick
  BY <1>2, TickKept
<1>3. CASE UNCHANGED vars
  <2> USE <1>3 DEF vars, loadVars, browserVars, netVars
  <2>1. ControlTyped' /\ TimesTyped' /\ DnsOK' /\ TurnsApart'
    BY DEF Inv, Control, Times, ControlTyped, TimesTyped, DnsOK, Known, TurnsApart, HostAt
  <2>2. \A t \in Loads : LoadOK(t)'
    BY DEF Inv, Control, LoadOK, Placed, Browsed, Held, Method
  <2> QED
    BY <2>1, <2>2 DEF Inv, Control, Times
<1> QED
  BY <1>1, <1>2, <1>3 DEF Next

-----------------------------------------------------------------------------

\* The loads are correct in every reachable state (pages.py, guard.py, http.py,
\* browser.py).
THEOREM LoadsCorrect == Spec => []Inv
BY InvInit, InvStep, PTL DEF Spec

\* Type correctness of the loads and of what they share.
THEOREM LoadsTyped == Spec => []TypeOK
<1>1. Inv => TypeOK
  BY DEF Inv, Control, Times, ControlTyped, TimesTyped, TypeOK, Places, Goals, Methods
<1> QED
  BY <1>1, LoadsCorrect, PTL

\* No verdict about a host outlives DnsTTL, counted from its question, however
\* late the answer came (guard.py:58-91).
THEOREM LoadsVerdictsFresh == Spec => []VerdictsFresh
<1>1. Inv => VerdictsFresh
  BY LoadAssumption DEF Inv, Times, TimesTyped, DnsOK, VerdictsFresh, Known
<1> QED
  BY <1>1, LoadsCorrect, PTL

\* A step of one load moves no other.
LEMMA OnlyOneMoves ==
  ASSUME Inv, NEW s \in Loads, Begin(s) \/ Step(s) \/ BrowserRequests(s), NEW u \in Loads, u # s
  PROVE  pc'[u] = pc[u]
<1>1. pc \in [Loads -> Places]
  BY DEF Inv, Control, ControlTyped
<1>2. ASSUME (\E place : pc' = [pc EXCEPT ![s] = place]) \/ pc' = pc
      PROVE  pc'[u] = pc[u]
  BY <1>1, <1>2
<1>3. End(s) => pc'[u] = pc[u]
  BY <1>2 DEF End, Set
<1>4. ASSUME NEW methods, Try(s, methods)
      PROVE  pc'[u] = pc[u]
  <2>1. CASE methods = <<>>
    BY <1>3, <1>4, <2>1 DEF Try
  <2>2. CASE methods # <<>>
    BY <1>2, <1>4, <2>2 DEF Try, Check, Set
  <2> QED
    BY <2>1, <2>2
<1>5. TryNext(s) => pc'[u] = pc[u]
  <2>1. CASE Tail(plan[s]) = <<>>
    BY <1>3, <2>1 DEF TryNext, Try
  <2>2. CASE Tail(plan[s]) # <<>>
    BY <1>2, <2>2 DEF TryNext, Try, Check, Set
  <2> QED
    BY <2>1, <2>2
<1>6. ASSUME NEW ok, Decide(s, ok)
      PROVE  pc'[u] = pc[u]
  <2>1. goal[s] \in Goals
    BY DEF Inv, Control, ControlTyped
  <2>2. CASE ~ ok \/ goal[s] = "store"
    BY <1>3, <1>6, <2>2 DEF Decide, Allowed, Inspections
  <2>3. CASE ok /\ goal[s] # "store"
    <3>1. \E place : pc' = [pc EXCEPT ![s] = place]
      BY <1>6, <2>1, <2>3 DEF Decide, Allowed, Inspections, Goals, Check, Set
    <3> QED
      BY <1>2, <3>1
  <2> QED
    BY <2>2, <2>3
<1>7. CASE CheckByName(s) \/ CheckKnown(s) \/ Resolved(s) \/ Unresolved(s)
  BY <1>6, <1>7 DEF CheckByName, CheckKnown, Resolved, Unresolved
<1>8. CASE Begin(s) \/ Lookup(s) \/ BrowserRequests(s) \/ BrowserStage(s) \/ Inspect(s)
  BY <1>2, <1>8 DEF Begin, Lookup, BrowserRequests, BrowserStage, Inspect, loadVars, Set
<1>9. CASE Pace(s) \/ Wake(s) \/ RobotsRead(s)
  <2>1. End(s) \/ (\E methods : Try(s, methods)) \/ (\E place : pc' = [pc EXCEPT ![s] = place])
    BY <1>9 DEF Pace, Wake, RobotsRead, Set
  <2> QED
    BY <1>2, <1>3, <1>4, <2>1
<1>10. CASE Redirected(s) \/ Answered(s) \/ RequestFails(s)
  <2>1. End(s) \/ TryNext(s) \/ (\E place : pc' = [pc EXCEPT ![s] = place])
    BY <1>10 DEF Redirected, Answered, RequestFails, PageFrom, Check, Set
  <2> QED
    BY <1>2, <1>3, <1>5, <2>1
<1>11. CASE Inspected(s) \/ Download(s) \/ BrowserFails(s)
  <2>1. End(s) \/ TryNext(s) \/ (\E place : pc' = [pc EXCEPT ![s] = place])
    BY <1>11 DEF Inspected, Download, BrowserFails, PageFrom, Check, Set
  <2> QED
    BY <1>2, <1>3, <1>5, <2>1
<1> QED
  BY <1>7, <1>8, <1>9, <1>10, <1>11 DEF Step

\* Two loads of a domain take their turns at least Interval apart, at once or
\* after a sleep (guard.py:98-101, ratelimit.py:14-24).
THEOREM LoadsTakeTurns == Spec => TurnsSpaced
<1>1. ASSUME Inv, [Next]_vars, NEW t \in Loads, pc[t] = "sleeping", pc'[t] # "sleeping"
      PROVE  gap[HostAt(t)] = Interval
  <2>1. PICK s \in Loads : Begin(s) \/ Step(s) \/ BrowserRequests(s)
    BY <1>1 DEF Next, vars, loadVars, Tick
  <2>2. s = t
    BY <1>1, <2>1, OnlyOneMoves
  <2>3. Wake(t)
    BY <1>1, <2>1, <2>2 DEF Begin, Step, CheckByName, CheckKnown, Lookup, Resolved, Unresolved, Pace, RobotsRead,
       Redirected, Answered, RequestFails, BrowserRequests, BrowserStage, Inspect, Inspected, Download,
       BrowserFails, Inspections
  <2>4. wait[t] = 0 /\ gap[HostAt(t)] \in 0..Interval /\ Interval \in Nat
    BY <1>1, <2>3, LoadAssumption DEF Wake, Inv, Control, ControlTyped, Times, TimesTyped, HostAt
  <2> QED
    BY <1>1, <2>4 DEF Inv, Times, TurnsApart
<1>2. Inv /\ [Next]_vars => [\A t \in Loads : pc[t] = "sleeping" /\ pc'[t] # "sleeping" => gap[HostAt(t)] = Interval]_vars
  BY <1>1
<1> QED
  BY <1>2, LoadsCorrect, PTL DEF Spec, TurnsSpaced

\* No page is made of a browser page with a request that was not inspected and
\* allowed (browser.py:214-222, 331-333).
THEOREM LoadsInspectPages == Spec => []PagesInspected
<1>1. Inv => PagesInspected
  BY DEF Inv, Control, LoadOK, Browsed, PagesInspected, Visiting
<1> QED
  BY <1>1, LoadsCorrect, PTL

\* No page is made of what the rules of docs/DESIGN.md:617-626 call an error, a
\* refusal or a challenge, nor of one that is too large, or too thin for the
\* method (detect.py, http.py:161-209, browser.py:331-403, adapters.py:55-80).
THEOREM LoadsKeepContent == Spec => []ContentOnly
<1>1. Inv => ContentOnly
  BY DEF Inv, Control, LoadOK, Held, Content, ContentOnly, Shown
<1> QED
  BY <1>1, LoadsCorrect, PTL
=============================================================================
