--------------------------- MODULE PageLoaderProofs ---------------------------
(***************************************************************************)
(* Proofs about shared page loading, for any number of gets and URLs, any  *)
(* redirects and any order of methods.  One invariant carries all the      *)
(* safety properties of PageLoader: a load that is not over is the one     *)
(* registered for its URL, rows and pages belong to the URL they are       *)
(* found under, and a get that began with a fresh row never starts a load. *)
(***************************************************************************)
EXTENDS PageLoader, SequenceTheorems, TLAPS

Method == {"adapter", "auto", "browser", "http", "camoufox"}
Place == {"new", "reading", "read", "waiting", "returned", "failed", "cancelled"}
Stage == {"none", "pacing", "trying", "storing", "ended", "over"}
Busy == {"pacing", "trying", "storing", "ended"}

\* The registry and the loads agree; a get waits for a load of its own URL.
LoadsRegistered ==
  /\ \A t \in Gets : stage[t] \in Busy => inflight[urlOf[t]] = t
  /\ \A u \in Urls : inflight[u] # NoLoad =>
       urlOf[inflight[u]] = u /\ stage[inflight[u]] \in Busy
  /\ \A g \in Gets : pc[g] \in {"new", "reading", "read"} => stage[g] = "none" /\ job[g] = NoLoad
  /\ \A g \in Gets : pc[g] = "waiting" => job[g] # NoLoad
  /\ \A g \in Gets : job[g] # NoLoad => urlOf[job[g]] = urlOf[g]
  /\ \A t \in Gets : stage[t] = "trying" => plan[t] # <<>>

\* A row or page is found only under its URL or the one it redirects to.
PagesRight ==
  /\ \A u \in Urls : row[u] # NoPage => u \in {row[u], FinalOf[row[u]]}
  /\ \A g \in Gets : page[g] # NoPage => urlOf[g] \in {page[g], FinalOf[page[g]]}
  /\ \A g \in Gets : pc[g] = "returned" => page[g] # NoPage

\* The loads that were over when a get began stay over.
OldEnded ==
  /\ \A g \in Gets : \A t \in old[g] : stage[t] \in {"ended", "over"}
  /\ FailureNotRemembered

\* A fresh URL has a row, and a get that began with one has seen a page.
FreshRead ==
  /\ \A u \in fresh : row[u] # NoPage
  /\ \A g \in had :
       /\ urlOf[g] \in fresh /\ stage[g] = "none" /\ pc[g] # "new"
       /\ pc[g] = "read" => page[g] # NoPage

Inv == TypeOK /\ LoadsRegistered /\ PagesRight /\ OldEnded /\ FreshRead

-----------------------------------------------------------------------------

\* The loader begins with nothing loaded.
LEMMA LoaderInit == Init => Inv
<1> SUFFICES ASSUME Init PROVE Inv
  OBVIOUS
<1>1. urlOf \in [Gets -> Urls]
  BY LoaderAssumption DEF Init, LoaderAssumption
<1>2. TypeOK
  BY LoaderAssumption DEF Init, TypeOK, LoaderAssumption
<1>3. LoadsRegistered
  BY <1>1 DEF Init, LoadsRegistered, Busy
<1>4. PagesRight /\ OldEnded /\ FreshRead
  BY <1>1, LoaderAssumption
  DEF Init, PagesRight, OldEnded, FreshRead, FailureNotRemembered, LoaderAssumption
<1> QED
  BY <1>2, <1>3, <1>4 DEF Inv

\* The list of methods has the type of a plan.
LEMMA MethodsTyped ==
  ASSUME TypeOK, NEW t \in Gets
  PROVE  Methods(t) \in Seq(Method)
<1>1. Fallbacks \in Seq(Method)
  BY LoaderAssumption DEF LoaderAssumption, Method
<1>2. <<>> \in Seq(Method)
  OBVIOUS
<1>3. <<"adapter">> \in Seq(Method) /\ <<"auto">> \in Seq(Method) /\ <<"browser">> \in Seq(Method)
  BY DEF Method
<1>4. \A s, r \in Seq(Method) : s \o r \in Seq(Method)
  OBVIOUS
<1> QED
  BY <1>1, <1>2, <1>3, <1>4 DEF Methods

\* The methods that are left when one has failed.
LEMMA TailNonempty ==
  ASSUME NEW S, NEW s \in Seq(S), s # <<>>, Len(s) # 1
  PROVE  Tail(s) \in Seq(S) /\ Tail(s) # <<>>
<1>1. Tail(s) \in Seq(S) /\ Len(Tail(s)) = Len(s) - 1
  BY HeadTailProperties
<1>2. Len(s) \in Nat \ {0}
  BY EmptySeq
<1>3. Len(Tail(s)) # 0
  BY <1>1, <1>2
<1>4. Len(<<>>) = 0
  BY EmptySeq
<1> QED
  BY <1>1, <1>3, <1>4

\* What the types say of the constants and the URLs of the gets.
LEMMA Typed ==
  ASSUME TypeOK
  PROVE  /\ urlOf \in [Gets -> Urls] /\ FinalOf \in [Urls -> Urls]
         /\ HostOf \in [Urls -> Hosts] /\ Memory \in Nat
         /\ NoLoad \notin Gets /\ NoPage \notin Urls
  BY LoaderAssumption DEF TypeOK, LoaderAssumption

\* Trying the next method keeps plans typed, and a load that goes on trying has
\* a method left.
LEMMA TryNextEffect ==
  ASSUME TypeOK, NEW t \in Gets, plan[t] # <<>>, stage[t] = "trying", TryNext(t)
  PROVE  /\ plan' \in [Gets -> Seq(Method)] /\ outcome' \in [Gets -> {"none", "page", "error"}]
         /\ \/ stage' = stage /\ plan'[t] # <<>>
            \/ stage' = [stage EXCEPT ![t] = "ended"]
         /\ \A s \in Gets \ {t} : plan'[s] = plan[s]
<1>1. plan \in [Gets -> Seq(Method)]
  BY DEF TypeOK, Method
<1>2. CASE Len(plan[t]) = 1
  <2>1. End(t, "error")
    BY <1>2 DEF TryNext
  <2>2. <<>> \in Seq(Method)
    OBVIOUS
  <2> QED
    BY <1>1, <2>1, <2>2 DEF End, TypeOK
<1>3. CASE Len(plan[t]) # 1
  <2>1. Tail(plan[t]) \in Seq(Method) /\ Tail(plan[t]) # <<>>
    BY <1>1, <1>3, TailNonempty
  <2>2. plan' = [plan EXCEPT ![t] = Tail(plan[t])] /\ UNCHANGED <<stage, outcome>>
    BY <1>3 DEF TryNext
  <2> QED
    BY <1>1, <2>1, <2>2 DEF TypeOK
<1> QED
  BY <1>2, <1>3

\* A load goes through its methods: it turns to the next, or it ends.
Proceeds(t) ==
  /\ stage[t] \in {"pacing", "trying"}
  /\ plan' \in [Gets -> Seq(Method)] /\ outcome' \in [Gets -> {"none", "page", "error"}]
  /\ left' \in [Hosts -> 0..Memory]
  /\ stage' \in [Gets -> Stage] /\ stage'[t] \in {"trying", "ended"}
  /\ stage'[t] = "trying" => plan'[t] # <<>>
  /\ \A s \in Gets \ {t} : plan'[s] = plan[s] /\ stage'[s] = stage[s]
  /\ UNCHANGED <<pc, urlOf, page, job, inflight, row, fresh, had, old>>

\* A get ends: with a page of its URL or without a page.
Answered(g) ==
  /\ pc[g] \in {"read", "waiting"}
  /\ pc' \in [Gets -> Place] /\ pc'[g] \in {"returned", "failed"}
  /\ \A h \in Gets \ {g} : pc'[h] = pc[h]
  /\ page' \in [Gets -> Urls \cup {NoPage}]
  /\ \A h \in Gets \ {g} : page'[h] = page[h]
  /\ page'[g] # NoPage => urlOf[g] \in {page'[g], FinalOf[page'[g]]}
  /\ pc'[g] = "returned" => page'[g] # NoPage
  /\ job' \in [Gets -> Gets \cup {NoLoad}]
  /\ \A h \in Gets : job'[h] = job[h] \/ (h = g /\ job'[h] = NoLoad)
  /\ UNCHANGED <<urlOf, stage, plan, outcome, inflight, row, fresh, had, left, old>>

\* What the answer of one method does.
LEMMA MethodEffect ==
  ASSUME TypeOK, LoadsRegistered, NEW t \in Gets,
         FixMethods(t) \/ MethodFails(t) \/ BrowserBlocked(t)
  PROVE  Proceeds(t)
<1>1. /\ plan \in [Gets -> Seq(Method)] /\ left \in [Hosts -> 0..Memory] /\ Memory \in Nat
      /\ stage \in [Gets -> Stage] /\ outcome \in [Gets -> {"none", "page", "error"}]
  BY Typed DEF TypeOK, Method, Stage
<1>2. /\ UNCHANGED <<pc, urlOf, page, job, inflight, row, fresh, had, old>>
      /\ stage[t] \in {"pacing", "trying"}
  BY DEF FixMethods, MethodFails, BrowserBlocked, getVars, cacheVars
<1>3. left' \in [Hosts -> 0..Memory]
  BY <1>1 DEF FixMethods, MethodFails, BrowserBlocked
<1>4. CASE FixMethods(t)
  <2>1. Methods(t) \in Seq(Method) /\ <<>> \in Seq(Method)
    BY MethodsTyped
  <2>2. CASE Methods(t) = <<>>
    <3>1. /\ stage' = [stage EXCEPT ![t] = "ended"]
          /\ plan' = [plan EXCEPT ![t] = <<>>]
          /\ outcome' = [outcome EXCEPT ![t] = "error"]
      BY <1>4, <2>2 DEF FixMethods, End
    <3> QED
      BY <1>1, <1>2, <1>3, <2>1, <3>1 DEF Stage, Proceeds
  <2>3. CASE Methods(t) # <<>>
    <3>1. /\ stage' = [stage EXCEPT ![t] = "trying"]
          /\ plan' = [plan EXCEPT ![t] = Methods(t)]
          /\ outcome' = outcome
      BY <1>4, <2>3 DEF FixMethods
    <3> QED
      BY <1>1, <1>2, <1>3, <2>1, <2>3, <3>1 DEF Stage, Proceeds
  <2> QED
    BY <2>2, <2>3
<1>5. CASE MethodFails(t) \/ BrowserBlocked(t)
  <2>1. stage[t] = "trying" /\ TryNext(t)
    BY <1>5 DEF MethodFails, BrowserBlocked
  <2>2. plan[t] # <<>>
    BY <2>1 DEF LoadsRegistered
  <2>3. /\ plan' \in [Gets -> Seq(Method)] /\ outcome' \in [Gets -> {"none", "page", "error"}]
        /\ \/ stage' = stage /\ plan'[t] # <<>>
           \/ stage' = [stage EXCEPT ![t] = "ended"]
        /\ \A s \in Gets \ {t} : plan'[s] = plan[s]
    BY <2>1, <2>2, TryNextEffect
  <2>4. /\ stage' \in [Gets -> Stage] /\ \A s \in Gets \ {t} : stage'[s] = stage[s]
        /\ stage'[t] = "ended" \/ (stage'[t] = "trying" /\ plan'[t] # <<>>)
    BY <1>1, <2>1, <2>3 DEF Stage
  <2> QED
    BY <1>2, <1>3, <2>3, <2>4 DEF Proceeds
<1> QED
  BY <1>4, <1>5

\* What an answer changes, and what it leaves alone.
LEMMA AnswerEffect ==
  ASSUME TypeOK, LoadsRegistered, PagesRight, NEW g \in Gets, CacheHit(g) \/ Resume(g)
  PROVE  Answered(g)
<1>1. /\ pc \in [Gets -> Place] /\ page \in [Gets -> Urls \cup {NoPage}]
      /\ job \in [Gets -> Gets \cup {NoLoad}]
  BY DEF TypeOK, Place
<1>2. CASE CacheHit(g)
  <2>1. /\ pc[g] = "read" /\ page[g] \in Urls /\ urlOf[g] \in {page[g], FinalOf[page[g]]}
        /\ page[g] # NoPage /\ job' = job
        /\ UNCHANGED <<urlOf, stage, plan, outcome, inflight, row, fresh, had, left, old>>
    BY <1>1, <1>2 DEF CacheHit, PagesRight, loadVars, cacheVars
  <2>2. CASE pc' = [pc EXCEPT ![g] = "returned"] /\ page' = page
    BY <1>1, <2>1, <2>2 DEF Answered, Place
  <2>3. CASE Fail(g)
    BY <1>1, <2>1, <2>3 DEF Answered, Fail, Place
  <2> QED
    BY <1>2, <2>2, <2>3 DEF CacheHit
<1>3. CASE Resume(g)
  <2>1. /\ pc[g] = "waiting" /\ job' = [job EXCEPT ![g] = NoLoad]
        /\ UNCHANGED <<urlOf, stage, plan, outcome, inflight, row, fresh, had, left, old>>
    BY <1>3 DEF Resume, loadVars, cacheVars
  <2>2. /\ urlOf[job[g]] = urlOf[g]
        /\ urlOf[g] \in Urls /\ urlOf[g] # NoPage
    <3>1. job[g] # NoLoad /\ urlOf \in [Gets -> Urls] /\ NoPage \notin Urls
      BY <2>1, Typed DEF LoadsRegistered
    <3>2. urlOf[job[g]] = urlOf[g]
      BY <3>1 DEF LoadsRegistered
    <3> QED
      BY <3>1, <3>2
  <2>3. CASE outcome[job[g]] = "page"
    <3>1. pc' = [pc EXCEPT ![g] = "returned"] /\ page' = [page EXCEPT ![g] = urlOf[g]]
      BY <1>3, <2>2, <2>3 DEF Resume
    <3> QED
      BY <1>1, <2>1, <2>2, <3>1 DEF Answered, Place
  <2>4. CASE outcome[job[g]] # "page"
    <3>1. Fail(g)
      BY <1>3, <2>4 DEF Resume
    <3> QED
      BY <1>1, <2>1, <3>1 DEF Answered, Fail, Place
  <2> QED
    BY <2>3, <2>4
<1> QED
  BY <1>2, <1>3

-----------------------------------------------------------------------------
(* Every step preserves the invariant: one step per action.                 *)

\* Every step keeps the types.
LEMMA TypeStep ==
  ASSUME TypeOK, LoadsRegistered, PagesRight, Next
  PROVE  TypeOK'
<1>1. /\ urlOf \in [Gets -> Urls] /\ FinalOf \in [Urls -> Urls] /\ HostOf \in [Urls -> Hosts]
      /\ Memory \in Nat /\ NoLoad \notin Gets /\ NoPage \notin Urls
  BY Typed
<1>2. ASSUME NEW g \in Gets, Begin(g) PROVE TypeOK'
  BY <1>1, <1>2 DEF Begin, TypeOK, LoadsRegistered, getVars, loadVars, cacheVars
<1>3. ASSUME NEW g \in Gets, ReadRow(g) PROVE TypeOK'
  BY <1>1, <1>3 DEF ReadRow, TypeOK, LoadsRegistered, getVars, loadVars, cacheVars
<1>4. ASSUME NEW g \in Gets, Share(g) PROVE TypeOK'
  BY <1>1, <1>4 DEF Share, Missed, TypeOK, LoadsRegistered, getVars, loadVars, cacheVars
<1>5. ASSUME NEW g \in Gets, StartLoad(g) PROVE TypeOK'
  BY <1>1, <1>5 DEF StartLoad, Missed, TypeOK, LoadsRegistered, getVars, loadVars, cacheVars
<1>6. ASSUME NEW g \in Gets, Cancel(g) PROVE TypeOK'
  BY <1>1, <1>6 DEF Cancel, TypeOK, LoadsRegistered, getVars, loadVars, cacheVars
<1>7. ASSUME NEW g \in Gets, MethodLoads(g) PROVE TypeOK'
  BY <1>1, <1>7 DEF MethodLoads, TypeOK, LoadsRegistered, getVars, loadVars, cacheVars
<1>8. ASSUME NEW g \in Gets, LoadFails(g) PROVE TypeOK'
  BY <1>1, <1>8 DEF LoadFails, End, TypeOK, LoadsRegistered, getVars, loadVars, cacheVars
<1>9. ASSUME NEW g \in Gets, Store(g) PROVE TypeOK'
  BY <1>1, <1>9 DEF Store, End, StoredAs, TypeOK, LoadsRegistered, getVars, loadVars, cacheVars
<1>10. ASSUME NEW g \in Gets, Finished(g) PROVE TypeOK'
  BY <1>1, <1>10 DEF Finished, TypeOK, LoadsRegistered, getVars, loadVars, cacheVars
<1>11. ASSUME NEW g \in Gets, CacheHit(g) \/ Resume(g) PROVE TypeOK'
  <2>1. Answered(g)
    BY <1>11, AnswerEffect
  <2> QED
    BY <1>1, <2>1 DEF Answered, TypeOK, Method, Place, Stage
<1>12. ASSUME NEW t \in Gets, FixMethods(t) \/ MethodFails(t) \/ BrowserBlocked(t) PROVE TypeOK'
  <2>1. Proceeds(t)
    BY <1>12, MethodEffect
  <2> QED
    BY <1>1, <2>1 DEF Proceeds, TypeOK, Method, Place, Stage
<1>13. ASSUME Tick PROVE TypeOK'
  BY <1>1, <1>13 DEF Tick, TypeOK, LoadsRegistered, getVars, loadVars, cacheVars
<1>14. ASSUME NEW u \in Urls, Expire(u) PROVE TypeOK'
  BY <1>1, <1>14 DEF Expire, TypeOK, LoadsRegistered, getVars, loadVars, cacheVars
<1> QED
  BY <1>2, <1>3, <1>4, <1>5, <1>6, <1>7, <1>8, <1>9, <1>10, <1>11, <1>12, <1>13, <1>14 DEF Next, GetStep, LoadStep

\* Every step keeps the loads in order.
LEMMA LoadsStep ==
  ASSUME TypeOK, LoadsRegistered, PagesRight, Next
  PROVE  LoadsRegistered'
<1>1. /\ urlOf \in [Gets -> Urls] /\ FinalOf \in [Urls -> Urls] /\ HostOf \in [Urls -> Hosts]
      /\ Memory \in Nat /\ NoLoad \notin Gets /\ NoPage \notin Urls
  BY Typed
<1>2. ASSUME NEW g \in Gets, Begin(g) PROVE LoadsRegistered'
  BY <1>1, <1>2 DEF Begin, TypeOK, LoadsRegistered, Busy, getVars, loadVars, cacheVars
<1>3. ASSUME NEW g \in Gets, ReadRow(g) PROVE LoadsRegistered'
  BY <1>1, <1>3 DEF ReadRow, TypeOK, LoadsRegistered, Busy, getVars, loadVars, cacheVars
<1>4. ASSUME NEW g \in Gets, Share(g) PROVE LoadsRegistered'
  BY <1>1, <1>4 DEF Share, Missed, TypeOK, LoadsRegistered, Busy, getVars, loadVars, cacheVars
<1>5. ASSUME NEW g \in Gets, StartLoad(g) PROVE LoadsRegistered'
  BY <1>1, <1>5 DEF StartLoad, Missed, TypeOK, LoadsRegistered, Busy, getVars, loadVars, cacheVars
<1>6. ASSUME NEW g \in Gets, Cancel(g) PROVE LoadsRegistered'
  BY <1>1, <1>6 DEF Cancel, TypeOK, LoadsRegistered, Busy, getVars, loadVars, cacheVars
<1>7. ASSUME NEW g \in Gets, MethodLoads(g) PROVE LoadsRegistered'
  BY <1>1, <1>7 DEF MethodLoads, TypeOK, LoadsRegistered, Busy, getVars, loadVars, cacheVars
<1>8. ASSUME NEW g \in Gets, LoadFails(g) PROVE LoadsRegistered'
  BY <1>1, <1>8 DEF LoadFails, End, TypeOK, LoadsRegistered, Busy, getVars, loadVars, cacheVars
<1>9. ASSUME NEW g \in Gets, Store(g) PROVE LoadsRegistered'
  BY <1>1, <1>9 DEF Store, End, StoredAs, TypeOK, LoadsRegistered, Busy, getVars, loadVars, cacheVars
<1>10. ASSUME NEW g \in Gets, Finished(g) PROVE LoadsRegistered'
  BY <1>1, <1>10 DEF Finished, TypeOK, LoadsRegistered, Busy, getVars, loadVars, cacheVars
<1>11. ASSUME NEW g \in Gets, CacheHit(g) \/ Resume(g) PROVE LoadsRegistered'
  <2>1. Answered(g)
    BY <1>11, AnswerEffect
  <2> QED
    BY <1>1, <2>1 DEF Answered, TypeOK, LoadsRegistered, Busy
<1>12. ASSUME NEW t \in Gets, FixMethods(t) \/ MethodFails(t) \/ BrowserBlocked(t) PROVE LoadsRegistered'
  <2>1. Proceeds(t)
    BY <1>12, MethodEffect
  <2>2. /\ stage \in [Gets -> Stage] /\ inflight \in [Urls -> Gets \cup {NoLoad}]
        /\ \A s \in Gets : stage[s] \in Busy <=> stage'[s] \in Busy
        /\ \A s \in Gets : stage[s] = "none" => stage'[s] = "none"
        /\ \A s \in Gets : stage'[s] = "trying" => plan'[s] # <<>>
    <3>1. stage \in [Gets -> Stage] /\ inflight \in [Urls -> Gets \cup {NoLoad}]
      BY DEF TypeOK, Stage
    <3>2. /\ stage[t] \in {"pacing", "trying"} /\ stage'[t] \in {"trying", "ended"}
          /\ \A s \in Gets \ {t} : stage'[s] = stage[s]
      BY <2>1 DEF Proceeds
    <3>3. \A s \in Gets : stage'[s] = "trying" => plan'[s] # <<>>
      <4>1. /\ stage'[t] = "trying" => plan'[t] # <<>>
            /\ \A s \in Gets \ {t} : plan'[s] = plan[s] /\ stage'[s] = stage[s]
        BY <2>1 DEF Proceeds
      <4>2. \A s \in Gets : stage[s] = "trying" => plan[s] # <<>>
        BY DEF LoadsRegistered
      <4>3. ASSUME NEW s \in Gets, stage'[s] = "trying" PROVE plan'[s] # <<>>
        <5>1. CASE s = t
          BY <4>1, <4>3, <5>1
        <5>2. CASE s # t
          BY <4>1, <4>2, <4>3, <5>2
        <5> QED
          BY <5>1, <5>2
      <4> QED
        BY <4>3
    <3> QED
      BY <3>1, <3>2, <3>3 DEF Busy
  <2>3. UNCHANGED <<pc, urlOf, job, inflight>>
    BY <2>1 DEF Proceeds
  <2> QED
    BY <1>1, <2>2, <2>3 DEF LoadsRegistered
<1>13. ASSUME Tick PROVE LoadsRegistered'
  BY <1>1, <1>13 DEF Tick, TypeOK, LoadsRegistered, Busy, getVars, loadVars, cacheVars
<1>14. ASSUME NEW u \in Urls, Expire(u) PROVE LoadsRegistered'
  BY <1>1, <1>14 DEF Expire, TypeOK, LoadsRegistered, Busy, getVars, loadVars, cacheVars
<1> QED
  BY <1>2, <1>3, <1>4, <1>5, <1>6, <1>7, <1>8, <1>9, <1>10, <1>11, <1>12, <1>13, <1>14 DEF Next, GetStep, LoadStep

\* Every step keeps the pages of callers and rows right.
LEMMA PagesStep ==
  ASSUME TypeOK, LoadsRegistered, PagesRight, Next
  PROVE  PagesRight'
<1>1. /\ urlOf \in [Gets -> Urls] /\ FinalOf \in [Urls -> Urls] /\ HostOf \in [Urls -> Hosts]
      /\ Memory \in Nat /\ NoLoad \notin Gets /\ NoPage \notin Urls
  BY Typed
<1>2. ASSUME NEW g \in Gets, Begin(g) PROVE PagesRight'
  BY <1>1, <1>2 DEF Begin, TypeOK, LoadsRegistered, PagesRight, getVars, loadVars, cacheVars
<1>3. ASSUME NEW g \in Gets, ReadRow(g) PROVE PagesRight'
  BY <1>1, <1>3 DEF ReadRow, TypeOK, LoadsRegistered, PagesRight, getVars, loadVars, cacheVars
<1>4. ASSUME NEW g \in Gets, Share(g) PROVE PagesRight'
  BY <1>1, <1>4 DEF Share, Missed, TypeOK, LoadsRegistered, PagesRight, getVars, loadVars, cacheVars
<1>5. ASSUME NEW g \in Gets, StartLoad(g) PROVE PagesRight'
  BY <1>1, <1>5 DEF StartLoad, Missed, TypeOK, LoadsRegistered, PagesRight, getVars, loadVars, cacheVars
<1>6. ASSUME NEW g \in Gets, Cancel(g) PROVE PagesRight'
  BY <1>1, <1>6 DEF Cancel, TypeOK, LoadsRegistered, PagesRight, getVars, loadVars, cacheVars
<1>7. ASSUME NEW g \in Gets, MethodLoads(g) PROVE PagesRight'
  BY <1>1, <1>7 DEF MethodLoads, TypeOK, LoadsRegistered, PagesRight, getVars, loadVars, cacheVars
<1>8. ASSUME NEW g \in Gets, LoadFails(g) PROVE PagesRight'
  BY <1>1, <1>8 DEF LoadFails, End, TypeOK, LoadsRegistered, PagesRight, getVars, loadVars, cacheVars
<1>9. ASSUME NEW g \in Gets, Store(g) PROVE PagesRight'
  BY <1>1, <1>9 DEF Store, End, StoredAs, TypeOK, LoadsRegistered, PagesRight, getVars, loadVars, cacheVars
<1>10. ASSUME NEW g \in Gets, Finished(g) PROVE PagesRight'
  BY <1>1, <1>10 DEF Finished, TypeOK, LoadsRegistered, PagesRight, getVars, loadVars, cacheVars
<1>11. ASSUME NEW g \in Gets, CacheHit(g) \/ Resume(g) PROVE PagesRight'
  <2>1. Answered(g)
    BY <1>11, AnswerEffect
  <2> QED
    BY <1>1, <2>1 DEF Answered, TypeOK, PagesRight
<1>12. ASSUME NEW t \in Gets, FixMethods(t) \/ MethodFails(t) \/ BrowserBlocked(t) PROVE PagesRight'
  <2>1. Proceeds(t)
    BY <1>12, MethodEffect
  <2> QED
    BY <1>1, <2>1 DEF Proceeds, TypeOK, PagesRight
<1>13. ASSUME Tick PROVE PagesRight'
  BY <1>1, <1>13 DEF Tick, TypeOK, LoadsRegistered, PagesRight, getVars, loadVars, cacheVars
<1>14. ASSUME NEW u \in Urls, Expire(u) PROVE PagesRight'
  BY <1>1, <1>14 DEF Expire, TypeOK, LoadsRegistered, PagesRight, getVars, loadVars, cacheVars
<1> QED
  BY <1>2, <1>3, <1>4, <1>5, <1>6, <1>7, <1>8, <1>9, <1>10, <1>11, <1>12, <1>13, <1>14 DEF Next, GetStep, LoadStep

\* Every step keeps what is said of old pages.
LEMMA OldStep ==
  ASSUME TypeOK, LoadsRegistered, PagesRight, OldEnded, Next
  PROVE  OldEnded'
<1>1. /\ urlOf \in [Gets -> Urls] /\ FinalOf \in [Urls -> Urls] /\ HostOf \in [Urls -> Hosts]
      /\ Memory \in Nat /\ NoLoad \notin Gets /\ NoPage \notin Urls
  BY Typed
<1>2. ASSUME NEW g \in Gets, Begin(g) PROVE OldEnded'
  BY <1>1, <1>2 DEF Begin, TypeOK, LoadsRegistered, Busy, OldEnded, FailureNotRemembered, getVars, loadVars, cacheVars
<1>3. ASSUME NEW g \in Gets, ReadRow(g) PROVE OldEnded'
  BY <1>1, <1>3 DEF ReadRow, TypeOK, LoadsRegistered, Busy, OldEnded, FailureNotRemembered, getVars, loadVars, cacheVars
<1>4. ASSUME NEW g \in Gets, Share(g) PROVE OldEnded'
  <2>1. inflight[urlOf[g]] \in Gets /\ stage[inflight[urlOf[g]]] \in Busy
    BY <1>1, <1>4 DEF Share, LoadsRegistered, TypeOK
  <2>2. inflight[urlOf[g]] \notin old[g]
    BY <1>1, <1>4, <2>1 DEF Share, Missed, Busy
  <2> QED
    BY <1>1, <1>4, <2>1, <2>2
    DEF Share, TypeOK, OldEnded, FailureNotRemembered, loadVars, cacheVars
<1>5. ASSUME NEW g \in Gets, StartLoad(g) PROVE OldEnded'
  BY <1>1, <1>5 DEF StartLoad, Missed, TypeOK, LoadsRegistered, Busy, OldEnded, FailureNotRemembered, getVars, loadVars, cacheVars
<1>6. ASSUME NEW g \in Gets, Cancel(g) PROVE OldEnded'
  BY <1>1, <1>6 DEF Cancel, TypeOK, LoadsRegistered, Busy, OldEnded, FailureNotRemembered, getVars, loadVars, cacheVars
<1>7. ASSUME NEW g \in Gets, MethodLoads(g) PROVE OldEnded'
  BY <1>1, <1>7 DEF MethodLoads, TypeOK, LoadsRegistered, Busy, OldEnded, FailureNotRemembered, getVars, loadVars, cacheVars
<1>8. ASSUME NEW g \in Gets, LoadFails(g) PROVE OldEnded'
  BY <1>1, <1>8 DEF LoadFails, End, TypeOK, LoadsRegistered, Busy, OldEnded, FailureNotRemembered, getVars, loadVars, cacheVars
<1>9. ASSUME NEW g \in Gets, Store(g) PROVE OldEnded'
  BY <1>1, <1>9 DEF Store, End, StoredAs, TypeOK, LoadsRegistered, Busy, OldEnded, FailureNotRemembered, getVars, loadVars, cacheVars
<1>10. ASSUME NEW g \in Gets, Finished(g) PROVE OldEnded'
  BY <1>1, <1>10 DEF Finished, TypeOK, LoadsRegistered, Busy, OldEnded, FailureNotRemembered, getVars, loadVars, cacheVars
<1>11. ASSUME NEW g \in Gets, CacheHit(g) \/ Resume(g) PROVE OldEnded'
  <2>1. Answered(g)
    BY <1>11, AnswerEffect
  <2>2. old \in [Gets -> SUBSET Gets] /\ UNCHANGED <<stage, old>>
    BY <2>1 DEF Answered, TypeOK
  <2>3. \A h \in Gets : job'[h] \notin old[h]
    BY <1>1, <2>1, <2>2 DEF Answered, OldEnded, FailureNotRemembered
  <2> QED
    BY <2>2, <2>3 DEF OldEnded, FailureNotRemembered
<1>12. ASSUME NEW t \in Gets, FixMethods(t) \/ MethodFails(t) \/ BrowserBlocked(t) PROVE OldEnded'
  <2>1. Proceeds(t)
    BY <1>12, MethodEffect
  <2> QED
    BY <1>1, <2>1 DEF Proceeds, TypeOK, OldEnded, FailureNotRemembered
<1>13. ASSUME Tick PROVE OldEnded'
  BY <1>1, <1>13 DEF Tick, TypeOK, LoadsRegistered, Busy, OldEnded, FailureNotRemembered, getVars, loadVars, cacheVars
<1>14. ASSUME NEW u \in Urls, Expire(u) PROVE OldEnded'
  BY <1>1, <1>14 DEF Expire, TypeOK, LoadsRegistered, Busy, OldEnded, FailureNotRemembered, getVars, loadVars, cacheVars
<1> QED
  BY <1>2, <1>3, <1>4, <1>5, <1>6, <1>7, <1>8, <1>9, <1>10, <1>11, <1>12, <1>13, <1>14 DEF Next, GetStep, LoadStep

\* Every step keeps what is said of fresh pages.
LEMMA FreshStep ==
  ASSUME TypeOK, LoadsRegistered, PagesRight, FreshRead, Next
  PROVE  FreshRead'
<1>1. /\ urlOf \in [Gets -> Urls] /\ FinalOf \in [Urls -> Urls] /\ HostOf \in [Urls -> Hosts]
      /\ Memory \in Nat /\ NoLoad \notin Gets /\ NoPage \notin Urls
  BY Typed
<1>2. ASSUME NEW g \in Gets, Begin(g) PROVE FreshRead'
  BY <1>1, <1>2 DEF Begin, TypeOK, LoadsRegistered, FreshRead, getVars, loadVars, cacheVars
<1>3. ASSUME NEW g \in Gets, ReadRow(g) PROVE FreshRead'
  BY <1>1, <1>3 DEF ReadRow, TypeOK, LoadsRegistered, FreshRead, getVars, loadVars, cacheVars
<1>4. ASSUME NEW g \in Gets, Share(g) PROVE FreshRead'
  BY <1>1, <1>4 DEF Share, Missed, TypeOK, LoadsRegistered, FreshRead, getVars, loadVars, cacheVars
<1>5. ASSUME NEW g \in Gets, StartLoad(g) PROVE FreshRead'
  BY <1>1, <1>5 DEF StartLoad, Missed, TypeOK, LoadsRegistered, FreshRead, getVars, loadVars, cacheVars
<1>6. ASSUME NEW g \in Gets, Cancel(g) PROVE FreshRead'
  BY <1>1, <1>6 DEF Cancel, TypeOK, LoadsRegistered, FreshRead, getVars, loadVars, cacheVars
<1>7. ASSUME NEW g \in Gets, MethodLoads(g) PROVE FreshRead'
  BY <1>1, <1>7 DEF MethodLoads, TypeOK, LoadsRegistered, FreshRead, getVars, loadVars, cacheVars
<1>8. ASSUME NEW g \in Gets, LoadFails(g) PROVE FreshRead'
  BY <1>1, <1>8 DEF LoadFails, End, TypeOK, LoadsRegistered, FreshRead, getVars, loadVars, cacheVars
<1>9. ASSUME NEW g \in Gets, Store(g) PROVE FreshRead'
  BY <1>1, <1>9 DEF Store, End, StoredAs, TypeOK, LoadsRegistered, FreshRead, getVars, loadVars, cacheVars
<1>10. ASSUME NEW g \in Gets, Finished(g) PROVE FreshRead'
  BY <1>1, <1>10 DEF Finished, TypeOK, LoadsRegistered, FreshRead, getVars, loadVars, cacheVars
<1>11. ASSUME NEW g \in Gets, CacheHit(g) \/ Resume(g) PROVE FreshRead'
  <2>1. Answered(g)
    BY <1>11, AnswerEffect
  <2> QED
    BY <1>1, <2>1 DEF Answered, TypeOK, FreshRead
<1>12. ASSUME NEW t \in Gets, FixMethods(t) \/ MethodFails(t) \/ BrowserBlocked(t) PROVE FreshRead'
  <2>1. Proceeds(t)
    BY <1>12, MethodEffect
  <2> QED
    BY <1>1, <2>1 DEF Proceeds, TypeOK, FreshRead
<1>13. ASSUME Tick PROVE FreshRead'
  BY <1>1, <1>13 DEF Tick, TypeOK, LoadsRegistered, FreshRead, getVars, loadVars, cacheVars
<1>14. ASSUME NEW u \in Urls, Expire(u) PROVE FreshRead'
  BY <1>1, <1>14 DEF Expire, TypeOK, LoadsRegistered, FreshRead, getVars, loadVars, cacheVars
<1> QED
  BY <1>2, <1>3, <1>4, <1>5, <1>6, <1>7, <1>8, <1>9, <1>10, <1>11, <1>12, <1>13, <1>14 DEF Next, GetStep, LoadStep

\* Every step keeps the invariant.
LEMMA InvStep ==
  ASSUME Inv, [Next]_vars
  PROVE  Inv'
<1>1. CASE Next
  BY <1>1, TypeStep, LoadsStep, PagesStep, OldStep, FreshStep DEF Inv
<1>2. CASE UNCHANGED vars
  BY <1>2
  DEF vars, getVars, loadVars, cacheVars, Inv, TypeOK, LoadsRegistered, PagesRight, OldEnded,
      FreshRead, FailureNotRemembered
<1> QED
  BY <1>1, <1>2

\* The inductive invariant of the loader (pages.py:53-171).
THEOREM LoaderCorrect == Spec => []Inv
BY LoaderInit, InvStep, PTL DEF Spec

\* Type correctness of the loader and of the rows it stores (pages.py:53-171).
THEOREM LoaderTyped == Spec => []TypeOK
BY LoaderCorrect, PTL DEF Inv

\* Two loads of a URL never run at once: both would be the one registered.
THEOREM LoaderSharesLoads == Spec => []OneLoadPerUrl
<1>1. Inv => OneLoadPerUrl
  BY DEF Inv, LoadsRegistered, Busy, OneLoadPerUrl, Running
<1> QED
  BY <1>1, LoaderCorrect, PTL

\* A get returns a page of its URL, whoever loaded or stored it.
THEOREM LoaderReturnsRightPage == Spec => []RightPage
<1>1. Inv => RightPage
  BY DEF Inv, PagesRight, RightPage
<1> QED
  BY <1>1, LoaderCorrect, PTL

\* A get never waits for a load that had ended when the get began.
THEOREM LoaderForgetsFailures == Spec => []FailureNotRemembered
BY LoaderCorrect, PTL DEF Inv, OldEnded

\* A get that begins with a live row starts no load.
THEOREM LoaderReusesPages == Spec => []NoNeedlessLoad
<1>1. Inv => NoNeedlessLoad
  BY DEF Inv, FreshRead, NoNeedlessLoad
<1> QED
  BY <1>1, LoaderCorrect, PTL
=============================================================================
