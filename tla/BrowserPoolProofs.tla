-------------------------- MODULE BrowserPoolProofs --------------------------
(***************************************************************************)
(* The counts of the browser pool, for every number of fetches, sessions,  *)
(* contexts, restarts and crashes: a context is counted by as many fetches *)
(* as use it, a session has one context, and not more contexts than        *)
(* max_contexts are open but for those that failures left behind.          *)
(*                                                                         *)
(* What makes it hold is the lock of the condition: while a context is     *)
(* made, its owner holds the lock, so the session it is for gets no other  *)
(* (Locked, FreshSession); and a context exists only after its maker has   *)
(* finished _context (Made), so no fetch uses it earlier.  Of an open      *)
(* context it is always known whose it is (Accounted): registered, in the  *)
(* hands of who holds the lock, about to end with its browser, or left by  *)
(* a failure.                                                              *)
(***************************************************************************)
EXTENDS BrowserPool, FiniteSetTheorems, TLAPS

\* Places from which a fetch or a drop has not yet come to a context.
Outside == {"sem", "starting", "shutdown", "stopping", "launching", "probing", "undo", "undoing",
            "locking", "waiting"}

\* Steps towards a running browser.
StartStep(f) ==
  \/ StartNotNeeded(f) \/ StartRefused(f) \/ Restart(f)
  \/ ClearContexts(f) \/ Stopped(f) \/ Launched(f) \/ Probed(f)
  \/ LaunchFails(f) \/ Undone(f)

\* The other steps of a fetch that is not cancelled.
PoolStep(f) ==
  \/ Enter(f) \/ Reuse(f) \/ StartCreate(f) \/ StartEvict(f) \/ Evicted(f) \/ NewContext(f)
  \/ WaitForIdle(f) \/ Created(f) \/ ContextFails(f) \/ Finish(f) \/ Release(f)

\* Places at which a task makes or closes contexts under the lock.
Owning == {"evicting", "creating", "routing", "dropping"}

Owner == \E t \in Tasks : pc[t] \in Owning

CoreTyped ==
  /\ sidOf \in Arrivals
  /\ pc \in [Tasks -> Places]
  /\ entry \in [Fetches -> Fetches \cup {Nobody}]
  /\ contexts \in Seq(Fetches)
  /\ active \in [Fetches -> Nat]
  /\ holder \in Tasks \cup {Nobody}

StartTyped ==
  /\ starter \in Fetches \cup {Nobody}
  /\ connected \in BOOLEAN /\ browser \in BOOLEAN
  /\ restarts \in 0..RestartLimit
  /\ crashes \in 0..MaxCrashes

\* Who makes or drops a context holds the lock.
Locked ==
  /\ \A t \in Tasks : pc[t] \in Owning => holder = t
  /\ \A d \in Drops : pc[d] \in {"locking", "waiting", "dropping", "done"}

\* A context is named after a fetch that has made it.
Made ==
  /\ \A i \in DOMAIN contexts : pc[contexts[i]] \in {"using", "releasing", "done"}
  /\ \A f \in Fetches : pc[f] \in {"using", "releasing"} =>
       entry[f] \in Fetches /\ pc[entry[f]] \in {"using", "releasing", "done"}

\* The session of a context that is being made has no context.
FreshSession ==
  \A f \in Making : \A i \in DOMAIN contexts : sidOf[contexts[i]] # sidOf[f]

\* There is room for the context that is being made.
Room ==
  /\ Len(contexts) <= MaxContexts
  /\ Owner => Len(contexts) < MaxContexts

Core ==
  /\ CoreTyped /\ Locked /\ Made /\ FreshSession /\ Room
  /\ ActiveExact /\ OneContextPerSession

OpenTyped ==
  /\ closing \in [Tasks -> SUBSET Fetches]
  /\ leaked \subseteq open /\ open \subseteq Fetches

\* Places at which a task closes what it has taken out of contexts.
Closers == {"evicting", "dropping", "stopping", "undoing"}

Registered == {contexts[i] : i \in DOMAIN contexts}

\* Of an open context it is known whose it is.
Accounted ==
  \A x \in open :
    \/ x \in leaked \/ x \in Registered
    \/ pc[x] = "routing"
    \/ \E t \in Tasks : pc[t] \in Closers /\ x \in closing[t]

\* An eviction and a drop close one context.
CloseOne ==
  \A t \in Tasks : pc[t] \in {"evicting", "dropping"} => \E x \in Fetches : closing[t] = {x}

OpenKnown == OpenTyped /\ Accounted /\ CloseOne

Inv == Core /\ StartTyped /\ OpenKnown

-----------------------------------------------------------------------------
(* Sequences and sets                                                      *)

\* RemoveAt closes the gap.
LEMMA RemoveAtShifts ==
  ASSUME NEW S, NEW s \in Seq(S), NEW i \in DOMAIN s
  PROVE  /\ RemoveAt(s, i) \in Seq(S) /\ Len(RemoveAt(s, i)) = Len(s) - 1
         /\ \A k \in 1..(Len(s) - 1) : RemoveAt(s, i)[k] = IF k < i THEN s[k] ELSE s[k + 1]
<1> DEFINE a == SubSeq(s, 1, i - 1)
           b == SubSeq(s, i + 1, Len(s))
<1>1. i \in 1..Len(s) /\ Len(s) \in Nat
  OBVIOUS
<1>2. a \in Seq(S) /\ Len(a) = i - 1 /\ \A k \in 1..(i - 1) : a[k] = s[k]
  BY <1>1
<1>3. b \in Seq(S) /\ Len(b) = Len(s) - i /\ \A k \in 1..(Len(s) - i) : b[k] = s[k + i]
  BY <1>1
<1> HIDE DEF a, b
<1>4. /\ a \o b \in Seq(S) /\ Len(a \o b) = Len(s) - 1
      /\ \A k \in 1..(Len(s) - 1) : (a \o b)[k] = IF k <= i - 1 THEN a[k] ELSE b[k - (i - 1)]
  BY <1>1, <1>2, <1>3, SMTT(30)
<1>5. \A k \in 1..(Len(s) - 1) : (a \o b)[k] = IF k < i THEN s[k] ELSE s[k + 1]
  <2>1. TAKE k \in 1..(Len(s) - 1)
  <2>2. CASE k < i
    BY <1>1, <1>2, <1>4, <2>2
  <2>3. CASE ~ (k < i)
    <3>1. PICK j \in 1..(Len(s) - i) : j = k - (i - 1) /\ j + i = k + 1
      BY <1>1, <2>3
    <3>2. b[j] = s[k + 1]
      BY <1>3, <3>1
    <3>3. (a \o b)[k] = b[j]
      BY <1>1, <1>4, <2>3, <3>1, SMTT(30)
    <3> QED
      BY <2>3, <3>2, <3>3
  <2> QED
    BY <2>2, <2>3
<1> QED
  BY <1>4, <1>5 DEF RemoveAt, a, b

\* No two entries of a sequence of contexts have the same session id.
OnePer(s, sid) == \A i, j \in DOMAIN s : sid[s[i]] = sid[s[j]] => i = j

\* A context that is taken out leaves the others as they are.
LEMMA RemoveOne ==
  ASSUME NEW S, NEW s \in Seq(S), NEW i \in DOMAIN s, NEW sid, OnePer(s, sid)
  PROVE  /\ OnePer(RemoveAt(s, i), sid)
         /\ \A k \in DOMAIN RemoveAt(s, i) : \E j \in DOMAIN s : RemoveAt(s, i)[k] = s[j] /\ j # i
<1> DEFINE r == RemoveAt(s, i)
           at(k) == IF k < i THEN k ELSE k + 1
<1>1. /\ r \in Seq(S) /\ Len(r) = Len(s) - 1 /\ Len(s) \in Nat /\ i \in 1..Len(s)
      /\ \A k \in 1..(Len(s) - 1) : r[k] = s[at(k)]
  <2>1. \A k \in 1..(Len(s) - 1) : r[k] = IF k < i THEN s[k] ELSE s[k + 1]
    BY RemoveAtShifts
  <2> QED
    BY <2>1, RemoveAtShifts
<1> HIDE DEF r
<1>2. DOMAIN r = 1..(Len(s) - 1) /\ DOMAIN s = 1..Len(s)
  BY <1>1
<1>3. \A k \in DOMAIN r : at(k) \in DOMAIN s /\ at(k) # i /\ r[k] = s[at(k)]
  BY <1>1, <1>2
<1>4. \A k, l \in DOMAIN r : at(k) = at(l) => k = l
  BY <1>1, <1>2
<1> HIDE DEF at
<1>5. OnePer(r, sid)
  BY <1>3, <1>4 DEF OnePer
<1> QED
  BY <1>3, <1>5 DEF r

\* A context that is moved to the end is still the only one of its session.
LEMMA MoveOne ==
  ASSUME NEW S, NEW s \in Seq(S), NEW i \in DOMAIN s, NEW sid, OnePer(s, sid)
  PROVE  LET m == Append(RemoveAt(s, i), s[i]) IN
         /\ m \in Seq(S) /\ Len(m) = Len(s) /\ OnePer(m, sid)
         /\ \A k \in DOMAIN m : \E j \in DOMAIN s : m[k] = s[j]
<1> DEFINE r == RemoveAt(s, i)
           m == Append(r, s[i])
<1>1. r \in Seq(S) /\ Len(r) = Len(s) - 1 /\ Len(s) \in Nat /\ i \in 1..Len(s) /\ s[i] \in S
  BY RemoveAtShifts
<1>2. /\ OnePer(r, sid)
      /\ \A k \in DOMAIN r : \E j \in DOMAIN s : r[k] = s[j] /\ j # i
  BY RemoveOne
<1> HIDE DEF r
<1>3. /\ m \in Seq(S) /\ Len(m) = Len(s) /\ DOMAIN m = 1..Len(s) /\ m[Len(s)] = s[i]
      /\ DOMAIN r = 1..(Len(s) - 1)
      /\ \A k \in 1..(Len(s) - 1) : m[k] = r[k]
  BY <1>1
<1> HIDE DEF m
<1>4. \A k \in 1..(Len(s) - 1) : sid[m[k]] # sid[s[i]]
  BY <1>2, <1>3 DEF OnePer
<1>5. ASSUME NEW k \in 1..Len(s), NEW l \in 1..Len(s), sid[m[k]] = sid[m[l]]
      PROVE  k = l
  <2>1. CASE k # Len(s) /\ l # Len(s)
    <3>1. k \in DOMAIN r /\ l \in DOMAIN r /\ m[k] = r[k] /\ m[l] = r[l]
      BY <1>1, <1>3, <2>1
    <3> QED
      BY <1>2, <1>5, <3>1 DEF OnePer
  <2>2. CASE k = Len(s) \/ l = Len(s)
    BY <1>1, <1>3, <1>4, <1>5, <2>2
  <2> QED
    BY <2>1, <2>2
<1>6. \A k \in DOMAIN m : \E j \in DOMAIN s : m[k] = s[j]
  <2>1. TAKE k \in DOMAIN m
  <2>2. CASE k = Len(s)
    BY <1>3, <2>2
  <2>3. CASE k # Len(s)
    <3>1. k \in DOMAIN r /\ m[k] = r[k]
      BY <1>1, <1>3, <2>3
    <3> QED
      BY <1>2, <3>1
  <2> QED
    BY <2>2, <2>3
<1>7. OnePer(m, sid)
  BY <1>3, <1>5 DEF OnePer
<1> QED
  BY <1>3, <1>6, <1>7 DEF m, r

\* Taking one entry out, or moving it to the end, keeps the others.
LEMMA OthersStay ==
  ASSUME NEW S, NEW s \in Seq(S), NEW i \in DOMAIN s, NEW j \in DOMAIN s
  PROVE  /\ j # i => \E k \in DOMAIN RemoveAt(s, i) : RemoveAt(s, i)[k] = s[j]
         /\ \E k \in DOMAIN Append(RemoveAt(s, i), s[i]) : Append(RemoveAt(s, i), s[i])[k] = s[j]
<1> DEFINE r == RemoveAt(s, i)
           m == Append(r, s[i])
<1>1. /\ r \in Seq(S) /\ Len(r) = Len(s) - 1 /\ Len(s) \in Nat /\ i \in 1..Len(s) /\ s[i] \in S
      /\ j \in 1..Len(s)
  BY RemoveAtShifts
<1>2. \A k \in 1..(Len(s) - 1) : r[k] = IF k < i THEN s[k] ELSE s[k + 1]
  BY RemoveAtShifts
<1> HIDE DEF r
<1>3. j # i => \E k \in DOMAIN r : r[k] = s[j]
  <2>1. CASE j < i
    BY <1>1, <1>2, <2>1
  <2>2. CASE i < j
    <3>1. j - 1 \in 1..(Len(s) - 1) /\ ~ (j - 1 < i) /\ (j - 1) + 1 = j
      BY <1>1, <2>2
    <3>2. r[j - 1] = s[j]
      BY <1>2, <3>1
    <3> QED
      BY <1>1, <3>1, <3>2
  <2> QED
    BY <1>1, <2>1, <2>2
<1>4. /\ DOMAIN m = 1..Len(s) /\ m[Len(s)] = s[i]
      /\ DOMAIN r = 1..(Len(s) - 1) /\ \A k \in DOMAIN r : k \in DOMAIN m /\ m[k] = r[k]
  BY <1>1
<1> HIDE DEF m
<1>5. \E k \in DOMAIN m : m[k] = s[j]
  <2>1. CASE j = i
    BY <1>1, <1>4, <2>1
  <2>2. CASE j # i
    BY <1>3, <1>4, <2>2
  <2> QED
    BY <2>1, <2>2
<1> QED
  BY <1>3, <1>5 DEF m, r

\* Fetches and drops are different tasks, and none of them is Nobody.
LEMMA TasksFacts ==
  /\ Fetches \subseteq Tasks /\ Drops \subseteq Tasks /\ Nobody \notin Tasks
  /\ \A f \in Fetches : f \notin Drops
  /\ IsFiniteSet(Fetches) /\ MaxContexts \in Nat /\ MaxContexts > 0
BY PoolAssumption DEF Tasks

\* The users of a context can be counted.
LEMMA UsersFinite ==
  ASSUME NEW x \in Fetches
  PROVE  IsFiniteSet(Users(x)) /\ Cardinality(Users(x)) \in Nat
<1>1. Users(x) \subseteq Fetches
  BY DEF Users
<1> QED
  BY <1>1, TasksFacts, FS_Subset, FS_CardinalityType
-----------------------------------------------------------------------------
(* Steps that leave the contexts alone                                     *)

\* A task is outside _context before and after, or it ends.
Calm ==
  /\ pc' \in [Tasks -> Places]
  /\ \A t \in Tasks : pc'[t] # pc[t] => pc[t] \in Outside /\ pc'[t] \in Outside \cup {"done"}
  /\ \A d \in Drops : pc'[d] \in {"locking", "waiting", "dropping", "done"}

\* A step that keeps every task outside _context, or ends it there, keeps the counts.
LEMMA CalmKept ==
  ASSUME Core, Calm, UNCHANGED <<sidOf, entry, active, holder>>,
         contexts' = contexts \/ contexts' = <<>>
  PROVE  Core'
<1> USE DEF Core, CoreTyped
<1>1. CoreTyped'
  <2>1. contexts' \in Seq(Fetches)
    <3>1. <<>> \in Seq(Fetches)
      OBVIOUS
    <3>2. CASE contexts' = contexts
      BY <3>2
    <3> QED
      BY <3>1, <3>2
  <2> QED
    BY <2>1 DEF Calm
<1>2. Locked'
  BY TasksFacts DEF Locked, Calm, Outside, Owning
<1>3. Made'
  <2>1. \A f \in Fetches : /\ pc'[f] \in {"using", "releasing"} => pc[f] = pc'[f]
                           /\ pc[f] \in {"using", "releasing", "done"} => pc'[f] = pc[f]
    BY TasksFacts DEF Calm, Outside
  <2>2. \A i \in DOMAIN contexts' : i \in DOMAIN contexts /\ contexts'[i] = contexts[i] /\ contexts[i] \in Fetches
    OBVIOUS
  <2> QED
    BY <2>1, <2>2 DEF Made
<1>4. Making' = Making
  BY TasksFacts DEF Making, Calm, Outside, Owning
<1>5. FreshSession'
  BY <1>4 DEF FreshSession
<1>6. Room'
  <2>3. Owner' => Owner
    BY TasksFacts DEF Owner, Owning, Calm, Outside
  <2>1. CASE contexts' = contexts
    BY <2>1, <2>3 DEF Room
  <2>2. CASE contexts' = <<>>
    BY <1>4, <2>2, TasksFacts DEF Room, Owner, Owning
  <2> QED
    BY <2>1, <2>2
<1>7. ActiveExact'
  <2>1. \A x \in Fetches : Users(x)' = Users(x)
    BY TasksFacts DEF Users, Calm, Outside
  <2> QED
    BY <2>1 DEF ActiveExact
<1>8. OneContextPerSession'
  BY DEF OneContextPerSession
<1> QED
  BY <1>1, <1>2, <1>3, <1>5, <1>6, <1>7, <1>8

\* The steps towards a running browser, waiting, and cancellations on the way.
LEMMA CalmSteps ==
  ASSUME Core, NEW t \in Tasks,
         \/ /\ t \in Fetches
            /\ \/ Enter(t) \/ StartStep(t) \/ WaitForIdle(t) \/ CancelEarly(t) \/ CancelStart(t)
         \/ /\ t \in Drops
            /\ DropWaits(t) \/ NothingToDrop(t)
         \/ Disconnect \/ ForgetRestart
  PROVE  Core'
<1>1. UNCHANGED <<sidOf, entry, active, holder>>
  BY DEF Enter, StartStep, StartNotNeeded, StartRefused, Restart, ClearContexts, Stopped, Launched, Probed,
     LaunchFails, Undone, WaitForIdle, CancelEarly, CancelStart, DropWaits, NothingToDrop, Disconnect,
     ForgetRestart, poolVars
<1>2. contexts' = contexts \/ contexts' = <<>>
  BY DEF Enter, StartStep, StartNotNeeded, StartRefused, Restart, ClearContexts, Stopped, Launched, Probed,
     LaunchFails, Undone, WaitForIdle, CancelEarly, CancelStart, DropWaits, NothingToDrop, Disconnect,
     ForgetRestart, poolVars
<1>3. \/ pc' = pc
      \/ \E place \in Outside \cup {"done"} :
           /\ pc[t] \in Outside /\ (t \in Drops => place \in {"waiting", "done"})
           /\ Goto(t, place) \/ GotoAndNotify(t, place)
  BY TasksFacts DEF Enter, StartStep, StartNotNeeded, StartRefused, Restart, ClearContexts, Stopped, Launched,
     Probed, LaunchFails, Undone, WaitForIdle, NeedsContext, CancelEarly, CancelStart, DropWaits, NothingToDrop,
     Disconnect, ForgetRestart, Outside
<1>4. Calm
  <2>1. CASE pc' = pc
    BY <2>1 DEF Calm, Core, CoreTyped, Locked, Owning
  <2>2. CASE pc' # pc
    <3>1. PICK place \in Outside \cup {"done"} :
            /\ pc[t] \in Outside /\ (t \in Drops => place \in {"waiting", "done"})
            /\ Goto(t, place) \/ GotoAndNotify(t, place)
      BY <1>3, <2>2
    <3>2. \A u \in Tasks : \/ pc'[u] = pc[u]
                           \/ u = t /\ pc'[u] = place
                           \/ pc[u] = "waiting" /\ pc'[u] = "locking"
      BY <3>1 DEF Goto, GotoAndNotify, Core, CoreTyped
    <3>3. pc' \in [Tasks -> Places]
      BY <3>1 DEF Goto, GotoAndNotify, Core, CoreTyped, Outside, Places
    <3> QED
      BY <3>1, <3>2, <3>3, TasksFacts DEF Calm, Outside, Core, Locked, Owning
  <2> QED
    BY <2>1, <2>2
<1> QED
  BY <1>1, <1>2, <1>4, CalmKept

-----------------------------------------------------------------------------
(* _context, _release and drop_context                                     *)

\* While nobody holds the lock nobody makes or drops a context.
LEMMA NobodyOwns ==
  ASSUME Core, holder = Nobody
  PROVE  Making = {} /\ ~ Owner /\ \A t \in Tasks : pc[t] \notin Owning
BY TasksFacts DEF Core, Locked, Making, Owning, Owner

\* The next context: for a session that has none, and under the lock.
LEMMA StartKept ==
  ASSUME Core, NEW f \in Fetches, StartCreate(f) \/ StartEvict(f)
  PROVE  Core'
<1> USE DEF Core, CoreTyped
<1>1. PICK place \in {"creating", "evicting"} :
        /\ pc[f] = "locking" /\ holder = Nobody /\ ContextsOf(sidOf[f]) = {}
        /\ holder' = f /\ pc' = [pc EXCEPT ![f] = place] /\ UNCHANGED <<sidOf, entry, active>>
  BY DEF StartCreate, StartEvict, NeedsContext, Goto, poolVars
<1>2. /\ contexts' \in Seq(Fetches) /\ Len(contexts') < MaxContexts
      /\ OnePer(contexts', sidOf)
      /\ \A k \in DOMAIN contexts' : \E j \in DOMAIN contexts : contexts'[k] = contexts[j]
  <2>1. OnePer(contexts, sidOf)
    BY DEF OnePer, OneContextPerSession
  <2>2. CASE StartCreate(f)
    BY <2>1, <2>2 DEF StartCreate, poolVars
  <2>3. CASE StartEvict(f)
    <3>1. PICK i \in DOMAIN contexts : contexts' = RemoveAt(contexts, i)
      BY <2>3 DEF StartEvict, IdleContexts
    <3>2. /\ RemoveAt(contexts, i) \in Seq(Fetches) /\ Len(RemoveAt(contexts, i)) = Len(contexts) - 1
          /\ Len(contexts) \in Nat /\ Len(contexts) <= MaxContexts
      BY RemoveAtShifts DEF Room, Owner, Owning
    <3>3. /\ OnePer(RemoveAt(contexts, i), sidOf)
          /\ \A k \in DOMAIN RemoveAt(contexts, i) :
               \E j \in DOMAIN contexts : RemoveAt(contexts, i)[k] = contexts[j]
      BY <2>1, RemoveOne
    <3> QED
      BY <3>1, <3>2, <3>3, TasksFacts
  <2> QED
    BY <2>2, <2>3
<1>3. \A t \in Tasks : pc[t] \notin Owning
  BY <1>1, NobodyOwns
<1>4. CoreTyped'
  BY <1>1, <1>2, TasksFacts DEF Places
<1>5. Locked'
  BY <1>1, <1>3, TasksFacts DEF Locked, Owning
<1>6. \A g \in Fetches : pc'[g] = IF g = f THEN place ELSE pc[g]
  BY <1>1, TasksFacts
<1>7. Made'
  <2>1. \A k \in DOMAIN contexts' : pc'[contexts'[k]] \in {"using", "releasing", "done"}
    <3>1. TAKE k \in DOMAIN contexts'
    <3>2. PICK j \in DOMAIN contexts : contexts'[k] = contexts[j]
      BY <1>2
    <3>3. contexts[j] \in Fetches /\ pc[contexts[j]] \in {"using", "releasing", "done"}
      BY DEF Made
    <3> QED
      BY <1>1, <1>6, <3>2, <3>3
  <2> QED
    BY <1>1, <1>6, <2>1 DEF Made
<1>8. Making' = {f}
  BY <1>1, <1>3, <1>6, TasksFacts DEF Making, Owning
<1>9. FreshSession'
  BY <1>1, <1>2, <1>8 DEF FreshSession, ContextsOf
<1>10. Room'
  BY <1>2, TasksFacts DEF Room, Owner, Owning
<1>11. ActiveExact'
  <2>1. \A x \in Fetches : Users(x)' = Users(x)
    BY <1>1, <1>6 DEF Users
  <2> QED
    BY <1>1, <2>1 DEF ActiveExact
<1>12. OneContextPerSession'
  BY <1>1, <1>2 DEF OnePer, OneContextPerSession
<1> QED
  BY <1>4, <1>5, <1>7, <1>9, <1>10, <1>11, <1>12

\* The context is there: its maker is its first and only user.
LEMMA CreatedKept ==
  ASSUME Core, NEW f \in Fetches, Created(f)
  PROVE  Core'
<1> USE DEF Core, CoreTyped
<1>1. /\ pc[f] = "routing" /\ contexts' = Append(contexts, f)
      /\ active' = [active EXCEPT ![f] = 1] /\ entry' = [entry EXCEPT ![f] = f]
      /\ holder' = Nobody /\ pc' = [pc EXCEPT ![f] = "using"] /\ sidOf' = sidOf
  BY DEF Created, Goto
<1>2. holder = f /\ f \in Making
  BY <1>1, TasksFacts DEF Locked, Making, Owning
<1>3. \A t \in Tasks : t # f => pc'[t] = pc[t] /\ pc[t] \notin Owning
  BY <1>1, <1>2 DEF Locked, Owning
<1>4. pc'[f] = "using" /\ entry'[f] = f /\ active'[f] = 1
  BY <1>1, TasksFacts
<1>5. \A g \in Fetches : g # f => entry'[g] = entry[g] /\ active'[g] = active[g]
  BY <1>1
<1>6. /\ contexts' \in Seq(Fetches) /\ Len(contexts') = Len(contexts) + 1 /\ Len(contexts) \in Nat
      /\ contexts'[Len(contexts) + 1] = f
      /\ \A k \in 1..Len(contexts) : contexts'[k] = contexts[k]
  BY <1>1
<1>7. CoreTyped'
  BY <1>1, <1>6, TasksFacts DEF Places
<1>8. Locked'
  BY <1>1, <1>3, <1>4, TasksFacts DEF Locked, Owning
<1>9. Made'
  <2>1. \A k \in DOMAIN contexts' : pc'[contexts'[k]] \in {"using", "releasing", "done"}
    <3>1. TAKE k \in DOMAIN contexts'
    <3>2. CASE k \in 1..Len(contexts)
      <4>1. pc[contexts[k]] \in {"using", "releasing", "done"} /\ contexts[k] \in Fetches
        BY <3>2 DEF Made
      <4> QED
        BY <1>1, <1>3, <1>6, <3>2, <4>1, TasksFacts
    <3>3. CASE k \notin 1..Len(contexts)
      BY <1>4, <1>6, <3>3
    <3> QED
      BY <3>2, <3>3
  <2>2. \A g \in Fetches : pc'[g] \in {"using", "releasing"} =>
          entry'[g] \in Fetches /\ pc'[entry'[g]] \in {"using", "releasing", "done"}
    <3>1. TAKE g \in Fetches
    <3>2. HAVE pc'[g] \in {"using", "releasing"}
    <3>3. CASE g = f
      BY <1>4, <3>3
    <3>4. CASE g # f
      <4>1. pc[g] \in {"using", "releasing"} /\ entry'[g] = entry[g]
        BY <1>3, <1>5, <3>2, <3>4, TasksFacts
      <4>2. entry[g] \in Fetches /\ pc[entry[g]] \in {"using", "releasing", "done"}
        BY <4>1 DEF Made
      <4> QED
        BY <1>3, <1>4, <4>1, <4>2, TasksFacts
    <3> QED
      BY <3>3, <3>4
  <2> QED
    BY <2>1, <2>2 DEF Made
<1>10. Making' = {}
  BY <1>3, <1>4, TasksFacts DEF Making, Owning
<1>11. FreshSession'
  BY <1>10 DEF FreshSession
<1>12. Room'
  <2>1. ~ Owner'
    BY <1>3, <1>4 DEF Owner, Owning
  <2>2. Owner
    BY <1>1, TasksFacts DEF Owner, Owning
  <2> QED
    BY <1>6, <2>1, <2>2, TasksFacts DEF Room
<1>13. ActiveExact'
  <2>1. Users(f)' = {f}
    <3>1. \A g \in Fetches : g # f /\ pc'[g] \in {"using", "releasing"} => entry'[g] # f
      <4>1. \A g \in Fetches : pc[g] \in {"using", "releasing"} => entry[g] # f
        BY <1>1 DEF Made
      <4> QED
        BY <1>3, <1>5, <4>1, TasksFacts
    <3> QED
      BY <1>4, <3>1 DEF Users
  <2>2. \A x \in Fetches : x # f => Users(x)' = Users(x)
    BY <1>1, <1>3, <1>4, <1>5, TasksFacts DEF Users
  <2> QED
    BY <1>4, <1>5, <2>1, <2>2, FS_Singleton DEF ActiveExact
<1>14. OneContextPerSession'
  <2>1. \A i \in 1..Len(contexts) : sidOf[contexts[i]] # sidOf[f]
    BY <1>2 DEF FreshSession
  <2> QED
    BY <1>1, <1>6, <2>1 DEF OneContextPerSession
<1> QED
  BY <1>7, <1>8, <1>9, <1>11, <1>12, <1>13, <1>14

\* A context that is already there gets one more user and moves to the end.
LEMMA ReuseKept ==
  ASSUME Core, NEW f \in Fetches, Reuse(f)
  PROVE  Core'
<1> USE DEF Core, CoreTyped
<1>1. PICK i \in DOMAIN contexts :
        /\ entry' = [entry EXCEPT ![f] = contexts[i]]
        /\ active' = [active EXCEPT ![contexts[i]] = active[contexts[i]] + 1]
        /\ contexts' = Append(RemoveAt(contexts, i), contexts[i])
  BY DEF Reuse, ContextsOf
<1>2. pc[f] = "locking" /\ holder = Nobody /\ holder' = holder /\ sidOf' = sidOf
      /\ pc' = [pc EXCEPT ![f] = "using"]
  BY DEF Reuse, Goto
<1>3. PICK x \in Fetches : x = contexts[i] /\ pc[x] \in {"using", "releasing", "done"} /\ active[x] \in Nat
  BY DEF Made
<1>4. OnePer(contexts, sidOf)
  BY DEF OnePer, OneContextPerSession
<1>5. /\ contexts' \in Seq(Fetches) /\ Len(contexts') = Len(contexts) /\ OnePer(contexts', sidOf)
      /\ \A k \in DOMAIN contexts' : \E j \in DOMAIN contexts : contexts'[k] = contexts[j]
  <2> DEFINE m == Append(RemoveAt(contexts, i), contexts[i])
  <2>1. contexts \in Seq(Fetches)
    OBVIOUS
  <2>2. /\ m \in Seq(Fetches) /\ Len(m) = Len(contexts) /\ OnePer(m, sidOf)
        /\ \A k \in DOMAIN m : \E j \in DOMAIN contexts : m[k] = contexts[j]
    <3> HIDE DEF Core, CoreTyped
    <3> QED
      BY <1>4, <2>1, MoveOne
  <2>3. contexts' = m
    BY <1>1
  <2> HIDE DEF m
  <2> QED
    BY <2>2, <2>3
<1>6. \A t \in Tasks : t # f => pc'[t] = pc[t]
  BY <1>2
<1>7. pc'[f] = "using" /\ entry'[f] = x /\ active'[x] = active[x] + 1 /\ f # x
  BY <1>1, <1>2, <1>3, TasksFacts
<1>8. \A g \in Fetches : (g # f => entry'[g] = entry[g]) /\ (g # x => active'[g] = active[g])
  BY <1>1, <1>3
<1>9. CoreTyped'
  <2>1. entry' \in [Fetches -> Fetches \cup {Nobody}]
    BY <1>1, <1>3
  <2>2. active' \in [Fetches -> Nat]
    <3>1. active[x] + 1 \in Nat /\ active' = [active EXCEPT ![x] = active[x] + 1]
      BY <1>1, <1>3
    <3> QED
      BY <3>1
  <2>3. pc' \in [Tasks -> Places]
    BY <1>2 DEF Places
  <2> QED
    BY <1>2, <1>5, <2>1, <2>2, <2>3
<1>10. Locked'
  BY <1>2, <1>6, <1>7, TasksFacts DEF Locked, Owning
<1>11. Made'
  <2>1. \A k \in DOMAIN contexts' : pc'[contexts'[k]] \in {"using", "releasing", "done"}
    <3>1. TAKE k \in DOMAIN contexts'
    <3>2. PICK j \in DOMAIN contexts : contexts'[k] = contexts[j]
      BY <1>5
    <3>3. contexts[j] \in Fetches /\ pc[contexts[j]] \in {"using", "releasing", "done"}
      BY DEF Made
    <3> QED
      BY <1>2, <1>6, <3>2, <3>3, TasksFacts
  <2>2. \A g \in Fetches : pc'[g] \in {"using", "releasing"} =>
          entry'[g] \in Fetches /\ pc'[entry'[g]] \in {"using", "releasing", "done"}
    BY <1>2, <1>3, <1>6, <1>7, <1>8, TasksFacts DEF Made
  <2> QED
    BY <2>1, <2>2 DEF Made
<1>12. Making = {} /\ Making' = {}
  BY <1>2, <1>6, <1>7, NobodyOwns, TasksFacts DEF Making, Owning
<1>13. FreshSession' /\ Room'
  <2>1. ~ Owner'
    <3>1. \A t \in Tasks : pc[t] \notin Owning
      BY <1>2, NobodyOwns
    <3> QED
      BY <1>6, <1>7, <3>1 DEF Owner, Owning
  <2> QED
    BY <1>5, <1>12, <2>1 DEF FreshSession, Room
<1>14. ActiveExact'
  <2>1. f \notin Users(x) /\ Users(x)' = Users(x) \cup {f}
    BY <1>2, <1>6, <1>7, <1>8, TasksFacts DEF Users
  <2>2. \A g \in Fetches : g # x => Users(g)' = Users(g)
    BY <1>2, <1>6, <1>7, <1>8, TasksFacts DEF Users
  <2>3. Cardinality(Users(x) \cup {f}) = Cardinality(Users(x)) + 1
    BY <2>1, UsersFinite, FS_AddElement
  <2> QED
    BY <1>7, <1>8, <2>1, <2>2, <2>3 DEF ActiveExact
<1>15. OneContextPerSession'
  BY <1>2, <1>5 DEF OnePer, OneContextPerSession
<1> QED
  BY <1>9, <1>10, <1>11, <1>13, <1>14, <1>15

\* The end of the work on the page: the context is still used until the release.
LEMMA FinishKept ==
  ASSUME Core, NEW f \in Fetches, Finish(f)
  PROVE  Core'
<1> USE DEF Core, CoreTyped
<1>1. /\ pc[f] = "using" /\ pc' = [pc EXCEPT ![f] = "releasing"]
      /\ UNCHANGED <<sidOf, entry, contexts, active, holder>>
  BY DEF Finish, Goto, poolVars
<1>2. pc'[f] = "releasing" /\ \A t \in Tasks : t # f => pc'[t] = pc[t]
  BY <1>1, TasksFacts
<1>3. CoreTyped' /\ Locked'
  BY <1>1, <1>2, TasksFacts DEF Places, Locked, Owning
<1>4. Made'
  BY <1>1, <1>2, TasksFacts DEF Made
<1>5. Making' = Making
  BY <1>1, <1>2, TasksFacts DEF Making, Owning
<1>6. FreshSession' /\ Room' /\ OneContextPerSession'
  BY <1>1, <1>5 DEF FreshSession, Room, OneContextPerSession, Owner, Owning
<1>7. \A x \in Fetches : Users(x)' = Users(x)
  BY <1>1, <1>2, TasksFacts DEF Users
<1> QED
  BY <1>1, <1>3, <1>4, <1>6, <1>7 DEF ActiveExact

\* _release takes one user off the context and wakes the waiters.
LEMMA ReleaseKept ==
  ASSUME Core, NEW f \in Fetches, Release(f)
  PROVE  Core'
<1> USE DEF Core, CoreTyped
<1>1. /\ pc[f] = "releasing" /\ holder = Nobody
      /\ active' = [active EXCEPT ![entry[f]] = active[entry[f]] - 1]
      /\ entry' = [entry EXCEPT ![f] = Nobody]
      /\ GotoAndNotify(f, "done") /\ UNCHANGED <<sidOf, contexts, holder>>
  BY DEF Release
<1>2. PICK x \in Fetches : x = entry[f]
  BY <1>1 DEF Made
<1>3. \A t \in Tasks : pc'[t] = IF t = f THEN "done" ELSE IF pc[t] = "waiting" THEN "locking" ELSE pc[t]
  BY <1>1 DEF GotoAndNotify
<1>15. \A g \in Fetches : g # f => entry'[g] = entry[g]
  BY <1>1
<1>4. f \in Users(x) /\ Users(x)' = Users(x) \ {f}
  BY <1>1, <1>2, <1>3, <1>15, TasksFacts DEF Users
<1>5. \A y \in Fetches : y # x => Users(y)' = Users(y)
  BY <1>1, <1>2, <1>3, <1>15, TasksFacts DEF Users
<1>6. Cardinality(Users(x) \ {f}) = Cardinality(Users(x)) - 1 /\ IsFiniteSet(Users(x) \ {f})
  BY <1>4, UsersFinite, FS_RemoveElement
<1>7. active[x] = Cardinality(Users(x)) /\ active[x] - 1 \in Nat
  <2>1. Cardinality(Users(x) \ {f}) \in Nat
    BY <1>6, FS_CardinalityType
  <2> QED
    BY <1>6, <2>1 DEF ActiveExact
<1>16. entry' \in [Fetches -> Fetches \cup {Nobody}]
  BY <1>1
<1>8. active' \in [Fetches -> Nat] /\ active'[x] = active[x] - 1
      /\ \A y \in Fetches : y # x => active'[y] = active[y]
  BY <1>1, <1>2, <1>7
<1>9. ActiveExact'
  BY <1>4, <1>5, <1>6, <1>7, <1>8 DEF ActiveExact
<1>10. pc' \in [Tasks -> Places]
  BY <1>1 DEF GotoAndNotify, Places
<1>11. Locked'
  BY <1>1, <1>3, TasksFacts DEF Locked, Owning
<1>12. Made'
  <2>1. /\ \A g \in Fetches : pc[g] \in {"using", "releasing", "done"} => pc'[g] \in {pc[g], "done"}
        /\ \A g \in Fetches : pc'[g] \in {"using", "releasing"} => pc[g] = pc'[g]
    BY <1>3, TasksFacts
  <2>2. \A i \in DOMAIN contexts : pc'[contexts[i]] \in {"using", "releasing", "done"}
    <3>1. TAKE i \in DOMAIN contexts
    <3>2. contexts[i] \in Fetches /\ pc[contexts[i]] \in {"using", "releasing", "done"}
      BY DEF Made
    <3> QED
      BY <2>1, <3>2
  <2>3. \A g \in Fetches : pc'[g] \in {"using", "releasing"} =>
          entry'[g] \in Fetches /\ pc'[entry'[g]] \in {"using", "releasing", "done"}
    <3>1. \A g \in Fetches : pc'[g] \in {"using", "releasing"} => g # f
      BY <1>3, TasksFacts
    <3> QED
      BY <1>15, <2>1, <3>1 DEF Made
  <2> QED
    BY <1>1, <2>2, <2>3 DEF Made
<1>13. Making' = Making
  BY <1>1, <1>3, TasksFacts DEF Making, Owning
<1>14. FreshSession' /\ Room' /\ OneContextPerSession'
  <2>1. Owner' => Owner
    BY <1>3 DEF Owner, Owning
  <2> QED
    BY <1>1, <1>13, <2>1 DEF FreshSession, Room, OneContextPerSession
<1> QED
  BY <1>1, <1>8, <1>9, <1>10, <1>11, <1>12, <1>14, <1>16

\* The evicted context is closed, or the new one is there but not yet routed.
LEMMA MakingKept ==
  ASSUME Core, NEW f \in Fetches, Evicted(f) \/ NewContext(f)
  PROVE  Core'
<1> USE DEF Core, CoreTyped
<1>1. PICK place \in {"creating", "routing"} :
        /\ pc[f] \in {"evicting", "creating"} /\ pc' = [pc EXCEPT ![f] = place]
        /\ UNCHANGED <<sidOf, entry, contexts, active, holder>>
  BY DEF Evicted, NewContext, Goto, poolVars
<1>2. pc'[f] = place /\ \A t \in Tasks : t # f => pc'[t] = pc[t]
  BY <1>1, TasksFacts
<1>3. CoreTyped' /\ Locked'
  BY <1>1, <1>2, TasksFacts DEF Places, Locked, Owning
<1>4. Made'
  BY <1>1, <1>2, TasksFacts DEF Made
<1>5. Making' = Making
  BY <1>1, <1>2, TasksFacts DEF Making
<1>6. Owner' => Owner
  BY <1>1, <1>2, TasksFacts DEF Owner, Owning
<1>7. FreshSession' /\ Room' /\ OneContextPerSession'
  BY <1>1, <1>5, <1>6 DEF FreshSession, Room, OneContextPerSession
<1>8. \A x \in Fetches : Users(x)' = Users(x)
  BY <1>1, <1>2, TasksFacts DEF Users
<1> QED
  BY <1>1, <1>3, <1>4, <1>7, <1>8 DEF ActiveExact

\* The owner of the lock ends: a context that could not be made, or was dropped.
LEMMA OwnerEnds ==
  ASSUME Core, NEW t \in Tasks, ContextFails(t) \/ Dropped(t)
  PROVE  Core'
<1> USE DEF Core, CoreTyped
<1>1. /\ pc[t] \in Owning /\ holder' = Nobody /\ pc' = [pc EXCEPT ![t] = "done"]
      /\ UNCHANGED <<sidOf, entry, contexts, active>>
  <2>1. CASE ContextFails(t)
    BY <2>1 DEF ContextFails, Owning, Goto, poolVars
  <2>2. CASE Dropped(t)
    BY <2>2 DEF Dropped, Owning, Goto, poolVars
  <2> QED
    BY <2>1, <2>2
<1>2. /\ pc'[t] = "done"
      /\ \A u \in Tasks : u # t => pc'[u] = pc[u] /\ pc[u] \notin Owning
  BY <1>1 DEF Locked, Owning
<1>3. CoreTyped'
  BY <1>1 DEF Places
<1>4. Locked'
  BY <1>2, TasksFacts DEF Locked, Owning
<1>5. Made'
  BY <1>1, <1>2, TasksFacts DEF Made
<1>6. Making' = {}
  BY <1>2, TasksFacts DEF Making, Owning
<1>7. FreshSession' /\ Room' /\ OneContextPerSession'
  BY <1>1, <1>6 DEF FreshSession, Room, OneContextPerSession, Owner, Owning
<1>8. \A x \in Fetches : Users(x)' = Users(x)
  <2>1. \A g \in Fetches : pc'[g] \in {"using", "releasing"} <=> pc[g] \in {"using", "releasing"}
    BY <1>1, <1>2, TasksFacts DEF Owning
  <2> QED
    BY <1>1, <2>1 DEF Users
<1> QED
  BY <1>1, <1>3, <1>4, <1>5, <1>7, <1>8 DEF ActiveExact

\* drop_context takes the context out and closes it under the lock.
LEMMA DropClosesKept ==
  ASSUME Core, NEW d \in Drops, DropCloses(d)
  PROVE  Core'
<1> USE DEF Core, CoreTyped
<1>1. PICK i \in DOMAIN contexts : contexts' = RemoveAt(contexts, i)
  BY DEF DropCloses, ContextsOf
<1>2. /\ pc[d] = "locking" /\ holder = Nobody /\ holder' = d /\ pc' = [pc EXCEPT ![d] = "dropping"]
      /\ UNCHANGED <<sidOf, entry, active>>
  BY DEF DropCloses, Goto
<1>3. \A t \in Tasks : pc[t] \notin Owning
  BY <1>2, NobodyOwns
<1>4. pc'[d] = "dropping" /\ \A t \in Tasks : t # d => pc'[t] = pc[t]
  BY <1>2, TasksFacts
<1>5. OnePer(contexts, sidOf)
  BY DEF OnePer, OneContextPerSession
<1>6. /\ contexts' \in Seq(Fetches) /\ Len(contexts') = Len(contexts) - 1 /\ Len(contexts) \in Nat
      /\ OnePer(contexts', sidOf)
      /\ \A k \in DOMAIN contexts' : \E j \in DOMAIN contexts : contexts'[k] = contexts[j]
  BY <1>1, <1>5, RemoveAtShifts, RemoveOne
<1>7. CoreTyped' /\ Locked'
  BY <1>2, <1>3, <1>4, <1>6, TasksFacts DEF Places, Locked, Owning
<1>8. Made'
  <2>1. \A f \in Fetches : pc'[f] = pc[f]
    BY <1>4, TasksFacts
  <2>2. \A k \in DOMAIN contexts' : pc'[contexts'[k]] \in {"using", "releasing", "done"}
    <3>1. TAKE k \in DOMAIN contexts'
    <3>2. PICK j \in DOMAIN contexts : contexts'[k] = contexts[j]
      BY <1>6
    <3>3. contexts[j] \in Fetches /\ pc[contexts[j]] \in {"using", "releasing", "done"}
      BY DEF Made
    <3> QED
      BY <2>1, <3>2, <3>3
  <2> QED
    BY <1>2, <2>1, <2>2 DEF Made
<1>9. Making' = {}
  BY <1>3, <1>4, TasksFacts DEF Making, Owning
<1>10. FreshSession' /\ Room'
  BY <1>6, <1>9, TasksFacts DEF FreshSession, Room, Owner, Owning
<1>11. OneContextPerSession'
  BY <1>2, <1>6 DEF OnePer, OneContextPerSession
<1>12. \A x \in Fetches : Users(x)' = Users(x)
  BY <1>2, <1>4, TasksFacts DEF Users
<1> QED
  BY <1>2, <1>7, <1>8, <1>10, <1>11, <1>12 DEF ActiveExact

-----------------------------------------------------------------------------
(* Whose the open contexts are                                             *)

\* Where the tasks are after a step of one of them.
LEMMA Moves ==
  ASSUME Inv, NEW t \in Tasks, NEW place, Goto(t, place) \/ GotoAndNotify(t, place)
  PROVE  /\ pc'[t] = place
         /\ \A u \in Tasks : u # t => pc'[u] = pc[u] \/ (pc[u] = "waiting" /\ pc'[u] = "locking")
BY DEF Goto, GotoAndNotify, Inv, Core, CoreTyped

\* Steps that open and close nothing, of a task that has nothing open in its hands.
LEMMA OpenSame ==
  ASSUME Inv, UNCHANGED openVars,
         Registered \subseteq Registered',
         NEW t \in Tasks, NEW place, Goto(t, place) \/ GotoAndNotify(t, place),
         pc[t] \notin Closers \cup {"routing"}, place \notin {"evicting", "dropping"}
  PROVE  OpenKnown'
<1>1. OpenTyped'
  BY DEF Inv, OpenKnown, OpenTyped, openVars
<1>2. \A u \in Tasks : /\ pc[u] \in Closers \cup {"routing"} => pc'[u] = pc[u]
                       /\ pc'[u] \in {"evicting", "dropping"} => pc[u] = pc'[u]
  BY Moves DEF Closers
<1>3. ASSUME NEW x \in open'
      PROVE  \/ x \in leaked' \/ x \in Registered' \/ pc'[x] = "routing"
             \/ \E u \in Tasks : pc'[u] \in Closers /\ x \in closing'[u]
  <2>1. x \in open /\ x \in Fetches /\ x \in Tasks /\ leaked' = leaked /\ closing' = closing
    BY <1>3, TasksFacts DEF Inv, OpenKnown, OpenTyped, openVars
  <2>2. CASE x \in leaked
    BY <2>1, <2>2
  <2>3. CASE x \in Registered
    BY <2>1, <2>3
  <2>4. CASE pc[x] = "routing"
    <3>1. pc'[x] = pc[x]
      BY <1>2, <2>1, <2>4
    <3> QED
      BY <2>4, <3>1
  <2>5. CASE \E u \in Tasks : pc[u] \in Closers /\ x \in closing[u]
    <3>1. PICK u \in Tasks : pc[u] \in Closers /\ x \in closing[u]
      BY <2>5
    <3>2. pc'[u] = pc[u] /\ closing'[u] = closing[u]
      BY <1>2, <2>1, <3>1
    <3> QED
      BY <3>1, <3>2
  <2> QED
    BY <2>1, <2>2, <2>3, <2>4, <2>5 DEF Inv, OpenKnown, Accounted
<1>4. CloseOne'
  <2>1. closing' = closing
    BY DEF openVars
  <2>2. ASSUME NEW u \in Tasks, pc'[u] \in {"evicting", "dropping"}
        PROVE  \E x \in Fetches : closing'[u] = {x}
    <3>1. pc[u] \in {"evicting", "dropping"} /\ closing'[u] = closing[u]
      BY <1>2, <2>1, <2>2
    <3> QED
      BY <3>1 DEF Inv, OpenKnown, CloseOne
  <2> QED
    BY <2>2 DEF CloseOne
<1> QED
  BY <1>1, <1>3, <1>4 DEF OpenKnown, Accounted

\* Such steps that leave the registered contexts as they are.
LEMMA QuietSteps ==
  ASSUME Inv,
         \/ \E f \in Fetches :
              \/ Enter(f) \/ StartNotNeeded(f) \/ StartRefused(f) \/ Restart(f) \/ Launched(f)
              \/ Probed(f) \/ LaunchFails(f) \/ StartCreate(f) \/ WaitForIdle(f) \/ Finish(f)
              \/ Release(f) \/ CancelEarly(f)
         \/ \E d \in Drops : DropWaits(d) \/ NothingToDrop(d)
  PROVE  OpenKnown'
<1>1. UNCHANGED <<contexts, openVars>>
  BY DEF Enter, StartNotNeeded, StartRefused, Restart, Launched, Probed, LaunchFails, StartCreate,
     WaitForIdle, Finish, Release, CancelEarly, DropWaits, NothingToDrop, poolVars
<1>2. PICK t \in Tasks, place \in {"starting", "shutdown", "launching", "probing", "undo", "locking", "waiting",
                                "creating", "releasing", "done"} :
        /\ Goto(t, place) \/ GotoAndNotify(t, place)
        /\ pc[t] \in {"sem", "starting", "launching", "probing", "locking", "waiting", "using", "releasing"}
  <2>1. ASSUME NEW f \in Fetches,
               \/ Enter(f) \/ StartNotNeeded(f) \/ StartRefused(f) \/ Restart(f) \/ Launched(f)
               \/ Probed(f) \/ LaunchFails(f)
        PROVE  \E place \in {"starting", "shutdown", "launching", "probing", "undo", "locking", "done"} :
                 Goto(f, place) /\ pc[f] \in {"sem", "starting", "launching", "probing"}
    BY <2>1 DEF Enter, StartNotNeeded, StartRefused, Restart, Launched, Probed, LaunchFails
  <2>2. ASSUME NEW f \in Fetches,
               StartCreate(f) \/ WaitForIdle(f) \/ Finish(f) \/ Release(f) \/ CancelEarly(f)
        PROVE  \E place \in {"waiting", "creating", "releasing", "done"} :
                 /\ Goto(f, place) \/ GotoAndNotify(f, place)
                 /\ pc[f] \in {"sem", "starting", "locking", "waiting", "using", "releasing"}
    BY <2>2 DEF StartCreate, WaitForIdle, NeedsContext, Finish, Release, CancelEarly
  <2>3. ASSUME NEW d \in Drops, DropWaits(d) \/ NothingToDrop(d)
        PROVE  \E place \in {"waiting", "done"} : Goto(d, place) /\ pc[d] = "locking"
    BY <2>3 DEF DropWaits, NothingToDrop
  <2> QED
    BY <2>1, <2>2, <2>3, TasksFacts
<1>3. Registered \subseteq Registered'
  BY <1>1 DEF Registered
<1> QED
  BY <1>1, <1>2, <1>3, OpenSame DEF Closers

\* The context that is used again stays registered.
LEMMA ReuseOpen ==
  ASSUME Inv, NEW f \in Fetches, Reuse(f)
  PROVE  OpenKnown'
<1>1. PICK i \in DOMAIN contexts : contexts' = Append(RemoveAt(contexts, i), contexts[i])
  BY DEF Reuse, ContextsOf
<1>2. Registered \subseteq Registered'
  <2>1. contexts \in Seq(Fetches)
    BY DEF Inv, Core, CoreTyped
  <2>2. \A j \in DOMAIN contexts : \E k \in DOMAIN contexts' : contexts'[k] = contexts[j]
    BY <1>1, <2>1, OthersStay
  <2> QED
    BY <2>2 DEF Registered
<1>3. pc[f] = "locking" /\ Goto(f, "using") /\ UNCHANGED openVars /\ f \in Tasks
  BY TasksFacts DEF Reuse
<1> QED
  BY <1>2, <1>3, OpenSame DEF Closers

\* What was being closed is closed, or left behind.
LEMMA CloseOpen ==
  ASSUME Inv, NEW t \in Tasks, NEW left \in SUBSET (open \cap closing[t]), Close(t, left),
         NEW place \in {"creating", "done"}, Goto(t, place), pc[t] # "routing", contexts' = contexts
  PROVE  OpenKnown'
<1> USE DEF Inv, OpenKnown
<1>1. /\ open' = (open \ closing[t]) \cup left /\ leaked' = (leaked \ closing[t]) \cup left
      /\ closing' = [closing EXCEPT ![t] = {}]
  BY DEF Close
<1>2. pc'[t] = place /\ \A u \in Tasks : u # t => pc'[u] = pc[u] \/ (pc[u] = "waiting" /\ pc'[u] = "locking")
  BY Moves
<1>3. closing'[t] = {} /\ \A u \in Tasks : u # t => closing'[u] = closing[u]
  BY <1>1 DEF OpenTyped
<1>4. closing' \in [Tasks -> SUBSET Fetches]
  BY <1>1 DEF OpenTyped
<1>5. ASSUME NEW x \in open'
      PROVE  \/ x \in leaked' \/ x \in Registered' \/ pc'[x] = "routing"
             \/ \E u \in Tasks : pc'[u] \in Closers /\ x \in closing'[u]
  <2>1. CASE x \in left
    BY <1>1, <2>1
  <2>2. CASE x \notin left
    <3>1. x \in open /\ x \notin closing[t] /\ x \in Tasks
      BY <1>1, <1>5, <2>2, TasksFacts DEF OpenTyped
    <3>2. CASE x \in leaked \/ x \in Registered \/ pc[x] = "routing"
      BY <1>1, <1>2, <3>1, <3>2 DEF Registered
    <3>3. CASE \E u \in Tasks : pc[u] \in Closers /\ x \in closing[u]
      <4>1. PICK u \in Tasks : pc[u] \in Closers /\ x \in closing[u]
        BY <3>3
      <4>2. u # t /\ pc'[u] = pc[u] /\ closing'[u] = closing[u]
        BY <1>2, <1>3, <3>1, <4>1 DEF Closers
      <4> QED
        BY <4>1, <4>2
    <3> QED
      BY <3>1, <3>2, <3>3 DEF Accounted
  <2> QED
    BY <2>1, <2>2
<1>6. leaked' \subseteq open' /\ open' \subseteq Fetches
  BY <1>1 DEF OpenTyped
<1>7. CloseOne'
  BY <1>2, <1>3 DEF CloseOne
<1> QED
  BY <1>4, <1>5, <1>6, <1>7 DEF OpenTyped, Accounted

\* A context is taken out to be closed, by an eviction or by drop_context.
LEMMA TakenOpen ==
  ASSUME Inv, NEW t \in Tasks, NEW i \in DOMAIN contexts, contexts' = RemoveAt(contexts, i),
         closing' = [closing EXCEPT ![t] = {contexts[i]}], UNCHANGED <<open, leaked>>,
         NEW place \in {"evicting", "dropping"}, Goto(t, place), pc[t] = "locking"
  PROVE  OpenKnown'
<1> USE DEF Inv, OpenKnown
<1>1. contexts \in Seq(Fetches) /\ contexts[i] \in Fetches
  BY DEF Core, CoreTyped
<1>2. pc'[t] = place /\ \A u \in Tasks : u # t => pc'[u] = pc[u] \/ (pc[u] = "waiting" /\ pc'[u] = "locking")
  BY Moves
<1>3. closing'[t] = {contexts[i]} /\ \A u \in Tasks : u # t => closing'[u] = closing[u]
  BY DEF OpenTyped
<1>4. OpenTyped'
  BY <1>1 DEF OpenTyped
<1>5. ASSUME NEW x \in open'
      PROVE  \/ x \in leaked' \/ x \in Registered' \/ pc'[x] = "routing"
             \/ \E u \in Tasks : pc'[u] \in Closers /\ x \in closing'[u]
  <2>1. x \in open /\ x \in Tasks
    BY <1>5, TasksFacts DEF OpenTyped
  <2>2. CASE x \in leaked \/ pc[x] = "routing"
    BY <1>2, <2>1, <2>2
  <2>3. CASE x \in Registered
    <3>1. PICK j \in DOMAIN contexts : contexts[j] = x
      BY <2>3 DEF Registered
    <3>2. CASE j = i
      BY <1>2, <1>3, <3>1, <3>2 DEF Closers
    <3>3. CASE j # i
      <4>1. \E k \in DOMAIN contexts' : contexts'[k] = contexts[j]
        BY <1>1, <3>3, OthersStay
      <4> QED
        BY <3>1, <4>1 DEF Registered
    <3> QED
      BY <3>2, <3>3
  <2>4. CASE \E u \in Tasks : pc[u] \in Closers /\ x \in closing[u]
    <3>1. PICK u \in Tasks : pc[u] \in Closers /\ x \in closing[u]
      BY <2>4
    <3>2. u # t /\ pc'[u] = pc[u] /\ closing'[u] = closing[u]
      BY <1>2, <1>3, <3>1 DEF Closers
    <3> QED
      BY <3>1, <3>2
  <2> QED
    BY <2>1, <2>2, <2>3, <2>4 DEF Accounted
<1>6. CloseOne'
  BY <1>1, <1>2, <1>3 DEF CloseOne
<1> QED
  BY <1>4, <1>5, <1>6 DEF Accounted

\* A restart takes all contexts out.
LEMMA ClearOpen ==
  ASSUME Inv, NEW f \in Fetches, ClearContexts(f)
  PROVE  OpenKnown'
<1> USE DEF Inv, OpenKnown
<1>1. PICK place \in {"stopping", "undoing"} :
        GotoAndNotify(f, place) /\ pc[f] \in {"shutdown", "undo"}
  BY DEF ClearContexts
<1>2. closing' = [closing EXCEPT ![f] = ToSet(contexts)] /\ UNCHANGED <<open, leaked>> /\ f \in Tasks
  BY TasksFacts DEF ClearContexts
<1>3. pc'[f] = place /\ \A u \in Tasks : u # f => pc'[u] = pc[u] \/ (pc[u] = "waiting" /\ pc'[u] = "locking")
  BY <1>1, <1>2, Moves
<1>4. ToSet(contexts) \subseteq Fetches /\ Registered = ToSet(contexts)
  BY DEF Core, CoreTyped, ToSet, Registered
<1>5. OpenTyped'
  BY <1>2, <1>4 DEF OpenTyped
<1>6. closing'[f] = ToSet(contexts) /\ \A u \in Tasks : u # f => closing'[u] = closing[u]
  BY <1>2 DEF OpenTyped
<1>7. ASSUME NEW x \in open'
      PROVE  \/ x \in leaked' \/ x \in Registered' \/ pc'[x] = "routing"
             \/ \E u \in Tasks : pc'[u] \in Closers /\ x \in closing'[u]
  <2>1. x \in open /\ x \in Tasks
    BY <1>2, <1>7, TasksFacts DEF OpenTyped
  <2>2. CASE x \in leaked \/ pc[x] = "routing"
    BY <1>1, <1>2, <1>3, <2>1, <2>2
  <2>3. CASE x \in Registered
    BY <1>2, <1>3, <1>4, <1>6, <2>3 DEF Closers
  <2>4. CASE \E u \in Tasks : pc[u] \in Closers /\ x \in closing[u]
    <3>1. PICK u \in Tasks : pc[u] \in Closers /\ x \in closing[u]
      BY <2>4
    <3>2. u # f /\ pc'[u] = pc[u] /\ closing'[u] = closing[u]
      BY <1>1, <1>3, <1>6, <3>1 DEF Closers
    <3> QED
      BY <3>1, <3>2
  <2> QED
    BY <2>1, <2>2, <2>3, <2>4 DEF Accounted
<1>8. CloseOne'
  BY <1>3, <1>6 DEF CloseOne
<1> QED
  BY <1>5, <1>7, <1>8 DEF Accounted

\* A new context is in the hands of its maker until it is registered or left.
LEMMA MakerOpen ==
  ASSUME Inv, NEW f \in Fetches,
         NewContext(f) \/ Created(f) \/ (ContextFails(f) /\ pc[f] # "evicting")
  PROVE  OpenKnown'
<1> USE DEF Inv, OpenKnown
<1>1. PICK place \in {"routing", "using", "done"} :
        /\ Goto(f, place) /\ pc[f] \in {"creating", "routing"} /\ closing' = closing
        /\ open' \in {open, open \cup {f}} /\ leaked' \in {leaked, leaked \cup {f}} /\ leaked' \subseteq open'
        /\ f \in open' /\ (f \notin open \/ pc[f] = "routing") =>
             f \in leaked' \/ f \in Registered' \/ place = "routing"
  <2>1. CASE NewContext(f)
    BY <2>1 DEF NewContext, OpenTyped
  <2>2. CASE Created(f)
    <3>1. contexts \in Seq(Fetches) /\ contexts' = Append(contexts, f)
      BY <2>2 DEF Created, Core, CoreTyped
    <3>2. f \in Registered'
      <4>1. Len(contexts) + 1 \in DOMAIN contexts' /\ contexts'[Len(contexts) + 1] = f
        BY <3>1
      <4> QED
        BY <4>1 DEF Registered
    <3> QED
      BY <2>2, <3>2 DEF Created, OpenTyped, openVars
  <2>3. CASE ContextFails(f) /\ pc[f] # "evicting"
    BY <2>3 DEF ContextFails, OpenTyped, openVars
  <2> QED
    BY <2>1, <2>2, <2>3
<1>2. Registered \subseteq Registered'
  <2>1. contexts \in Seq(Fetches) /\ (contexts' = contexts \/ contexts' = Append(contexts, f))
    BY DEF NewContext, Created, ContextFails, poolVars, Core, CoreTyped
  <2>2. \A i \in DOMAIN contexts : i \in DOMAIN contexts' /\ contexts'[i] = contexts[i]
    BY <2>1
  <2> QED
    BY <2>2 DEF Registered
<1>3. f \in Tasks
  BY TasksFacts
<1>4. pc'[f] = place /\ \A u \in Tasks : u # f => pc'[u] = pc[u] \/ (pc[u] = "waiting" /\ pc'[u] = "locking")
  BY <1>1, <1>3, Moves
<1>5. OpenTyped'
  BY <1>1 DEF OpenTyped
<1>6. ASSUME NEW x \in open'
      PROVE  \/ x \in leaked' \/ x \in Registered' \/ pc'[x] = "routing"
             \/ \E u \in Tasks : pc'[u] \in Closers /\ x \in closing'[u]
  <2>1. x \in Tasks
    BY <1>5, <1>6, TasksFacts DEF OpenTyped
  <2>2. CASE x = f /\ (f \notin open \/ pc[f] = "routing")
    BY <1>1, <1>4, <1>6, <2>2
  <2>3. CASE ~ (x = f /\ (f \notin open \/ pc[f] = "routing"))
    <3>1. x \in open
      BY <1>1, <1>6, <2>3
    <3>2. CASE x \in leaked \/ x \in Registered
      BY <1>1, <1>2, <3>2
    <3>3. CASE pc[x] = "routing"
      BY <1>4, <2>1, <2>3, <3>3
    <3>4. CASE \E u \in Tasks : pc[u] \in Closers /\ x \in closing[u]
      <4>1. PICK u \in Tasks : pc[u] \in Closers /\ x \in closing[u]
        BY <3>4
      <4>2. u # f /\ pc'[u] = pc[u]
        BY <1>1, <1>4, <4>1 DEF Closers
      <4> QED
        BY <1>1, <4>1, <4>2
    <3> QED
      BY <3>1, <3>2, <3>3, <3>4 DEF Accounted
  <2> QED
    BY <2>2, <2>3
<1>7. CloseOne'
  BY <1>1, <1>4 DEF CloseOne
<1> QED
  BY <1>5, <1>6, <1>7 DEF Accounted

\* The browser ends, and all contexts with it.
LEMMA EndOpen ==
  ASSUME Inv, (\E f \in Fetches : Stopped(f) \/ Undone(f)) \/ Disconnect
  PROVE  OpenKnown'
<1> USE DEF Inv, OpenKnown
<1>1. open' = {} /\ leaked' = {}
  BY DEF Stopped, Undone, Disconnect, BrowserEnds
<1>2. CASE Disconnect
  BY <1>1, <1>2 DEF Disconnect, OpenTyped, Accounted, CloseOne
<1>3. CASE \E f \in Fetches : Stopped(f) \/ Undone(f)
  <2>1. PICK f \in Fetches : Stopped(f) \/ Undone(f)
    BY <1>3
  <2>2. PICK place \in {"launching", "done"} : Goto(f, place)
    BY <2>1 DEF Stopped, Undone
  <2>3. closing' = [closing EXCEPT ![f] = {}] /\ f \in Tasks
    BY <2>1, TasksFacts DEF Stopped, Undone
  <2>4. pc'[f] = place /\ \A u \in Tasks : u # f => pc'[u] = pc[u] \/ (pc[u] = "waiting" /\ pc'[u] = "locking")
    BY <2>2, <2>3, Moves
  <2>5. \A u \in Tasks : u # f => closing'[u] = closing[u]
    BY <2>3 DEF OpenTyped
  <2> QED
    BY <1>1, <2>3, <2>4, <2>5 DEF OpenTyped, Accounted, CloseOne
<1> QED
  BY <1>2, <1>3

\* No step loses track of an open context.
LEMMA OpenStep ==
  ASSUME Inv, [Next]_vars
  PROVE  OpenKnown'
<1> USE TasksFacts
<1>1. ASSUME NEW f \in Fetches, StartStep(f) \/ PoolStep(f) \/ CancelEarly(f) \/ CancelStart(f)
      PROVE  OpenKnown'
  <2>1. CASE ClearContexts(f) \/ Stopped(f) \/ Undone(f)
    BY <2>1, ClearOpen, EndOpen
  <2>2. CASE StartStep(f) /\ ~ (ClearContexts(f) \/ Stopped(f) \/ Undone(f))
    BY <2>2, QuietSteps DEF StartStep
  <2>3. CASE StartEvict(f)
    <3>1. PICK i \in DOMAIN contexts :
            contexts' = RemoveAt(contexts, i) /\ closing' = [closing EXCEPT ![f] = {contexts[i]}]
      BY <2>3 DEF StartEvict, IdleContexts
    <3>2. Goto(f, "evicting") /\ pc[f] = "locking" /\ UNCHANGED <<open, leaked>>
      BY <2>3 DEF StartEvict, NeedsContext
    <3> QED
      BY <3>1, <3>2, TakenOpen
  <2>4. CASE Evicted(f)
    <3>1. Close(f, {}) /\ Goto(f, "creating") /\ pc[f] = "evicting" /\ contexts' = contexts
      BY <2>4 DEF Evicted, poolVars
    <3>2. {} \in SUBSET (open \cap closing[f])
      OBVIOUS
    <3> QED
      BY <3>1, <3>2, CloseOpen
  <2>5. CASE (ContextFails(f) /\ pc[f] = "evicting") \/ CancelStart(f)
    <3>1. GiveUpClosing(f) /\ Goto(f, "done") /\ pc[f] # "routing" /\ contexts' = contexts
      BY <2>5 DEF ContextFails, CancelStart, poolVars
    <3>2. PICK left \in SUBSET (open \cap closing[f]) : Close(f, left)
      BY <3>1 DEF GiveUpClosing
    <3> QED
      BY <3>1, <3>2, CloseOpen
  <2>6. CASE NewContext(f) \/ Created(f) \/ (ContextFails(f) /\ pc[f] # "evicting")
    BY <2>6, MakerOpen
  <2>7. CASE Reuse(f)
    BY <2>7, ReuseOpen
  <2>8. CASE Enter(f) \/ StartCreate(f) \/ WaitForIdle(f) \/ Finish(f) \/ Release(f) \/ CancelEarly(f)
    BY <2>8, QuietSteps
  <2> QED
    BY <1>1, <2>1, <2>2, <2>3, <2>4, <2>5, <2>6, <2>7, <2>8 DEF PoolStep
<1>2. ASSUME NEW d \in Drops, DropStep(d) \/ Dropped(d)
      PROVE  OpenKnown'
  <2>1. CASE DropCloses(d)
    <3>1. PICK i \in DOMAIN contexts :
            contexts' = RemoveAt(contexts, i) /\ closing' = [closing EXCEPT ![d] = {contexts[i]}]
      BY <2>1 DEF DropCloses, ContextsOf
    <3>2. Goto(d, "dropping") /\ pc[d] = "locking" /\ UNCHANGED <<open, leaked>>
      BY <2>1 DEF DropCloses
    <3> QED
      BY <3>1, <3>2, TakenOpen
  <2>2. CASE Dropped(d)
    <3>1. GiveUpClosing(d) /\ Goto(d, "done") /\ pc[d] # "routing" /\ contexts' = contexts
      BY <2>2 DEF Dropped, poolVars
    <3>2. PICK left \in SUBSET (open \cap closing[d]) : Close(d, left)
      BY <3>1 DEF GiveUpClosing
    <3> QED
      BY <3>1, <3>2, CloseOpen
  <2>3. CASE DropWaits(d) \/ NothingToDrop(d)
    BY <2>3, QuietSteps
  <2> QED
    BY <1>2, <2>1, <2>2, <2>3 DEF DropStep
<1>3. CASE ForgetRestart \/ UNCHANGED vars
  BY <1>3 DEF ForgetRestart, vars, poolVars, openVars, Inv, OpenKnown, OpenTyped, Accounted, CloseOne, Registered
<1>4. CASE Disconnect
  BY <1>4, EndOpen
<1> QED
  BY <1>1, <1>2, <1>3, <1>4 DEF Next, LoopStep, BrowserStep, StartStep, PoolStep

-----------------------------------------------------------------------------

\* The pool begins empty.
LEMMA InvInit == Init => Inv
<1> SUFFICES ASSUME Init PROVE Inv
  OBVIOUS
<1> USE DEF Init
<1>1. CoreTyped /\ StartTyped
  BY PoolAssumption DEF CoreTyped, StartTyped, Places
<1>2. \A t \in Tasks : pc[t] \in {"sem", "locking"}
  OBVIOUS
<1>3. Locked /\ Made /\ FreshSession /\ OneContextPerSession
  BY <1>2, TasksFacts DEF Locked, Made, FreshSession, OneContextPerSession, Owning
<1>4. Room
  BY <1>2, TasksFacts DEF Room, Making, Owning, Owner
<1>5. ActiveExact
  <2>1. \A x \in Fetches : Users(x) = {}
    BY <1>2, TasksFacts DEF Users
  <2> QED
    BY <2>1, FS_EmptySet DEF ActiveExact
<1>6. OpenKnown
  BY <1>2 DEF OpenKnown, OpenTyped, Accounted, CloseOne
<1> QED
  BY <1>1, <1>3, <1>4, <1>5, <1>6 DEF Inv, Core

\* What starting and stopping the browser keeps.
LEMMA StartTypedStep ==
  ASSUME Inv, [Next]_vars
  PROVE  StartTyped'
<1> USE DEF Inv, StartTyped
<1>1. RestartLimit \in Nat /\ MaxCrashes \in Nat
  BY PoolAssumption
<1>2. CASE \E f \in Fetches : StartStep(f) \/ CancelStart(f)
  <2>1. PICK f \in Fetches : StartStep(f) \/ CancelStart(f)
    BY <1>2
  <2>2. starter' = starter \/ starter' = f \/ starter' = Nobody
    BY <2>1 DEF StartStep, StartNotNeeded, StartRefused, Restart, ClearContexts, Stopped, Launched, Probed,
       LaunchFails, Undone, BrowserEnds, CancelStart, startVars
  <2>3. connected' = connected \/ connected' = TRUE
    BY <2>1 DEF StartStep, StartNotNeeded, StartRefused, Restart, ClearContexts, Stopped, Launched, Probed,
       LaunchFails, Undone, BrowserEnds, CancelStart, startVars
  <2>4. browser' = browser \/ browser' = TRUE \/ browser' = FALSE
    BY <2>1 DEF StartStep, StartNotNeeded, StartRefused, Restart, ClearContexts, Stopped, Launched, Probed,
       LaunchFails, Undone, BrowserEnds, CancelStart, startVars
  <2>5. crashes' = crashes
    BY <2>1 DEF StartStep, StartNotNeeded, StartRefused, Restart, ClearContexts, Stopped, Launched, Probed,
       LaunchFails, Undone, BrowserEnds, CancelStart, startVars
  <2>6. restarts' = restarts \/ (restarts < RestartLimit /\ restarts' = restarts + 1)
    BY <2>1 DEF StartStep, StartNotNeeded, StartRefused, Restart, ClearContexts, Stopped, Launched, Probed,
       LaunchFails, Undone, BrowserEnds, CancelStart, startVars
  <2>7. restarts' \in 0..RestartLimit
    BY <1>1, <2>6
  <2> QED
    BY <2>2, <2>3, <2>4, <2>5, <2>7
<1>3. CASE Disconnect \/ ForgetRestart
  <2>1. /\ starter' = starter
        /\ connected' = connected \/ connected' = FALSE
        /\ browser' = browser \/ browser' = FALSE
    BY <1>3 DEF Disconnect, BrowserEnds, ForgetRestart
  <2>2. restarts' = restarts \/ (restarts > 0 /\ restarts' = restarts - 1)
    BY <1>3 DEF Disconnect, BrowserEnds, ForgetRestart
  <2>3. crashes' = crashes \/ (crashes < MaxCrashes /\ crashes' = crashes + 1)
    BY <1>3 DEF Disconnect, BrowserEnds, ForgetRestart
  <2>4. restarts' \in 0..RestartLimit
    BY <1>1, <2>2
  <2>5. crashes' \in 0..MaxCrashes
    BY <1>1, <2>3
  <2> QED
    BY <2>1, <2>4, <2>5
<1>4. CASE UNCHANGED startVars
  BY <1>4 DEF startVars
<1>5. CASE \E f \in Fetches : PoolStep(f) \/ CancelEarly(f)
  BY <1>4, <1>5 DEF PoolStep, Enter, Reuse, StartCreate, StartEvict, Evicted, NewContext, WaitForIdle,
     Created, ContextFails, Finish, Release, CancelEarly
<1>6. CASE \E d \in Drops : DropStep(d) \/ Dropped(d)
  BY <1>4, <1>6 DEF DropStep, DropWaits, DropCloses, NothingToDrop, Dropped
<1>7. CASE UNCHANGED vars
  BY <1>7 DEF vars
<1> QED
  BY <1>2, <1>3, <1>5, <1>6, <1>7 DEF Next, LoopStep, BrowserStep, StartStep, PoolStep

\* No step of a fetch, of a drop or of the browser upsets the counts.
LEMMA CoreStep ==
  ASSUME Core, [Next]_vars
  PROVE  Core'
<1>1. ASSUME NEW f \in Fetches, StartStep(f) \/ PoolStep(f) \/ CancelEarly(f) \/ CancelStart(f)
      PROVE  Core'
  <2>1. f \in Tasks
    BY TasksFacts
  <2>2. CASE Enter(f) \/ StartStep(f) \/ WaitForIdle(f) \/ CancelEarly(f) \/ CancelStart(f)
    BY <2>1, <2>2, CalmSteps
  <2>3. CASE ContextFails(f)
    BY <2>1, <2>3, OwnerEnds
  <2> QED
    BY <1>1, <2>2, <2>3, StartKept, MakingKept, CreatedKept, ReuseKept, FinishKept, ReleaseKept DEF PoolStep
<1>2. ASSUME NEW d \in Drops, DropStep(d) \/ Dropped(d)
      PROVE  Core'
  <2>1. d \in Tasks
    BY TasksFacts
  <2> QED
    BY <1>2, <2>1, CalmSteps, OwnerEnds, DropClosesKept DEF DropStep
<1>3. CASE Disconnect \/ ForgetRestart
  <2>1. UNCHANGED <<pc, sidOf, entry, contexts, active, holder>>
    BY <1>3 DEF Disconnect, ForgetRestart, poolVars
  <2>2. Calm
    BY <2>1 DEF Calm, Core, CoreTyped, Locked, Owning
  <2> QED
    BY <2>1, <2>2, CalmKept
<1>4. CASE UNCHANGED vars
  <2>1. UNCHANGED <<pc, sidOf, entry, contexts, active, holder>>
    BY <1>4 DEF vars
  <2>2. Calm
    BY <2>1 DEF Calm, Core, CoreTyped, Locked, Owning
  <2> QED
    BY <2>1, <2>2, CalmKept
<1> QED
  BY <1>1, <1>2, <1>3, <1>4 DEF Next, LoopStep, BrowserStep, StartStep, PoolStep

-----------------------------------------------------------------------------

\* The inductive invariant of the pool (browser.py:85-189, 249-300).
THEOREM PoolCorrect == Spec => []Inv
<1>1. Inv /\ [Next]_vars => Inv'
  BY CoreStep, StartTypedStep, OpenStep DEF Inv
<1> QED
  BY <1>1, InvInit, PTL DEF Spec

\* Types, and the limit of the registered contexts, the one that is being made
\* included (browser.py:154-175).
THEOREM PoolTyped == Spec => []TypeOK
<1>1. Inv => TypeOK
  <2> SUFFICES ASSUME Inv PROVE TypeOK
    OBVIOUS
  <2> USE DEF Inv, Core
  <2>1. Len(contexts) + Cardinality(Making) <= MaxContexts
    <3>1. Len(contexts) \in Nat /\ Len(contexts) <= MaxContexts /\ MaxContexts \in Nat
      BY TasksFacts DEF CoreTyped, Room, Owner, Owning
    <3>2. CASE Making = {}
      BY <3>1, <3>2, FS_EmptySet
    <3>3. CASE Making # {}
      <4>1. PICK f \in Making : TRUE
        BY <3>3
      <4>2. Making = {f}
        BY <4>1, TasksFacts DEF Making, Locked, Owning
      <4>3. Cardinality(Making) = 1
        BY <4>2, FS_Singleton
      <4> QED
        <5>1. Owner
          BY <4>1, TasksFacts DEF Owner, Owning, Making
        <5> QED
          BY <3>1, <4>3, <5>1 DEF Room
    <3> QED
      BY <3>2, <3>3
  <2> QED
    BY <2>1 DEF TypeOK, CoreTyped, StartTyped, OpenTyped, OpenKnown
<1> QED
  BY <1>1, PoolCorrect, PTL

\* The registered contexts and one more fit into the limit if somebody has one
\* more in his hands.
LEMMA RegisteredCount ==
  ASSUME CoreTyped, NEW X \in SUBSET Registered
  PROVE  IsFiniteSet(X) /\ Cardinality(X) <= Len(contexts) /\ Cardinality(X) \in Nat
<1> DEFINE R == {contexts[i] : i \in 1..Len(contexts)}
<1>1. contexts \in Seq(Fetches) /\ Len(contexts) \in Nat /\ DOMAIN contexts = 1..Len(contexts)
  BY DEF CoreTyped
<1>2. contexts \in Surjection(1..Len(contexts), R)
  BY <1>1 DEF Surjection
<1>3. IsFiniteSet(1..Len(contexts)) /\ Cardinality(1..Len(contexts)) = Len(contexts)
  BY <1>1, FS_Interval
<1>5. X \subseteq R
  BY <1>1 DEF Registered
<1> HIDE DEF R
<1>4. IsFiniteSet(R) /\ Cardinality(R) <= Len(contexts)
  BY <1>2, <1>3, FS_Surjection
<1>6. IsFiniteSet(X) /\ Cardinality(X) <= Cardinality(R)
  BY <1>4, <1>5, FS_Subset
<1>7. Cardinality(X) \in Nat /\ Cardinality(R) \in Nat
  BY <1>4, <1>6, FS_CardinalityType
<1> QED
  BY <1>1, <1>4, <1>6, <1>7

\* Not more than max_contexts contexts are open but for those that a failure
\* left behind and those of a browser that is about to end (browser.py:112-121,
\* 154-175, 183-189).
THEOREM PoolOpenLimited == Spec => []OpenWithinLimit
<1>1. Inv => OpenWithinLimit
  <2> SUFFICES ASSUME Inv PROVE OpenWithinLimit
    OBVIOUS
  <2> USE DEF Inv, Core
  <2> DEFINE X == open \ (leaked \cup Ending)
             reg == {x \in X : x \in Registered}
  <2>1. /\ Len(contexts) \in Nat /\ MaxContexts \in Nat /\ Len(contexts) <= MaxContexts
        /\ Owner => Len(contexts) + 1 <= MaxContexts
    BY TasksFacts DEF CoreTyped, Room
  <2>2. IsFiniteSet(reg) /\ Cardinality(reg) <= Len(contexts) /\ Cardinality(reg) \in Nat
    BY RegisteredCount
  <2>3. \A x \in X : x \in Registered \/ pc[x] = "routing"
                     \/ \E t \in Tasks : pc[t] \in {"evicting", "dropping"} /\ x \in closing[t]
    <3>1. TAKE x \in X
    <3>2. ASSUME NEW t \in Tasks, pc[t] \in Closers, x \in closing[t]
          PROVE  pc[t] \in {"evicting", "dropping"}
      <4>1. CASE t \in Fetches
        BY <3>1, <3>2, <4>1 DEF Ending, Closers
      <4>2. CASE t \in Drops
        BY <3>2, <4>2 DEF Locked, Closers
      <4> QED
        BY <3>2, <4>1, <4>2 DEF Tasks
    <3> QED
      BY <3>1, <3>2 DEF OpenKnown, Accounted
  <2>4. CASE ~ Owner
    <3>1. X = reg
      <4>1. \A x \in X : x \in Tasks
        BY TasksFacts DEF OpenKnown, OpenTyped
      <4> QED
        BY <2>3, <2>4, <4>1 DEF Owner, Owning
    <3>2. Cardinality(X) <= MaxContexts
      <4> HIDE DEF X, reg
      <4> QED
        BY <2>1, <2>2, <3>1
    <3> QED
      BY <3>2 DEF OpenWithinLimit
  <2>5. CASE Owner
    <3>1. PICK t \in Tasks : pc[t] \in Owning
      BY <2>5 DEF Owner
    <3>2. \A u \in Tasks : pc[u] \in Owning => u = t
      BY <3>1 DEF Locked
    <3>3. PICK y \in Tasks : \/ pc[t] \in {"creating", "routing"} /\ y = t
                             \/ pc[t] \in {"evicting", "dropping"} /\ closing[t] = {y}
      <4>1. CASE pc[t] \in {"creating", "routing"}
        BY <3>1, <4>1
      <4>2. CASE pc[t] \in {"evicting", "dropping"}
        BY <4>2, TasksFacts DEF OpenKnown, CloseOne
      <4> QED
        BY <3>1, <4>1, <4>2 DEF Owning
    <3>4. X \subseteq reg \cup {y}
      <4>1. \A x \in X : x \in Tasks
        BY TasksFacts DEF OpenKnown, OpenTyped
      <4> QED
        BY <2>3, <3>2, <3>3, <4>1 DEF Owning
    <3>5. /\ IsFiniteSet(reg \cup {y})
          /\ Cardinality(reg \cup {y}) <= Cardinality(reg) + 1 /\ Cardinality(reg \cup {y}) \in Nat
      <4>1. /\ IsFiniteSet(reg \cup {y})
            /\ Cardinality(reg \cup {y}) = IF y \in reg THEN Cardinality(reg) ELSE Cardinality(reg) + 1
        BY <2>2, FS_AddElement
      <4> HIDE DEF reg
      <4> QED
        BY <2>2, <4>1
    <3>6. IsFiniteSet(X) /\ Cardinality(X) <= Cardinality(reg \cup {y})
      BY <3>4, <3>5, FS_Subset
    <3>7. Cardinality(X) \in Nat
      BY <3>6, FS_CardinalityType
    <3> HIDE DEF X, reg
    <3>8. Cardinality(X) <= MaxContexts
      BY <2>1, <2>2, <2>5, <3>5, <3>6, <3>7
    <3> QED
      BY <3>8 DEF OpenWithinLimit, X
  <2> QED
    BY <2>4, <2>5
<1> QED
  BY <1>1, PoolCorrect, PTL

\* A context is counted by exactly those who use it (browser.py:149-151, 174,
\* 178-181).
THEOREM PoolCountsUsers == Spec => []ActiveExact
<1>1. Inv => ActiveExact
  BY DEF Inv, Core
<1> QED
  BY <1>1, PoolCorrect, PTL

\* A session has one context (browser.py:149-175).
THEOREM PoolOneContext == Spec => []OneContextPerSession
<1>1. Inv => OneContextPerSession
  BY DEF Inv, Core
<1> QED
  BY <1>1, PoolCorrect, PTL
=============================================================================
