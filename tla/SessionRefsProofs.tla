------------------------- MODULE SessionRefsProofs -------------------------
(***************************************************************************)
(* Proofs about the calls of a session.  Every step of a call performs at  *)
(* most one operation of the numbering table, so the calls implement       *)
(* TableSpec and inherit what RefTableProofs proves of it; what relates    *)
(* the table to the calls is proved here, and that normalize understands   *)
(* every number a session shows.                                           *)
(***************************************************************************)
EXTENDS AgentCalls, RefTableProofs, SequenceTheorems, WellFoundedInduction

\* The strengthening of TypeOK and NumbersLeadToUrl that a step preserves:
\* while the number of a page is about to be aliased it is the live number of
\* that page.
Inv ==
  /\ TypeOK
  /\ TableInv
  /\ NumbersLeadToUrl
  /\ pc = "alias" => KeyOf[page.final] \in DOMAIN url /\ url[KeyOf[page.final]] = pid

LEMMA CallInit == Init => Inv
  BY InitInv DEF Init, Inv, TypeOK, TableInv, TableInit, NumbersLeadToUrl

\* for_url ends with its URL indexed; the other indexed URLs kept their number
\* and its entry.
LEMMA ForUrlEffect ==
  ASSUME TableInv, NEW u \in Urls, ForUrl(u)
  PROVE  /\ KeyOf[u] \in DOMAIN url' /\ url'[KeyOf[u]] = UrlNumber(u)
         /\ \A k \in DOMAIN url' :
              \/ k \in DOMAIN url /\ url'[k] = url[k] /\ byId'[url'[k]] = byId[url[k]]
              \/ k = KeyOf[u] /\ byId'[url'[k]] = [url |-> u, part |-> 1]
<1>1. CASE KeyOf[u] \in DOMAIN url
  BY <1>1 DEF ForUrl, tableVars, UrlNumber
<1>2. CASE KeyOf[u] \notin DOMAIN url
  <2> DEFINE entry == [url |-> u, part |-> 1]
             urlIndex == Put(url, KeyOf[u], next)
  <2>1. entry \in Entry /\ Allocate(entry, urlIndex)
    BY <1>2, TableAssumption DEF Entry, ForUrl, TableAssumption
  <2>2. /\ next \notin Gone
        /\ Live' = (Live \cup {next}) \ Gone
        /\ byId' = [r \in Live' |-> IF r = next THEN entry ELSE byId[r]]
        /\ url' = [k \in {l \in DOMAIN urlIndex : urlIndex[l] \notin Gone} |-> urlIndex[k]]
    <3> HIDE DEF entry, urlIndex
    <3> QED
      BY <2>1, AllocateEffect DEF TableInv
  <2>3. urlIndex = [k \in DOMAIN url \cup {KeyOf[u]} |->
                     IF k = KeyOf[u] THEN next ELSE url[k]]
    BY DEF Put
  <2>4. next \notin Live
    BY DEF TableInv, TableTypeOK, LiveInterval
  <2>5. \A k \in DOMAIN url : url[k] \in Live
    BY DEF TableInv, IndexesLive
  <2>6. UrlNumber(u) = next
    BY <1>2 DEF UrlNumber
  <2> HIDE DEF urlIndex
  <2> QED
    BY <1>2, <2>2, <2>3, <2>4, <2>5, <2>6
<1> QED
  BY <1>1, <1>2

\* for_part may drop indexed URLs but renumbers none.
LEMMA ForPartEffect ==
  ASSUME TableInv, NEW u \in Urls, NEW p \in 2..LastPart, ForPart(u, p)
  PROVE  \A k \in DOMAIN url' :
           k \in DOMAIN url /\ url'[k] = url[k] /\ byId'[url'[k]] = byId[url[k]]
<1>1. CASE <<KeyOf[u], p>> \in DOMAIN part
  BY <1>1 DEF ForPart, tableVars
<1>2. CASE <<KeyOf[u], p>> \notin DOMAIN part
  <2> DEFINE entry == [url |-> u, part |-> p]
  <2>1. entry \in Entry /\ Allocate(entry, url)
    BY <1>2, TableAssumption DEF Entry, ForPart, TableAssumption
  <2>2. /\ Live' = (Live \cup {next}) \ Gone
        /\ byId' = [r \in Live' |-> IF r = next THEN entry ELSE byId[r]]
        /\ url' = [k \in {l \in DOMAIN url : url[l] \notin Gone} |-> url[k]]
    <3> HIDE DEF entry
    <3> QED
      BY <2>1, AllocateEffect DEF TableInv
  <2>3. next \notin Live /\ \A k \in DOMAIN url : url[k] \in Live
    BY DEF TableInv, TableTypeOK, LiveInterval, IndexesLive
  <2> HIDE DEF entry
  <2> QED
    BY <2>2, <2>3
<1> QED
  BY <1>1, <1>2

LEMMA ForUrlLeads ==
  ASSUME TableInv, NumbersLeadToUrl, NEW u \in Urls, ForUrl(u), redirects' = redirects
  PROVE  NumbersLeadToUrl'
<1>1. ASSUME NEW k \in DOMAIN url'
      PROVE  byId'[url'[k]].part = 1 /\ KeyOf[byId'[url'[k]].url] \in LedTo(k)'
  <2>1. CASE k \in DOMAIN url /\ url'[k] = url[k] /\ byId'[url'[k]] = byId[url[k]]
    BY <2>1 DEF NumbersLeadToUrl, LedTo
  <2>2. CASE k = KeyOf[u] /\ byId'[url'[k]] = [url |-> u, part |-> 1]
    BY <2>2 DEF LedTo
  <2> QED
    BY <2>1, <2>2, ForUrlEffect
<1> QED
  BY <1>1 DEF NumbersLeadToUrl

LEMMA ForPartLeads ==
  ASSUME TableInv, NumbersLeadToUrl, NEW u \in Urls, NEW p \in 2..LastPart, ForPart(u, p),
         redirects' = redirects
  PROVE  NumbersLeadToUrl'
  BY ForPartEffect DEF NumbersLeadToUrl, LedTo

\* Redirecting a URL keeps the promise because the history of redirects takes
\* over everything the final page has led to.
LEMMA AliasLeads ==
  ASSUME Inv, AliasPage
  PROVE  NumbersLeadToUrl' /\ TableInv'
<1> USE TableAssumption DEF TableAssumption
<1>1. /\ target.url \in Urls /\ page.final \in Urls
      /\ KeyOf[page.final] \in DOMAIN url /\ url[KeyOf[page.final]] = pid
      /\ Alias(target.url, pid)
      /\ redirects' = redirects \cup {<<KeyOf[target.url], f>> : f \in LedTo(KeyOf[page.final])}
  BY DEF Inv, TypeOK, AliasPage, Entry
<1>2. TableInv'
  <2>1. pid \in Live
    BY <1>1 DEF Alias
  <2> QED
    BY <1>1, <2>1, AliasInv DEF Inv
<1>3. /\ byId' = byId
      /\ url' = [k \in DOMAIN url \cup {KeyOf[target.url]} |->
                  IF k = KeyOf[target.url] THEN pid ELSE url[k]]
  BY <1>1 DEF Alias, Put
<1>4. byId[pid].part = 1 /\ KeyOf[byId[pid].url] \in LedTo(KeyOf[page.final])
  BY <1>1 DEF Inv, NumbersLeadToUrl
<1>5. KeyOf[byId[pid].url] \in Keys
  BY <1>1 DEF Inv, TableInv, TableTypeOK, IndexesLive, Entry, Live
<1>6. ASSUME NEW k \in DOMAIN url'
      PROVE  byId'[url'[k]].part = 1 /\ KeyOf[byId'[url'[k]].url] \in LedTo(k)'
  <2>1. CASE k = KeyOf[target.url]
    BY <1>1, <1>3, <1>4, <1>5, <2>1 DEF LedTo
  <2>2. CASE k # KeyOf[target.url]
    <3>1. k \in DOMAIN url /\ byId'[url'[k]] = byId[url[k]]
      BY <1>3, <2>2
    <3>2. byId[url[k]].part = 1 /\ KeyOf[byId[url[k]].url] \in LedTo(k)
      BY <3>1 DEF Inv, NumbersLeadToUrl
    <3>3. LedTo(k) \subseteq LedTo(k)'
      BY <1>1 DEF LedTo
    <3> QED
      BY <3>1, <3>2, <3>3
  <2> QED
    BY <2>1, <2>2
<1>7. NumbersLeadToUrl'
  BY <1>6 DEF NumbersLeadToUrl
<1> QED
  BY <1>2, <1>7

-----------------------------------------------------------------------------

\* A step that leaves the table, its history and the alias point alone.
LEMMA QuietStep ==
  ASSUME Inv, TypeOK', UNCHANGED <<tableVars, redirects>>, pc' # "alias"
  PROVE  Inv'
<1>1. TableInv'
  BY DEF Inv, TableInv, TableTypeOK, LiveInterval, IndexesLive, PartIndexFaithful, tableVars, Live
<1>2. NumbersLeadToUrl'
  BY DEF Inv, NumbersLeadToUrl, LedTo, tableVars
<1> QED
  BY <1>1, <1>2 DEF Inv

LEMMA FailKeepsInv == ASSUME Inv, NEW alternative, Fail(alternative) PROVE Inv'
<1>1. TypeOK'
  BY DEF Inv, TypeOK, TableTypeOK, Live, Fail, Return, tableVars
<1> QED
  BY <1>1, QuietStep DEF Fail, Return

LEMMA StepKeepsInv == Inv /\ [Next]_vars => Inv'
<1> USE TableAssumption DEF TableAssumption
<1> SUFFICES ASSUME Inv, [Next]_vars PROVE Inv'
  OBVIOUS
<1>0. CASE UNCHANGED vars
  <2>1. TypeOK'
    BY <1>0 DEF Inv, TypeOK, TableTypeOK, Live, vars, callVars, tableVars
  <2>2. TableInv'
    BY <1>0 DEF Inv, TableInv, TableTypeOK, LiveInterval, IndexesLive, PartIndexFaithful,
      vars, tableVars, Live
  <2>3. NumbersLeadToUrl'
    BY <1>0 DEF Inv, NumbersLeadToUrl, LedTo, vars, callVars, tableVars
  <2> QED
    BY <1>0, <2>1, <2>2, <2>3 DEF Inv, vars, callVars, tableVars
<1>1. CASE StartSearch
  <2>1. todo' \in Seq(Urls)
    BY <1>1 DEF StartSearch, ResultLists, UrlSeqs
  <2>2. TypeOK'
    BY <1>1, <2>1 DEF StartSearch, Inv, TypeOK, TableTypeOK, Live, tableVars
  <2> QED
    BY <1>1, <2>2, QuietStep DEF StartSearch
<1>2. CASE SearchFails
  BY <1>2, FailKeepsInv DEF SearchFails
<1>3. CASE NumberResult
  <2>1. Head(todo) \in Urls /\ Tail(todo) \in Seq(Urls)
    BY <1>3 DEF NumberResult, Inv, TypeOK
  <2>2. TableInv' /\ UrlNumber(Head(todo)) \in Live'
    BY <1>3, <2>1, ForUrlInv DEF NumberResult, Inv
  <2>3. NumbersLeadToUrl'
    BY <1>3, <2>1, ForUrlLeads DEF NumberResult, Inv
  <2>4. UrlNumber(Head(todo)) \in Nat \ {0}
    BY <2>2 DEF TableInv, TableTypeOK
  <2>5. TypeOK'
    BY <1>3, <2>1, <2>2, <2>4 DEF NumberResult, Inv, TableInv, TypeOK
  <2> QED
    BY <1>3, <2>2, <2>3, <2>5 DEF NumberResult, Inv
<1>4. CASE ReplySearch
  <2>1. PICK kept \in 0..Len(ids) : lastResults' = SubSeq(ids, 1, kept)
    BY <1>4 DEF ReplySearch
  <2>2. lastResults' \in Seq(Nat \ {0})
    BY <2>1 DEF Inv, TypeOK
  <2>3. TypeOK'
    BY <1>4, <2>2 DEF ReplySearch, Return, Inv, TypeOK, TableTypeOK, Live, tableVars
  <2> QED
    BY <1>4, <2>3, QuietStep DEF ReplySearch, Return
<1>5. CASE OpenUrl
  <2>1. PICK u \in Urls : StartOpen([url |-> u, part |-> 1])
    BY <1>5 DEF OpenUrl
  <2>2. TypeOK'
    BY <1>5, <2>1 DEF OpenUrl, StartOpen, Entry, Inv, TypeOK, TableTypeOK, Live, tableVars
  <2> QED
    BY <2>1, <2>2, QuietStep DEF StartOpen
<1>6. CASE OpenNumber
  <2>1. PICK ref \in Live : StartOpen(byId[ref])
    BY <1>6 DEF OpenNumber
  <2>2. byId[ref] \in Entry
    BY <2>1 DEF Inv, TableInv, TableTypeOK
  <2>3. TypeOK'
    BY <1>6, <2>1, <2>2 DEF OpenNumber, StartOpen, Inv, TypeOK, TableTypeOK, Live, tableVars
  <2> QED
    BY <2>1, <2>3, QuietStep DEF StartOpen
<1>7. CASE OpenUnknownNumber
  BY <1>7, FailKeepsInv DEF OpenUnknownNumber
<1>8. CASE FetchFails
  BY <1>8, FailKeepsInv DEF FetchFails
<1>9. CASE FetchReturns
  <2>1. todo' \in Seq(Urls) /\ page'.final \in Urls /\ page'.total \in 1..LastPart
    BY <1>9 DEF FetchReturns, Pages, UrlSeqs
  <2>2. TypeOK'
    BY <1>9, <2>1 DEF FetchReturns, Inv, TypeOK, TableTypeOK, Live, tableVars
  <2> QED
    BY <1>9, <2>2, QuietStep DEF FetchReturns
<1>10. CASE NumberPage
  <2>1. page.final \in Urls
    BY <1>10 DEF NumberPage, Inv, TypeOK
  <2>2. TableInv' /\ UrlNumber(page.final) \in Live'
    BY <1>10, <2>1, ForUrlInv DEF NumberPage, Inv
  <2>3. NumbersLeadToUrl'
    BY <1>10, <2>1, ForUrlLeads DEF NumberPage, Inv
  <2>4. KeyOf[page.final] \in DOMAIN url' /\ url'[KeyOf[page.final]] = UrlNumber(page.final)
    BY <1>10, <2>1, ForUrlEffect DEF NumberPage, Inv
  <2>5. UrlNumber(page.final) \in Nat
    BY <2>2 DEF TableInv, TableTypeOK
  <2>6. TypeOK'
    BY <1>10, <2>2, <2>5 DEF NumberPage, Inv, TableInv, TypeOK
  <2> QED
    BY <1>10, <2>2, <2>3, <2>4, <2>6 DEF NumberPage, Inv
<1>11. CASE AliasPage
  <2>1. TableInv' /\ NumbersLeadToUrl'
    BY <1>11, AliasLeads
  <2>2. pid \in Nat \ {0}
    BY <1>11 DEF AliasPage, Alias, Inv, TableInv, TableTypeOK
  <2>3. redirects' \subseteq Keys \X Keys
    <3>1. KeyOf[target.url] \in Keys /\ KeyOf[page.final] \in Keys
      BY <1>11 DEF AliasPage, Inv, TypeOK, Entry
    <3>2. LedTo(KeyOf[page.final]) \subseteq Keys
      BY <3>1 DEF LedTo
    <3>3. redirects \subseteq Keys \X Keys
      BY DEF Inv, TypeOK
    <3>4. redirects' = redirects \cup {<<KeyOf[target.url], f>> : f \in LedTo(KeyOf[page.final])}
      BY <1>11 DEF AliasPage
    <3> QED
      BY <3>1, <3>2, <3>3, <3>4
  <2>4. TypeOK'
    BY <1>11, <2>1, <2>2, <2>3 DEF AliasPage, Inv, TableInv, TypeOK
  <2> QED
    BY <1>11, <2>1, <2>4 DEF AliasPage, Inv
<1>12. CASE ChunksFail
  BY <1>12, FailKeepsInv DEF ChunksFail
<1>13. CASE NumberLink
  <2>1. Head(todo) \in Urls /\ Tail(todo) \in Seq(Urls)
    BY <1>13 DEF NumberLink, Inv, TypeOK
  <2>2. TableInv' /\ UrlNumber(Head(todo)) \in Live'
    BY <1>13, <2>1, ForUrlInv DEF NumberLink, Inv
  <2>3. NumbersLeadToUrl'
    BY <1>13, <2>1, ForUrlLeads DEF NumberLink, Inv
  <2>4. UrlNumber(Head(todo)) \in Nat \ {0}
    BY <2>2 DEF TableInv, TableTypeOK
  <2>5. TypeOK'
    BY <1>13, <2>1, <2>2, <2>4 DEF NumberLink, Inv, TableInv, TypeOK
  <2> QED
    BY <1>13, <2>2, <2>3, <2>5 DEF NumberLink, Inv
<1>14. CASE ReplyOpen
  <2>1. /\ page.final \in Urls /\ page.total \in 1..LastPart
        /\ target.url \in Urls /\ target.part \in 1..LastPart
    BY <1>14 DEF ReplyOpen, Inv, TypeOK, Entry
  <2>2. opened' \subseteq Keys
    BY <1>14, <2>1 DEF ReplyOpen, Inv, TypeOK
  <2>3. CASE ShownPart < page.total
    <3>1. ForPart(page.final, ShownPart + 1) /\ \E response : Return(response)
      BY <1>14, <2>3 DEF ReplyOpen
    <3>2. ShownPart + 1 \in 2..LastPart
      BY <2>1, <2>3 DEF ShownPart
    <3>3. TableInv'
      BY <2>1, <3>1, <3>2, ForPartInv DEF Inv
    <3>4. NumbersLeadToUrl'
      BY <1>14, <2>1, <3>1, <3>2, ForPartLeads DEF ReplyOpen, Inv
    <3>5. TypeOK'
      BY <1>14, <2>2, <3>1, <3>3 DEF ReplyOpen, Return, Inv, TableInv, TypeOK
    <3> QED
      BY <3>1, <3>3, <3>4, <3>5 DEF Return, Inv
  <2>4. CASE ~(ShownPart < page.total)
    <3>1. UNCHANGED tableVars /\ \E response : Return(response)
      BY <1>14, <2>4 DEF ReplyOpen
    <3>2. TypeOK'
      BY <1>14, <2>2, <3>1 DEF ReplyOpen, Return, Inv, TypeOK, TableTypeOK, Live, tableVars
    <3> QED
      BY <1>14, <3>1, <3>2, QuietStep DEF ReplyOpen, Return
  <2> QED
    BY <2>3, <2>4
<1> QED
  BY <1>0, <1>1, <1>2, <1>3, <1>4, <1>5, <1>6, <1>7, <1>8, <1>9, <1>10, <1>11, <1>12,
    <1>13, <1>14 DEF Next

\* The invariant behind the theorems below holds in every behaviour of a
\* session (service.py:200-291).
THEOREM CallsCorrect == Spec => []Inv
  BY CallInit, StepKeepsInv, PTL DEF Spec

\* Type correctness of a session and its running call (session.py:10-16).
THEOREM CallsTyped == Spec => []TypeOK
  BY CallsCorrect, PTL DEF Inv

\* A number shown for a URL opens that URL or a page it led to
\* (refs.py:19-31, service.py:281-282).
THEOREM CallsNumbersLeadToUrl == Spec => []NumbersLeadToUrl
  BY CallsCorrect, PTL DEF Inv

LEMMA PageNumberLive == Inv => AliasTargetLive
  BY DEF Inv, TableInv, IndexesLive, AliasTargetLive

\* alias is never called with a dropped number (service.py:281-282).
THEOREM CallsAliasLive == Spec => []AliasTargetLive
  BY CallsCorrect, PageNumberLive, PTL

-----------------------------------------------------------------------------

LEMMA StepIsTableStep == Inv /\ [Next]_vars => [TableNext]_tableVars
<1> SUFFICES ASSUME Inv, Next PROVE [TableNext]_tableVars
  BY DEF vars
<1>1. CASE NumberResult \/ NumberLink
  BY <1>1 DEF NumberResult, NumberLink, Inv, TypeOK, TableNext
<1>2. CASE NumberPage
  BY <1>2 DEF NumberPage, Inv, TypeOK, TableNext
<1>3. CASE AliasPage
  <2>1. target.url \in Urls /\ pid \in Live /\ Alias(target.url, pid)
    BY <1>3 DEF AliasPage, Alias, Inv, TypeOK, Entry
  <2> QED
    BY <2>1 DEF TableNext
<1>4. CASE ReplyOpen
  <2>1. /\ page.final \in Urls /\ page.total \in 1..LastPart
        /\ target.part \in 1..LastPart
    BY <1>4 DEF ReplyOpen, Inv, TypeOK, Entry
  <2>2. CASE ShownPart < page.total
    <3>1. ForPart(page.final, ShownPart + 1)
      BY <1>4, <2>2 DEF ReplyOpen
    <3>2. ShownPart + 1 \in 2..LastPart
      BY <2>1, <2>2, TableAssumption DEF ShownPart, TableAssumption
    <3> QED
      BY <2>1, <3>1, <3>2 DEF TableNext
  <2>3. CASE ~(ShownPart < page.total)
    BY <1>4, <2>3 DEF ReplyOpen
  <2> QED
    BY <2>2, <2>3
<1>5. CASE StartSearch \/ SearchFails \/ ReplySearch \/ OpenUrl \/ OpenNumber
             \/ OpenUnknownNumber \/ FetchFails \/ FetchReturns \/ ChunksFail
  BY <1>5 DEF StartSearch, SearchFails, ReplySearch, OpenUrl, OpenNumber, StartOpen,
    OpenUnknownNumber, FetchFails, FetchReturns, ChunksFail, Fail
<1> QED
  BY <1>1, <1>2, <1>3, <1>4, <1>5 DEF Next

\* The calls of a session implement the numbering table: a step of a call is
\* one table operation or leaves the table alone (service.py:200-291).
THEOREM CallsImplementTable == Spec => TableSpec
<1>1. Init => TableInit
  BY DEF Init
<1> QED
  BY <1>1, StepIsTableStep, CallsCorrect, PTL DEF Spec, TableSpec

\* What the table promises holds of every session.
THEOREM CallsKeepTablePromises ==
  Spec => /\ []IndexesLive
          /\ []PartIndexFaithful
          /\ []RecentNumbersLive
          /\ []TableBounded
          /\ NumbersKeepMeaning
  BY CallsImplementTable, TableIndexesLive, TablePartsFaithful, TableKeepsRecent,
    TableWithinCapacity, TableNumbersKeepMeaning, PTL

-----------------------------------------------------------------------------

LEMMA StepContinues == Inv /\ NextContinues /\ [Next]_vars => NextContinues'
<1> SUFFICES ASSUME Inv, NextContinues, [Next]_vars PROVE NextContinues'
  OBVIOUS
<1>1. CASE UNCHANGED vars
  BY <1>1 DEF NextContinues, vars, callVars, tableVars, Live
<1>2. ASSUME NEW alternative, Fail(alternative) PROVE NextContinues'
  <2>1. reply'.next = 0
    BY <1>2 DEF Fail, Return, NoReply
  <2> QED
    BY <2>1 DEF NextContinues
<1>3. CASE ReplySearch
  <2>1. reply'.next = 0
    BY <1>3 DEF ReplySearch, Return, NoReply
  <2> QED
    BY <2>1 DEF NextContinues
<1>4. CASE ReplyOpen
  <2>1. /\ page.final \in Urls /\ page.total \in 1..LastPart
        /\ target.part \in 1..LastPart
    BY <1>4 DEF ReplyOpen, Inv, TypeOK, Entry
  <2>2. CASE ShownPart < page.total
    <3> DEFINE follow == PartNumber(page.final, ShownPart + 1)
    <3>1. /\ ForPart(page.final, ShownPart + 1)
          /\ reply'.next = follow
          /\ reply'.after.url = page.final /\ reply'.after.part = ShownPart
      BY <1>4, <2>2 DEF ReplyOpen, Return
    <3>2. ShownPart + 1 \in 2..LastPart
      BY <2>1, <2>2, TableAssumption DEF ShownPart, TableAssumption
    <3>3. /\ follow \in Live'
          /\ KeyOf[byId'[follow].url] = KeyOf[page.final]
          /\ byId'[follow].part = ShownPart + 1
      BY <2>1, <3>1, <3>2, ForPartInv DEF Inv
    <3> HIDE DEF follow
    <3> QED
      BY <3>1, <3>3 DEF NextContinues
  <2>3. CASE ~(ShownPart < page.total)
    <3>1. reply'.next = 0
      BY <1>4, <2>3 DEF ReplyOpen, Return, NoReply
    <3> QED
      BY <3>1 DEF NextContinues
  <2> QED
    BY <2>2, <2>3
<1>5. CASE StartSearch \/ NumberResult \/ OpenUrl \/ OpenNumber \/ FetchReturns
             \/ NumberPage \/ AliasPage \/ NumberLink
  <2>1. pc' # "idle"
    BY <1>5 DEF StartSearch, NumberResult, OpenUrl, OpenNumber, StartOpen, FetchReturns,
      NumberPage, AliasPage, NumberLink
  <2> QED
    BY <2>1 DEF NextContinues
<1>6. CASE SearchFails \/ OpenUnknownNumber \/ FetchFails \/ ChunksFail
  BY <1>2, <1>6 DEF SearchFails, OpenUnknownNumber, FetchFails, ChunksFail
<1> QED
  BY <1>1, <1>3, <1>4, <1>5, <1>6 DEF Next

\* The continuation number of a response is known and opens the part after the
\* one shown (service.py:287-291).
THEOREM CallsNextContinues == Spec => []NextContinues
<1>1. Init => NextContinues
  BY DEF Init, NextContinues, NoReply
<1> QED
  BY <1>1, StepContinues, CallsCorrect, PTL DEF Spec

-----------------------------------------------------------------------------

\* A number that is the least of some is one of them.
LEMMA LeastChosen ==
  ASSUME NEW S, S \subseteq Nat, S # {}
  PROVE  /\ (CHOOSE i \in S : \A j \in S : i <= j) \in S
         /\ \A k \in S : (CHOOSE i \in S : \A j \in S : i <= j) <= k
<1> DEFINE Less == OpToRel(<, Nat)
<1>1. IsWellFoundedOn(Less, Nat)
  BY NatLessThanWellFounded
<1>2. \A x, y \in Nat : x < y => <<x, y>> \in Less
  BY DEF OpToRel
<1> HIDE DEF Less
<1>3. PICK x \in S : \A y \in S : ~ (<<y, x>> \in Less)
  BY <1>1, WFMin
<1>4. ASSUME NEW y \in S PROVE x <= y
  <2>1. x \in Nat /\ y \in Nat /\ ~ (y < x)
    BY <1>2, <1>3
  <2> QED
    BY <2>1
<1> QED
  BY <1>4

\* What _alt recommends, if anything, is the first result that fits.
LEMMA AltFits ==
  ASSUME TypeOK, NEW failed, Alt(failed) # 0
  PROVE  \E i \in AltPositions(failed) : Alt(failed) = lastResults[i]
<1> DEFINE good == AltPositions(failed)
<1>1. good # {} /\ Alt(failed) = lastResults[CHOOSE i \in good : \A j \in good : i <= j]
  BY DEF Alt
<1>2. good \subseteq Nat
  BY DEF AltPositions, TypeOK
<1> HIDE DEF good
<1>3. (CHOOSE i \in good : \A j \in good : i <= j) \in good
  BY <1>1, <1>2, LeastChosen
<1> QED
  BY <1>1, <1>3 DEF good

-----------------------------------------------------------------------------
(* What a call with a shown number comes to                                *)

\* The arguments {k: v} come to v, whatever the key.
LEMMA PickOnly ==
  ASSUME NEW tool \in DOMAIN Primary, NEW k, NEW v
  PROVE  /\ Pick(Dict(k, v).at, tool) \in {Found(v, TRUE), Found(v, FALSE)}
         /\ k = Primary[tool] => Pick(Dict(k, v).at, tool) = Found(v, FALSE)
         /\ k = "q" => Pick(Dict(k, v).at, tool) = Found(v, TRUE)
<1> DEFINE args == Dict(k, v).at
           listed == {i \in DOMAIN ValueKeys : ValueKeys[i] \in DOMAIN args}
           first == CHOOSE i \in listed : \A j \in listed : i <= j
<1>1. DOMAIN args = {k} /\ args[k] = v
  BY DEF Dict
<1>2. CASE Primary[tool] = k
  <2>1. Pick(args, tool) = Found(v, FALSE)
    BY <1>1, <1>2 DEF Pick
  <2>2. k # "q"
    BY <1>2 DEF Primary
  <2> QED
    BY <2>1, <2>2
<1>3. CASE Primary[tool] # k /\ listed # {}
  <2>1. first \in listed
    <3>1. listed \subseteq Nat
      BY DEF ValueKeys
    <3> HIDE DEF listed
    <3> QED
      BY <1>3, <3>1, LeastChosen
  <2>2. ValueKeys[first] = k
    BY <1>1, <2>1
  <2>3. Pick(args, tool) = Found(args[ValueKeys[first]], TRUE)
    BY <1>1, <1>3 DEF Pick
  <2> QED
    BY <1>1, <1>3, <2>2, <2>3
<1>4. CASE Primary[tool] # k /\ listed = {}
  <2>1. (CHOOSE l \in DOMAIN args : TRUE) = k /\ \E l \in DOMAIN args : DOMAIN args = {l}
    BY <1>1
  <2>2. Pick(args, tool) = Found(args[CHOOSE l \in DOMAIN args : TRUE], TRUE)
    BY <1>1, <1>4, <2>1 DEF Pick
  <2> QED
    BY <1>1, <1>4, <2>1, <2>2
<1> QED
  BY <1>2, <1>3, <1>4

\* A turn that ends the search for a text is the last that matters.
LEMMA UnwrapEnds ==
  ASSUME NEW tool, NEW found, NEW done, Turn(found, tool) = done, Turn(done, tool) = done
  PROVE  Unwrap(found, tool) = done
<1> USE NormalizeAssumption DEF NormalizeAssumption
<1> DEFINE after == CHOOSE f : f = [n \in 0..MaxTurns |-> IF n = 0 THEN found ELSE Turn(f[n - 1], tool)]
           known == [n \in 0..MaxTurns |-> IF n = 0 THEN found ELSE done]
<1>1. known = [n \in 0..MaxTurns |-> IF n = 0 THEN found ELSE Turn(known[n - 1], tool)]
  <2>1. ASSUME NEW n \in 0..MaxTurns, n # 0 PROVE Turn(known[n - 1], tool) = done
    <3>1. n - 1 \in 0..MaxTurns
      BY <2>1
    <3>2. known[n - 1] \in {found, done}
      BY <3>1
    <3> QED
      BY <3>2
  <2> QED
    BY <2>1
<1>2. after = [n \in 0..MaxTurns |-> IF n = 0 THEN found ELSE Turn(after[n - 1], tool)]
  <2> HIDE DEF known
  <2> QED
    BY <1>1
<1> HIDE DEF known, after
<1> DEFINE wrong == {n \in 1..MaxTurns : after[n] # done}
<1>3. wrong = {}
  <2>1. SUFFICES ASSUME wrong # {} PROVE FALSE
    OBVIOUS
  <2>2. PICK n \in wrong : \A m \in wrong : n <= m
    <3>1. wrong \subseteq Nat
      OBVIOUS
    <3> DEFINE least == CHOOSE i \in wrong : \A j \in wrong : i <= j
    <3>2. least \in wrong /\ \A j \in wrong : least <= j
      <4> HIDE DEF wrong
      <4> QED
        BY <2>1, <3>1, LeastChosen
    <3> QED
      BY <3>2
  <2>3. n \in 0..MaxTurns /\ n # 0 /\ after[n] # done /\ n - 1 \in 0..MaxTurns
    BY <2>2
  <2>4. after[n] = Turn(after[n - 1], tool)
    BY <1>2, <2>3
  <2>5. CASE n = 1
    <3>1. after[0] = found
      BY <1>2
    <3> QED
      BY <2>3, <2>4, <2>5, <3>1
  <2>6. CASE n > 1
    <3>1. after[n - 1] = done
      <4>1. n - 1 \in 1..MaxTurns /\ ~ (n <= n - 1)
        BY <2>3, <2>6
      <4> QED
        BY <2>2, <4>1
    <3> QED
      BY <2>3, <2>4, <3>1
  <2> QED
    BY <2>3, <2>5, <2>6
<1>4. after[MaxTurns] = done
  BY <1>3
<1> QED
  BY <1>4 DEF Unwrap, after

\* A text or number, by itself or first in a list, is found.
LEMMA UnwrapFinds ==
  ASSUME NEW tool, NEW v, v.type \in {"text", "number"}, NEW given, NEW b \in BOOLEAN,
         given \in {v, [type |-> "list", items |-> <<v>>]}
  PROVE  \E c \in BOOLEAN :
           /\ Unwrap(Found(given, b), tool) = [value |-> v, corrected |-> c, state |-> "done"]
           /\ given = v => c = b
<1> DEFINE found == Found(given, b)
<1>1. \E c \in BOOLEAN : /\ Turn(found, tool) = [value |-> v, corrected |-> c, state |-> "done"]
                         /\ given = v => c = b
  <2>1. CASE given = v
    <3>1. Turn(found, tool) = [value |-> v, corrected |-> b \/ FALSE, state |-> "done"]
      BY <2>1 DEF Turn, Found
    <3> QED
      BY <3>1
  <2>2. CASE given = [type |-> "list", items |-> <<v>>] /\ given # v
    <3>1. found.value.type = "list" /\ found.value.items # <<>> /\ found.value.items[1] = v
      BY <2>2 DEF Found
    <3>2. Turn(found, tool) = [value |-> v, corrected |-> b \/ TRUE, state |-> "done"]
      BY <3>1 DEF Turn, Found
    <3> QED
      BY <2>2, <3>2
  <2> QED
    BY <2>1, <2>2
<1>2. PICK c \in BOOLEAN : /\ Turn(found, tool) = [value |-> v, corrected |-> c, state |-> "done"]
                           /\ given = v => c = b
  BY <1>1
<1> DEFINE done == [value |-> v, corrected |-> c, state |-> "done"]
<1>3. Turn(done, tool) = done
  BY DEF Turn
<1>4. Unwrap(found, tool) = done
  <2> HIDE DEF done, found
  <2>1. Turn(found, tool) = done
    BY <1>2 DEF done
  <2> QED
    BY <1>3, <2>1, UnwrapEnds
<1> QED
  BY <1>2, <1>4

\* A number, however it is written, reads as itself, up to the zero in front that
\* takes one of its digits.
LEMMA WrittenReads ==
  ASSUME NEW n \in Nat, 10 * n < IdLimit, NEW v \in Written(n), NEW b \in BOOLEAN,
         NEW value, value = Value([value |-> v, corrected |-> b, state |-> "done"])
  PROVE  /\ v.type \in {"text", "number"}
         /\ value.state = "going"
         /\ Kind(value.value).kind = "id" /\ Kind(value.value).payload = n
         /\ v = Text(Digits(n)) /\ ~ b => ~ value.corrected /\ ~ Kind(value.value).corrected
<1> USE NormalizeAssumption DEF NormalizeAssumption
<1> DEFINE source == [value |-> v, corrected |-> b, state |-> "done"]
           text == IF v.type = "number" THEN Digits(v.n) ELSE v.text
           Plain(t) == /\ t.body = "digits" /\ t.n = n
                       /\ t.tail = <<>> \/ (~ t.bracket /\ t.tail = <<"paren">>)
<1>1. v.type \in {"text", "number"} /\ Plain(text) /\ (v.type = "number" => v # Text(Digits(n)))
  <2>1. CASE v = [type |-> "number", n |-> n]
    BY <2>1 DEF Digits, Text
  <2>2. CASE v # [type |-> "number", n |-> n]
    <3>1. PICK z \in BOOLEAN, d \in BOOLEAN, a \in Around : v = Spelt(n, z, d, a)
      BY <2>2 DEF Written
    <3> DEFINE spelt == [Digits(n) EXCEPT !.zeros = z, !.dressed = d, !.bracket = a[1], !.tail = a[2]]
    <3>2. /\ spelt.body = "digits" /\ spelt.n = n
          /\ spelt.bracket = a[1] /\ spelt.tail = a[2]
      BY DEF Digits
    <3>3. a[2] = <<>> \/ (~ a[1] /\ a[2] = <<"paren">>)
      <4>1. CASE a = <<FALSE, <<>>>>
        BY <4>1
      <4>2. CASE a = <<TRUE, <<>>>>
        BY <4>2
      <4>3. CASE a = <<FALSE, <<"paren">>>>
        BY <4>3
      <4> QED
        BY <4>1, <4>2, <4>3 DEF Around
    <3>4. v.type = "text" /\ v.text = spelt
      BY <3>1 DEF Spelt, Text
    <3> HIDE DEF spelt
    <3>5. text = spelt
      BY <3>4
    <3> HIDE DEF text
    <3>6. Plain(text)
      <4>1. text.body = "digits" /\ text.n = n
        BY <3>2, <3>5
      <4>2. text.bracket = a[1] /\ text.tail = a[2]
        BY <3>2, <3>5
      <4> QED
        BY <3>3, <4>1, <4>2
    <3> QED
      BY <3>4, <3>6
  <2> QED
    BY <2>1, <2>2
<1>2. source.state = "done" /\ source.value = v /\ source.corrected = b
  OBVIOUS
<1>3. value = Found([text EXCEPT !.dressed = FALSE], b \/ text.dressed \/ v.type = "number")
  <2> HIDE DEF source
  <2>1. text.body # "empty"
    BY <1>1
  <2> QED
    BY <1>1, <1>2, <2>1 DEF Value, source
<1>4. value.state = "going" /\ value.value = [text EXCEPT !.dressed = FALSE]
  <2>1. \A x, c : Found(x, c).state = "going" /\ Found(x, c).value = x
    BY DEF Found
  <2> QED
    BY <1>3, <2>1
<1>5. Plain([text EXCEPT !.dressed = FALSE])
  BY <1>1
<1>6. IsId(value.value)
  <2>1. Plain(value.value)
    BY <1>4, <1>5
  <2>2. Short(value.value)
    BY <2>1 DEF Short
  <2> QED
    BY <2>1, <2>2 DEF IsId
<1>7. Kind(value.value).kind = "id" /\ Kind(value.value).payload = n
  BY <1>4, <1>5, <1>6 DEF Kind
<1>8. ASSUME v = Text(Digits(n)), ~ b PROVE ~ value.corrected /\ ~ Kind(value.value).corrected
  <2>1. text = Digits(n) /\ v.type # "number"
    BY <1>8 DEF Text
  <2>2. ~ value.corrected
    BY <1>3, <1>8, <2>1 DEF Found, Digits
  <2>3. ~ value.value.bracket /\ ~ value.value.zeros /\ value.value.tail = <<>>
    <3>1. LET t == [Digits(n) EXCEPT !.dressed = FALSE]
          IN  ~ t.bracket /\ ~ t.zeros /\ t.tail = <<>>
      BY DEF Digits
    <3> QED
      BY <1>4, <2>1, <3>1
  <2>4. ~ Kind(value.value).corrected
    BY <1>6, <2>3 DEF Kind
  <2> QED
    BY <2>2, <2>4
<1> QED
  BY <1>1, <1>4, <1>7, <1>8

\* Every name of a tool is one, and "open" is its own.
LEMMA ToolKnown ==
  ASSUME NEW name \in DOMAIN ToolAliases \cup DOMAIN Primary
  PROVE  Tool(name) \in DOMAIN Primary /\ "open" \notin DOMAIN ToolAliases
  BY DEF Tool, ToolAliases, Primary

\* A call comes to the text or number v: what is made of it is decided by v, unless
\* v is refused.
ComesTo(name, raw, v, corrected) ==
  LET value == Value([value |-> v, corrected |-> corrected, state |-> "done"])
  IN  value.state = "going" =>
        Normalize(name, raw) =
          Decide(Tool(name), Kind(value.value),
                 name \in DOMAIN ToolAliases \/ value.corrected \/ Kind(value.value).corrected)

\* The call behind arguments that came to a text or a number.
LEMMA CallOfText ==
  ASSUME NEW name \in DOMAIN ToolAliases \cup DOMAIN Primary, NEW raw,
         NEW k, NEW v, v.type \in {"text", "number"},
         NEW given, given = v \/ given = [type |-> "list", items |-> <<v>>],
         NEW args, args = CoerceArgs(Tool(name), raw),
         args.value = Dict(k, given), args.corrected \in BOOLEAN
  PROVE  \E c \in BOOLEAN :
           /\ given = v /\ k = Primary[Tool(name)] /\ ~ args.corrected => ~ c
           /\ given = v /\ k = "q" => c
           /\ ComesTo(name, raw, v, c)
<1> DEFINE tool == Tool(name)
           b == args.corrected
           picked == Corrected(Pick(args.value.at, tool), args.corrected)
<1>1. tool \in DOMAIN Primary
  BY ToolKnown
<1>2. args.value = Dict(k, given) /\ b \in BOOLEAN
  OBVIOUS
<1>3. \E p \in BOOLEAN : /\ Pick(args.value.at, tool) = Found(given, p)
                         /\ k = Primary[tool] => ~ p
                         /\ k = "q" => p
  <2>1. /\ Pick(Dict(k, given).at, tool) \in {Found(given, TRUE), Found(given, FALSE)}
        /\ k = Primary[tool] => Pick(Dict(k, given).at, tool) = Found(given, FALSE)
        /\ k = "q" => Pick(Dict(k, given).at, tool) = Found(given, TRUE)
    BY <1>1, PickOnly
  <2>2. k = "q" => k # Primary[tool]
    BY <1>1 DEF Primary
  <2> HIDE DEF tool
  <2> QED
    BY <1>2, <2>1, <2>2
<1>4. PICK p \in BOOLEAN : /\ Pick(args.value.at, tool) = Found(given, p)
                           /\ k = Primary[tool] => ~ p
                           /\ k = "q" => p
  BY <1>3
<1>5. picked = Found(given, p \/ b)
  <2>1. Corrected(Found(given, p), b) = Found(given, p \/ b)
    BY DEF Corrected, Found
  <2> HIDE DEF tool
  <2> QED
    BY <1>2, <1>4, <2>1
<1>6. picked.state = "going"
  BY <1>5 DEF Found
<1>7. PICK c \in BOOLEAN : /\ Unwrap(picked, tool) = [value |-> v, corrected |-> c, state |-> "done"]
                           /\ given = v => (c = (p \/ b))
  <2>1. (p \/ b) \in BOOLEAN
    OBVIOUS
  <2> HIDE DEF tool, picked
  <2> QED
    BY <1>5, <2>1, UnwrapFinds
<1> DEFINE value == Value([value |-> v, corrected |-> c, state |-> "done"])
<1>8. value.state = "going" =>
        Normalize(name, raw) =
          Decide(tool, Kind(value.value),
                 name \in DOMAIN ToolAliases \/ value.corrected \/ Kind(value.value).corrected)
  <2>1. Value(IF picked.state = "going" THEN Unwrap(picked, tool) ELSE picked) = value
    BY <1>6, <1>7
  <2> HIDE DEF value
  <2> QED
    BY <1>1, <2>1 DEF Normalize
<1>9. given = v /\ k = Primary[tool] /\ ~ b => ~ c
  BY <1>4, <1>7
<1>10. given = v /\ k = "q" => c
  BY <1>4, <1>7
<1> QED
  BY <1>8, <1>9, <1>10 DEF ComesTo

\* Arguments that are no object come under the tool's own key.
LEMMA CoercePlain ==
  ASSUME NEW tool, NEW raw, raw.type \notin {"json", "dict"}
  PROVE  CoerceArgs(tool, raw) = Found(Dict(Primary[tool], raw), TRUE)
  BY DEF CoerceArgs

\* However a number is given, the arguments are one key with the number, or with
\* a list of it.
LEMMA GivenComesTo ==
  ASSUME NEW n \in Nat, NEW tool, NEW raw \in Given(n)
  PROVE  \E k, given : \E v \in Written(n) :
           /\ given = v \/ given = [type |-> "list", items |-> <<v>>]
           /\ CoerceArgs(tool, raw).value = Dict(k, given)
           /\ CoerceArgs(tool, raw).corrected \in BOOLEAN
           /\ \A t : raw = Dict("url", Text(t)) =>
                k = "url" /\ given = v /\ v = Text(t) /\ ~ CoerceArgs(tool, raw).corrected
<1> DEFINE list(v) == [type |-> "list", items |-> <<v>>]
           values == Written(n) \cup {list(v) : v \in Written(n)}
           number == [type |-> "number", n |-> n]
<1>1. ASSUME NEW v \in Written(n) PROVE v.type \in {"text", "number"}
  <2>1. CASE v # number
    <3>1. PICK z \in BOOLEAN, d \in BOOLEAN, a \in Around : v = Spelt(n, z, d, a)
      BY <2>1 DEF Written
    <3> QED
      BY <3>1 DEF Spelt, Text
  <2> QED
    BY <2>1
<1>2. number \in Written(n)
  BY DEF Written
<1>3. ASSUME NEW val \in values
      PROVE  \E v \in Written(n) : val = v \/ val = list(v)
  BY <1>3
<1>4. \A k, v : Dict(k, v).type = "dict" /\ Dict(k, v).at = [l \in {k} |-> v]
  BY DEF Dict
<1>5. ASSUME NEW val \in values PROVE val.type \in {"text", "number", "list"}
  <2>1. PICK v \in Written(n) : val = v \/ val = list(v)
    BY <1>3
  <2> QED
    BY <1>1, <2>1
<1>6. \/ raw \in values
      \/ \E k : \E val \in values : raw = Dict(k, val)
      \/ \E k : \E val \in values : raw = [type |-> "json", value |-> Dict(k, val)]
      \/ raw = [type |-> "json", value |-> number]
  BY DEF Given
<1>7. CASE raw \in values
  <2>1. PICK v \in Written(n) : raw = v \/ raw = list(v)
    BY <1>3, <1>7
  <2>2. raw.type \notin {"json", "dict"}
    BY <1>5, <1>7
  <2>3. CoerceArgs(tool, raw).value = Dict(Primary[tool], raw) /\ CoerceArgs(tool, raw).corrected = TRUE
    BY <2>2, CoercePlain DEF Found
  <2>4. \A t : raw # Dict("url", Text(t))
    BY <1>4, <2>2
  <2> QED
    BY <2>1, <2>3, <2>4
<1>8. CASE \E k : \E val \in values : raw = Dict(k, val)
  <2>1. PICK k : \E val \in values : raw = Dict(k, val)
    BY <1>8
  <2>2. PICK val \in values : raw = Dict(k, val)
    BY <2>1
  <2>3. PICK v \in Written(n) : val = v \/ val = list(v)
    BY <1>3
  <2>4. CoerceArgs(tool, raw).value = Dict(k, val) /\ CoerceArgs(tool, raw).corrected = FALSE
    BY <1>4, <2>2 DEF CoerceArgs, Found
  <2>5. ASSUME NEW t, raw = Dict("url", Text(t)) PROVE k = "url" /\ val = v /\ v = Text(t)
    <3>1. [l \in {k} |-> val] = [l \in {"url"} |-> Text(t)]
      <4>1. raw.at = [l \in {k} |-> val]
        BY <1>4, <2>2
      <4>2. Dict("url", Text(t)).at = [l \in {"url"} |-> Text(t)]
        BY <1>4
      <4> QED
        BY <2>5, <4>1, <4>2
    <3>2. k = "url"
      <4>1. DOMAIN [l \in {k} |-> val] = {k} /\ DOMAIN [l \in {"url"} |-> Text(t)] = {"url"}
        OBVIOUS
      <4> QED
        BY <3>1, <4>1
    <3>3. val = Text(t)
      <4>1. [l \in {k} |-> val][k] = val /\ [l \in {"url"} |-> Text(t)]["url"] = Text(t)
        OBVIOUS
      <4> QED
        BY <3>1, <3>2, <4>1
    <3>4. val.type = "text"
      BY <3>3 DEF Text
    <3>5. val # list(v)
      BY <3>4
    <3> QED
      BY <2>3, <3>2, <3>3, <3>5
  <2>6. /\ CoerceArgs(tool, raw).corrected \in BOOLEAN
        /\ \A t : raw = Dict("url", Text(t)) =>
             k = "url" /\ val = v /\ v = Text(t) /\ ~ CoerceArgs(tool, raw).corrected
    BY <2>4, <2>5
  <2>7. CoerceArgs(tool, raw).value = Dict(k, val)
    BY <2>4
  <2> QED
    BY <2>3, <2>6, <2>7
<1>9. CASE \E k : \E val \in values : raw = [type |-> "json", value |-> Dict(k, val)]
  <2>1. PICK k : \E val \in values : raw = [type |-> "json", value |-> Dict(k, val)]
    BY <1>9
  <2>2. PICK val \in values : raw = [type |-> "json", value |-> Dict(k, val)]
    BY <2>1
  <2>3. PICK v \in Written(n) : val = v \/ val = list(v)
    BY <1>3
  <2>4. raw.type = "json" /\ raw.value = Dict(k, val)
    BY <2>2
  <2>5. CoerceArgs(tool, raw).value = Dict(k, val) /\ CoerceArgs(tool, raw).corrected = FALSE
    BY <1>4, <2>4 DEF CoerceArgs, Found
  <2>6. \A t : raw # Dict("url", Text(t))
    BY <1>4, <2>4
  <2> QED
    BY <2>3, <2>5, <2>6
<1>10. CASE raw = [type |-> "json", value |-> number]
  <2>1. raw.type = "json" /\ raw.value = number /\ number.type = "number"
    BY <1>10
  <2>2. CoerceArgs(tool, raw).value = Dict(Primary[tool], number) /\ CoerceArgs(tool, raw).corrected = TRUE
    BY <2>1 DEF CoerceArgs, Found
  <2>3. \A t : raw # Dict("url", Text(t))
    BY <1>4, <2>1
  <2> QED
    BY <1>2, <2>2, <2>3
<1> QED
  BY <1>6, <1>7, <1>8, <1>9, <1>10

\* A number opens what it stands for, however it is given.
LEMMA NumberOpens ==
  ASSUME NEW n \in Nat, 10 * n < IdLimit
  PROVE  Opens(n)
<1> SUFFICES ASSUME NEW name \in DOMAIN ToolAliases \cup DOMAIN Primary, NEW raw \in Given(n)
             PROVE  LET call == Normalize(name, raw)
                    IN  /\ call.action = "open" /\ call.kind = "id" /\ call.payload = n
                        /\ name = "open" /\ raw = Dict("url", Text(Digits(n))) => ~ call.corrected
  BY DEF Opens
<1> DEFINE args == CoerceArgs(Tool(name), raw)
<1>1. PICK k, given : \E v \in Written(n) :
        /\ given = v \/ given = [type |-> "list", items |-> <<v>>]
        /\ args.value = Dict(k, given)
        /\ args.corrected \in BOOLEAN
        /\ \A t : raw = Dict("url", Text(t)) =>
             k = "url" /\ given = v /\ v = Text(t) /\ ~ args.corrected
  BY GivenComesTo
<1>2. PICK v \in Written(n) :
        /\ given = v \/ given = [type |-> "list", items |-> <<v>>]
        /\ args.value = Dict(k, given)
        /\ args.corrected \in BOOLEAN
        /\ \A t : raw = Dict("url", Text(t)) =>
             k = "url" /\ given = v /\ v = Text(t) /\ ~ args.corrected
  BY <1>1
<1>9. v.type \in {"text", "number"}
  BY WrittenReads
<1>3. PICK c \in BOOLEAN :
        (given = v /\ k = Primary[Tool(name)] /\ ~ args.corrected => ~ c) /\ ComesTo(name, raw, v, c)
  BY <1>2, <1>9, CallOfText
<1> DEFINE value == Value([value |-> v, corrected |-> c, state |-> "done"])
           what == Kind(value.value)
<1>4. /\ value.state = "going" /\ what.kind = "id" /\ what.payload = n
      /\ v = Text(Digits(n)) /\ ~ c => ~ value.corrected /\ ~ what.corrected
  BY WrittenReads
<1>5. Normalize(name, raw) =
        Decide(Tool(name), what, name \in DOMAIN ToolAliases \/ value.corrected \/ what.corrected)
  BY <1>3, <1>4 DEF ComesTo
<1>6. \A tool, also : /\ Decide(tool, what, also).action = "open"
                      /\ Decide(tool, what, also).kind = "id"
                      /\ Decide(tool, what, also).payload = n
                      /\ tool = "open" /\ ~ also => ~ Decide(tool, what, also).corrected
  <2> HIDE DEF what
  <2> QED
    BY <1>4 DEF Decide
<1>7. ASSUME name = "open", raw = Dict("url", Text(Digits(n))) PROVE ~ Normalize(name, raw).corrected
  <2>1. Tool(name) = "open" /\ name \notin DOMAIN ToolAliases /\ Primary[Tool(name)] = "url"
    BY <1>7, ToolKnown DEF Tool, Primary
  <2>2. k = "url" /\ given = v /\ v = Text(Digits(n)) /\ ~ args.corrected
    BY <1>2, <1>7
  <2>3. ~ c
    BY <1>3, <2>1, <2>2
  <2>4. ~ value.corrected /\ ~ what.corrected
    BY <1>4, <2>2, <2>3
  <2> HIDE DEF value, what
  <2> QED
    BY <1>5, <1>6, <2>1, <2>4
<1> HIDE DEF what, value
<1> QED
  BY <1>5, <1>6, <1>7

\* A text that is not empty is its own value, without its dress.
LEMMA TextValue ==
  ASSUME NEW t, t.body # "empty", NEW c \in BOOLEAN,
         NEW value, value = Value([value |-> Text(t), corrected |-> c, state |-> "done"])
  PROVE  /\ value.state = "going" /\ value.value = [t EXCEPT !.dressed = FALSE]
         /\ c => value.corrected
<1>1. Text(t).type = "text" /\ Text(t).text = t
  BY DEF Text
<1>2. value = Found([t EXCEPT !.dressed = FALSE], c \/ t.dressed \/ FALSE)
  BY <1>1 DEF Value
<1>3. \A x, also : Found(x, also).state = "going" /\ Found(x, also).value = x
                   /\ Found(x, also).corrected = also
  BY DEF Found
<1> QED
  BY <1>2, <1>3

\* The punctuation of a sentence is not part of its URL.
LEMMA SentenceCleaned ==
  ASSUME NEW tail \in Sentence
  PROVE  CleanTail(tail) = <<>>
<1> DEFINE kept == {i \in DOMAIN tail : tail[i] = "paren"}
<1>1. CASE tail \in {<<>>, <<"mark">>, <<"mark", "mark">>}
  <2>1. kept = {}
    BY <1>1
  <2> QED
    BY <2>1 DEF CleanTail
<1>2. CASE tail \in {<<"paren">>, <<"paren", "mark">>}
  <2>1. kept = {1}
    <3>1. CASE tail = <<"paren">>
      BY <3>1
    <3>2. CASE tail = <<"paren", "mark">>
      BY <3>2
    <3> QED
      BY <1>2, <3>1, <3>2
  <2>2. (CHOOSE i \in kept : \A j \in kept : j <= i) = 1
    BY <2>1
  <2>3. CleanTail(tail) = SubSeq(tail, 1, 0)
    BY <2>1, <2>2 DEF CleanTail
  <2> QED
    BY <2>3
<1> QED
  BY <1>1, <1>2 DEF Sentence

LEMMA UrlsAreOpened == UrlsOpen
<1> SUFFICES ASSUME NEW name \in DOMAIN ToolAliases \cup DOMAIN Primary,
                    NEW tail \in Sentence, NEW body \in {"url", "host"}, NEW d \in BOOLEAN
             PROVE  LET text == [Digits(0) EXCEPT !.body = body, !.dressed = d, !.tail = tail]
                        call == Normalize(name, Text(text))
                    IN  call.action = "open" /\ call.payload = <<body, <<>>>>
  BY DEF UrlsOpen
<1> DEFINE text == [Digits(0) EXCEPT !.body = body, !.dressed = d, !.tail = tail]
           bare == [text EXCEPT !.dressed = FALSE]
<1>1. text.body = body /\ bare.body = body /\ bare.tail = tail
  BY DEF Digits
<1>2. Text(text).type = "text"
  BY DEF Text
<1> HIDE DEF bare
<1>3. LET args == CoerceArgs(Tool(name), Text(text))
      IN  args.value = Dict(Primary[Tool(name)], Text(text)) /\ args.corrected \in BOOLEAN
  <2>1. CoerceArgs(Tool(name), Text(text)) = Found(Dict(Primary[Tool(name)], Text(text)), TRUE)
    BY <1>2, CoercePlain
  <2> HIDE DEF text
  <2> QED
    BY <2>1 DEF Found
<1>4. PICK c \in BOOLEAN : ComesTo(name, Text(text), Text(text), c)
  <2> HIDE DEF text
  <2> QED
    BY <1>2, <1>3, CallOfText
<1>5. LET value == Value([value |-> Text(text), corrected |-> c, state |-> "done"])
      IN  value.state = "going" /\ value.value = bare
  <2>1. text.body # "empty"
    BY <1>1
  <2> HIDE DEF text
  <2> QED
    BY <2>1, TextValue DEF bare
<1>6. ~ IsId(bare) /\ IsUrl(bare) /\ CleanTail(bare.tail) = <<>>
  BY <1>1, SentenceCleaned DEF IsId, Short, IsUrl
<1>7. Kind(bare).kind = "url" /\ Kind(bare).payload = <<body, <<>>>>
  BY <1>1, <1>6 DEF Kind
<1>8. \A also : /\ Decide(Tool(name), Kind(bare), also).action = "open"
                /\ Decide(Tool(name), Kind(bare), also).payload = <<body, <<>>>>
  BY <1>7 DEF Decide
<1> HIDE DEF text
<1> QED
  BY <1>4, <1>5, <1>8 DEF text, ComesTo

LEMMA WordsAreSearched == WordsSearch
<1> SUFFICES ASSUME NEW name \in DOMAIN ToolAliases \cup DOMAIN Primary, NEW messy \in BOOLEAN
             PROVE  LET call == Normalize(name, Dict("q", Text([Digits(-1) EXCEPT !.messy = messy])))
                    IN  call.action = "search" /\ call.corrected
  BY DEF WordsSearch
<1> DEFINE text == [Digits(-1) EXCEPT !.messy = messy]
           bare == [text EXCEPT !.dressed = FALSE]
           raw == Dict("q", Text(text))
<1>1. text.body = "words" /\ bare.body = "words"
  BY DEF Digits
<1>2. Text(text).type = "text" /\ raw.type = "dict"
  BY DEF Text, Dict
<1> HIDE DEF bare, text
<1>3. CoerceArgs(Tool(name), raw).value = Dict("q", Text(text)) /\ CoerceArgs(Tool(name), raw).corrected \in BOOLEAN
  BY <1>2 DEF CoerceArgs, Found
<1> HIDE DEF raw
<1>4. PICK c \in BOOLEAN : c /\ ComesTo(name, raw, Text(text), c)
  BY <1>2, <1>3, CallOfText
<1> DEFINE value == Value([value |-> Text(text), corrected |-> c, state |-> "done"])
<1>5. value.state = "going" /\ value.value = bare /\ value.corrected
  <2>1. text.body # "empty"
    BY <1>1
  <2> QED
    BY <1>4, <2>1, TextValue DEF bare
<1>6. Kind(bare).kind = "text"
  <2>1. ~ IsId(bare) /\ ~ IsUrl(bare)
    BY <1>1 DEF IsId, Short, IsUrl
  <2> QED
    BY <2>1 DEF Kind
<1>7. \A also : Decide(Tool(name), Kind(bare), also).action = "search"
                /\ (also => Decide(Tool(name), Kind(bare), also).corrected)
  BY <1>6 DEF Decide
<1> HIDE DEF value
<1>8. Normalize(name, raw) =
        Decide(Tool(name), Kind(bare), name \in DOMAIN ToolAliases \/ value.corrected \/ Kind(bare).corrected)
  BY <1>4, <1>5 DEF value, ComesTo
<1> QED
  BY <1>5, <1>7, <1>8 DEF raw, text

-----------------------------------------------------------------------------
(* What a session shows can be called                                      *)

\* No number beyond MaxRef is issued or shown.
Issued ==
  /\ next <= MaxRef + 1
  /\ \A i \in DOMAIN ids : ids[i] <= MaxRef
  /\ \A i \in DOMAIN lastResults : lastResults[i] <= MaxRef
  /\ pid <= MaxRef
  /\ \A r \in reply.shown \cup {reply.next, reply.alt} : r \in 0..MaxRef

\* A number for a page or a part of one is within the bound.
LEMMA NumberIssued ==
  ASSUME TableInv, next <= MaxRef + 1, NEW u \in Urls
  PROVE  /\ ForUrl(u) => next' <= MaxRef + 1 /\ UrlNumber(u) \in 1..MaxRef
         /\ \A p \in 2..LastPart : ForPart(u, p) => next' <= MaxRef + 1 /\ PartNumber(u, p) \in 1..MaxRef
<1> USE TableAssumption DEF TableAssumption
<1>1. next \in Nat \ {0} /\ \A r \in Live : r \in 1..MaxRef
  BY DEF TableInv, TableTypeOK, LiveInterval
<1>2. /\ \A k \in DOMAIN url : url[k] \in 1..MaxRef
      /\ \A k \in DOMAIN part : part[k] \in 1..MaxRef
  BY <1>1 DEF TableInv, IndexesLive
<1>3. ASSUME ForUrl(u) PROVE next' <= MaxRef + 1 /\ UrlNumber(u) \in 1..MaxRef
  BY <1>1, <1>2, <1>3 DEF ForUrl, UrlNumber, Allocate, tableVars
<1>4. ASSUME NEW p \in 2..LastPart, ForPart(u, p)
      PROVE  next' <= MaxRef + 1 /\ PartNumber(u, p) \in 1..MaxRef
  BY <1>1, <1>2, <1>4 DEF ForPart, PartNumber, Allocate, tableVars
<1> QED
  BY <1>3, <1>4

LEMMA FailIssued ==
  ASSUME Inv, Issued, NEW alternative, Fail(alternative),
         alternative = 0 \/ \E failed : alternative = Alt(failed)
  PROVE  Issued'
<1> USE TableAssumption DEF TableAssumption
<1>1. alternative \in 0..MaxRef
  <2>1. CASE alternative # 0
    <3>1. PICK failed : alternative = Alt(failed)
      BY <2>1
    <3>2. PICK i \in AltPositions(failed) : alternative = lastResults[i]
      BY <2>1, <3>1, AltFits DEF Inv
    <3>3. i \in DOMAIN lastResults /\ lastResults[i] \in Nat
      BY <3>2 DEF AltPositions, Inv, TypeOK
    <3> QED
      BY <3>2, <3>3 DEF Issued
  <2> QED
    BY <2>1
<1>2. /\ reply' = [NoReply EXCEPT !.alt = alternative] /\ ids' = <<>> /\ pid' = 0
      /\ UNCHANGED <<next, lastResults>>
  BY DEF Fail, Return, tableVars
<1>3. reply'.shown = {} /\ reply'.next = 0 /\ reply'.alt = alternative
  BY <1>2 DEF NoReply
<1> QED
  BY <1>1, <1>2, <1>3 DEF Issued

LEMMA AppendIssued ==
  ASSUME NEW s \in Seq(Nat \ {0}), \A i \in DOMAIN s : s[i] <= MaxRef, NEW r \in 1..MaxRef
  PROVE  \A i \in DOMAIN Append(s, r) : Append(s, r)[i] <= MaxRef
  OBVIOUS

LEMMA StepIssues == Inv /\ Issued /\ [Next]_vars => Issued'
<1> USE TableAssumption DEF TableAssumption
<1> SUFFICES ASSUME Inv, Issued, [Next]_vars PROVE Issued'
  OBVIOUS
<1>1. CASE UNCHANGED vars
  BY <1>1 DEF Issued, vars, callVars, tableVars
<1>2. CASE StartSearch \/ OpenUrl \/ OpenNumber \/ FetchReturns
  BY <1>2 DEF Issued, StartSearch, OpenUrl, OpenNumber, StartOpen, FetchReturns, tableVars
<1>3. CASE SearchFails \/ OpenUnknownNumber \/ FetchFails \/ ChunksFail
  BY <1>3, FailIssued DEF SearchFails, OpenUnknownNumber, FetchFails, ChunksFail
<1>4. CASE NumberResult \/ NumberLink
  <2>1. Head(todo) \in Urls
    BY <1>4 DEF NumberResult, NumberLink, Inv, TypeOK
  <2>2. next' <= MaxRef + 1 /\ UrlNumber(Head(todo)) \in 1..MaxRef
    BY <1>4, <2>1, NumberIssued DEF NumberResult, NumberLink, Inv, Issued
  <2>3. \A i \in DOMAIN ids' : ids'[i] <= MaxRef
    BY <1>4, <2>2, AppendIssued DEF NumberResult, NumberLink, Inv, TypeOK, Issued
  <2> QED
    BY <1>4, <2>2, <2>3 DEF NumberResult, NumberLink, Issued
<1>5. CASE ReplySearch
  <2>1. PICK kept \in 0..Len(ids) :
          /\ lastResults' = SubSeq(ids, 1, kept)
          /\ Return([NoReply EXCEPT !.shown = {ids[i] : i \in 1..kept}])
    BY <1>5 DEF ReplySearch
  <2>2. ids \in Seq(Nat \ {0}) /\ \A i \in 1..kept : i \in DOMAIN ids /\ ids[i] \in 0..MaxRef
    BY DEF Inv, TypeOK, Issued
  <2>3. \A i \in DOMAIN lastResults' : lastResults'[i] <= MaxRef
    BY <2>1, <2>2
  <2>4. reply'.shown = {ids[i] : i \in 1..kept} /\ reply'.next = 0 /\ reply'.alt = 0
    BY <2>1 DEF Return, NoReply
  <2>5. ids' = <<>> /\ pid' = 0 /\ next' = next
    BY <1>5, <2>1 DEF ReplySearch, Return, tableVars
  <2> QED
    BY <2>2, <2>3, <2>4, <2>5 DEF Issued
<1>6. CASE NumberPage
  <2>1. page.final \in Urls
    BY <1>6 DEF NumberPage, Inv, TypeOK
  <2>2. next' <= MaxRef + 1 /\ UrlNumber(page.final) \in 1..MaxRef
    BY <1>6, <2>1, NumberIssued DEF NumberPage, Inv, Issued
  <2> QED
    BY <1>6, <2>2 DEF NumberPage, Issued
<1>7. CASE AliasPage
  BY <1>7 DEF AliasPage, Alias, Issued
<1>8. CASE ReplyOpen
  <2>1. /\ page.final \in Urls /\ page.total \in 1..LastPart
        /\ target.part \in 1..LastPart
    BY <1>8 DEF ReplyOpen, Inv, TypeOK, Entry
  <2> DEFINE shown == {ids[i] : i \in DOMAIN ids}
             follow == PartNumber(page.final, ShownPart + 1)
  <2>2. \A r \in shown : r \in 0..MaxRef
    BY DEF Inv, TypeOK, Issued
  <2>3. CASE ShownPart < page.total
    <3>1. /\ ForPart(page.final, ShownPart + 1)
          /\ Return([shown |-> shown \cup {follow}, next |-> follow,
                     after |-> [url |-> page.final, part |-> ShownPart], alt |-> 0])
      BY <1>8, <2>3 DEF ReplyOpen
    <3>2. ShownPart + 1 \in 2..LastPart
      BY <2>1, <2>3 DEF ShownPart
    <3>3. next' <= MaxRef + 1 /\ follow \in 1..MaxRef
      BY <2>1, <3>1, <3>2, NumberIssued DEF Inv, Issued
    <3> HIDE DEF shown, follow
    <3>4. /\ reply'.shown = shown \cup {follow} /\ reply'.next = follow /\ reply'.alt = 0
          /\ ids' = <<>> /\ pid' = 0
      BY <3>1 DEF Return
    <3> QED
      BY <1>8, <2>2, <3>3, <3>4 DEF Issued, ReplyOpen
  <2>4. CASE ~ (ShownPart < page.total)
    <3>1. UNCHANGED tableVars /\ Return([NoReply EXCEPT !.shown = shown])
      BY <1>8, <2>4 DEF ReplyOpen
    <3> HIDE DEF shown
    <3>2. /\ reply'.shown = shown /\ reply'.next = 0 /\ reply'.alt = 0
          /\ ids' = <<>> /\ pid' = 0
      BY <3>1 DEF Return, NoReply
    <3> QED
      BY <1>8, <2>2, <3>1, <3>2 DEF Issued, ReplyOpen, tableVars
  <2> QED
    BY <2>3, <2>4
<1> QED
  BY <1>1, <1>2, <1>3, <1>4, <1>5, <1>6, <1>7, <1>8 DEF Next

\* Whatever a session has done, every number in its responses opens its entry,
\* however the agent gives it.  MaxRef is below a million: a number has seven
\* digits at most, a zero in front included (normalize.py:50).
THEOREM CallsShownOpen ==
  ASSUME 10 * MaxRef < IdLimit
  PROVE  Spec => []ShownNumbersOpen
<1> USE TableAssumption, NormalizeAssumption DEF TableAssumption, NormalizeAssumption
<1>1. Init => Issued
  BY DEF Init, Issued, TableInit, NoReply
<1>2. ASSUME NEW n \in 1..MaxRef PROVE Opens(n)
  BY NumberOpens
<1>3. Issued => ShownNumbersOpen
  BY <1>2, UrlsAreOpened, WordsAreSearched DEF Issued, ShownNumbersOpen, Understood
<1> QED
  BY <1>1, <1>3, StepIssues, CallsCorrect, PTL DEF Spec
=============================================================================
