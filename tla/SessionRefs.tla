---------------------------- MODULE SessionRefs ----------------------------
(***************************************************************************)
(* The calls of one session and the numbers they show: Browsr._search,     *)
(* Browsr._open and Browsr._alt of browsr/service.py over the session's    *)
(* RefTable.                                                               *)
(*                                                                         *)
(* The calls of a session run one at a time (module SessionService), so a  *)
(* call is a short program: it chooses its results or its page, then       *)
(* performs one table operation after the other, and replies.  `pc` is the *)
(* place of the running call.  The web is not fixed: the same URL may      *)
(* redirect elsewhere, be split differently or fail at each call.          *)
(***************************************************************************)
EXTENDS RefTable, Sequences

CONSTANTS
  MaxResults,  \* output.results
  MaxLinks     \* bound: distinct link positions in the part that is shown

ASSUME SessionAssumption == MaxResults \in Nat /\ MaxLinks \in Nat

VARIABLES
  lastResults,  \* Session.last_results
  opened,       \* Session.opened: URL keys of pages that were read
  pc,           \* where the running call is
  todo,         \* URLs the running call still has to number, in order
  ids,          \* numbers it has put into its response so far
  target,       \* what the running open was asked for
  page,         \* the page it got
  pid,          \* the page's number
  reply,        \* the numbers of the last response
  redirects     \* history: <<k, f>> when asking for k has led to f

callVars == <<lastResults, opened, pc, todo, ids, target, page, pid, reply, redirects>>

vars == <<tableVars, callVars>>

NoEntry == [url |-> "none", part |-> 1]
NoPage == [final |-> "none", total |-> 1, links |-> <<>>]

\* shown: the numbers in the response; next: its continuation number and after:
\* the page and part it continues; alt: the number an error hint recommends.
\* A number that is absent is 0.
NoReply == [shown |-> {}, next |-> 0, after |-> NoEntry, alt |-> 0]

UrlSeqs(n) == UNION {[1..m -> Urls] : m \in 0..n}

\* The router drops results whose normalised URL it has already listed.
ResultLists ==
  {s \in UrlSeqs(MaxResults) : \A i, j \in DOMAIN s : KeyOf[s[i]] = KeyOf[s[j]] => i = j}

Pages == [final : Urls, total : 1..LastPart, links : UrlSeqs(MaxLinks)]

Init ==
  /\ TableInit
  /\ lastResults = <<>>
  /\ opened = {}
  /\ pc = "idle"
  /\ todo = <<>>
  /\ ids = <<>>
  /\ target = NoEntry
  /\ page = NoPage
  /\ pid = 0
  /\ reply = NoReply
  /\ redirects = {}

\* A call starts only if the numbers it may need are within the bound MaxRef.
Affordable(n) == next + n <= MaxRef + 1

-----------------------------------------------------------------------------
(* _alt: the first number of the last search that is still known, was not  *)
(* read yet and is not the page that just failed.                          *)

AltPositions(failed) ==
  {i \in DOMAIN lastResults :
     /\ lastResults[i] \in Live
     /\ KeyOf[byId[lastResults[i]].url] \notin opened \cup failed}

Alt(failed) ==
  LET good == AltPositions(failed)
  IN  IF good = {} THEN 0 ELSE lastResults[CHOOSE i \in good : \A j \in good : i <= j]

Return(response) ==
  /\ pc' = "idle"
  /\ reply' = response
  /\ todo' = <<>>
  /\ ids' = <<>>
  /\ target' = NoEntry
  /\ page' = NoPage
  /\ pid' = 0

Fail(alternative) ==
  /\ Return([NoReply EXCEPT !.alt = alternative])
  /\ UNCHANGED <<tableVars, lastResults, opened, redirects>>

-----------------------------------------------------------------------------
(* search                                                                  *)

StartSearch ==
  /\ pc = "idle"
  /\ \E results \in ResultLists :
       /\ Affordable(Len(results))
       /\ todo' = results
  /\ pc' = "search"
  /\ UNCHANGED <<tableVars, lastResults, opened, ids, target, page, pid, reply, redirects>>

\* search_unavailable names no alternative; an exception or a timeout does.
SearchFails ==
  /\ pc = "idle"
  /\ \E alternative \in {0, Alt({})} : Fail(alternative)

NumberResult ==
  /\ pc = "search"
  /\ todo # <<>>
  /\ ForUrl(Head(todo))
  /\ ids' = Append(ids, UrlNumber(Head(todo)))
  /\ todo' = Tail(todo)
  /\ UNCHANGED <<lastResults, opened, pc, target, page, pid, reply, redirects>>

\* Results that do not fit the response budget are popped from the end.
ReplySearch ==
  /\ pc = "search"
  /\ todo = <<>>
  /\ \E kept \in 0..Len(ids) :
       /\ lastResults' = SubSeq(ids, 1, kept)
       /\ Return([NoReply EXCEPT !.shown = {ids[i] : i \in 1..kept}])
  /\ UNCHANGED <<tableVars, opened, redirects>>

-----------------------------------------------------------------------------
(* open                                                                    *)

StartOpen(entry) ==
  /\ target' = entry
  /\ pc' = "fetch"
  /\ UNCHANGED <<tableVars, lastResults, opened, todo, ids, page, pid, reply, redirects>>

OpenUrl ==
  /\ pc = "idle"
  /\ \E u \in Urls : StartOpen([url |-> u, part |-> 1])

OpenNumber ==
  /\ pc = "idle"
  /\ \E ref \in Live : StartOpen(byId[ref])

\* unknown_id is not among the errors that recommend an alternative.
OpenUnknownNumber ==
  /\ pc = "idle"
  /\ \E ref \in 1..MaxRef : ref \notin Live
  /\ Fail(0)

\* forbidden_target names no alternative, the other failures do.
FetchFails ==
  /\ pc = "fetch"
  /\ \E alternative \in {0, Alt({KeyOf[target.url]})} : Fail(alternative)

FetchReturns ==
  /\ pc = "fetch"
  /\ \E got \in Pages :
       /\ Affordable(Len(got.links) + 2)
       /\ page' = got
       /\ todo' = got.links
  /\ pc' = "page"
  /\ UNCHANGED <<tableVars, lastResults, opened, ids, target, pid, reply, redirects>>

NumberPage ==
  /\ pc = "page"
  /\ ForUrl(page.final)
  /\ pid' = UrlNumber(page.final)
  /\ pc' = "alias"
  /\ UNCHANGED <<lastResults, opened, todo, ids, target, page, reply, redirects>>

\* Where asking for the page k has led so far, k itself included.
LedTo(k) == {k} \cup {f \in Keys : <<k, f>> \in redirects}

AliasPage ==
  /\ pc = "alias"
  /\ Alias(target.url, pid)
  /\ redirects' = redirects \cup
       {<<KeyOf[target.url], f>> : f \in LedTo(KeyOf[page.final])}
  /\ ids' = <<pid>>
  /\ pc' = "text"
  /\ UNCHANGED <<lastResults, opened, todo, target, page, pid, reply>>

\* The page's metadata may leave no room for text: unsupported.
ChunksFail ==
  /\ pc = "text"
  /\ ids = <<pid>>
  /\ Fail(Alt({KeyOf[target.url]}))

NumberLink ==
  /\ pc = "text"
  /\ todo # <<>>
  /\ ForUrl(Head(todo))
  /\ ids' = Append(ids, UrlNumber(Head(todo)))
  /\ todo' = Tail(todo)
  /\ UNCHANGED <<lastResults, opened, pc, target, page, pid, reply, redirects>>

\* A part beyond the end of a page that got shorter is its last part.
ShownPart == IF target.part <= page.total THEN target.part ELSE page.total

ReplyOpen ==
  /\ pc = "text"
  /\ todo = <<>>
  /\ LET shown == {ids[i] : i \in DOMAIN ids}
         follow == PartNumber(page.final, ShownPart + 1)
     IN  IF ShownPart < page.total
         THEN /\ ForPart(page.final, ShownPart + 1)
              /\ Return([shown |-> shown \cup {follow}, next |-> follow,
                         after |-> [url |-> page.final, part |-> ShownPart], alt |-> 0])
         ELSE /\ UNCHANGED tableVars
              /\ Return([NoReply EXCEPT !.shown = shown])
  /\ opened' = opened \cup {KeyOf[target.url], KeyOf[page.final]}
  /\ UNCHANGED <<lastResults, redirects>>

-----------------------------------------------------------------------------

Next ==
  \/ StartSearch \/ SearchFails \/ NumberResult \/ ReplySearch
  \/ OpenUrl \/ OpenNumber \/ OpenUnknownNumber \/ FetchFails \/ FetchReturns
  \/ NumberPage \/ AliasPage \/ ChunksFail \/ NumberLink \/ ReplyOpen

Spec == Init /\ [][Next]_vars

-----------------------------------------------------------------------------

TypeOK ==
  /\ TableTypeOK
  /\ lastResults \in Seq(Nat \ {0})
  /\ opened \subseteq Keys
  /\ pc \in {"idle", "search", "fetch", "page", "alias", "text"}
  /\ todo \in Seq(Urls)
  /\ ids \in Seq(Nat \ {0})
  /\ target \in Entry \cup {NoEntry}
  /\ pc \in {"fetch", "page", "alias", "text"} => target \in Entry
  /\ pc \in {"page", "alias", "text"} => page.final \in Urls /\ page.total \in 1..LastPart
  /\ pid \in Nat
  /\ redirects \subseteq Keys \X Keys

\* The number a search or a link shows for a URL opens that URL, or a page
\* that asking for the URL led this session to, at once or through the pages
\* in between when redirects change: eviction, aliasing and the two indexes
\* never cross-wire numbers (refs.py:19-31, service.py:281-282).
NumbersLeadToUrl ==
  \A k \in DOMAIN url :
    /\ byId[url[k]].part = 1
    /\ KeyOf[byId[url[k]].url] \in LedTo(k)

\* alias never meets a number that is already gone: the number of the page is
\* live even when allocating it has just evicted others (service.py:281-282,
\* refs.py:27-29).
AliasTargetLive == pc = "alias" => pid \in Live

\* The `next` of a response is known when the response is sent and opens the
\* part that follows the one shown, even if the same response evicted entries
\* while its links were numbered (service.py:287-291).  docs/SPEC.md:89 and
\* docs/DESIGN.md:439-444 promise another part: the first that this session was
\* not served yet, the earlier ones after the later ones, none when all were.
\* The code keeps no record of served parts, so this is what it does instead.
NextContinues ==
  pc = "idle" /\ reply.next # 0 =>
    /\ reply.next \in Live
    /\ KeyOf[byId[reply.next].url] = KeyOf[reply.after.url]
    /\ byId[reply.next].part = reply.after.part + 1

\* docs/SPEC.md:121: within a session the same (normalised) URL always has the
\* same number.
OneNumberPerUrl ==
  \A r, s \in Live :
    /\ byId[r].part = 1
    /\ byId[s].part = 1
    /\ KeyOf[byId[r].url] = KeyOf[byId[s].url]
    => r = s
=============================================================================
