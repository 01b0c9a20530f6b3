------------------------------ MODULE RefTable ------------------------------
(***************************************************************************)
(* The numbering table of one session: browsr/refs.py, class RefTable.     *)
(*                                                                         *)
(* A session gives every search result, every link of a page and every     *)
(* continuation of a split page a number that the agent may pass to open.  *)
(* The table allocates the numbers in order, keeps two reverse indexes     *)
(* (from a URL key and from a page part to the number), and drops the      *)
(* oldest tenth of its entries when it grows past MaxEntries.              *)
(***************************************************************************)
EXTENDS Integers, FiniteSets, Functions

CONSTANTS
  Urls,        \* URL spellings that reach the table
  Keys,        \* normalised URLs
  KeyOf,       \* urlnorm.normalize: which spellings are the same page
  LastPart,    \* bound: the highest part number of a page
  MaxEntries,  \* session.max_refs
  MaxRef       \* bound: numbers a behaviour may hand out

ASSUME TableAssumption ==
  /\ KeyOf \in [Urls -> Keys]
  /\ LastPart \in Nat \ {0}
  /\ MaxEntries \in Nat \ {0}
  /\ MaxRef \in Nat

VARIABLES
  next,   \* _next
  byId,   \* _by_id: live number -> the entry it opens
  url,    \* _url: URL key -> number
  part    \* _part: <<URL key, part>> -> number

tableVars == <<next, byId, url, part>>

Entry == [url : Urls, part : 1..LastPart]

Live == DOMAIN byId

TableInit ==
  /\ next = 1
  /\ byId = [r \in {} |-> 0]
  /\ url = [k \in {} |-> 0]
  /\ part = [k \in {} |-> 0]

-----------------------------------------------------------------------------

\* Assignment to a dict item.
Put(dict, key, value) ==
  [k \in DOMAIN dict \cup {key} |-> IF k = key THEN value ELSE dict[k]]

\* A dropped batch is a tenth of the capacity, rounded up.
EvictCount == (MaxEntries + 9) \div 10

\* The OrderedDict is filled in ascending order, so its head is the smallest.
Oldest(refs) == {r \in refs : Cardinality({s \in refs : s < r}) < EvictCount}

\* Mutant: the capacity test is off by one.
GoneAtCapacity ==
  LET grown == Live \cup {next}
  IN  IF Cardinality(grown) < MaxEntries THEN {} ELSE Oldest(grown)

\* What _evict_if_needed drops once the number `next` has been added.
Gone ==
  LET grown == Live \cup {next}
  IN  IF Cardinality(grown) <= MaxEntries THEN {} ELSE Oldest(grown)

Surviving(index) == RestrictValues(index, LAMBDA r : r \notin Gone)

\* Mutant: the next number is taken from the size of the table.
AllocateBySize(entry, urlIndex) ==
  /\ next <= MaxRef
  /\ byId' = RestrictDomain(Put(byId, next, entry), LAMBDA r : r \notin Gone)
  /\ next' = Cardinality(DOMAIN byId') + 1
  /\ url' = Surviving(urlIndex)

Allocate(entry, urlIndex) ==
  /\ next <= MaxRef
  /\ next' = next + 1
  /\ byId' = RestrictDomain(Put(byId, next, entry), LAMBDA r : r \notin Gone)
  /\ url' = Surviving(urlIndex)

-----------------------------------------------------------------------------

\* The number for_url returns: a known key keeps the number it has.
UrlNumber(u) == IF KeyOf[u] \in DOMAIN url THEN url[KeyOf[u]] ELSE next

ForUrl(u) ==
  IF KeyOf[u] \in DOMAIN url
  THEN UNCHANGED tableVars
  ELSE /\ Allocate([url |-> u, part |-> 1], Put(url, KeyOf[u], next))
       /\ part' = Surviving(part)

\* Mutant: the URL is tied to the number issued last.
AliasLatest(u, ref) ==
  /\ ref \in Live
  /\ url' = Put(url, KeyOf[u], next - 1)
  /\ UNCHANGED <<next, byId, part>>

\* alias raises KeyError on a number that is not live.
Alias(u, ref) ==
  /\ ref \in Live
  /\ url' = Put(url, KeyOf[u], ref)
  /\ UNCHANGED <<next, byId, part>>

PartNumber(u, p) ==
  IF <<KeyOf[u], p>> \in DOMAIN part THEN part[<<KeyOf[u], p>>] ELSE next

\* Mutant: the entry of a continuation number lacks its part.
ForPartFirst(u, p) ==
  IF <<KeyOf[u], p>> \in DOMAIN part
  THEN UNCHANGED tableVars
  ELSE /\ Allocate([url |-> u, part |-> 1], url)
       /\ part' = Put(Surviving(part), <<KeyOf[u], p>>, next)

\* The part index is written after the eviction, the URL index before it.
ForPart(u, p) ==
  IF <<KeyOf[u], p>> \in DOMAIN part
  THEN UNCHANGED tableVars
  ELSE /\ Allocate([url |-> u, part |-> p], url)
       /\ part' = Put(Surviving(part), <<KeyOf[u], p>>, next)

TableNext ==
  \E u \in Urls :
    \/ ForUrl(u)
    \/ \E ref \in Live : Alias(u, ref)
    \/ \E p \in 2..LastPart : ForPart(u, p)

TableSpec == TableInit /\ [][TableNext]_tableVars

-----------------------------------------------------------------------------

TableTypeOK ==
  /\ next \in Nat \ {0}
  /\ Live \subseteq Nat \ {0}
  /\ byId \in [Live -> Entry]
  /\ DOMAIN url \subseteq Keys
  /\ url \in [DOMAIN url -> Nat \ {0}]
  /\ DOMAIN part \subseteq Keys \X (2..LastPart)
  /\ part \in [DOMAIN part -> Nat \ {0}]

\* Both reverse indexes only lead to entries the table still has: an eviction
\* leaves no index entry behind, so for_url and for_part never answer with a
\* number that open would refuse (refs.py:62-64).
IndexesLive ==
  /\ \A k \in DOMAIN url : url[k] \in Live
  /\ \A k \in DOMAIN part : part[k] \in Live

\* A continuation number opens exactly the page and the part it was made for,
\* whatever was evicted, redirected or renumbered in between (refs.py:33-42).
PartIndexFaithful ==
  \A k \in DOMAIN part :
    part[k] \in Live =>
      /\ KeyOf[byId[part[k]].url] = k[1]
      /\ byId[part[k]].part = k[2]

\* Only the oldest numbers are ever dropped: the live numbers are the most
\* recently issued ones, and at least all of the last MaxEntries + 1 -
\* EvictCount of them are still known (refs.py:55-64).
RecentNumbersLive ==
  \A r \in 1..(next - 1) :
    /\ r > next - 1 - (MaxEntries + 1 - EvictCount) => r \in Live
    /\ r \in Live => \A s \in r..(next - 1) : s \in Live

\* The table never holds more than max_entries entries (refs.py:57).
TableBounded == Cardinality(Live) <= MaxEntries

\* A number that was issued once means the same page and part for as long as
\* it is known, and once dropped it is never issued again: an agent that holds
\* an old number gets the page it saw, or unknown_id (refs.py:47-54).
NumbersKeepMeaning ==
  [][/\ next' >= next
     /\ \A r \in DOMAIN byId' :
          r < next \/ r \in DOMAIN byId => r \in DOMAIN byId /\ byId'[r] = byId[r]]_tableVars
=============================================================================
