------------------------------ MODULE PageCache ------------------------------
(***************************************************************************)
(* The SQLite cache of pages and search results: class Cache of            *)
(* browsr/cache.py.                                                        *)
(*                                                                         *)
(* Every method runs in a worker thread under one lock, so it is one       *)
(* action.  A row holds its time of creation in whole seconds; the model   *)
(* counts its age instead, up to the first age that is never served.       *)
(***************************************************************************)
EXTENDS Integers, FiniteSets, Functions

CONSTANTS
  Keys,       \* normalised URLs, numbered in their order as text
  Pages,      \* pages, as the URL that was asked for and the final one
  PageTTL,    \* cache.page_ttl_s
  MaxPages,   \* cache.max_pages
  Queries,    \* search keys
  SearchTTL   \* cache.search_ttl_s

VARIABLES
  rows,   \* page: key -> [page, age]
  found   \* search: key -> age

cacheVars == <<rows, found>>

CacheInit == rows = [k \in {} |-> 0] /\ found = [q \in {} |-> 0]

\* _get_page and _get_search: created + ttl < now is refused.
Served(k) == k \in DOMAIN rows /\ rows[k].age <= PageTTL
SearchServed(q) == q \in DOMAIN found /\ found[q] <= SearchTTL

\* Mutant: the page is stored under the final URL for every URL of the table.
AliasesOfAll(p) == {p.url, p.final} \cup DOMAIN rows

Aliases(p) == {p.url, p.final}

\* put_page: replaces the row under each key, also by an older page.
PutPage(p, age) ==
  /\ rows' = [k \in DOMAIN rows \cup Aliases(p) |->
               IF k \in Aliases(p) THEN [page |-> p, age |-> age] ELSE rows[k]]
  /\ UNCHANGED found

PutSearch(q) ==
  /\ found' = [k \in DOMAIN found \cup {q} |-> IF k = q THEN 0 ELSE found[k]]
  /\ UNCHANGED rows

\* Mutant: the last second in which a page is served counts as expired.
ExpiredEarly(k) == rows[k].age >= PageTTL

Expired(k) == rows[k].age > PageTTL

\* Mutant: the newest pages go first.
NewestFirst(j, k) ==
  rows[j].age < rows[k].age \/ (rows[j].age = rows[k].age /\ j < k)

\* ORDER BY created ASC, key ASC
Before(j, k) ==
  rows[j].age > rows[k].age \/ (rows[j].age = rows[k].age /\ j < k)

\* sweep: expired rows, then the oldest pages beyond the limit.  The code reads
\* the clock before it waits for the lock (cache.py:191); that a second may pass
\* in between, and a row then outlives one more sweep, is left out.
SweepCache ==
  LET valid == {k \in DOMAIN rows : ~ Expired(k)}
      excess == Cardinality(valid) - MaxPages
      kept == {k \in valid : Cardinality({j \in valid : Before(j, k)}) >= excess}
  IN  /\ rows' = Restrict(rows, kept)
      /\ found' = Restrict(found, {q \in DOMAIN found : SearchServed(q)})

\* A second passes.
Grow(age, ttl) == IF age > ttl THEN age ELSE age + 1

CacheTick ==
  /\ rows' = [k \in DOMAIN rows |-> [rows[k] EXCEPT !.age = Grow(@, PageTTL)]]
  /\ found' = [q \in DOMAIN found |-> Grow(found[q], SearchTTL)]

CacheTypeOK ==
  /\ DOMAIN rows \subseteq Keys
  /\ \A k \in DOMAIN rows : rows[k] \in [page : Pages, age : 0..(PageTTL + 1)]
  /\ DOMAIN found \subseteq Queries
  /\ \A q \in DOMAIN found : found[q] \in 0..(SearchTTL + 1)
=============================================================================
