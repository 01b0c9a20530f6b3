# Verification of browsr

browsr is a single-process asyncio server that gives language-model agents two tools, `search`
and `open`. Everything runs on one event loop; the only other threads are the workers that run
SQLite and extraction for one await. So what happens between two awaits is atomic, and all the
hard behaviour sits at the awaits. The modules here cut the program exactly there: an action is
the code from one suspension point to the next.

Paths below are relative to `src/browsr/` of the repository.

## 1. Inventory

| Component | State | Operations | What makes it correct |
|---|---|---|---|
| Reference table (`refs.py`) | `_next`, `_by_id`, `_url`, `_part` | `for_url`, `alias`, `for_part`, `get`, eviction | a number keeps its meaning; indexes lead only to live numbers; capacity holds; recent numbers stay |
| Calls (`service.py` `_search`, `_open`, `_alt`) | `last_results`, `opened` of the session | one search or open at a time per session | shown numbers lead to what they were shown for, however they are passed; continuation numbers continue |
| Sessions (`session.py`, `service.py` `call`, `_sweep_sessions`) | `_sessions`, `_session_locks` | arrival, lock queue, end of a call, sweep every 60 s | calls of a session in order; a session in use is kept; idle ones expire |
| Browser pool (`fetch/browser.py`) | semaphore, `_contexts`, active counts, condition, start lock, `connected`, restarts | `fetch`, `run`, `drop_context`, restart after a crash | exact use counts; no open context beyond the limit; one context per session; nobody waits for ever |
| Page loader (`pages.py`) | `_inflight`, `_blocked`, the page cache | `get`, the shared load task, its callback | one load per URL; the right page; failures not remembered; block memory respected |
| Search router (`search/router.py`, `breaker.py`, `ratelimit.py`) | failure counts, rest times, slots | `search` | spaced requests; every search ends; resting backends come back |
| Cache (`cache.py`) | two SQLite tables | get, put, sweep | a get returns the page stored last or nothing; expired rows go; the page limit costs only the oldest |
| Guard and pacing (`fetch/guard.py`, `ratelimit.py`) | verdicts about hosts, robots.txt, turns of domains | `check_url`, `host_allowed`, `before_fetch` | verdicts are not used too long; loads of a domain take turns; every hop is asked about |
| HTTP, adapter, detection (`fetch/http.py`, `adapters.py`, `detect.py`) | none | `request`, `_fetch`, `PyPIAdapter.fetch`, `challenge_reason` | errors, refusals and challenges never become pages; redirects end |
| Chunker (`chunk.py`) | none | `split` and its splitters | parts fit; text and links survive; headings stay with what follows, fences and table headers with their parts |
| Call normalisation (`normalize.py`) | none | `normalize` | a number that was shown opens however it is passed |
| Guarding proxy (`fetch/proxy.py`) | server, open writers | start, close, one task per connection | not modelled |

`PROJECT.json` has every component with its status, and the hazards at their lines.

How they interact. `Browsr.call` takes the lock of the session and runs `_search` or `_open`.
`_search` asks the cache, then the router, which drives DuckDuckGo and Mojeek through
`BrowserPool.run` with the session id `__search__` and cancels them after a timeout. `_open`
asks `PageLoader.get`; the load is a task of its own, shielded from its callers, and goes through
guard, pacing, adapter, HTTP and `BrowserPool.fetch` under the session id of the first caller. The
maintenance task removes expired sessions, drops their browser contexts and, every tenth round,
sweeps the cache. Result numbers,
links and continuations all come from the session's reference table.

## 2. Modules

**RefTable** - the table: `next`, `byId`, `url`, `part` are `_next`, `_by_id`, `_url`, `_part`.
`Allocate` is `_allocate` with the eviction that ends it (`Gone`, `Surviving`); `ForUrl`, `Alias`,
`ForPart` are the methods. `KeyOf` stands for `urlnorm.normalize`. `TableSpec` is the table used in
any order, the abstract specification of what a session may do with it.

**SessionRefs** - the calls of one session over the table, one table operation per step: a search
numbers its results (`NumberResult`), drops those beyond the response budget (`ReplySearch`); an
open fetches, numbers the final URL, aliases, numbers the links and the continuation (`ReplyOpen`)
or fails with an alternative (`Fail`, `Alt`). The web is arbitrary: every fetch may return another
redirect, another number of parts, other links, or fail. `redirects` is a history variable.

**SessionService** - callers, lock objects, the session store and the maintenance task. The lock
object a call looked up (`lock`) and the registered one (`lockOf`) are kept apart, likewise the
`Session` object of a call and the one in the store (`mine`). `arrived` is history.

**PageStore** - the abstract page cache: under a URL it shows the page stored there last, or nothing;
what it has forgotten comes back only by a new store. It says nothing of rows, ages or sweeps.

**PageCache** - class `Cache`: a page is one row under the URL that was asked for and one under the
final URL, each with its age in whole seconds up to the first that is never served. `PutPage`
replaces rows, also by an older page; `SweepCache` drops expired rows and then the oldest beyond the
limit. Every method holds one lock in a worker thread and is one action; a sweep takes its time when
it has the lock, not just before.

**BrowsrService** - composes SessionService and PageCache under one maintenance task: running calls
store pages that are already some seconds old and search results (the load of a page may outlive its
callers; here one of them is still running when it stores); a round sweeps the sessions and is
counted when it ends without an exception; every `Every`-th one sweeps the cache, which may fail.

**BrowserPool** - one action per stretch between awaits of `start`, `_shutdown`, `_context`,
`_release`, `drop_context`; `holder` owns the lock of the condition, `starter` the start lock.
Contexts are named after the fetch that made them, so a released entry of a browser that has been
restarted is not confused with its successor. Beside the registered ones, `contexts`, the module
knows which are open: `closing` are those a task has taken out and closes, and `leaked`, a history
variable, those that stay open because a close, `new_context` or `route` failed or was cancelled
(`ContextFails`, `Dropped`, `CancelStart`). They end with the browser. Work on a page, closing it
included, is `Finish`. Only searches can be cancelled (`Cancellable`), because page loads are
shielded.

**PageLoader** - gets and load tasks. Reading the cache takes two steps (the worker thread reads,
the get resumes), ending takes two (the task ends, its callback unregisters it). A page is
identified by the URL it was loaded for. `fresh`, `had`, `old` are history variables. Its rows are
used as PageStore promises, which is what PageCache is shown to keep.

**GuardedLoad** - what one `_load` does on the network, which PageLoader takes as one step per
method. `Check` is the call of `check_url`: by name, from a kept verdict, or through a lookup that
suspends the load (`Lookup`, `Resolved`, `Unresolved`); what the load does next is its `goal`. Then
the turn of the domain (`Reserve`, `Pace`, `Wake`), robots.txt (`RobotsRead`, with the verdicts its
requests leave), and the methods of the load: requests with a check before every hop (`Redirected`),
the mapping of an answer to a page or an error (`Result`, `Challenge`, `Read`), and the browser
page, whose requests are inspected after navigation, after settling and after extraction while new
ones go on arriving (`BrowserRequests`, `Inspect`). A navigation that takes too long is given up
without an inspection (`BrowserFails`), any other failure is inspected first. Camoufox goes through
the same `BrowserPool.fetch`, so a plan has "browser" for it. A load may begin when an earlier one
has just taken the turn of its domain.

**SearchRouter** - searches over a sequence of backends with the breaker and the limiter; times
are the time left. Between two backends nothing is awaited, so `GoOn` goes from an answer straight
to the next sleep.

**Chunker** - `split`, one step per iteration of its loops: blocks are gathered, a block that does not
fit is packed by rows, code lines or sentences, and a piece that is too long is cut. A character is
its position in the page, so what is kept, repeated or dropped can be told; `dropped` is history.

**CallNormalize** - the whole of `normalize.py` as operators on abstract JSON values and texts:
aliases of tools and keys, arguments as strings, lists or JSON in a string, numbers, URLs, hosts,
and the table of decisions.

**AgentCalls** - SessionRefs with CallNormalize before it: what a session shows is what the agent calls
it with (`ShownNumbersOpen`).

`MC*.tla` supply the constants of the runs. Operators marked "Mutant" in the modules are faulty
variants of the operator that follows; each shows that a property notices the fault.

## 3. Runs

| Run | Shows | Bounds |
|---|---|---|
| `refs` | numbers and continuations under all sequences of calls of a session, and that they open however they are passed | capacity 2, numbers up to 5, 2 results, 1 link position, 2 parts |
| `refs_one_number` (violated) | a URL can have two live numbers | capacity 3 |
| `sessions` | locks and running calls agree; order, kept sessions, ending calls, expiry; the cache implements PageStore; sweeps are exact and remove what expired | 3 callers, 5 locks, one session, 2 pages redirecting to a common URL, limit 2, times of 1 and 2 ticks, a sweep every 2 rounds |
| `sessions_order` (violated) | two calls of one session run at once | 4 callers, 6 locks, two sessions |
| `pool` | counts, open contexts, liveness with failures, a crash and a restart | 4 fetches, 1 drop, 3 permits, 2 contexts, 1 restart |
| `pool_cancel` (violated) | a cancellation in `finally` strands a waiter | 3 fetches, 2 permits, 1 context, no crash |
| `pages` | sharing, cancellation, redirects, expiry, fallbacks | 3 gets, 2 URLs of one host, one with an adapter |
| `pages_blocked` (violated) | the browser is used for a host remembered as blocked | the same |
| `search` | spacing, ending, recovery | 2 callers, 2 backends, sleep up to 2, rest 3, threshold 2 |
| `loads` | verdicts, turns, inspected browser pages, content only | 2 loads, 3 URLs on 2 hosts, 1 redirect followed, verdicts kept for 2, interval 2, wait up to 3, 11 answers, perhaps an earlier turn |
| `chunks` | parts fit; text and links survive; where headings, fences and headers stay; the loops end | budget 8, gap 2; pages of up to 3 lines of 16 sorts and of 4 lines of 5 sorts |
| `chunks_lost` (violated) | a heading at the end of a page is lost | the same |

Why the bounds suffice. Capacity 2 makes every allocation beyond the second evict, in the middle of
responses, and leaves table states with reused, aliased and evicted numbers; `EvictCount` is 1 up to
capacity 10, and the proofs cover every capacity. `MaxRef` bounds the unbounded counter in the
guards of the steps that start numbering. Three callers on one lock give a holder, a waiter and a
caller that arrives during the sweep; with the cache composed in, a fourth only repeats these roles.
Two pages with a common final URL and a limit of 2 rows make one page overwrite a row of the other
and a sweep choose between rows of equal and of different ages; `MaxDelay` bounds how old a page is
when it is stored. In the pool four fetches on three permits queue for one; three sessions on two
contexts force waiting and eviction, two fetches of one session sharing; one crash with one restart
allowed reaches both the restart and the refused start. `MaxCrashes` bounds the crashes. Three gets
give a load, a get that shares it and a get of the redirect target. Two loads of one site compete
for its turn and its verdict: one goes at once and the other sleeps, or behind an earlier turn one
sleeps and the other is refused or sleeps longer, and one may change the verdict that the other is
about to use; URL 3 lies on a host refused by name, so a redirect and a browser request both lead to
a refusal. The 11 answers differ in everything a method judges by: status, HTML or file, size, marks
in title and text, length of the visible and of the extracted text. A browser page requests each URL
once at most, so its inspection ends. A budget of 8 with lines of up to 12 characters exercises
every splitter, both nested and beside blocks that fit: tables with a header wider than a part or
too wide only behind a heading, fences longer than the budget, links longer than a part, headings
before paragraphs, tables, fences and other headings. The clocks of `SessionService`, `PageCache`,
`PageLoader`, `GuardedLoad` and `SearchRouter` need no bound, as they keep the time that is left or
stop at the last age that matters.

Abstractions to know of. In `GuardedLoad` names may resolve differently each time; the lookups that
`_route` makes for a request of a browser page and the requests of robots.txt make are answered at
once, robots.txt once read is kept, and a raw download is judged by its status. In `Chunker` the
cost of a text is its length, as with `cost_fn = len`. The service passes another cost
(`service.py:251-257`): the `estimate` of the JSON text, escapes included, with every placeholder
widened to seven digits. It is not additive, so two texts joined may cost more or less than both,
and not monotone inside a placeholder, which costs more once it is whole. What is said of costs
(`ChunksFit`, `HeadersKept`, `HeadingsLead`) is said of a cost that adds up. In `PageCache` SQLite
is atomic under its lock, and ages beyond the first useless one are one age.

`DropsEnd` and `FetchesEnd` are about finitely many fetches: with fetches of one session
overlapping for ever, a waiter for its context has no such guarantee.

Fairness. The event loop resumes what is ready, and requests, navigation and searches end because
the code puts a timeout on them: weak fairness on those steps. Of the browser this is an assumption,
not a fact of the code: `page.evaluate`, `settle`, the reading of a response body, closing a page
and making or closing a context have no timeout (`fetch/browser.py:167-169, 276, 319-322, 349,
411`). `BrowserAnswers` states it for the pool, and `FetchesEnd` and `DropsEnd` hold under it; so
does `GetsEnd`, where a method of a load is taken to return. `asyncio.Lock` and `Semaphore` serve
waiters in order, so in the pool, where tasks compete for a lock that is taken and released again,
steps of a task are strongly fair. The splitter awaits nothing, so its steps follow each other. A
sweep of the cache ends, with or without an error. Time passes and the 60 s timer fires. Nothing has
to arrive, to be cancelled, to crash, to expire. The pool, the page loader, the loads and the
splitter end with all work done, so their runs do not check deadlock.

## 4. What the runs found

- `alias` takes the index entry of a URL that has a number; after the target's eviction the URL
  gets a second one (`refs.py:31`, against `docs/SPEC.md:121`).
- The sweep pops the lock of a session after awaiting another session's cleanup (`service.py:109`):
  calls of a session overlap, against `docs/IMPLEMENTATION.md:12`.
- A cancellation that reaches the `finally` block of `run` skips `_release` (`fetch/browser.py:278`):
  the context stays in use for ever.
- A load decides once whether to use the browser (`pages.py:129`) and may use it for a host that
  was blocked since, against `docs/SPEC.md:140`.
- No record is kept of the parts a session was served: `next` is the part after the one shown, served or
  not, and the last part has none (`service.py:288`), against `docs/SPEC.md:89` and `docs/DESIGN.md:439-444`.
  `NextContinues` says what holds.
- Only registered contexts count for `max_contexts`: one that a failing `route`, a cancellation or a failing
  close leaves open is closed only with the browser (`fetch/browser.py:163-175`), against
  `docs/DESIGN.md:522`. `OpenWithinLimit` says what holds.
- A load takes one turn of its domain and then makes several requests: robots.txt, redirects, the next
  method, the requests of a browser page (`guard.py:98`), against `docs/SPEC.md:161`. `TurnsSpaced` says what
  holds.
- Fences and table headers are given up for the rest of a row or line where they leave no room alone,
  with a heading or with a link (`chunk.py:131-135`); a header wider than a part is shown nowhere, against
  `docs/DESIGN.md:796-797`. `HeadersKept` says what holds.
- Of several headings only the last goes on to the next part, and a table or fence without a body is not
  cut to fit behind one (`chunk.py:260-270`), so a heading can end a part, against `docs/DESIGN.md:1208`.
  `HeadingsLead` says what holds.
- `split` holds a heading back for the block after it and gives it up when there is none
  (`chunk.py:310`): `"para\n\n# End"` becomes one part without the heading, against
  `docs/DESIGN.md:793`.

## 5. Proofs

Every invariant and every action property the passing runs check but `HeadersKept` is a theorem, for
all values of the constants. Assumptions are the named ASSUMEs of the modules: positive capacity,
finite or typed constants, and for the chunker the shape of a page.

`RefTableProofs`: the invariant `TableInv` adds to the checked properties that the live numbers are
an interval ending at `next - 1` and that every index entry is of a live number with the right
entry. The interval is what eviction needs: knowing only that at most `MaxEntries` numbers live
does not exclude that the wrong ones were dropped. From it follow, for every capacity and every
set of URLs, `TableIndexesLive`, `TablePartsFaithful`, `TableKeepsRecent`, `TableWithinCapacity`,
`TableNumbersKeepMeaning`.

`SessionRefsProofs`: the step of a call is a table operation or leaves the table alone, hence
`CallsImplementTable` (`Spec => TableSpec`, the refinement mapping is the identity on the table's
variables) and with it everything the table promises (`CallsKeepTablePromises`). The invariant of
calls gives `CallsTyped`, `CallsNumbersLeadToUrl`, `CallsAliasLive`; `CallsNextContinues` follows
from the last step of an open and the table staying put until the next. `CallsShownOpen` has two
halves. No number beyond `MaxRef` is issued or shown (`Issued`). And for every number `n` with `10 *
n < IdLimit`, whatever its spelling, key, list or JSON string, `Normalize` comes to an open of `n`:
the arguments are one key with one value (`GivenComesTo`), which `Pick` finds under any key
(`PickOnly`), the turns of `_value` end with it (`UnwrapEnds`), and its text reads as the number
(`WrittenReads`). The hypothesis is the seven digits of `ID_RE`, with one zero in front: from
10000000 on a number is not understood, and a session would have to issue that many.

`PageLoaderProofs`: the invariant says that a load that is not over is the one registered for its
URL and that a get waits only for a load of its own URL (`LoadsRegistered`), that rows and pages
belong to the URL they are found under or redirect to it (`PagesRight`), that a load that was over
when a get began stays over (`OldEnded`), and that a get which began with a fresh row has no load
(`FreshRead`). `OneLoadPerUrl`, `RightPage`, `FailureNotRemembered` and `NoNeedlessLoad` follow, for
any number of callers, redirects and methods.

`BrowsrServiceProofs`, the cache: from the types of the rows alone, every step of the service is to a
reader of the cache a `Store`, a `Forget` or a stutter: a page stored too old to be served is a
`Forget` of its keys, a second a `Forget` of those that expire in it, a sweep one of those beyond the
limit. `SweepsExact` needs that the rows stay finite (`RowsFinite`) and that their ranks in the order of
the sweep run from 0 up without a gap (`RankedCount`), so that exactly `MaxPages` stay whenever
there are more.

`BrowsrServiceProofs`, the sessions: `LocksRight` speaks of lock objects, not of sessions: a lock that is
held has one running call, those who wait for a lock are in its queue once, and a call has the lock it
looked up. That is all that holds in general, since after the pop of `_sweep_sessions` a session may
have two locks (section 4). `OrderKept` is what the code does promise: `InOrder` and `SessionKept` for any
callers and sessions, as long as the clean-up never goes on with a session that was called again while
it awaited (`CleanUpIdle`). The hypothesis is about exactly the step that `sessions_order` finds; without
it the theorem is false. Its invariant ties the calls of a session to one lock and the queue of that
lock to the order of arrival. `OneSessionKept`: with one session id the
sweep finds at most that one and pops its lock before it awaits anything, so the hypothesis holds and
with it both properties; this is the case the run `sessions` checks. `ServiceIsSessions` carries these results over to the service with its cache,
`ServiceTyped` adds the types of the counters.

`ChunkerProofs`. The invariant of `SplitFits` bounds the current chunk, the part being packed with its
fences or table header, and the parts of the block; the hard part is the cut of a long piece, which must
leave room for what it is wrapped in and for a heading that comes before. For `SplitKeepsLinks` it says
of every text that is shown that a link in it is whole or only its label (`Clean`), and of what is left
of a piece that it neither begins nor ends inside a link (`Unbroken`), but for the label of a link that
did not fit, which may come first (`Rests`); every cut keeps both. `SplitKeepsHeadings` has an invariant of its own,
`Ahead`: each chunk and the one behind it are as the property says (`Linked`), a heading that waits is alone in
the current chunk (`Waiting`), and of a block that is split behind it the first part fits unless nothing could
(`OfBlock`, `Unfilled`, `FirstLed`, `TooLong`); a second heading is split only if it does not fit behind the
first, and then into more than one part or one that does not fit there (`HeadingCut`), and one gathered
behind other blocks is whole (`LastWhole`). What these say of a page is taken from a table computed once from
it (`Facts`), so a step that leaves the page alone leaves them alone.

`SplitKeepsText`, also in `ChunkerProofs`, compares two recursive definitions: the text of the page, block
by block (`TextFrom`), and what has been told of it, `FlattenSeq` of the parts of chunks, of the parts in
hand and of what remains. That these definitions have a value which satisfies their equation is shown
first, from the smallest number of texts or of blocks for which it would fail (`SmallestNat`, `GrowsSomehow`,
`TextUnfolds`). From there on texts are only joined and regrouped: `Only(D, s)`, the characters of `s` that are
in `D`, of a joined text is that of its parts joined (`OnlyBoth`), and a block that is gathered whole
differs from its pieces by line feeds, which are not ink (`WholeShows`). Every step but two leaves what is told
as it is. Gathering keeps what is visible of it; keeping the label of a link leaves out its markup. What is visible changes with that step, and
so does what was visible before: `TextKept` alone is not inductive. The invariant
`Kept` states it for every subset `D` of the ink without the dropped markup, so that what holds of a set
holds of the smaller one left after the next drop. `Tidy` says when nothing is left of a piece or begun, and
`TooWide` that what is dropped belongs to a link at least as wide as the budget: a link is only reduced to
its label when neither frame nor heading takes room and it still does not fit (`LinkTooWide`).
`SplitDelivers` draws the conclusion for the end: nothing is in hand or remains, so the chunks show the
bodies of all blocks but for one heading at most, the one that `chunks_lost` finds. Both theorems are about
the bodies. Fences and table headers are not in `TextFrom`, since parts repeat them or leave them out: that a
header wider than a part is lost is the business of `HeadersKept`.

Of a page it is assumed that its lines follow each other, that a line that is
not blank has a character, that links lie inside their line and do not overlap, and that only prose can
begin with a link: `_PLACEHOLDER` matches within a line and without overlap, and a heading, a fence or a
table row begins with its mark (`chunk.py:13-16`).

`GuardedLoadProofs`: per load, where it is and by which method (`Placed`), what its browser page has
requested and what of it was found allowed (`Browsed`), and that a page is made only from content
(`Held`); per host, that the time a verdict is kept and the time since its question fit into
`DnsTTL` (`DnsOK`). For `TurnsSpaced`, an action property, `TurnsApart` ties the turns of the
sleepers, the time since the last turn was taken and the next slot to each other, all pairwise an
interval apart; a load leaves its sleep only when its time is up, and then no other load of the
domain has taken a turn for an interval. A load changes only its own entries, so the proof is by
helper (`End`, `Try`, `Check`, `Allowed`) and the actions only put them together.

`SearchRouterProofs`: for each backend the last request, the turns of the sleepers and the next
free slot are pairwise an interval apart (`Queue`); a cancelled search leaves a hole in that queue.
The breaker is asked before the sleep for a slot and not again after it (`router.py:69-73`), so a backend that
was put to rest meanwhile is asked all the same. `RouterRespectsRests` bounds this: a request reaches a backend
that rests only within `MaxWait` of the trip. Its invariant `SleptBefore` adds up what has passed of the rest
and what is left of the sleep; a search that begins or goes on turns to a backend that is available, and to
another one than the one whose answer put it to rest (`MoveKeepsFresh`). With `max_wait_s` at least the cooldown the
bound says nothing; with the defaults, 5 and 600 seconds, it leaves the last 595 seconds of a rest undisturbed.

`BrowserPoolProofs`: who makes a context holds the lock of the condition (`Locked`), a context
exists only when its maker has finished (`Made`), the session it is for has none (`FreshSession`)
and there is room (`Room`); with these `ActiveExact` and `OneContextPerSession` are inductive, for
any number of fetches, sessions and crashes. `PoolOpenLimited`: of every open context it is known
whose it is (`Accounted`) - registered, closed or made by who holds the lock, of a browser that is
being ended, or left by a failure - and who holds the lock makes or closes at most one, for which
there is room. The theorems are about `Spec`; with the late cancellation of `LateCancelSpec` the
counts do not hold, as `pool_cancel` shows.

Proved without a run that repeats them: `CallsTyped`, `TableIndexesLive`, `TablePartsFaithful`,
`TableWithinCapacity`, `CallsAliasLive`, `CallsImplementTable`, `CacheTyped`, `LocksRight`, `OrderKept` for
several sessions, `ServiceIsSessions`, `RestsRespected`, `AllButHeading`.

Only model-checked: `HeadersKept`, and all liveness (`CallsReturn`, `IdleSessionsExpire`, `ExpiredRemoved`, `FetchesEnd`, `DropsEnd`,
`GetsEnd`, `SearchesEnd`, `SplitEnds`: fairness and ENABLED are beyond the prover). The five runs that expect a
violation are counterexamples and need no theorem.

## 6. Not modelled, and what is next

Not modelled: the proxy (relaying bytes is I/O; how `close` and open connections end depends on
`asyncio.Server.wait_closed`, which differs between the supported Python versions; its test of a
target is `host_allowed`, modelled in GuardedLoad); URL normalisation, which enters as the map `KeyOf`;
rendering and extraction (layout and text conversion by libraries); the vendored Readability script;
configuration, the call log and the interfaces, which only call `Browsr.call`; the offline evaluation
program, which drives the tools with a language model; `split_cached` of the chunker; `close` of
service, loader, router and pool.

Next, in this order:

1. Shutdown: `close` of service, loader, router and pool against running calls.
2. A second browser object in BrowserPool, so that a disconnected event of the old browser can arrive
   late (`fetch/browser.py:95`).
3. A proof of `HeadersKept`, along the lines of `HeadingsLead`.

