# A TLA+ model of rreading-glasses

rreading-glasses is a metadata server for books. It answers requests for works,
books (editions), authors and series from a cache, fetches what is missing from
an upstream (Goodreads or Hardcover), and assembles the big objects, an author
with all works and a work with its editions, in the background. This directory
holds TLA+ modules of the whole of its logic, from the cache to the requests,
the TLC configurations that check them on small instances, and theorems about
them that TLAPS checks. Paths below are relative to `src/`.

## 1. Inventory of the system

| Part | State it keeps | Operations | Interacts with | Hard behaviour |
|---|---|---|---|---|
| Edge buffer: `accumulate`, `edgebuf`, `slicebuffer` (`internal/buffer.go`) | queue of edge pointers, two indexes by parent, a child counter | push (merging), peek, pop; one goroutine selecting between producer and consumer | every producer of edges; the denormalization loop | interleaving of push with peek/select/pop, aliasing of queue and indexes, order of `refreshDone` |
| Author refresh (`internal/controller.go`: `GetAuthor`, `getAuthor`, `refreshAuthor`, `Run`) | cached author, refresh mark, singleflight, refresh queue, worker pool, gauge | get, mark, hand over, collect works, send edges, unmark | cache, persister, getter, edge buffer, HTTP handler | crash between steps, panics, a loop that calls back into the pipeline feeding it, stale bases |
| Persister (`internal/persist.go`) | marks in Postgres | Persist, Persisted, Delete | recovery in `Run` | restart in the middle of a refresh |
| Denormalization loop (`denormalizeWorks`, `denormalizeEditions`) | none of its own: read, merge, ETag, save | one edge at a time | cache, getter, GetAuthor | read-modify-write against a base that is not the current value |
| Works and books (`getWork`, `getBook`, `getSeries`, `saveEditions`) | cached entries, `workG` pool | get, save, send edges | getter, denormalization loop | three writers of one cache key, goroutines nobody waits for, 404s cached under the keys of data |
| Content of authors and works (`denormalizeWorks`, `denormalizeEditions`) | sorted lists of children and series, titles | look up, replace or insert, derive, compare ETags | cache, getter | binary searches that rely on an order earlier merges left, IDs that change upstream, goroutines in any order |
| Batching GraphQL client (`internal/graphql.go`) | queue of batches, response channels, batch size | enqueue, flush, answer, reconfigure | getters, HTTP handler | lost or double answers, partial failure of a batch |
| Layered cache (`internal/cache.go`, `memory.go`, `postgres.go`) | one entry per layer | Get with percolation, Set, Expire, Delete | everything; the buster | non-atomic sequences over two layers |
| Cloudflare buster (`internal/cloudflare.go`) | set of URLs | Add, flush, re-add on error | cache | lock held over a pipe, retries |
| Query builder (`queryBuilder` in `internal/graphql.go`) | the merged operation of a batch | add | batching client | names of different documents in one operation |
| Getters (`internal/gr.go`, `internal/hardcover.go`) | none | GetWork, GetBook, GetAuthor, GetAuthorBooks, GetSeries, Search, Recommendations | cache, batching client, saveEditions | answers made of pages and books any of which fails, their own reads and writes of the cache |
| Search, lookups, recommendations, batches (`Search`, `SearchBatch`, `GetAuthorBatch`, `Recommendations`, `bulkBook`) | ASIN and ISBN entries | fan out, collect, answer | getters, cache | results collected in the order of goroutines |
| HTTP handler (`internal/handler.go`) | none | GETs, bulk, DELETE, reconfigure | controller, batching client | DELETE racing a refresh |
| Transports, metrics, logging, commands, generated code | a rate limiter, gauges | I/O | | |

What makes each part correct:

- **Edge buffer.** No relationship is lost or invented, all children known for a
  parent travel together, a `refreshDone` never overtakes what was sent before
  it, the queue and both indexes agree, the counter counts, nothing starves.
- **Author refresh.** A mark is always followed by its removal, across crashes;
  no flight that sees it fetches the author; the gauge counts what it says; the works
  of a refresh are merged before its mark goes; the loop never waits for itself; a
  refresh leaves the works it found.
- **Batching client.** Every caller is answered once, with its own answer, in
  the order of arrival, in batches of bounded size, also when part of a batch
  or all of it fails.
- **Layered cache.** What was deleted or replaced does not come back; whatever
  changed is purged from the CDN.
- **Cloudflare buster.** No URL is dropped before it was purged; the lock that cache
  writes need comes back.
- **Works and books.** An edition or a work that was fetched ends up with its
  parent; the bytes of a 404 are never served as an edition.
- **Content.** Lists stay sorted whatever was merged, titles that are shared are
  told apart, and merging what is there changes nothing.
- **Getters.** Every book and position once across pages, and an author's record
  that is the author's.
- **Requests.** What could be fetched is answered, whichever goroutine ends first,
  and only what is there already is left out.

## 2. Modules

| Module | What it is |
|---|---|
| `PendingEdges` | what the buffer promises: pending children per parent, fences for `refreshDone` |
| `EdgeLists` | what `push` makes of a list of edges |
| `EdgeQueue` | the buffer as the controller may take it: a queue that takes and gives in one step |
| `EdgeBuffer` | `accumulate` and `edgebuf` as written, with the loop at the receiving end; implements `EdgeQueue` and `PendingEdges` |
| `AuthorRefresh` | author cache entry and mark, singleflight, forwarder, workers, denormalization loop, recovery, callers, crashes |
| `QueryBuilder` | the merging of the documents of a batch into one operation |
| `QueryBatch` | the batching GraphQL client; extends `QueryBuilder` |
| `PurgeQueue` | what the Cloudflare buster promises: a URL that is due is purged, or due again |
| `CloudflareBuster` | `cloudflareBuster` as written, with its lock, pipe and request goroutines; implements `PurgeQueue` |
| `LayeredCache` | memory, Postgres and Cloudflare as layers of one cache; composed with `PurgeQueue` |
| `Catalog` | one work and its editions: flights, GetWork and GetBook of either getter, background goroutines, the loop |
| `Denormalization` | what merges make of an author or a work: children, series, titles |
| `Getters` | GetSeries, GetAuthorBooks and GetAuthor of either getter |
| `Requests` | the requests that fan out: search, batches, bulk, recommendations, saveEditions |
| `Service` | `Denormalization`, `Getters` and `Requests` side by side |
| `MCEdgeBuffer`, `MCAuthorRefresh`, `MCQueryBatch`, `MCCloudflareBuster`, `MCLayeredCache`, `MCCatalog`, `MCService` | instances for TLC |
| `EdgeBuffer_proofs`, `AuthorRefresh_proofs`, `QueryBatch_proofs`, `LayeredCache_proofs`, `CloudflareBuster_proofs`, `Catalog_proofs`, `Denormalization_proofs`, `Service_proofs` | theorems and proofs, see section 5 |

Who reads or writes what another module has: `AuthorRefresh`'s queue of edges takes and
gives in one step, with the same `Accepted` as `EdgeQueue`, which `EdgeBuffer`
implements: the buffer's inner races are not run through the refresh again. `Catalog` has a set of pending editions instead, since it has one
work. Both use a plain cache, whose inner races are `LayeredCache`'s; both abstract what a merge computes to sets, and `Denormalization`
computes it; `Catalog` leaves to `Requests` which codes `saveEditions` stores.

Definitions named `Bad...` are deliberately wrong versions of the definition
that follows them. No specification uses them; substituting one shows that the
property it is paired with in `PROJECT.json` can fail.

### EdgeLists, EdgeQueue, PendingEdges and EdgeBuffer

`heap` maps a pointer to its edge and `queue`, `authors`, `works` hold pointers,
because the code shares one `*edge` between the queue and an index and merges
through it. `accumulate` is four program points: `peek` the oldest edge by
value, `select` between receiving and sending, then `push` or `pop`. Receiving
and pushing are separate steps, as are sending and popping: the producer or the
loop is free as soon as the channel operation is over. `edgebuf`'s lock is not a
variable, since only `accumulate`'s goroutine calls it, apart from `len`, which
reads one counter.

The refinements map the buffer as follows. `contents` is the
queue without an edge that was sent but is not popped yet, and with an edge that
was received but is not pushed yet: it is the queue of `EdgeQueue`. For the promise, `pending` is its children by kind and
parent, `fences` its `refreshDone` marks, each with the keys queued before it.
The mapping is made of operators on a plain sequence of edges (`Accepted`,
`PendingOf`, `FencesOf`), which is what its proof speaks of.
Closing the producer, which only tests do, drops what is buffered, and the
promise says so. The set of pointers bounds the buffer (a guard on `Receive`);
the code has no bound.

### AuthorRefresh

One action per step another goroutine can interleave with. A flight of
`getAuthor` reads the mark, reads the author, fetches, saves, persists the mark
and hands the refresh over, one step each; the forwarder, each worker slot, the
loop and recovery likewise. `caller[a]` is a caller in the middle of several
calls: `getBook` after an unexpected 404 (Expire, Delete the mark, get again) or
a DELETE request (Expire author, Expire mark, get, delete on 404). `Crash` loses
everything but the cache, at any point.

Of an author's bytes the set of its works is kept, which is what the refresh is
about, or `Missing` for a cached 404. `fresh` is a positive TTL; the mark is
read whatever its TTL, as in the code. `raExpired` is the fixed expiry a DELETE
gives a mark, which matters to recovery only. The cache is one durable map per
key: Postgres keeps entries past their TTL and memory is filled from it. A read of it
may miss what is there, since Postgres may fail and the caller's context may be
cancelled (`MissMark`, `MissAuthor`); a write that fails is not modelled here. The
buffers of both channels are queues, `refreshQ` plain, `denormQ` with `edgebuf`'s
merge (`Accepted` of `EdgeLists`), as in `EdgeQueue`; `KeepsOrder` says that this is what
the buffer implements. What upstream answers, which works can be
fetched, and whether a work changed under the same ID are nondeterministic.

`MaxEvents` bounds what comes from outside (expiries, DELETEs, forced refreshes,
edges of others, panics, failed reads and deletes, crashes), `MaxEdges` the queue length
up to which others send edges. Plain requests are not bounded. `abandoned`,
`panics`, `ensured`, `overlooked` and `owed` are history variables.

Left out: `nopersist`, which the tests use instead of Postgres; the authors
`unknownAuthor` rules out; `refreshAuthor`'s limit of books (it only makes fewer
works be found).

### QueryBatch

A query is one call of `MakeRequest`. `queue` holds the subscribers of each
batch and `builders` its `queryBuilder`, which `enqueue` adds to; a flushed batch
becomes a goroutine in `requests` which waits for the response and then answers one subscriber per step. `respC` are the channels of
capacity one, whose sends wait for room. Aliases are taken to be distinct (they are
eight random letters) and queries to parse (they are generated). `failed` is a history
variable: the queries that got no data because the request was refused as a whole.

`QueryBuilder` says what a builder makes of the queries it is given: a document has a
field, variables with values, and fragments, and `add` renames, moves or shares them.
`EachItsOwn` evaluates each selection of the merged operation as upstream would, and
compares it with the query alone. Formatting and parsing are left out, and so is the
error of a document that does not parse.

### PurgeQueue and CloudflareBuster

`queue` is the buster's set of URLs, `mu` the request for which `flush` holds the
lock (`Add` and `onError` take and release it in one step). `flush` takes at most
`MaxFiles` URLs and starts a goroutine; the two meet at the pipe. `Flushed` is
`Encode` returning, which it does when the body was read (`sent`), or when the
reader is closed (`failed` and later: the transport closes a request's body
whatever happens to it). A request that cannot be built (`unbuilt`) has no
transport to do that, and its own `r.Close` is deferred until after `onError`.
`endpoint` says whether the URL with the configured zone parses. The refinement
maps `queue` to `due` and each request's URLs to `purging`.

### LayeredCache

A call of the cache is a record in `op`: its kind, its key, the layer it is about
to visit. Each visit is a step, in the order of `wrapped`, or backwards for
Delete; `NewCache` appends the Cloudflare layer twice, hence `"cloudflare
again"`. `GetWithTTL` of memory is two lookups, so it is two steps. A row found in
Postgres is carried to the percolation (`"fill"`), and other calls run in between.
Postgres can fail at each visit; Set logs it, Expire and Delete drop it when a
later layer succeeds, a Get takes it for a miss.

Of values only the version is kept, that is which Set they are from, and of a TTL
whether it is positive and, if not, whether Expire or time took it. Memory can drop an
entry at any time (`Evict`), which also covers TTLs that run out there and sets
that ristretto rejects. `due` and `purging` are `PurgeQueue`'s. `torn`, `gone`,
`carried`, `dirty`, `since` and each call's `alone` are history: the code has no
notion of which of its layers may disagree, and the properties need one.

Left out: compression, connection pooling and the metrics; Sets that are refused
because they are empty or have no TTL.

### Catalog

One work, its editions, and the cache entries of all of them. `caller[k]` is the
flight of a key in the singleflight group, from the first read of the cache through
the getter to the last write; `caller[Loop]` is the denormalization loop's call of
the getter. Every read and every write of the cache and every answer of upstream
is a step: in between, the other flight, the loop and the goroutines nobody waits
for (`attach` of `getBook`, `refresh` and `workQ` of `getWork`, `save` of
`saveEditions`) run. `getter` says which of the two getters the process was built
with; they differ in where the best edition comes from, in who seeds `WorkKey`, and
in which editions are saved when.

Content is the set of a work's editions; `Missing` are the bytes of a 404, and
`NoEntry` none. `resp` is the last answer of each key's flight. The cache starts as
an earlier process left it. Two bounds are named at their actions: one goroutine of
`saveEditions` and one of each edition's `getBook` at a time.

### Denormalization, Getters, Requests and Service

These three parts share nothing with each other but the cache, whose races the other
modules have. `Service` therefore puts them side by side: a behaviour is one of one
part, and the other parts' state is `Unused`. This is not a composition in which
they interact; it is one instance for three components that do not.

`Denormalization` is one parent and the merges of edges into it, one after the other
as the loop runs them. A child is its ID, its title and its series; `got` is what
upstream returns for a requested ID, which need not have that ID any more, since works
are merged upstream. A merge probes for each child with `Place` and `Found` (a binary
search on a sorted list), replaces or inserts, and then, for an author, derives titles
and series. The goroutines that fetch the series end in any order, and each series is
cached or not. `settled` is history: which children the last merge took over.

`Getters` takes what upstream has, cut into pages, as given at the start, and lets
every page and every book fail. `bestAuthor`, `bestHardcoverEdition` and the primary
contributor decide whose a book of the list is. The record a book is loaded with may be
by another of the `Authors`: `GetBook` answers with what is fresh in the cache, whoever
upstream lists by now. `loaded` is history.

`Requests` is one request with its items, the goroutines of which end in any order,
and the codes (ASIN, ISBN) that outlive it. `Recommendations` waits for none of its
goroutines and reads the slice they append to without their lock (`TornAnswer`).

Left out: ratings, which are sums; covers, links, descriptions and the other fields
that are copied.

## 3. Runs

| Run | Instance | Shows |
|---|---|---|
| `MCEdgeBuffer.cfg` | 1 parent ID of both kinds, 2 children, 3 pointers | `TypeOK`, `BufferOK`, `SizeOK`; `KeepsOrder` and `KeepsPromise`: the buffer implements `EdgeQueue` and `PendingEdges`; `EventuallyHandled` |
| `MCAuthorRefresh.cfg` | 1 author, 1 work, 1 slot, 3 events | `TypeOK`, `MarkIsHandled`, `RefreshWaitingOK`, `MarkedIsNotFetched`, `WorksBeforeDone`, `RefreshEnds`, `LoopReturns`; no deadlock |
| `MCAuthorRefreshOverwritten.cfg` | 1 author, 2 works, 2 events | violates `RefreshLeavesWorks` (4.1) |
| `MCAuthorRefreshCollision.cfg` | 2 authors, 3 events | violates `ResumesAll` (4.2) |
| `MCQueryBatch.cfg` | 3 queries, batch sizes 1 and 2 | `TypeOK`, `OnePlace`, `AnsweredOnce`, `BatchesOK`, `EachItsOwn`, `EventuallyAnswered` |
| `MCQueryBatchFailure.cfg` | 3 queries | violates `FailureReachesAll` (4.3) |
| `MCLayeredCache.cfg` | 2 clients, 1 key, 2 Sets, 2 purges, symmetric | `TypeOK`, `Coherent`, `DeletedStaysGone`, `PurgeFollowsWrite`; no deadlock |
| `MCCloudflareBuster.cfg` | 3 URLs, 2 to a request, 2 requests | `TypeOK`, `LockIsReleased`; `KeepsPromise`: the buster implements `PurgeQueue` |
| `MCCatalog.cfg` | 1 work, 2 editions, either getter, 2 requests or lapses | `TypeOK`, `BookServedIsBook`, `PendingIsFetched` |
| `MCCatalogKept.cfg` | the same, 1 request or lapse | violates `EditionsKept` (4.4) |
| `MCService.cfg` | content: 3 children, 2 titles, 2 series, 1 change; getters: answers of up to 5 in pages of 2, 2 pages, 4 books; requests: up to 3 of 6 items | `TypeOK`, `ShelfSorted`, `TitlesTold`, `MergeIsStable`, `SeriesPositions`, `AuthorBooksComplete`, `AuthorAnswer`, `SearchDeduped`, `BatchComplete` |
| `MCServiceRecommended.cfg` | the same, no change upstream | violates `RecommendsAll` (4.5) |

Why the bounds are enough. *Edge buffer:* three pointers hold an edge being
sent, a `refreshDone` behind it and an edge that must merge across it; one
parent ID, which is an author's and a work's, tells the indexes apart; two children tell a
union from a replacement. That all three invariants and both refinements hold for any number
of each is proved.
*Author refresh:* authors meet only in the queues, in the pool and in recovery,
so one author has all races of one author; with one slot the forwarder, the pool and the
loop stand in each other's way the most, which is what `LoopReturns` and `RefreshEnds`
are about. That all five invariants hold for any number of slots, with several
refreshes of one author at once, is proved (section 5). Three events allow, say, a
DELETE, a panic and a crash in one behaviour; one work is enough for properties that do not
speak of content, and the runs that do have two. *Batches:*
three queries fill one batch of two and start the next, or leave a batch with room
in front of another when the size changes; all invariants are proved for any number of
queries. *Cache:* keys meet only in the purge
queue, where a URL they share would be one key's; two clients run every pair of
calls through each other, a third has room in the proofs (all of the invariants are
proved for any number of clients and keys); two Sets and
what Postgres starts with tell an old value from a new one from a newer. *Buster:*
with three URLs a flush leaves one behind, and the next request overlaps the
first (any number of either: section 5). *Catalog:* two editions are the best one and another, which is all the code
tells apart; one request starts every kind of goroutine there is (the flight of the
work, of an edition, `saveEditions`, the edges and the loop's calls), the second
request or lapse lets a flight meet what the first one left. *Content:* with three
children a list has a first, a middle and a last place, and a merge of two that leaves
the third; two titles and two series tell equal from different and first from second;
one change upstream lies between any two merges, of which there can be any number.
*Getters:* five entries in pages of two are two full pages and one that is cut by
the limit of pages; both limits and the boundary inside a group of equal positions
occur. With two pages a list of Hardcover's that is not empty always ends at the limit
or at its count; that longer ones are complete is proved for any limit. *Requests:* three items of six are enough for two that collide and one that does
not, in all orders.

Deadlock checking is off for the edge buffer (it stops when its producer is
closed), the batches (all calls have returned), the catalog (requests are bounded),
the service (calls and requests return) and the buster: a request that cannot be
built, because the zone ID makes its URL invalid, calls `onError`, which waits for
the lock that `flush` holds while it waits for somebody to read the pipe
(`UnbuiltStopsAll` proves it: nothing is queued or purged from then on).
`LockIsReleased` therefore assumes an `endpoint` that parses.

Fairness. Goroutines that can run do (weak fairness per goroutine). The sending
side of `accumulate`'s select has strong fairness: Go picks among ready cases at
random, and the send is ready each time the loop comes back, though not
continuously. The loop's bodies and batches of queries end because they run under
timeouts (`internal/controller.go:912`, `internal/graphql.go:122`). rggr's REST client has
none (`internal/controller.go:142`): that its requests are answered is an assumption, and
without it a refresh worker or a flight hangs with them. Nothing obliges the outside to
send, request, expire or crash, or Cloudflare to accept a purge. `onError` has strong fairness, because
a Go mutex starves nobody who waits for it while others take it in turns.

## 4. What the code does that its comments do not say

1. *A refresh can lose works it added* (`internal/controller.go:1060`).
   "denormalizeWorks ensures that the given works exist on the author", but while
   the author is marked, `GetAuthor` returns its state of before the refresh. Two
   edges handled between mark and `refreshDone` both start from that state, and
   the second `Set` drops what the first added.
2. *Recovery passes marks over* (`internal/persist.go:88`). "Persisted returns all
   in-flight author refreshes", in a map keyed by expiry; marks DELETEd during
   their refresh all expire at the same fixed instant.
3. *A refused batch looks like success* (`internal/graphql.go:130`). "For
   everything else return the status code to all our subscribers": a response
   whose errors carry no query's path takes the other branch, and its queries
   are answered without data and without an error.
4. *A flight drops an edition that was merged while it ran*
   (`internal/controller.go:610`). "Ensure we keep whatever editions we already had
   cached". With rggr's getter, for one, `GetBook` of the best edition writes the work
   and lets the other editions be saved, whose edge the loop merges into the work;
   the flight that made the call then sets the work as the getter returned it, with
   one edition, and keeps only what it had read before.
5. *Recommendations answers too early* (`internal/controller.go:381`). "Try to fetch
   everything and return only the stuff that won't 404": nobody waits for the
   goroutines that fetch, or takes their lock to read what they collect.

Seen while modelling, part of the models or named there, with no run of their own:

- A refresh that finds nothing new leaves the author truncated: the ETag is compared
  with the state of before the refresh, which `getAuthor` has already replaced in the
  cache (`internal/controller.go:1206`).
- An expired 404 of an author is "last known" bytes too (`internal/controller.go:796`,
  `Save`): when upstream has the author again, the sentinel becomes the mark and is
  returned as the author. While the mark stands everybody else gets a 404, and so does the
  loop, which drops the works of that refresh.
- Hardcover's `GetAuthor` checks the contributions upstream lists, and then answers with
  the first author of the record `GetBook` returns (`internal/hardcover.go:538`), which may
  have been cached for weeks and name somebody else; it is not compared with the ID asked
  for, and the controller caches it under that ID (`HCAuthorBook`). Goodreads' getter
  compares, which is what `AuthorAnswer` says and why it speaks of Goodreads only.
- An expired 404 of a work is "last known" bytes, and is answered as a work
  (`internal/controller.go:649`, `FinishWork`'s `outcome`).
- The getters' early returns serve whatever is fresh in the cache, and `gr.go:253`
  writes the work although `getter`'s comment asks getters not to write what they read
  from (`internal/controller.go:97`, `SeedWork`).
- Hardcover's `saveEditions` sends its edge before `getWork` has cached the work, so
  the loop fetches the work itself (`PendingIsFetched` says so of rggr only).
- `hardcover.go:427` looks at the cover where the audio edition is meant
  (`HasEdition`).
- The loop's own merge of a work starts from `getter.GetWork`, which after the work's TTL
  ran out returns it with one edition, so its `Set` drops the editions the lapsed entry had
  (`internal/controller.go:967`, `SaveWork`).
- A series whose fetch fails is dropped from the author until the next merge
  (`SeriesDone`); 404s of series are not cached.
- A title once shown in full, and the place of a work that was merged away upstream,
  stay (`Disambiguate`, `Take`).
- `GetAuthorBooks` of both getters ends on an error as if that were the end (`BooksFail`),
  and `refreshAuthor` cannot tell. Goodreads' `GetAuthor` makes a 404, which is then
  cached, of failures of all books; Hardcover's ends with the first book that fails
  (`GRAuthorBook`, `HCAuthorBook`).
- `bulkBook` drops the series of an author's second work, Hardcover's search loses the
  rank of its hits, and `saveEditions` stores codes of editions it then skips
  (`Bulk`, `ItemDone`).

## 5. What is proved

For every value of the constants that meets the modules' assumptions (a nil
that is no pointer or edge, finitely many children and slots, a sentinel that is no set
of works, ...), TLAPS checks each theorem below. Each rests on an inductive invariant
that is stronger than what it says; every one was checked by TLC before it was proved.

- **EdgeBuffer_proofs**: `TypeCorrect`, `BufferCorrect`, `SizeCounts`,
  `ImplementsEdgeQueue`, `ImplementsPendingEdges`. The inductive invariant of the first two is
  `TypeOK /\ QueueOK /\ IndexOK /\ PeekedOK`. None is inductive alone: `pop` keeps the
  indexes right only because the pointer it drops occurs once in the queue; a push at a
  fresh pointer keeps the queue duplicate-free only because live pointers are exactly the
  queued ones; and `Pop` is never at an empty queue only because of `PeekedOK`.
  `SizeCounts` says of `size` that the running totals over the queue end there. Each
  step gives the totals of the next queue: a merge raises those from its edge on, a push
  adds one, a pop takes the first away from all.
  The two refinements, `Spec => KeepsOrder` and `Spec => KeepsPromise`, share what each step
  makes of `contents` (`StillContents`, `ReceiveContents`, `SendContents`): a push changes
  nothing of it because the edge was accepted when it was received, a pop because it had left
  when it was sent. That is all `EdgeQueue` speaks of. For `PendingEdges`, lemmas say what
  `PendingOf` and `FencesOf` make of a queue that got an edge or a mark, or lost its
  oldest (`TakeEdge`, `TakeMark`, `GiveEdge`, `GiveMark`). Both need `BufferCorrect` (edges of
  one key are one edge, and the index finds it) and that marks have no children.
- **AuthorRefresh_proofs**: `TypeCorrect`, `MarkedNotFetched`, `MarksHandled`,
  `WorksComeFirst`, `GaugeCounts`.
  `TypeInv` strengthens `TypeOK` by what the pipeline's records hold at each
  stage: a fresh entry has bytes, so a flight returns and persists some, so
  the loop merges into some; a busy worker has an author; a queued `refreshDone`
  is exactly `RefreshDone` of its parent. With it `MarkedIsNotFetched` is
  inductive (a flight passes the mark only when there is none or its read misses it,
  which `overlooked` records, and only the one flight of an author sets it), and so is `MarkIsHandled`: each step that
  takes a refresh out of one place of the pipeline puts it in the next, or
  records that it was abandoned, and removing a mark by its `refreshDone`
  touches no other author's. `RefreshWaitingOK` counts: a refresh is with the
  forwarder, in a busy slot, a `refreshDone` in the queue or one the loop handles,
  `edgebuf` merges no two `refreshDone`s, and receiving one shifts the others without
  losing any (a bijection), so each step moves one refresh from one count to the next.
  `WorksBeforeDone` is inductive with `TypeInv`: sending works leaves their worker about to
  send the mark behind them, which merges with nothing, so it ends up behind every edge
  of its author; what others send is merged where it is and moves nothing; and the loop
  takes the first edge only, which is in front of the mark.
- **QueryBatch_proofs**: `TypeCorrect`, `HasOnePlace`, `AnsweredAtMostOnce`,
  `BoundedInOrder`, `AskedForItsOwn`. One invariant for all: where a query can be (`PlacesOK`),
  that batches and requests share no subscriber, that the errors still to be answered are of
  subscribers that are left (`ErrorsOK`), and that `joined` has every call that was made
  once. A query is not answered by its own error and again with the batch because
  answering takes it off the subscribers; order survives a change of the batch size
  because a new query joins the youngest batch or starts one. And a builder holds what
  each query of its batch asks for (`BuildersOK`): a query is added once, to the builder
  of the batch it joins, and its variables are under its alias, which no other query's
  are, so adding it changes none of theirs (`AddFacts`).
- **CloudflareBuster_proofs**: `TypeCorrect`, `ImplementsPurgeQueue`, `UnbuiltStopsAll`. The
  second is the refinement `Spec => KeepsPromise`. `PurgeQueue` takes a request to be one
  that has URLs, so it needs that a goroutine has URLs exactly while it runs (`RequestsOK`): what
  flush takes is not empty, because the queue is a finite set that was counted. The last is
  what `LockIsReleased` has to assume away: a request that could not be built has `flush`
  waiting with the lock (`OneWriter`), and every step that could end that takes the lock.
- **LayeredCache_proofs**: `TypeCorrect`, `PurgesFollow`, `DeletionsHold`, `LayersCohere`.
  `TypeInv` adds where a call of each kind can be and what it carries there.
  `PurgeInv` strengthens `PurgeFollowsWrite` by the requests under way: what changed
  since a request began must be covered by something other than that request,
  or its success would forget the change. `DeleteInv` follows a version through
  its life: a Set brings one that no row and no other Set has and that was
  never deleted, so a row never holds a deleted version, so a Get finds none
  there, and what percolates one had read it before. Without the clause on Sets
  `MemoryInv` is not inductive: a Set about to visit memory could bring a deleted
  version back. `LayersInv` says of every key that is not torn: a call that is alone is the
  only one (`AloneOK`), a writer is alone (`WritersOK`), the layers agree unless a
  writer is between them (`AgreeOK`), what a Get has read would agree too if it
  percolated now (`FillsOK`); and, torn or not, what a lone Set or Expire leaves in
  memory before it visits Postgres (`HalfOK`), which is why it mends the key.
- **Catalog_proofs**: `TypeCorrect`, `BooksAreBooks`, `EdgesAreCached`.
  Bytes are replaced by bytes only, so what was cached stays cached; the invariant says of
  every place an edition waits in on its way to the loop that it is cached
  (`EditionsCached`), and that nothing is on its way to a work that is not
  (`NothingUntilWork`). A flight of an edition that got past its first read found no fresh
  404 and nobody else writes one before it ends (`FlightsOK`).
- **Denormalization_proofs**: `TypeCorrect`, `Sorted`, `Told`, `Stable`. The type invariant
  needs that a merge starts finitely many goroutines, one for each child it is given or has
  fetched. The lists a merge starts from come
  from the cache, so a list that is not sorted once is never sorted again, and a binary
  search in it finds nothing. The least number of a set gives the place a search finds in
  an ascending list (`PlaceFacts`); inserting there what is not there, or replacing what
  is, keeps the IDs ascending (`InsertAscends`, `TakeAscends`) because the place is
  looked for by the ID of what was returned, not of what was asked for; and titles
  move nothing. `Stable` is the action property `MergeIsStable`: until titles are
  derived a merge of settled children differs from the parent only in the full titles of
  those it has taken (`AgainInv`); deriving gives back exactly these, because what the last
  merge took is in full only as needed (`SettledInv`), what it did not take has kept
  its title (`TitlesInv`), and what is needed depends on nothing that changed. Two
  ascending lists with the same series are the same list (`SameElements`).
- **Service_proofs**: `TypeCorrect`, `ShelvesSorted`, `TitlesAreTold`, `MergesAreStable`, the same for the
  service whose run checks it. Its steps are those of Denormalization or leave a parent
  alone, and the lemmas before them carry each operator and each action from one
  instance of the module to the other. `AuthorsAnswered`, which speaks of Goodreads'
  getter only (section 4): while GetAuthor runs, none of the records that were loaded is by the author. `TypeCorrect` is not inductive as it stands,
  for two bounds: the page a getter is at, which rests on each full page before it having
  passed something of a finite answer (`PageOK`, `FullPages`), and the results of a request, which
  with the goroutines that run are never more than its items (`RoomForRest`).

  Four more say what folds gather from lists of any length. A fold is a function on the
  sets of places of its list, which recurs to the set without its greatest place; what
  holds of it for the first n places is shown place by place with `UpTo`, by the set of
  places where it fails having no least. `SearchesDeduped` and `BatchesComplete` rest on
  `RequestInv`: what has been gathered is one result of every item that has ended, and
  only of those; an answer is then any order of it, and what `Dedupe` and `FirstOfAuthor`
  leave out of an order is there already. `SeriesNumbered` rests on `SeriesInv`: the
  pages so far cover the list up to `Passed(page)` with no gap, Goodreads' works are
  numbered through to there, and Hardcover's are what `Taken` says of that much of the
  list, whose last position is the last one seen; in a sorted list a position that differs
  from the last was never seen before (`SortedFacts`). `AuthorBooksYielded` rests on
  `BooksInv`: what was yielded is what `Kept` keeps of the pages turned, and keeping can
  be done page by page (`KeptSplit`).

Only model-checked:

- liveness, under fairness: `EventuallyHandled`, `RefreshEnds`, `LoopReturns`,
  `EventuallyAnswered`, `LockIsReleased`;
- the properties a run shows violated (section 4), of course.

`SelectSeq` and TLC's `Permutations` are definitions tlapm does not expand: `Getters` keeps
books with a fold, and `Requests` orders results with `Bijection`. `SUBSET` and `UNION` are
followed by parentheses wherever a binary operator comes after their operand: SANY and
tlapm do not bind the two alike.

That layers do come apart is part of the model: `Coherent` speaks of a key only
while no writer of it has overlapped another call since the last writer that ran
alone. A Get that has read a row before an Expire gets to it percolates after
Expire has visited memory, and the entry stays fresh there until it is evicted;
`DeletedStaysGone` has the like as its exception, and the comment on Delete
(`internal/cache.go:85`) says that "really we should probably just lock".

## 6. Plan

Done: all parts of the program's own logic, see the table of modules, and proofs of every
invariant and action property a run checks and of every refinement. What the runs check
and nothing proves is liveness, which is out of the prover's reach. A change of the code begins with the
definitions that `PROJECT.json` maps to the changed lines; the run of the component, then
its proofs, say what the change breaks.

## 7. Not modelled

- *Generated clients* (`gr/generated.go`, `hardcover/generated.go`; 8,940 of the 15,754
  implementation lines): one function per query that fills a request, calls
  `MakeRequest`, which `QueryBatch` has, and returns the response, and accessors of the
  response's fields. There is no state and no control; what the getters read of the
  responses is in the records of `Getters` and `Requests`. The same holds of
  `internal/mock.go`, generated for tests.
- *Transports* (`internal/transport.go`, upstream clients): a library's rate limiter,
  headers, and the mapping of status codes to errors, which the models take as
  "failed" or "not found".
- *Metrics and logging*, beyond the gauges above: counters nothing reads back.
- *Commands*: flags and wiring. Starting and dying are `AuthorRefresh`'s.
- *HTTP handler*: encoding, redirects, cache headers and the throttle of the library.
  `search`, `recommended` and the batches call `WriteHeader` before `cacheFor`, so that
  the header it adds is lost; there is no state to check.
- *Upstream itself*: its answers are nondeterministic.
