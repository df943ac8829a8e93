------------------------------ MODULE Catalog ------------------------------
(***************************************************************************)
(* internal/controller.go with the GetWork and GetBook of either getter:   *)
(* how one work and its editions are fetched, cached, kept together and    *)
(* denormalized.                                                           *)
(*                                                                         *)
(* The work is cached under WorkKey with the editions it has gathered,     *)
(* every edition under BookKey.  Three parties read and write WorkKey: the *)
(* flight of getWork (singleflight: one at a time), GRGetter.GetBook when  *)
(* it fetches the best edition of a work that is not cached, and the       *)
(* denormalization loop.  None of them holds anything between its read     *)
(* and its write.  Around them run goroutines nobody waits for: getBook's, *)
(* getWork's (limited by workG) and saveEditions'.                         *)
(*                                                                         *)
(* Content is abstracted to the set of editions a work has; an edition's   *)
(* bytes are a work with that one edition.  Authors are AuthorRefresh's.   *)
(***************************************************************************)
EXTENDS Naturals, Sequences, FiniteSets

CONSTANTS
    Books,      \* the editions of the work
    Best,       \* its BestBookID
    Work,       \* WorkKey of the work; BookKey of an edition is the edition
    Loop,       \* the denormalization loop, as a caller of the getter
    NoEntry,    \* nothing in the cache, no bytes
    Missing,    \* the _missing sentinel
    NotFound,   \* errNotFound
    Failed,     \* any other error
    MaxEvents   \* bound: requests and lapses

Keys == Books \union {Work}
Callers == Keys \union {Loop}
Errors == {NotFound, Failed}
Special == Errors \union {Missing, NoEntry}

ASSUME ConstantsAssumption ==
    /\ Best \in Books
    /\ Work \notin Books
    /\ Loop \notin Keys
    /\ NotFound # Failed
    /\ Missing # NoEntry
    /\ {Missing, NoEntry} \intersect Errors = {}
    /\ \A s \in SUBSET Books : s \notin Special
    /\ MaxEvents \in Nat

VARIABLES
    getter,     \* which getter the process was built with: rggr's or rghc's
    cache,      \* per key, the bytes and whether their TTL is positive
    caller,     \* who is in a flight, or in the loop, and how far its getter is
    attach,     \* getBook's goroutine of an edition
    refresh,    \* the work refresh that runs in workG (limit 1)
    workQ,      \* the goroutines waiting for workG
    save,       \* saveEditions' goroutine
    pending,    \* denormC and its buffer: the editions of the work's edge
    loop,       \* the edge the loop handles
    resp,       \* what the last flight of a key answered to its callers
    events      \* how many requests and lapses there were

vars == <<getter, cache, caller, attach, refresh, workQ, save, pending, loop, resp, events>>

NoCall == [pc |-> "idle", read |-> NoEntry, book |-> Best, got |-> NoEntry,
           fetched |-> FALSE, seeds |-> FALSE]
NoRefresh == [pc |-> "idle", todo |-> {}, kept |-> {}, book |-> Best]
NoSave == [todo |-> {}, saved |-> {}]
NoLoop == [pc |-> "idle", todo |-> {}, loaded |-> {}, base |-> {}]

IsWork(bytes) == bytes \notin Special
Editions(bytes) == IF IsWork(bytes) THEN bytes ELSE {}

\* The cache outlives the process.  What an earlier one left has lapsed: nothing, a 404
\* of the work, or the work with all its editions.
Lapsed(bytes) == [val |-> bytes, fresh |-> FALSE]
Left == {[k \in Keys |-> Lapsed(NoEntry)],
         [k \in Keys |-> Lapsed(IF k = Work THEN Missing ELSE NoEntry)],
         [k \in Keys |-> Lapsed(IF k = Work THEN Books ELSE {k})]}

Init ==
    /\ getter \in {"gr", "hc"}
    /\ cache \in Left
    /\ caller = [c \in Callers |-> NoCall]
    /\ attach = [b \in Books |-> "idle"]
    /\ refresh = NoRefresh
    /\ workQ = <<>>
    /\ save = NoSave
    /\ pending = {}
    /\ loop = NoLoop
    /\ resp = [k \in Keys |-> NoEntry]
    /\ events = 0

CacheSet(k, bytes) == cache' = [cache EXCEPT ![k] = [val |-> bytes, fresh |-> TRUE]]
CacheExpire(k) == cache' = [cache EXCEPT ![k].fresh = FALSE]

-----------------------------------------------------------------------------
(* The getters.  A caller is at "work" or "ask" in GetWork, at "book",      *)
(* "fetch" or "seed" in GetBook, and at "ret" when the getter returned.     *)

At(c, pc) == caller[c].pc = pc
Goto(c, pc) == caller' = [caller EXCEPT ![c].pc = pc]
GotoBook(c, b) == caller' = [caller EXCEPT ![c].pc = "book", ![c].book = b]
Return(c, bytes) == caller' = [caller EXCEPT ![c].pc = "ret", ![c].got = bytes]

\* The loop passes no saveEditions callback.
SavesEditions(c) == c # Loop

\* A call of saveEditions with the editions that are left after deduplication.  Bound:
\* the goroutine of the call before has ended.
StartSave ==
    /\ save = NoSave
    /\ \E editions \in SUBSET Books : save' = [todo |-> editions, saved |-> {}]

\* Without the test of gr.go that the cached work names a best edition.
BadGetWork(c) ==
    /\ At(c, "work")
    /\ IF cache[Work].fresh THEN Return(c, cache[Work].val)
       ELSE IF getter = "gr" /\ cache[Work].val # NoEntry
       THEN GotoBook(c, cache[Work].val)
       ELSE Goto(c, "ask")
    /\ UNCHANGED <<getter, cache, attach, refresh, workQ, save, pending, loop, resp, events>>

\* GetWork: a work that is cached and fresh is returned, a 404 of it included.
GetWork(c) ==
    /\ At(c, "work")
    /\ IF cache[Work].fresh THEN Return(c, cache[Work].val)
       ELSE IF getter = "gr" /\ IsWork(cache[Work].val) THEN GotoBook(c, Best)
       ELSE Goto(c, "ask")
    /\ UNCHANGED <<getter, cache, attach, refresh, workQ, save, pending, loop, resp, events>>

\* GetWork: best_book of Goodreads, or Hardcover's query of the work, which may turn out
\* to have no author or no edition after its editions went out to be saved.
AskWork(c) ==
    /\ At(c, "ask")
    /\ \/ \E err \in Errors : Return(c, err) /\ UNCHANGED save
       \/ /\ \/ GotoBook(c, Best)
             \/ getter = "hc" /\ \E err \in Errors : Return(c, err)
          /\ IF getter = "hc" /\ SavesEditions(c) THEN StartSave ELSE UNCHANGED save
    /\ UNCHANGED <<getter, cache, attach, refresh, workQ, pending, loop, resp, events>>

\* GetBook: an edition that is cached and fresh is returned, a 404 of it included.
GetBook(c) ==
    /\ At(c, "book")
    /\ LET entry == cache[caller[c].book]
       IN  IF entry.fresh THEN Return(c, entry.val) ELSE Goto(c, "fetch")
    /\ UNCHANGED <<getter, cache, attach, refresh, workQ, save, pending, loop, resp, events>>

\* GetBook: upstream answers.  GRGetter looks whether the work of its best edition is
\* cached, and only then writes it.
FetchBook(c) ==
    /\ At(c, "fetch")
    /\ \/ \E err \in Errors : Return(c, err)
       \/ LET best == getter = "gr" /\ caller[c].book = Best
          IN  caller' = [caller EXCEPT ![c].pc = IF best THEN "seed" ELSE "ret",
                                       ![c].got = {caller[c].book},
                                       ![c].fetched = TRUE,
                                       ![c].seeds = best /\ cache[Work].val = NoEntry]
    /\ UNCHANGED <<getter, cache, attach, refresh, workQ, save, pending, loop, resp, events>>

\* Only saves the others.
BadSeedWork(c) ==
    /\ At(c, "seed")
    /\ IF SavesEditions(c) THEN StartSave ELSE UNCHANGED save
    /\ Goto(c, "ret")
    /\ UNCHANGED <<getter, cache, attach, refresh, workQ, pending, loop, resp, events>>

\* GRGetter.GetBook with the best edition: start the work from it, save the others.
SeedWork(c) ==
    /\ At(c, "seed")
    /\ IF caller[c].seeds THEN CacheSet(Work, caller[c].got) ELSE UNCHANGED cache
    /\ IF SavesEditions(c) THEN StartSave ELSE UNCHANGED save
    /\ Goto(c, "ret")
    /\ UNCHANGED <<getter, attach, refresh, workQ, pending, loop, resp, events>>

-----------------------------------------------------------------------------
(* Flights: getBook and getWork within the singleflight group.              *)

\* group.Do: joins the flight of a key, or starts one.
Join(k) == IF At(k, "idle") THEN Goto(k, "read") ELSE UNCHANGED caller

\* A request of a client.
Request(k) ==
    /\ events < MaxEvents
    /\ At(k, "idle")
    /\ Join(k)
    /\ events' = events + 1
    /\ UNCHANGED <<getter, cache, attach, refresh, workQ, save, pending, loop, resp>>

\* The flight of k ends with this outcome: every caller that joined it has it.
Answer(k, outcome) ==
    /\ caller' = [caller EXCEPT ![k] = NoCall]
    /\ resp' = [resp EXCEPT ![k] = outcome]
    /\ refresh' = IF refresh.pc = "wait" /\ refresh.book = k
                  THEN [refresh EXCEPT !.pc = "next",
                                       !.kept = IF outcome \in Errors THEN @ ELSE @ \union {k}]
                  ELSE refresh

\* The goroutines of getBook that wait for the work: without it they give up.
WorkAnswered(outcome) ==
    attach' = [b \in Books |-> IF attach[b] # "wait" THEN attach[b]
                               ELSE IF outcome \in Errors THEN "idle" ELSE "send"]

\* Takes the bytes of a 404 for a book or a work.
BadReadCache(k) ==
    /\ At(k, "read")
    /\ LET entry == cache[k]
       IN  IF entry.fresh
           THEN /\ Answer(k, entry.val)
                /\ IF k = Work THEN WorkAnswered(entry.val) ELSE UNCHANGED attach
           ELSE /\ caller' = [caller EXCEPT ![k].pc = IF k = Work THEN "work" ELSE "book",
                                            ![k].read = entry.val,
                                            ![k].book = IF k = Work THEN Best ELSE k]
                /\ UNCHANGED <<attach, refresh, resp>>
    /\ UNCHANGED <<getter, cache, workQ, save, pending, loop, events>>

ReadCache(k) ==
    /\ At(k, "read")
    /\ LET entry == cache[k]
           outcome == IF entry.val = Missing THEN NotFound ELSE entry.val
       IN  IF entry.fresh
           THEN /\ Answer(k, outcome)
                /\ IF k = Work THEN WorkAnswered(outcome) ELSE UNCHANGED attach
           ELSE /\ caller' = [caller EXCEPT ![k].pc = IF k = Work THEN "work" ELSE "book",
                                            ![k].read = entry.val,
                                            ![k].book = IF k = Work THEN Best ELSE k]
                /\ UNCHANGED <<attach, refresh, resp>>
    /\ UNCHANGED <<getter, cache, workQ, save, pending, loop, events>>

\* getBook with the getter's answer.  An edition that came from upstream gets a
\* goroutine.  Bound: the one before it has ended.
FinishBook(b) ==
    /\ At(b, "ret")
    /\ LET got == caller[b].got
       IN  /\ CASE got = NotFound -> CacheSet(b, Missing) /\ UNCHANGED attach
                [] got = Failed -> UNCHANGED <<cache, attach>>
                [] OTHER -> /\ CacheSet(b, got)
                            /\ caller[b].fetched => attach[b] = "idle"
                            /\ attach' = IF caller[b].fetched
                                         THEN [attach EXCEPT ![b] = "get"] ELSE attach
           /\ Answer(b, got)
    /\ UNCHANGED <<getter, workQ, save, pending, loop, events>>

\* getWork with the getter's answer: whatever was cached is returned in its place, and
\* the editions that had are to be kept.
FinishWork ==
    /\ At(Work, "ret")
    /\ LET got == caller[Work].got
           read == caller[Work].read
           outcome == IF got \in Errors \/ read = NoEntry THEN got ELSE read
       IN  /\ CASE got = NotFound -> CacheSet(Work, Missing) /\ UNCHANGED workQ
                [] got = Failed -> UNCHANGED <<cache, workQ>>
                [] OTHER -> CacheSet(Work, got) /\ workQ' = Append(workQ, Editions(read))
           /\ Answer(Work, outcome)
           /\ WorkAnswered(outcome)
    /\ UNCHANGED <<getter, save, pending, loop, events>>

-----------------------------------------------------------------------------
(* The goroutines nobody waits for.                                         *)

\* getBook: "Ensure the edition/book is included with the work".
AttachGet(b) ==
    /\ attach[b] = "get"
    /\ attach' = [attach EXCEPT ![b] = "wait"]
    /\ Join(Work)
    /\ UNCHANGED <<getter, cache, refresh, workQ, save, pending, loop, resp, events>>

\* Its author is fetched; when that fails the edition is skipped.
AttachSend(b) ==
    /\ attach[b] = "send"
    /\ attach' = [attach EXCEPT ![b] = "idle"]
    /\ pending' \in {pending, pending \union {b}}
    /\ UNCHANGED <<getter, cache, caller, refresh, workQ, save, loop, resp, events>>

\* getWork: "Ensure we keep whatever editions we already had cached".
RefreshStart ==
    /\ refresh.pc = "idle" /\ workQ # <<>>
    /\ refresh' = [NoRefresh EXCEPT !.pc = "next", !.todo = Head(workQ)]
    /\ workQ' = Tail(workQ)
    /\ UNCHANGED <<getter, cache, caller, attach, save, pending, loop, resp, events>>

RefreshBook ==
    /\ refresh.pc = "next"
    /\ \E b \in refresh.todo :
          /\ refresh' = [refresh EXCEPT !.pc = "wait", !.book = b, !.todo = @ \ {b}]
          /\ Join(b)
    /\ UNCHANGED <<getter, cache, attach, workQ, save, pending, loop, resp, events>>

RefreshSend ==
    /\ refresh.pc = "next" /\ refresh.todo = {}
    /\ pending' = pending \union refresh.kept
    /\ refresh' = NoRefresh
    /\ UNCHANGED <<getter, cache, caller, attach, workQ, save, loop, resp, events>>

\* saveEditions: one edition after the other, without those that have another author
\* or whose author cannot be fetched.
SaveEdition ==
    /\ \E b \in save.todo :
          \/ /\ CacheSet(b, {b})
             /\ save' = [todo |-> save.todo \ {b}, saved |-> save.saved \union {b}]
          \/ /\ save' = [save EXCEPT !.todo = @ \ {b}]
             /\ UNCHANGED cache
    /\ UNCHANGED <<getter, caller, attach, refresh, workQ, pending, loop, resp, events>>

SaveSend ==
    /\ save.todo = {} /\ save.saved # {}
    /\ pending' = pending \union save.saved
    /\ save' = NoSave
    /\ UNCHANGED <<getter, cache, caller, attach, refresh, workQ, loop, resp, events>>

-----------------------------------------------------------------------------
(* denormalizeEditions, in the loop.                                        *)

Receive ==
    /\ loop.pc = "idle" /\ pending # {}
    /\ loop' = [NoLoop EXCEPT !.pc = "work", !.todo = pending]
    /\ pending' = {}
    /\ Goto(Loop, "work")
    /\ UNCHANGED <<getter, cache, attach, refresh, workQ, save, resp, events>>

\* Without the work the edge is dropped; bytes that are no work are expired.
LoadWork ==
    /\ loop.pc = "work" /\ At(Loop, "ret")
    /\ LET got == caller[Loop].got
       IN  /\ loop' = IF IsWork(got)
                      THEN [loop EXCEPT !.pc = "books", !.loaded = got, !.base = got]
                      ELSE NoLoop
           /\ IF got = Missing THEN CacheExpire(Work) ELSE UNCHANGED cache
    /\ caller' = [caller EXCEPT ![Loop] = NoCall]
    /\ UNCHANGED <<getter, attach, refresh, workQ, save, pending, resp, events>>

NextBook ==
    /\ loop.pc = "books" /\ At(Loop, "idle")
    /\ \E b \in loop.todo : /\ loop' = [loop EXCEPT !.todo = @ \ {b}]
                            /\ GotoBook(Loop, b)
    /\ UNCHANGED <<getter, cache, attach, refresh, workQ, save, pending, resp, events>>

MergeBook ==
    /\ loop.pc = "books" /\ At(Loop, "ret")
    /\ LET got == caller[Loop].got
       IN  /\ loop' = [loop EXCEPT !.base = @ \union Editions(got)]
           /\ IF got = Missing THEN CacheExpire(caller[Loop].book) ELSE UNCHANGED cache
    /\ caller' = [caller EXCEPT ![Loop] = NoCall]
    /\ UNCHANGED <<getter, attach, refresh, workQ, save, pending, resp, events>>

\* The same editions may still have another content, and so another ETag.
SaveWork ==
    /\ loop.pc = "books" /\ At(Loop, "idle") /\ loop.todo = {}
    /\ \/ CacheSet(Work, loop.base)
       \/ loop.base = loop.loaded /\ UNCHANGED cache
    /\ loop' = NoLoop
    /\ UNCHANGED <<getter, caller, attach, refresh, workQ, save, pending, resp, events>>

\* The TTL of an entry runs out, or a DELETE of it expires it.
Lapse(k) ==
    /\ events < MaxEvents
    /\ cache[k].fresh
    /\ CacheExpire(k)
    /\ events' = events + 1
    /\ UNCHANGED <<getter, caller, attach, refresh, workQ, save, pending, loop, resp>>

-----------------------------------------------------------------------------
GetterStep(c) == GetWork(c) \/ AskWork(c) \/ GetBook(c) \/ FetchBook(c) \/ SeedWork(c)
FlightStep(k) == ReadCache(k) \/ (k \in Books /\ FinishBook(k)) \/ (k = Work /\ FinishWork)
AttachStep(b) == AttachGet(b) \/ AttachSend(b)
RefreshStep == RefreshStart \/ RefreshBook \/ RefreshSend
SaveStep == SaveEdition \/ SaveSend
LoopStep == Receive \/ LoadWork \/ NextBook \/ MergeBook \/ SaveWork

Next ==
    \/ \E c \in Callers : GetterStep(c)
    \/ \E k \in Keys : FlightStep(k) \/ Request(k) \/ Lapse(k)
    \/ \E b \in Books : AttachStep(b)
    \/ RefreshStep
    \/ SaveStep
    \/ LoopStep

Spec == Init /\ [][Next]_vars

-----------------------------------------------------------------------------
TypeOK ==
    /\ getter \in {"gr", "hc"}
    /\ cache \in [Keys -> [val : {Missing, NoEntry} \union SUBSET Books, fresh : BOOLEAN]]
    /\ caller \in [Callers ->
          [pc : {"idle", "read", "work", "ask", "book", "fetch", "seed", "ret"},
           read : {Missing, NoEntry} \union SUBSET Books, book : Books,
           got : Special \union SUBSET Books, fetched : BOOLEAN, seeds : BOOLEAN]]
    /\ attach \in [Books -> {"idle", "get", "wait", "send"}]
    /\ refresh \in [pc : {"idle", "next", "wait"}, todo : SUBSET Books,
                    kept : SUBSET Books, book : Books]
    /\ workQ \in Seq(SUBSET Books)
    /\ save \in [todo : SUBSET Books, saved : SUBSET Books]
    /\ pending \in SUBSET Books
    /\ loop \in [pc : {"idle", "work", "books"}, todo : SUBSET Books,
                 loaded : SUBSET Books, base : SUBSET Books]
    /\ resp \in [Keys -> Special \union SUBSET Books]
    /\ events \in 0..MaxEvents

\* An edition is answered with an edition or an error, never with the bytes that stand
\* for a 404 ("_missing is a sentinel value we cache for 404 responses").  getBook and
\* the getter each read the cache, and the getter returns whatever is fresh there: that
\* it is no 404 rests on nobody else writing one in between.
BookServedIsBook == \A b \in Books : resp[b] # Missing

\* "This should only be used when all resources have already been fetched": an edge the
\* loop will handle names editions that are cached, and with rggr's getter the work is
\* cached too.  (rghc's saveEditions runs before getWork has cached the work.)
PendingIsFetched ==
    /\ \A b \in pending \union loop.todo : cache[b].val # NoEntry
    /\ getter = "gr" /\ (pending # {} \/ loop.pc = "work") => cache[Work].val # NoEntry

\* The editions something will still bring to the work.
Returning ==
    pending \union loop.todo \union loop.base \union save.todo \union save.saved
    \union refresh.todo \union refresh.kept
    \union (UNION {workQ[i] : i \in DOMAIN workQ})
    \union {b \in Books : attach[b] # "idle" \/ (refresh.pc = "wait" /\ b = refresh.book)}

\* "Ensure we keep whatever editions we already had cached": when a flight of the work
\* replaces it in the cache, what replaces it has the editions that were there, or they are
\* on their way back to it.
EditionsKept ==
    [][FinishWork /\ IsWork(cache'[Work].val) =>
          Editions(cache[Work].val) \subseteq cache'[Work].val \union Returning']_vars
=============================================================================
