---------------------------- MODULE AuthorRefresh ----------------------------
(***************************************************************************)
(* internal/controller.go and persist.go: how an author is fetched, marked *)
(* as refreshing, refreshed by a bounded pool of workers, and denormalized *)
(* by the single loop of Controller.Run, across crashes and restarts.      *)
(*                                                                         *)
(*   callers --GetAuthor--> flight --refreshC--> forwarder --> workers     *)
(*                             ^                                  |        *)
(*                             |                               denormC     *)
(*                             +-------- denormalization <--------+        *)
(*                                            loop                         *)
(*                                                                         *)
(* The cache is one durable map here (LayeredCache has its own module),    *)
(* whose reads may miss what it holds: AuthorKey(a) is author[a], with     *)
(* fresh[a] while its TTL lasts, and refreshAuthorKey(a) is ra[a], which   *)
(* is read whatever its TTL.  What is kept of an author's bytes is the set *)
(* of its works, or Missing for the sentinel a 404 is cached as.           *)
(*                                                                         *)
(* Two channels with an accumulate goroutine are queues: refreshC with its *)
(* slicebuffer, denormC with its edgebuf, of which EdgeBuffer shows that   *)
(* it is one.                                                              *)
(***************************************************************************)
EXTENDS Integers, Sequences, FiniteSets, EdgeLists

CONSTANTS
    Authors,        \* author IDs, other than the ones unknownAuthor rules out
    Works,          \* work IDs
    FirstWork,      \* the one work getter.GetAuthor returns on an author
    Slots,          \* the slots of refreshG: its limit is their number
    Nil,            \* no value; no author; nobody
    Missing,        \* _missing
    MaxEvents,      \* bound: expirations, requests and failures from outside
    MaxEdges        \* bound: queue length up to which others send author edges

ASSUME RefreshAssumption ==
    /\ FirstWork \in Works
    /\ IsFiniteSet(Slots)
    /\ Nil \notin Authors
    /\ \A as \in SUBSET Authors : as # Nil
    /\ Nil # Missing
    /\ \A ws \in SUBSET Works : ws # Nil /\ ws # Missing
    /\ MaxEvents \in Nat
    /\ MaxEdges \in Nat

VARIABLES
    author,         \* the cached bytes of AuthorKey(a)
    fresh,          \* its TTL is positive
    ra,             \* the cached bytes of refreshAuthorKey(a)
    raExpired,      \* its expiry is the epoch, after Expire
    flight,         \* the singleflight call of GetAuthor(a)
    caller,         \* what a caller that saw a 404, or a DELETE, is about to do
    refreshQ,       \* refreshC and its slicebuffer
    forwarding,     \* the refresh the forwarder hands to refreshG.Go
    worker,         \* the refreshAuthor goroutine in each slot
    denormQ,        \* denormC and its edgebuf
    loop,           \* the denormalization loop
    refreshWaiting, \* the gauge of the same name
    recovery,       \* the authors recovery will resume, Nil until it has read
    abandoned,      \* history: authors whose mark nothing is sure to remove before a restart
    panics,         \* history: refreshes that panicked since the process started
    ensured,        \* history: works the loop ensured since a's worker started
    overlooked,     \* history: authors whose mark their flight has missed
    owed,           \* history: works refreshes of a sent that the loop has not received
    events          \* how many outside events happened

cacheVars == <<author, fresh, ra, raExpired>>
pipeline == <<refreshQ, forwarding, worker, denormQ, refreshWaiting>>
history == <<abandoned, panics, ensured, overlooked, owed>>
vars == <<cacheVars, flight, caller, pipeline, loop, recovery, history, events>>

Content == SUBSET Works
Bytes == {Missing, Nil} \union Content

AuthorEdge(a, ws) == [kind |-> "authorEdge", parentID |-> a, childIDs |-> ws]
RefreshDone(a) == [kind |-> "refreshDone", parentID |-> a, childIDs |-> {}]
Edge == [kind : {"authorEdge", "refreshDone"}, parentID : Authors, childIDs : Content]

NoFlight == [pc |-> "idle", cached |-> Nil]
IdleWorker == [pc |-> "idle", id |-> Nil, found |-> {}]
IdleLoop == [pc |-> "idle", edge |-> Nil, base |-> Nil, retried |-> FALSE]

Init ==
    /\ author = [a \in Authors |-> Nil]
    /\ fresh = [a \in Authors |-> FALSE]
    /\ ra = [a \in Authors |-> Nil]
    /\ raExpired = [a \in Authors |-> FALSE]
    /\ abandoned = {}
    /\ panics = 0
    /\ ensured = [a \in Authors |-> {}]
    /\ overlooked = {}
    /\ owed = [a \in Authors |-> {}]
    /\ events = 0
    /\ flight = [a \in Authors |-> NoFlight]
    /\ caller = [a \in Authors |-> "none"]
    /\ refreshQ = <<>>
    /\ forwarding = Nil
    /\ worker = [s \in Slots |-> IdleWorker]
    /\ denormQ = <<>>
    /\ loop = IdleLoop
    /\ refreshWaiting = 0
    /\ recovery = Nil

\* Something from outside happens, as long as the bound allows.
Event ==
    /\ events < MaxEvents
    /\ events' = events + 1

(***************************************************************************)
(* GetAuthor(a): one flight per author, shared by all its callers.         *)
(***************************************************************************)
StartFlight(a) == flight' = [flight EXCEPT ![a].pc = IF @ = "idle" THEN "readMark" ELSE @]

(***************************************************************************)
(* The flight returns: its bytes or its error go to whoever waits for it.  *)
(* The loop keeps the bytes as the base of its merge, tries a throttled    *)
(* request once more, and drops the edge on another error.  On a 404, a    *)
(* DELETE removes the entry and getBook's goroutine may force a refresh.   *)
(***************************************************************************)
LoopAfter(a, bytes, error) ==
    IF loop.pc # "wait" \/ loop.edge.parentID # a THEN loop
    ELSE CASE error = "none" -> [loop EXCEPT !.pc = "merge", !.base = bytes]
           [] error = "throttled" /\ ~loop.retried -> [loop EXCEPT !.pc = "load", !.retried = TRUE]
           [] OTHER -> IdleLoop

Return(a, bytes, error) ==
    /\ flight' = [flight EXCEPT ![a] = NoFlight]
    /\ loop' = LoopAfter(a, bytes, error)
    /\ \/ /\ caller[a] = "awaitDeleted"
          /\ caller' = [caller EXCEPT ![a] = IF error = "notFound" THEN "deleteAuthor" ELSE "none"]
          /\ UNCHANGED events
       \/ /\ caller[a] # "awaitDeleted"
          /\ UNCHANGED <<caller, events>>
       \/ /\ caller[a] = "none"
          /\ error = "notFound"
          /\ caller' = [caller EXCEPT ![a] = "forceExpire"]
          /\ Event

\* Cached bytes are an answer; the sentinel among them is a cached 404.
ReturnCached(a, bytes) ==
    IF bytes = Missing THEN Return(a, Nil, "notFound") ELSE Return(a, bytes, "none")

PassMark(a) == flight' = [flight EXCEPT ![a].pc = "readAuthor"]

\* Takes a mark that was expired for none.
BadReadMark(a) ==
    /\ flight[a].pc = "readMark"
    /\ \/ /\ ra[a] # Nil /\ ~raExpired[a]
          /\ ReturnCached(a, ra[a])
          /\ UNCHANGED overlooked
       \/ /\ ra[a] = Nil \/ raExpired[a]
          /\ PassMark(a)
          /\ overlooked' = overlooked \ {a}
          /\ UNCHANGED <<caller, loop, events>>
    /\ UNCHANGED <<cacheVars, pipeline, recovery, abandoned, panics, ensured, owed>>

\* c.cache.Get(refreshAuthorKey): whatever the mark's TTL.
ReadMark(a) ==
    /\ flight[a].pc = "readMark"
    /\ \/ /\ ra[a] # Nil
          /\ ReturnCached(a, ra[a])
          /\ UNCHANGED overlooked
       \/ /\ ra[a] = Nil
          /\ PassMark(a)
          /\ overlooked' = overlooked \ {a}
          /\ UNCHANGED <<caller, loop, events>>
    /\ UNCHANGED <<cacheVars, pipeline, recovery, abandoned, panics, ensured, owed>>

\* The same when memory does not have the mark, and Postgres fails or the request was
\* cancelled: a miss, like any other.
MissMark(a) ==
    /\ flight[a].pc = "readMark"
    /\ ra[a] # Nil
    /\ Event
    /\ PassMark(a)
    /\ overlooked' = overlooked \union {a}
    /\ UNCHANGED <<cacheVars, caller, pipeline, loop, recovery, abandoned, panics, ensured, owed>>

ReadAuthor(a) ==
    /\ flight[a].pc = "readAuthor"
    /\ \/ /\ fresh[a]
          /\ ReturnCached(a, author[a])
       \/ /\ ~fresh[a]
          /\ flight' = [flight EXCEPT ![a] = [pc |-> "fetch", cached |-> author[a]]]
          /\ UNCHANGED <<caller, loop, events>>
    /\ UNCHANGED <<cacheVars, pipeline, recovery, history>>

\* The same for the author, of whom no last-known state is left then.
MissAuthor(a) ==
    /\ flight[a].pc = "readAuthor"
    /\ author[a] # Nil
    /\ Event
    /\ flight' = [flight EXCEPT ![a].pc = "fetch"]
    /\ UNCHANGED <<cacheVars, caller, pipeline, loop, recovery, history>>

\* getter.GetAuthor answers.
Fetched(a) ==
    /\ flight[a].pc = "fetch"
    /\ flight' = [flight EXCEPT ![a].pc = "save"]
    /\ UNCHANGED <<cacheVars, caller, pipeline, loop, recovery, history, events>>

FetchedNotFound(a) ==
    /\ flight[a].pc = "fetch"
    /\ author' = [author EXCEPT ![a] = Missing]
    /\ fresh' = [fresh EXCEPT ![a] = TRUE]
    /\ Return(a, Nil, "notFound")
    /\ UNCHANGED <<ra, raExpired, pipeline, recovery, history>>

FetchFailed(a) ==
    /\ flight[a].pc = "fetch"
    /\ \E error \in {"failed", "throttled"} : Return(a, Nil, error)
    /\ UNCHANGED <<cacheVars, pipeline, recovery, history>>

BadSave(a) ==
    /\ flight[a].pc = "save"
    /\ author' = [author EXCEPT ![a] = {FirstWork}]
    /\ fresh' = [fresh EXCEPT ![a] = TRUE]
    /\ flight' = [flight EXCEPT ![a].pc = "persist"]
    /\ UNCHANGED <<ra, raExpired, caller, pipeline, loop, recovery, history, events>>

\* cache.Set(AuthorKey): the fresh bytes replace the last-known ones, which the
\* flight goes on with, unless there are none.
Save(a) ==
    /\ flight[a].pc = "save"
    /\ author' = [author EXCEPT ![a] = {FirstWork}]
    /\ fresh' = [fresh EXCEPT ![a] = TRUE]
    /\ flight' = [flight EXCEPT ![a] =
                    [pc |-> "persist", cached |-> IF @.cached = Nil THEN {FirstWork} ELSE @.cached]]
    /\ UNCHANGED <<ra, raExpired, caller, pipeline, loop, recovery, history, events>>

\* persister.Persist.  A mark that is there is replaced, and has a refresh again.
Persist(a) ==
    /\ flight[a].pc = "persist"
    /\ flight' = [flight EXCEPT ![a].pc = "send"]
    /\ ra' = [ra EXCEPT ![a] = flight[a].cached]
    /\ raExpired' = [raExpired EXCEPT ![a] = FALSE]
    /\ abandoned' = abandoned \ {a}
    /\ UNCHANGED <<author, fresh, caller, pipeline, loop, recovery, panics, ensured, overlooked,
                   owed, events>>

\* accumulate always comes round to receiving from refreshC, so a send on it waits
\* for nobody.
BadRefreshCReady == loop.pc = "idle"
RefreshCReady == TRUE

\* c.refreshC <- refreshAuthor{...}, then the last-known bytes are returned, even
\* when they are the sentinel of an expired 404.
SendRefresh(a) ==
    /\ flight[a].pc = "send"
    /\ RefreshCReady
    /\ refreshQ' = Append(refreshQ, a)
    /\ Return(a, flight[a].cached, "none")
    /\ UNCHANGED <<cacheVars, forwarding, worker, denormQ, refreshWaiting, recovery, history>>

GetAuthor(a) ==
    \/ ReadMark(a) \/ ReadAuthor(a)
    \/ Fetched(a) \/ FetchedNotFound(a) \/ FetchFailed(a)
    \/ Save(a) \/ Persist(a) \/ SendRefresh(a)

(***************************************************************************)
(* The refresh workers.                                                    *)
(***************************************************************************)
\* for r := range refreshes
Forward ==
    /\ forwarding = Nil
    /\ refreshQ # <<>>
    /\ forwarding' = Head(refreshQ)
    /\ refreshQ' = Tail(refreshQ)
    /\ refreshWaiting' = refreshWaiting + 1
    /\ UNCHANGED <<cacheVars, flight, caller, worker, denormQ, loop, recovery, history, events>>

\* refreshG.Go, which blocks until a slot is free.
StartRefresh(s) ==
    /\ forwarding # Nil
    /\ worker[s].pc = "idle"
    /\ worker' = [worker EXCEPT ![s] = [pc |-> "collect", id |-> forwarding, found |-> {}]]
    /\ forwarding' = Nil
    /\ ensured' = [ensured EXCEPT ![forwarding] = {}]
    /\ UNCHANGED <<cacheVars, flight, caller, refreshQ, denormQ, refreshWaiting, loop,
                   recovery, abandoned, panics, overlooked, owed, events>>

BadCollect(s) ==
    /\ worker[s].pc = "collect"
    /\ \E found \in SUBSET Works :
         worker' = [worker EXCEPT ![s] =
                      IF found = {} THEN IdleWorker
                      ELSE [pc |-> "sendWorks", id |-> worker[s].id, found |-> found]]
    /\ UNCHANGED <<cacheVars, flight, caller, refreshQ, forwarding, denormQ, refreshWaiting,
                   loop, recovery, history, events>>

\* The loop of refreshAuthor over GetAuthorBooks: whichever books and works could
\* be fetched and belong to the author.
Collect(s) ==
    /\ worker[s].pc = "collect"
    /\ \E found \in SUBSET Works :
         worker' = [worker EXCEPT ![s].found = found,
                                  ![s].pc = IF found = {} THEN "sendDone" ELSE "sendWorks"]
    /\ UNCHANGED <<cacheVars, flight, caller, refreshQ, forwarding, denormQ, refreshWaiting,
                   loop, recovery, history, events>>

\* Sends the refreshDone first.
BadSendWorks(s) ==
    /\ worker[s].pc = "sendWorks"
    /\ denormQ' = Accepted(Accepted(denormQ, RefreshDone(worker[s].id)),
                          AuthorEdge(worker[s].id, worker[s].found))
    /\ worker' = [worker EXCEPT ![s] = IdleWorker]
    /\ owed' = [owed EXCEPT ![worker[s].id] = @ \union worker[s].found]
    /\ UNCHANGED <<cacheVars, flight, caller, refreshQ, forwarding, refreshWaiting, loop,
                   recovery, abandoned, panics, ensured, overlooked, events>>

SendWorks(s) ==
    /\ worker[s].pc = "sendWorks"
    /\ denormQ' = Accepted(denormQ, AuthorEdge(worker[s].id, worker[s].found))
    /\ worker' = [worker EXCEPT ![s].pc = "sendDone", ![s].found = {}]
    /\ owed' = [owed EXCEPT ![worker[s].id] = @ \union worker[s].found]
    /\ UNCHANGED <<cacheVars, flight, caller, refreshQ, forwarding, refreshWaiting, loop,
                   recovery, abandoned, panics, ensured, overlooked, events>>

SendDone(s) ==
    /\ worker[s].pc = "sendDone"
    /\ denormQ' = Accepted(denormQ, RefreshDone(worker[s].id))
    /\ worker' = [worker EXCEPT ![s] = IdleWorker]
    /\ UNCHANGED <<cacheVars, flight, caller, refreshQ, forwarding, refreshWaiting, loop,
                   recovery, history, events>>

\* Nothing is going to remove the mark of a, if it has one.
Abandon(a) == abandoned' = IF ra[a] = Nil THEN abandoned ELSE abandoned \union {a}

\* refreshAuthor panics and recovers: it sends nothing more.
Panic(s) ==
    /\ worker[s].pc = "collect"
    /\ Event
    /\ Abandon(worker[s].id)
    /\ panics' = panics + 1
    /\ worker' = [worker EXCEPT ![s] = IdleWorker]
    /\ UNCHANGED <<cacheVars, flight, caller, refreshQ, forwarding, denormQ, refreshWaiting,
                   loop, recovery, ensured, overlooked, owed>>

Refresh(s) == Collect(s) \/ SendWorks(s) \/ SendDone(s)

(***************************************************************************)
(* The denormalization loop.                                               *)
(***************************************************************************)
Receive ==
    /\ loop.pc = "idle"
    /\ denormQ # <<>>
    /\ denormQ' = Tail(denormQ)
    /\ loop' = [IdleLoop EXCEPT !.edge = Head(denormQ),
                                !.pc = IF Head(denormQ).kind = "authorEdge" THEN "load" ELSE "done"]
    /\ owed' = [owed EXCEPT ![Head(denormQ).parentID] = @ \ Head(denormQ).childIDs]
    /\ UNCHANGED <<cacheVars, flight, caller, refreshQ, forwarding, worker, refreshWaiting,
                   recovery, abandoned, panics, ensured, overlooked, events>>

\* denormalizeWorks: c.GetAuthor, joining a flight that is already under way.
LoadAuthor ==
    /\ loop.pc = "load"
    /\ loop' = [loop EXCEPT !.pc = "wait"]
    /\ StartFlight(loop.edge.parentID)
    /\ UNCHANGED <<cacheVars, caller, pipeline, recovery, history, events>>

\* denormalizeWorks: the bytes do not decode, they were the sentinel.
Undecodable ==
    /\ loop.pc = "merge"
    /\ loop.base = Missing
    /\ fresh' = [fresh EXCEPT ![loop.edge.parentID] = FALSE]
    /\ loop' = IdleLoop
    /\ UNCHANGED <<author, ra, raExpired, flight, caller, pipeline, recovery, history, events>>

(***************************************************************************)
(* denormalizeWorks, the rest: the works that could be fetched and have    *)
(* editions go into the base.  When the result has the ETag of the base    *)
(* nothing is saved; it may differ from the base's although the works are  *)
(* the same, since it is put together and encoded anew.                    *)
(***************************************************************************)
Merge ==
    /\ loop.pc = "merge"
    /\ loop.base # Missing
    /\ LET a == loop.edge.parentID
       IN  \E got \in SUBSET loop.edge.childIDs, changed \in BOOLEAN :
             /\ IF loop.base \union got = loop.base /\ ~changed
                THEN UNCHANGED <<author, fresh>>
                ELSE /\ author' = [author EXCEPT ![a] = loop.base \union got]
                     /\ fresh' = [fresh EXCEPT ![a] = TRUE]
             /\ ensured' = [ensured EXCEPT ![a] = @ \union got]
    /\ loop' = IdleLoop
    /\ UNCHANGED <<ra, raExpired, flight, caller, pipeline, recovery, abandoned, panics,
                   overlooked, owed, events>>

\* case refreshDone, with persister.Delete.
Unmark ==
    /\ loop.pc = "done"
    /\ refreshWaiting' = refreshWaiting - 1
    /\ ra' = [ra EXCEPT ![loop.edge.parentID] = Nil]
    /\ raExpired' = [raExpired EXCEPT ![loop.edge.parentID] = FALSE]
    /\ abandoned' = abandoned \ {loop.edge.parentID}
    /\ loop' = IdleLoop
    /\ UNCHANGED <<author, fresh, flight, caller, refreshQ, forwarding, worker, denormQ,
                   recovery, panics, ensured, overlooked, owed, events>>

BadUnmarkFailed ==
    /\ loop.pc = "done"
    /\ Event
    /\ Abandon(loop.edge.parentID)
    /\ loop' = IdleLoop
    /\ UNCHANGED <<cacheVars, flight, caller, pipeline, recovery, panics, ensured, overlooked,
                   owed>>

\* The same, when persister.Delete fails: a warning is logged.
UnmarkFailed ==
    /\ loop.pc = "done"
    /\ Event
    /\ refreshWaiting' = refreshWaiting - 1
    /\ Abandon(loop.edge.parentID)
    /\ loop' = IdleLoop
    /\ UNCHANGED <<cacheVars, flight, caller, refreshQ, forwarding, worker, denormQ,
                   recovery, panics, ensured, overlooked, owed>>

Denormalize == Receive \/ LoadAuthor \/ Undecodable \/ Merge \/ Unmark

(***************************************************************************)
(* Recovery, when Run starts: it reads the marks once, then resumes them.  *)
(* The marks come back in a map keyed by their expiry, so of the expired   *)
(* ones, which all have the epoch, one is left and the others stay behind. *)
(***************************************************************************)
Marked == {a \in Authors : ra[a] # Nil}
MarkedExpired == {a \in Marked : raExpired[a]}

BadPersisted ==
    /\ recovery = Nil
    /\ recovery' = Marked \ MarkedExpired
    /\ UNCHANGED <<cacheVars, flight, caller, pipeline, loop, history, events>>

Persisted ==
    /\ recovery = Nil
    /\ \/ /\ MarkedExpired = {}
          /\ recovery' = Marked
          /\ UNCHANGED abandoned
       \/ \E a \in MarkedExpired :
            /\ recovery' = (Marked \ MarkedExpired) \union {a}
            /\ abandoned' = abandoned \union (MarkedExpired \ {a})
    /\ UNCHANGED <<cacheVars, flight, caller, pipeline, loop, panics, ensured, overlooked,
                   owed, events>>

\* The query fails: an error is logged and nothing is resumed.
PersistedFailed ==
    /\ recovery = Nil
    /\ Event
    /\ recovery' = {}
    /\ abandoned' = abandoned \union Marked
    /\ UNCHANGED <<cacheVars, flight, caller, pipeline, loop, panics, ensured, overlooked, owed>>

Resume ==
    /\ recovery # Nil
    /\ \E a \in recovery :
         /\ refreshQ' = Append(refreshQ, a)
         /\ recovery' = recovery \ {a}
    /\ UNCHANGED <<cacheVars, flight, caller, forwarding, worker, denormQ, refreshWaiting,
                   loop, history, events>>

Recover == Persisted \/ Resume

(***************************************************************************)
(* Callers.                                                                *)
(***************************************************************************)
\* Anybody calls GetAuthor.
Request(a) ==
    /\ flight[a].pc = "idle"
    /\ StartFlight(a)
    /\ UNCHANGED <<cacheVars, caller, pipeline, loop, recovery, history, events>>

\* A getWork job, or denormalizeEditions, sends a relationship of its own.
SendEdge(a, w) ==
    /\ Len(denormQ) < MaxEdges
    /\ Event
    /\ denormQ' = Accepted(denormQ, AuthorEdge(a, {w}))
    /\ UNCHANGED <<cacheVars, flight, caller, refreshQ, forwarding, worker, refreshWaiting,
                   loop, recovery, history>>

\* getBook's goroutine, after a 404 for an author that must exist: Expire the
\* author, Delete its mark, GetAuthor again.
ForceExpire(a) ==
    /\ caller[a] = "forceExpire"
    /\ fresh' = [fresh EXCEPT ![a] = FALSE]
    /\ caller' = [caller EXCEPT ![a] = "forceDelete"]
    /\ UNCHANGED <<author, ra, raExpired, flight, pipeline, loop, recovery, history, events>>

ForceDelete(a) ==
    /\ caller[a] = "forceDelete"
    /\ ra' = [ra EXCEPT ![a] = Nil]
    /\ raExpired' = [raExpired EXCEPT ![a] = FALSE]
    /\ abandoned' = abandoned \ {a}
    /\ caller' = [caller EXCEPT ![a] = "forceGet"]
    /\ UNCHANGED <<author, fresh, flight, pipeline, loop, recovery, panics, ensured, overlooked,
                   owed, events>>

ForceGet(a) ==
    /\ caller[a] = "forceGet"
    /\ StartFlight(a)
    /\ caller' = [caller EXCEPT ![a] = "none"]
    /\ UNCHANGED <<cacheVars, pipeline, loop, recovery, history, events>>

\* DELETE /author/{id}: Expire the author and its mark, GetAuthor, and on a 404
\* delete the author.
Bust(a) ==
    /\ caller[a] = "none"
    /\ Event
    /\ fresh' = [fresh EXCEPT ![a] = FALSE]
    /\ caller' = [caller EXCEPT ![a] = "expireMark"]
    /\ UNCHANGED <<author, ra, raExpired, flight, pipeline, loop, recovery, history>>

BustMark(a) ==
    /\ caller[a] = "expireMark"
    /\ raExpired' = [raExpired EXCEPT ![a] = ra[a] # Nil]
    /\ caller' = [caller EXCEPT ![a] = "getDeleted"]
    /\ UNCHANGED <<author, fresh, ra, flight, pipeline, loop, recovery, history, events>>

BustGet(a) ==
    /\ caller[a] = "getDeleted"
    /\ StartFlight(a)
    /\ caller' = [caller EXCEPT ![a] = "awaitDeleted"]
    /\ UNCHANGED <<cacheVars, pipeline, loop, recovery, history, events>>

BustDelete(a) ==
    /\ caller[a] = "deleteAuthor"
    /\ author' = [author EXCEPT ![a] = Nil]
    /\ fresh' = [fresh EXCEPT ![a] = FALSE]
    /\ caller' = [caller EXCEPT ![a] = "none"]
    /\ UNCHANGED <<ra, raExpired, flight, pipeline, loop, recovery, history, events>>

Call(a) ==
    \/ ForceExpire(a) \/ ForceDelete(a) \/ ForceGet(a)
    \/ BustMark(a) \/ BustGet(a) \/ BustDelete(a)

(***************************************************************************)
(* Time and crashes.                                                       *)
(***************************************************************************)
\* The author's TTL runs out.
Lapse(a) ==
    /\ fresh[a]
    /\ Event
    /\ fresh' = [fresh EXCEPT ![a] = FALSE]
    /\ UNCHANGED <<author, ra, raExpired, flight, caller, pipeline, loop, recovery, history>>

\* The process dies and is started again; only the cache survives.
Crash ==
    /\ Event
    /\ flight' = [a \in Authors |-> NoFlight]
    /\ caller' = [a \in Authors |-> "none"]
    /\ refreshQ' = <<>>
    /\ forwarding' = Nil
    /\ worker' = [s \in Slots |-> IdleWorker]
    /\ denormQ' = <<>>
    /\ loop' = IdleLoop
    /\ refreshWaiting' = 0
    /\ recovery' = Nil
    /\ abandoned' = {}
    /\ panics' = 0
    /\ ensured' = [a \in Authors |-> {}]
    /\ overlooked' = {}
    /\ owed' = [a \in Authors |-> {}]
    /\ UNCHANGED cacheVars

Next ==
    \/ \E a \in Authors :
         \/ GetAuthor(a) \/ Request(a) \/ Call(a) \/ Bust(a) \/ Lapse(a)
         \/ MissMark(a) \/ MissAuthor(a)
    \/ \E a \in Authors, w \in Works : SendEdge(a, w)
    \/ Forward
    \/ \E s \in Slots : StartRefresh(s) \/ Refresh(s) \/ Panic(s)
    \/ Denormalize
    \/ UnmarkFailed
    \/ Recover
    \/ PersistedFailed
    \/ Crash

Spec == Init /\ [][Next]_vars

(***************************************************************************)
(* Every goroutine that can take a step is scheduled: a flight, the        *)
(* forwarder, each worker, the loop (its bodies run under a timeout),      *)
(* recovery, and a caller in the middle of what it does.  GraphQL requests *)
(* time out; that upstream answers rggr's REST requests, whose client has  *)
(* no timeout (controller.go:142), is assumed.  Nothing obliges the        *)
(* outside world to do anything else.                                      *)
(***************************************************************************)
Fairness ==
    /\ \A a \in Authors : WF_vars(GetAuthor(a)) /\ WF_vars(Call(a))
    /\ WF_vars(Forward)
    /\ WF_vars(\E s \in Slots : StartRefresh(s))
    /\ \A s \in Slots : WF_vars(Refresh(s))
    /\ WF_vars(Denormalize)
    /\ WF_vars(Recover)

FairSpec == Spec /\ Fairness

(***************************************************************************)
(* Properties.                                                             *)
(***************************************************************************)
\* Every variable has its type, and what a flight persists are bytes: the cache
\* would silently refuse to Set none.
TypeOK ==
    /\ author \in [Authors -> Bytes]
    /\ fresh \in [Authors -> BOOLEAN]
    /\ ra \in [Authors -> Bytes]
    /\ raExpired \in [Authors -> BOOLEAN]
    /\ \A a \in Authors : flight[a].pc \in {"persist", "send"} => flight[a].cached # Nil
    /\ flight \in [Authors -> [pc : {"idle", "readMark", "readAuthor", "fetch", "save",
                                     "persist", "send"}, cached : Bytes]]
    /\ caller \in [Authors -> {"none", "forceExpire", "forceDelete", "forceGet", "expireMark",
                               "getDeleted", "awaitDeleted", "deleteAuthor"}]
    /\ refreshQ \in Seq(Authors)
    /\ forwarding \in Authors \union {Nil}
    /\ worker \in [Slots -> [pc : {"idle", "collect", "sendWorks", "sendDone"},
                             id : Authors \union {Nil}, found : Content]]
    /\ denormQ \in Seq(Edge)
    /\ loop \in [pc : {"idle", "load", "wait", "merge", "done"}, edge : Edge \union {Nil},
                 base : Bytes, retried : BOOLEAN]
    /\ refreshWaiting \in Int
    /\ recovery \in {Nil} \union SUBSET Authors
    /\ abandoned \in SUBSET Authors
    /\ panics \in Nat
    /\ ensured \in [Authors -> Content]
    /\ overlooked \in SUBSET Authors
    /\ owed \in [Authors -> Content]
    /\ events \in 0..MaxEvents

Handling(a) == \/ \E i \in DOMAIN refreshQ : refreshQ[i] = a
               \/ forwarding = a
               \/ \E s \in Slots : worker[s].pc # "idle" /\ worker[s].id = a
               \/ \E i \in DOMAIN denormQ : denormQ[i] = RefreshDone(a)
               \/ loop.pc = "done" /\ loop.edge = RefreshDone(a)

\* An author whose refresh mark is in the cache (it is then served from it, and
\* never fetched again) has a refresh that will remove the mark, or recovery will
\* start one: only a panic, a failed Delete, or a recovery that fails or passes it
\* over leaves a mark behind, until the next restart.
MarkIsHandled ==
    \A a \in Authors :
      ra[a] # Nil => \/ Handling(a)
                    \/ flight[a].pc = "send"
                    \/ recovery = Nil
                    \/ a \in recovery
                    \/ a \in abandoned

\* The refreshWaiting gauge counts the refreshes between the forwarder and their
\* refreshDone; each panic makes it one too high for good.
RefreshWaitingOK ==
    refreshWaiting = panics
                   + (IF forwarding = Nil THEN 0 ELSE 1)
                   + Cardinality({s \in Slots : worker[s].pc # "idle"})
                   + Cardinality({i \in DOMAIN denormQ : denormQ[i].kind = "refreshDone"})
                   + (IF loop.pc = "done" THEN 1 ELSE 0)

\* While an author has a refresh mark, whatever its TTL and whoever expired what meanwhile,
\* no flight fetches the author again, overwrites it or replaces the mark, unless its own
\* read missed that mark.  (Once a forced refresh has deleted the mark a flight may, and
\* mark the author with what a refresh that still runs has merged by then.)
MarkedIsNotFetched ==
    \A a \in Authors :
      /\ flight[a].pc \in {"readAuthor", "fetch", "save", "persist"}
      /\ ra[a] # Nil
      => a \in overlooked

\* A refreshDone never overtakes the works of its refresh ("Ensure fetched before
\* denormalizing"; the mark is what readers are served until then): whatever a refresh
\* sent and the loop has not received is queued with a refreshDone of the author behind
\* it, or with a worker about to send one, whoever else's edges it was merged with.
WorksBeforeDone ==
    \A a \in Authors : \A w \in owed[a] : \E i \in DOMAIN denormQ :
      /\ SameKey(denormQ[i], AuthorEdge(a, {}))
      /\ w \in denormQ[i].childIDs
      /\ \/ \E j \in DOMAIN denormQ : i < j /\ denormQ[j] = RefreshDone(a)
         \/ \E s \in Slots : worker[s].pc = "sendDone" /\ worker[s].id = a

IsWorks(bytes) == bytes \notin {Nil, Missing}

\* No refresh of a is going to collect works any more.
Collected(a) == /\ \A i \in DOMAIN refreshQ : refreshQ[i] # a
                /\ forwarding # a
                /\ \A s \in Slots : worker[s].id # a
                /\ flight[a].pc \notin {"persist", "send"}
                /\ recovery # Nil /\ a \notin recovery

\* "denormalizeWorks ensures that the given works exist on the author": when the last
\* refresh of an author ends, the cached author has every work the loop added to it,
\* or found on it, since that refresh's worker started.
RefreshLeavesWorks ==
    [][Unmark => \A a \in Authors :
         /\ loop.edge = RefreshDone(a)
         /\ Collected(a)
         /\ \A i \in DOMAIN denormQ : denormQ[i] # RefreshDone(a)
         /\ IsWorks(author[a])
         => ensured[a] \subseteq author[a]]_vars

\* "Persisted returns all in-flight author refreshes so they can be resumed": every mark
\* has its author resumed, or a refresh since the process started that will remove it.
ResumesAll == [][Persisted => \A a \in Marked : \/ a \in recovery'
                                                \/ Handling(a)
                                                \/ flight[a].pc = "send"]_vars

\* Every mark goes away: the refresh it stands for ends, across crashes, unless it
\* was abandoned.
RefreshEnds == \A a \in Authors : ra[a] # Nil ~> (ra[a] = Nil \/ a \in abandoned)

\* The loop always comes back for the next edge: waiting for a flight that itself
\* has to hand over a refresh, it is never part of a cycle.
LoopReturns == loop.pc # "idle" ~> loop.pc = "idle"
=============================================================================
