----------------------------- MODULE QueryBatch -----------------------------
(***************************************************************************)
(* internal/graphql.go: the batching GraphQL client.  MakeRequest joins    *)
(* the youngest batch, or opens one, and waits for its own answer; a       *)
(* single goroutine sleeps and flushes the oldest batch, each in a         *)
(* goroutine of its own that makes one request for the batch and answers   *)
(* its subscribers; Handler.reconfigure changes the batch size meanwhile.  *)
(*                                                                         *)
(* A query is one call of MakeRequest, and stands for its subscription and *)
(* its alias in the batch (eight random letters, taken to be distinct).    *)
(* Queries parse: they are the generated ones.  QueryBuilder says what the *)
(* document of a batch is.                                                 *)
(***************************************************************************)
EXTENDS Naturals, FiniteSets, QueryBuilder

CONSTANTS
    BatchSizes  \* the batch sizes reconfigure may set

ASSUME QueryBatchAssumption == BatchSizes # {} /\ BatchSizes \subseteq Nat \ {0}

VARIABLES
    batchSize,  \* c.batchSize
    queue,      \* c.queue: the subscribers of each batch, oldest first
    builders,   \* and the queryBuilder of each
    requests,   \* the goroutines of the flushed batches
    respC,      \* the response channel of a subscription, of capacity 1
    caller,     \* where the call of MakeRequest is
    joined,     \* history: the queries in the order they were enqueued
    sends,      \* history: how many answers were sent to a query
    failed      \* history: the queries whose request failed without an error of their own

vars == <<batchSize, queue, builders, requests, respC, caller, joined, sends, failed>>
history == <<joined, sends, failed>>

Answers == {"data", "none", "error"}

(***************************************************************************)
(* A request goroutine: its batch, what is left of it to answer, and what  *)
(* the response holds: the paths with an error of their own, whether there *)
(* is any other error, and the fields that have data.                      *)
(***************************************************************************)
Request == [left : SUBSET Query, pc : {"waiting", "errors", "all", "data"},
            errors : SUBSET Query, data : SUBSET Query]

Init ==
    /\ batchSize \in BatchSizes
    /\ queue = <<>>
    /\ builders = <<>>
    /\ requests = {}
    /\ respC = [q \in Query |-> <<>>]
    /\ caller = [q \in Query |-> "new"]
    /\ joined = <<>>
    /\ sends = [q \in Query |-> 0]
    /\ failed = {}

Youngest == queue[Len(queue)]

BadFirstFit ==
    LET fits == {i \in DOMAIN queue : Cardinality(queue[i]) < batchSize}
    IN  IF fits = {} THEN Len(queue) + 1 ELSE CHOOSE i \in fits : \A j \in fits : i <= j

\* The youngest batch unless it is full, otherwise a new one.
Open ==
    IF queue = <<>> \/ Cardinality(Youngest) >= batchSize THEN Len(queue) + 1 ELSE Len(queue)

\* batch.subscribers[id] = ...
Joining(q) ==
    IF Open > Len(queue) THEN Append(queue, {q})
    ELSE [queue EXCEPT ![Open] = @ \union {q}]

\* batch.qb.add(req.Query, vars), of a builder that has nothing yet if the batch is new
Building(q) ==
    IF Open > Len(queue) THEN Append(builders, add(EmptyBuilder, q))
    ELSE [builders EXCEPT ![Open] = add(@, q)]

enqueue(q) ==
    /\ caller[q] = "new"
    /\ queue' = Joining(q)
    /\ builders' = Building(q)
    /\ caller' = [caller EXCEPT ![q] = "waiting"]
    /\ joined' = Append(joined, q)
    /\ UNCHANGED <<batchSize, requests, respC, sends, failed>>

\* MakeRequest receives its answer; nothing else ends its wait, not even its context.
Receive(q) ==
    /\ caller[q] = "waiting"
    /\ respC[q] # <<>>
    /\ respC' = [respC EXCEPT ![q] = Tail(@)]
    /\ caller' = [caller EXCEPT ![q] = Head(respC[q])]
    /\ UNCHANGED <<batchSize, queue, builders, requests, history>>

BadFlushKeepsBatch ==
    /\ queue # <<>>
    /\ requests' = requests \union {[left |-> Head(queue), pc |-> "waiting",
                                     errors |-> {}, data |-> {}]}
    /\ queue' = IF Cardinality(Head(queue)) < batchSize THEN queue ELSE Tail(queue)
    /\ builders' = IF Cardinality(Head(queue)) < batchSize THEN builders ELSE Tail(builders)
    /\ UNCHANGED <<batchSize, respC, caller, history>>

BadFlushDropsBatch ==
    /\ queue # <<>>
    /\ requests' = IF Cardinality(requests) > 0 THEN requests
                   ELSE {[left |-> Head(queue), pc |-> "waiting", errors |-> {}, data |-> {}]}
    /\ queue' = Tail(queue)
    /\ builders' = Tail(builders)
    /\ UNCHANGED <<batchSize, respC, caller, history>>

\* The flusher takes the oldest batch and starts its request.
flush ==
    /\ queue # <<>>
    /\ queue' = Tail(queue)
    /\ builders' = Tail(builders)
    /\ requests' = requests \union {[left |-> Head(queue), pc |-> "waiting",
                                     errors |-> {}, data |-> {}]}
    /\ UNCHANGED <<batchSize, respC, caller, history>>

Step(r, next) == requests' = (requests \ {r}) \union {next}

(***************************************************************************)
(* The request returns.  Either the response lists errors, some with the   *)
(* path of a query of the batch and some possibly with another path or     *)
(* none, and only those with a query's path matter from here on; or it     *)
(* failed without a response, or timed out; or it succeeded.  A query with *)
(* an error has no data, and when the request as a whole is refused none   *)
(* of them has.                                                            *)
(***************************************************************************)
Respond(r) ==
    /\ r.pc = "waiting"
    /\ \/ \E errors \in SUBSET r.left, refused \in BOOLEAN :
            /\ errors # {} \/ refused
            /\ Step(r, [r EXCEPT !.pc = "errors", !.errors = errors,
                                 !.data = IF refused THEN {} ELSE r.left \ errors])
            /\ failed' = IF refused THEN failed \union (r.left \ errors) ELSE failed
       \/ /\ Step(r, [r EXCEPT !.pc = "all"])
          /\ failed' = failed \union r.left
       \/ /\ Step(r, [r EXCEPT !.pc = "data", !.data = r.left])
          /\ UNCHANGED failed
    /\ UNCHANGED <<batchSize, queue, builders, respC, caller, joined, sends>>

\* sub.respC <- answer, which waits for room in the channel.
Send(q, answer) ==
    /\ Len(respC[q]) < 1
    /\ respC' = [respC EXCEPT ![q] = Append(@, answer)]
    /\ sends' = [sends EXCEPT ![q] = @ + 1]

BadAnswerError(r) ==
    /\ r.pc = "errors"
    /\ \E q \in r.errors :
         /\ Send(q, "error")
         /\ Step(r, [r EXCEPT !.errors = @ \ {q}])
    /\ UNCHANGED <<batchSize, queue, builders, caller, joined, failed>>

\* for _, e := range resp.Errors: an error goes to its query, which is then done with.
AnswerError(r) ==
    /\ r.pc = "errors"
    /\ \E q \in r.errors :
         /\ Send(q, "error")
         /\ Step(r, [r EXCEPT !.errors = @ \ {q}, !.left = @ \ {q}])
    /\ UNCHANGED <<batchSize, queue, builders, caller, joined, failed>>

ErrorsAnswered(r) ==
    /\ r.pc = "errors"
    /\ r.errors = {}
    /\ Step(r, [r EXCEPT !.pc = "data"])
    /\ UNCHANGED <<batchSize, queue, builders, respC, caller, history>>

\* else if err != nil: everybody gets the error.
AnswerAll(r) ==
    /\ r.pc = "all"
    /\ \E q \in r.left :
         /\ Send(q, "error")
         /\ Step(r, [r EXCEPT !.left = @ \ {q}])
    /\ UNCHANGED <<batchSize, queue, builders, caller, joined, failed>>

\* The remaining subscribers get their field, whether the response has it or not.
AnswerData(r) ==
    /\ r.pc = "data"
    /\ \E q \in r.left :
         /\ Send(q, IF q \in r.data THEN "data" ELSE "none")
         /\ Step(r, [r EXCEPT !.left = @ \ {q}])
    /\ UNCHANGED <<batchSize, queue, builders, caller, joined, failed>>

\* The goroutine ends.
Finish(r) ==
    /\ r.pc \in {"all", "data"}
    /\ r.left = {}
    /\ requests' = requests \ {r}
    /\ UNCHANGED <<batchSize, queue, builders, respC, caller, history>>

Serve(r) == \/ Respond(r) \/ AnswerError(r) \/ ErrorsAnswered(r)
            \/ AnswerAll(r) \/ AnswerData(r) \/ Finish(r)

BadReconfigure ==
    /\ \E n \in (BatchSizes \union {0}) \ {batchSize} : batchSize' = n
    /\ UNCHANGED <<queue, builders, requests, respC, caller, history>>

\* A size that is not positive is ignored.
reconfigure ==
    /\ \E n \in BatchSizes \ {batchSize} : batchSize' = n
    /\ UNCHANGED <<queue, builders, requests, respC, caller, history>>

Next ==
    \/ \E q \in Query : enqueue(q) \/ Receive(q)
    \/ flush
    \/ \E r \in requests : Serve(r)
    \/ reconfigure

Spec == Init /\ [][Next]_vars

(***************************************************************************)
(* The flusher flushes again and again, a request ends within its minute,  *)
(* and goroutines that can run do.                                         *)
(***************************************************************************)
Fairness ==
    /\ WF_vars(flush)
    /\ WF_vars(\E r \in requests : Serve(r))
    /\ \A q \in Query : WF_vars(Receive(q))

FairSpec == Spec /\ Fairness

(***************************************************************************)
(* Properties.                                                             *)
(***************************************************************************)
TypeOK ==
    /\ batchSize \in BatchSizes
    /\ queue \in Seq(SUBSET Query)
    /\ builders \in Seq(Builder) /\ Len(builders) = Len(queue)
    /\ requests \subseteq Request
    /\ respC \in [Query -> Seq(Answers)]
    /\ caller \in [Query -> {"new", "waiting"} \union Answers]
    /\ joined \in Seq(Query)
    /\ sends \in [Query -> Nat]
    /\ failed \subseteq Query

Queued == UNION {queue[i] : i \in DOMAIN queue}
InFlight == UNION {r.left : r \in requests}

\* A query that waits has exactly one place its answer can come from: one queued
\* batch, one request, or its channel.  A query that does not wait has none, so no
\* goroutine is left sending to a caller that is gone.
OnePlace ==
    /\ \A i, j \in DOMAIN queue : i # j => queue[i] \intersect queue[j] = {}
    /\ \A r, s \in requests : r # s => r.left \intersect s.left = {}
    /\ \A q \in Query :
         LET places == <<q \in Queued, q \in InFlight, respC[q] # <<>> >>
         IN  IF caller[q] = "waiting"
             THEN Cardinality({i \in 1..3 : places[i]}) = 1
             ELSE \A i \in 1..3 : ~places[i]

\* A query is answered once: never by its own error and again with the batch.
AnsweredOnce == \A q \in Query : sends[q] <= 1

\* Batches never hold more queries than the largest size configured.
BatchBounded ==
    \A i \in DOMAIN queue :
      /\ queue[i] # {}
      /\ \E n \in BatchSizes : Cardinality(queue[i]) <= n

\* Queries leave in the order they came, a batch at a time, also when a change of
\* the batch size makes room in older batches.
Position(q) == CHOOSE i \in DOMAIN joined : joined[i] = q

OldestFirst ==
    \A i, j \in DOMAIN queue : i < j =>
      \A p \in queue[i], q \in queue[j] : Position(p) < Position(q)

\* Whenever the batch size is changed, no batch outgrows what upstream accepts and no query
\* overtakes another.
BatchesOK == BatchBounded /\ OldestFirst

\* In the document of a batch every query has one selection, under its alias, that asks for
\* its own field with its own variables, whoever joined before it or after; nothing is
\* defined that no query uses, and no fragment is missing.
EachItsOwn ==
    \A i \in DOMAIN queue :
        LET qb == builders[i] IN
        /\ Len(qb.selections) = Cardinality(queue[i])
        /\ \A q \in queue[i] : \E s \in DOMAIN qb.selections :
               /\ qb.selections[s].alias = q
               /\ Evaluated(qb, qb.selections[s]) = [field |-> Document[q].field,
                                                     vars |-> Document[q].vars]
        /\ qb.definitions = DOMAIN qb.vars
        /\ qb.fragments = UNION {Document[q].fragments : q \in queue[i]}

\* "For everything else return the status code to all our subscribers": a query whose
\* request failed, and that had no error of its own, is told so.
FailureReachesAll == \A q \in failed : caller[q] \in {"waiting", "error"}

\* Every call of MakeRequest returns.
EventuallyAnswered ==
    \A q \in Query : caller[q] = "waiting" ~> caller[q] \in Answers
=============================================================================
