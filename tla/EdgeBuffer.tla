----------------------------- MODULE EdgeBuffer -----------------------------
(***************************************************************************)
(* internal/buffer.go: the accumulate goroutine and its edgebuf, with the  *)
(* denormalization loop of Controller.Run at the receiving end.            *)
(*                                                                         *)
(* accumulate owns the buffer.  It peeks at the oldest edge, then selects  *)
(* between receiving from its producers (and pushing what it got) and      *)
(* sending the peeked edge to the loop (and popping it).  Receiving and    *)
(* pushing, and sending and popping, are separate steps: the other side of *)
(* the channel is free to run in between.                                  *)
(*                                                                         *)
(* edgebuf keeps queued edges behind pointers, one shared by the queue and *)
(* the index of its kind, so a merge through the index changes the queued  *)
(* edge.  heap maps a pointer to its edge.                                 *)
(***************************************************************************)
EXTENDS Integers, Sequences, FiniteSets, Functions, EdgeLists

CONSTANTS
    Parents,    \* author and work IDs
    Children,   \* work and edition IDs
    Addr,       \* the pointers edges can be allocated at
    Nil,        \* the nil pointer: an ID an index map does not hold
    NoEdge      \* no edge: nothing peeked, nothing received, loop idle

\* IDs are 64-bit, so there are finitely many.
ASSUME ConstantsAssumption ==
    /\ IsFiniteSet(Children)
    /\ Nil \notin Addr
    /\ NoEdge \notin [kind : {"authorEdge", "workEdge", "refreshDone"},
                      parentID : Parents, childIDs : SUBSET Children]

VARIABLES
    queue,      \* b.queue
    heap,       \* the edges b.queue and the indexes point to
    authors,    \* b.authors, the queued authorEdge of a parent
    works,      \* b.works, the queued workEdge of a parent
    size,       \* b.size
    pc,         \* where accumulate's goroutine is in its loop
    next,       \* accumulate: the edge it peeked
    val,        \* accumulate: the edge it received
    closing,    \* the producer channel is closed
    handling    \* Run: the edge the loop is handling

bufVars == <<queue, heap, authors, works, size>>
vars == <<queue, heap, authors, works, size, pc, next, val, closing, handling>>

Kinds == {"authorEdge", "workEdge", "refreshDone"}
Edge == [kind : Kinds, parentID : Parents, childIDs : SUBSET Children]

(***************************************************************************)
(* The edges the controller sends: an authorEdge names at least one work,  *)
(* a workEdge may name no edition (getWork with no cached editions), and a *)
(* refreshDone has no children.                                            *)
(***************************************************************************)
SentEdge == {e \in Edge : /\ e.kind = "authorEdge" => e.childIDs # {}
                          /\ e.kind = "refreshDone" => e.childIDs = {}}

Init ==
    /\ queue = <<>>
    /\ heap = [a \in Addr |-> NoEdge]
    /\ authors = [p \in Parents |-> Nil]
    /\ works = [p \in Parents |-> Nil]
    /\ size = 0
    /\ pc = "peek"
    /\ next = NoEdge
    /\ val = NoEdge
    /\ closing = FALSE
    /\ handling = NoEdge

\* The index a push or pop of e consults; refreshDone has none.
Existing(e) == CASE e.kind = "authorEdge" -> authors[e.parentID]
                 [] e.kind = "workEdge" -> works[e.parentID]
                 [] OTHER -> Nil

SetIndex(e, a) ==
    /\ authors' = IF e.kind = "authorEdge" THEN [authors EXCEPT ![e.parentID] = a] ELSE authors
    /\ works' = IF e.kind = "workEdge" THEN [works EXCEPT ![e.parentID] = a] ELSE works

\* The alternatives named Bad... are wrong versions of the definition that follows
\* them; no specification uses them, they show that the properties can fail.
BadMergeCountsTwice(e) ==
    LET a == Existing(e)
    IN  /\ a # Nil
        /\ heap' = [heap EXCEPT ![a].childIDs = @ \union e.childIDs]
        /\ size' = size + Cardinality(e.childIDs)
        /\ UNCHANGED <<queue, authors, works>>

BadMergeReplaces(e) ==
    LET a == Existing(e)
    IN  /\ a # Nil
        /\ heap' = [heap EXCEPT ![a].childIDs = e.childIDs]
        /\ size' = size + Cardinality(e.childIDs) - Cardinality(heap[a].childIDs)
        /\ UNCHANGED <<queue, authors, works>>

\* push, when an edge of the same kind and parent is queued: unite the children.
Merge(e) ==
    LET a == Existing(e)
        combined == heap[a].childIDs \union e.childIDs
    IN  /\ a # Nil
        /\ heap' = [heap EXCEPT ![a].childIDs = combined]
        /\ size' = size + Cardinality(combined) - Cardinality(heap[a].childIDs)
        /\ UNCHANGED <<queue, authors, works>>

BadEnqueueInFront(e) ==
    /\ Existing(e) = Nil
    /\ \E a \in {b \in Addr : heap[b] = NoEdge} :
         /\ heap' = [heap EXCEPT ![a] = e]
         /\ queue' = <<a>> \o queue
         /\ SetIndex(e, a)
    /\ size' = size + Cardinality(e.childIDs)

\* push, otherwise: a new pointer at the end of the queue and in its index.
Enqueue(e) ==
    /\ Existing(e) = Nil
    /\ \E a \in {b \in Addr : heap[b] = NoEdge} :
         /\ heap' = [heap EXCEPT ![a] = e]
         /\ queue' = Append(queue, a)
         /\ SetIndex(e, a)
    /\ size' = size + Cardinality(e.childIDs)

push(e) == Merge(e) \/ Enqueue(e)

BadPopKeepsIndex ==
    LET a == Head(queue)
    IN  /\ queue # <<>>
        /\ queue' = Tail(queue)
        /\ heap' = [heap EXCEPT ![a] = NoEdge]
        /\ size' = size - Cardinality(heap[a].childIDs)
        /\ UNCHANGED <<authors, works>>

\* pop: drop the oldest edge and its index entry.
pop ==
    LET a == Head(queue)
        e == heap[a]
    IN  /\ queue # <<>>
        /\ queue' = Tail(queue)
        /\ heap' = [heap EXCEPT ![a] = NoEdge]
        /\ SetIndex(e, Nil)
        /\ size' = size - Cardinality(e.childIDs)

BadPeekReturnsPointer == IF queue = <<>> THEN NoEdge ELSE Head(queue)

peek == IF queue = <<>> THEN NoEdge ELSE heap[Head(queue)]

(***************************************************************************)
(* The accumulate goroutine.                                               *)
(***************************************************************************)
Peek ==
    /\ pc = "peek"
    /\ next' = peek
    /\ pc' = "select"
    /\ UNCHANGED <<bufVars, val, closing, handling>>

\* case val, ok := <-producer.  The guard on heap is the bound on the buffer,
\* which the code does not have: there is a pointer for one more edge.
Receive(e) ==
    /\ pc = "select"
    /\ ~closing
    /\ \E a \in Addr : heap[a] = NoEdge
    /\ val' = e
    /\ pc' = "push"
    /\ UNCHANGED <<bufVars, next, closing, handling>>

BadPushKeepsPeeked ==
    /\ pc = "push"
    /\ push(val)
    /\ val' = NoEdge
    /\ pc' = IF next = NoEdge THEN "peek" ELSE "select"
    /\ UNCHANGED <<next, closing, handling>>

Push ==
    /\ pc = "push"
    /\ push(val)
    /\ val' = NoEdge
    /\ next' = NoEdge
    /\ pc' = "peek"
    /\ UNCHANGED <<closing, handling>>

\* case consumer <- next, with the loop waiting in its range statement.
Send ==
    /\ pc = "select"
    /\ next # NoEdge
    /\ handling = NoEdge
    /\ handling' = next
    /\ pc' = "pop"
    /\ UNCHANGED <<bufVars, next, val, closing>>

Pop ==
    /\ pc = "pop"
    /\ pop
    /\ next' = NoEdge
    /\ pc' = "peek"
    /\ UNCHANGED <<val, closing, handling>>

\* The producer is closed (the controller never does, the tests do): close the output and forget what is buffered.
Stop ==
    /\ pc = "select"
    /\ closing
    /\ next' = NoEdge
    /\ pc' = "stopped"
    /\ UNCHANGED <<bufVars, val, closing, handling>>

(***************************************************************************)
(* The other goroutines.                                                   *)
(***************************************************************************)
CloseProducer ==
    /\ ~closing
    /\ closing' = TRUE
    /\ UNCHANGED <<bufVars, pc, next, val, handling>>

\* The loop's body, whatever it does, is over.
Handled ==
    /\ handling # NoEdge
    /\ handling' = NoEdge
    /\ UNCHANGED <<bufVars, pc, next, val, closing>>

Accumulate == Peek \/ Push \/ Pop \/ Stop

Next ==
    \/ Accumulate
    \/ \E e \in SentEdge : Receive(e)
    \/ Send
    \/ CloseProducer
    \/ Handled

Spec == Init /\ [][Next]_vars

(***************************************************************************)
(* The goroutines are scheduled fairly and the loop's body ends (it runs   *)
(* under a one-minute context).  Go's select picks among its ready cases   *)
(* at random, so a send that is ready again and again is taken: strong     *)
(* fairness.  Nothing obliges a producer to produce.                       *)
(***************************************************************************)
Fairness == WF_vars(Accumulate) /\ SF_vars(Send) /\ WF_vars(Handled)

FairSpec == Spec /\ Fairness

(***************************************************************************)
(* Properties.                                                             *)
(***************************************************************************)

\* Every variable has its type: what accumulate peeks and receives, and what the
\* loop gets, is an edge by value, never one of the buffer's pointers.
TypeOK ==
    /\ queue \in Seq(Addr)
    /\ heap \in [Addr -> Edge \union {NoEdge}]
    /\ authors \in [Parents -> Addr \union {Nil}]
    /\ works \in [Parents -> Addr \union {Nil}]
    /\ size \in Int
    /\ pc \in {"peek", "select", "push", "pop", "stopped"}
    /\ next \in Edge \union {NoEdge}
    /\ val \in Edge \union {NoEdge}
    /\ closing \in BOOLEAN
    /\ handling \in Edge \union {NoEdge}

\* The queue holds each live pointer once, and only live ones.
QueueOK ==
    /\ \A i, j \in DOMAIN queue : queue[i] = queue[j] => i = j
    /\ \A a \in Addr : heap[a] # NoEdge <=> \E i \in DOMAIN queue : queue[i] = a

\* The indexes hold exactly the queued edges of their kind, so a relationship
\* pushed for a queued parent always finds that edge to merge with, and never one
\* that is already on its way to the loop (push, pop: the two maps and the queue
\* must move together).
IndexOK ==
    /\ \A p \in Parents : \A a \in Addr :
         authors[p] = a <=> /\ heap[a] # NoEdge
                            /\ heap[a].kind = "authorEdge"
                            /\ heap[a].parentID = p
    /\ \A p \in Parents : \A a \in Addr :
         works[p] = a <=> /\ heap[a] # NoEdge
                          /\ heap[a].kind = "workEdge"
                          /\ heap[a].parentID = p

\* The edge accumulate is about to send, or has just sent, is the whole oldest
\* edge of the buffer: nothing was merged into it after the goroutine peeked, and
\* pop removes the edge that was sent.
PeekedOK ==
    /\ pc = "select" => next = peek
    /\ pc = "pop" => next = peek /\ queue # <<>>
    /\ pc = "push" => val # NoEdge

\* Queue, indexes and the edge that was peeked agree with one another.
BufferOK == QueueOK /\ IndexOK /\ PeekedOK

\* len() is the number of children waiting in the queue (the denormWaiting gauge): adding
\* them up edge by edge ends at size.
SizeOK ==
    \E total \in [0..Len(queue) -> 0..size] :
        /\ total[0] = 0
        /\ \A i \in 1..Len(queue) :
              total[i] = total[i - 1] + Cardinality(heap[queue[i]].childIDs)
        /\ total[Len(queue)] = size

(***************************************************************************)
(* The buffer implements EdgeQueue and PendingEdges.  contents is the      *)
(* queue as both see it: an edge that was sent has left it although it is  *)
(* not popped yet, one that was received is in it although it is not       *)
(* pushed.                                                                 *)
(***************************************************************************)
queued == [i \in DOMAIN queue |-> heap[queue[i]]]

contents ==
    CASE pc = "stopped" -> <<>>
      [] pc = "pop" -> Tail(queued)
      [] pc = "push" -> Accepted(queued, val)
      [] OTHER -> queued

Queue == INSTANCE EdgeQueue WITH
    edges <- contents,
    handling <- handling,
    closed <- pc = "stopped"

\* The loop is given whole edges in the order in which their parents were first pushed,
\* each the next when it is done with the last, as if receiving and pushing, and sending
\* and popping, were one step each: what AuthorRefresh takes the buffer for.
KeepsOrder == Queue!Spec

Key(e) == <<e.kind, e.parentID>>

KeysBefore(edges, n) == {Key(edges[i]) : i \in {j \in DOMAIN edges : j < n /\ ~IsFence(edges[j])}}

EdgeWithKey(edges, key) == CHOOSE e \in Range(edges) : Key(e) = key

PendingOf(edges) ==
    [key \in KeysBefore(edges, Len(edges) + 1) |-> EdgeWithKey(edges, key).childIDs]

\* How many of the first n edges are marks, and where the m-th mark is.
Fences(edges, n) == Cardinality({i \in 1..n : IsFence(edges[i])})

FencePosition(edges, m) ==
    CHOOSE i \in DOMAIN edges : IsFence(edges[i]) /\ Fences(edges, i) = m

FencesOf(edges) ==
    [m \in 1..Fences(edges, Len(edges)) |->
        [parentID |-> edges[FencePosition(edges, m)].parentID,
         before |-> KeysBefore(edges, FencePosition(edges, m))]]

Promise == INSTANCE PendingEdges WITH
    pending <- PendingOf(contents),
    fences <- FencesOf(contents),
    handling <- handling,
    closed <- pc = "stopped"

\* No relationship is lost, invented or delivered piecemeal, and a refreshDone
\* never overtakes a relationship accepted before it, whatever the interleaving
\* of producers, accumulate and the loop.
KeepsPromise == Promise!Spec

\* An edge the buffer took reaches the loop, however many others keep arriving,
\* unless the producer is closed.
EventuallyHandled ==
    \A e \in SentEdge :
      (pc = "push" /\ val = e)
        ~> \/ /\ handling # NoEdge
              /\ SameKey(handling, e)
              /\ e.childIDs \subseteq handling.childIDs
           \/ closing
=============================================================================
