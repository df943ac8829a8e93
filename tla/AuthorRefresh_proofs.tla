------------------------ MODULE AuthorRefresh_proofs ------------------------
(***************************************************************************)
(* Proofs about AuthorRefresh, for any authors, works and worker slots.    *)
(*                                                                         *)
(* TypeOK is not inductive: that a flight persists bytes rests on a fresh  *)
(* cache entry having some, and that the loop merges into bytes on flights *)
(* returning some.  TypeInv is TypeOK, taken apart by the variables the    *)
(* steps change together, with what the records and queues of the pipeline *)
(* hold at each of its stages.  It is inductive, and with it so are        *)
(* MarkedIsNotFetched, MarkIsHandled, RefreshWaitingOK and                 *)
(* WorksBeforeDone.                                                        *)
(***************************************************************************)
EXTENDS AuthorRefresh, SequenceTheorems, FiniteSetTheorems, TLAPS

FlightRec == [pc : {"idle", "readMark", "readAuthor", "fetch", "save", "persist", "send"},
              cached : Bytes]
WorkerRec == [pc : {"idle", "collect", "sendWorks", "sendDone"},
              id : Authors \union {Nil}, found : Content]
LoopRec == [pc : {"idle", "load", "wait", "merge", "done"}, edge : Edge \union {Nil},
            base : Bytes, retried : BOOLEAN]
CallerState == {"none", "forceExpire", "forceDelete", "forceGet", "expireMark",
                "getDeleted", "awaitDeleted", "deleteAuthor"}
Errors == {"none", "notFound", "failed", "throttled"}

CacheInv ==
    /\ author \in [Authors -> Bytes]
    /\ fresh \in [Authors -> BOOLEAN]
    /\ ra \in [Authors -> Bytes]
    /\ raExpired \in [Authors -> BOOLEAN]
    /\ \A a \in Authors : fresh[a] => author[a] # Nil

FlightInv ==
    /\ flight \in [Authors -> FlightRec]
    /\ \A a \in Authors : flight[a].pc \in {"persist", "send"} => flight[a].cached # Nil

CallerInv == caller \in [Authors -> CallerState]

PipelineInv ==
    /\ refreshQ \in Seq(Authors)
    /\ forwarding \in Authors \union {Nil}
    /\ worker \in [Slots -> WorkerRec]
    /\ \A s \in Slots : worker[s].pc # "idle" => worker[s].id \in Authors
    /\ denormQ \in Seq(Edge)
    /\ \A i \in DOMAIN denormQ :
         denormQ[i].kind = "refreshDone" => denormQ[i] = RefreshDone(denormQ[i].parentID)
    /\ refreshWaiting \in Int

LoopInv ==
    /\ loop \in LoopRec
    /\ loop.pc # "idle" => loop.edge \in Edge
    /\ loop.pc = "idle" => loop.edge = Nil
    /\ loop.pc = "done" => loop.edge = RefreshDone(loop.edge.parentID)
    /\ loop.pc = "merge" => loop.base # Nil

RecoveryInv == recovery \in {Nil} \union SUBSET Authors

HistoryInv ==
    /\ abandoned \in SUBSET Authors
    /\ panics \in Nat
    /\ ensured \in [Authors -> Content]
    /\ overlooked \in SUBSET Authors
    /\ owed \in [Authors -> Content]
    /\ events \in 0..MaxEvents

TypeInv == /\ CacheInv /\ FlightInv /\ CallerInv /\ PipelineInv
           /\ LoopInv /\ RecoveryInv /\ HistoryInv

(***************************************************************************)
(* Helpers.                                                                *)
(***************************************************************************)
\* Appending keeps what a queue holds where it is, and adds one element after it.
LEMMA AppendFacts ==
    ASSUME NEW S, NEW q \in Seq(S), NEW x \in S
    PROVE  /\ Append(q, x) \in Seq(S)
           /\ DOMAIN Append(q, x) = DOMAIN q \union {Len(q) + 1}
           /\ \A i \in DOMAIN q : Append(q, x)[i] = q[i]
           /\ Append(q, x)[Len(q) + 1] = x
  OBVIOUS

\* Taking the head off a queue shifts what is left by one.
LEMMA TailFacts ==
    ASSUME NEW S, NEW q \in Seq(S), q # <<>>
    PROVE  /\ Head(q) \in S
           /\ Head(q) = q[1]
           /\ Tail(q) \in Seq(S)
           /\ \A i \in DOMAIN Tail(q) : i + 1 \in DOMAIN q /\ Tail(q)[i] = q[i + 1]
           /\ \A i \in DOMAIN q : i # 1 => i - 1 \in DOMAIN Tail(q) /\ Tail(q)[i - 1] = q[i]
  OBVIOUS

\* edgebuf.push keeps every refreshDone that is queued, invents none, and queues the
\* one it is given (buffer.go, push: only edges of one kind and parent are merged).
LEMMA AcceptedFacts ==
    ASSUME NEW q \in Seq(Edge), NEW e \in Edge
    PROVE  /\ Accepted(q, e) \in Seq(Edge)
           /\ \A i \in DOMAIN q : q[i].kind = "refreshDone" =>
                i \in DOMAIN Accepted(q, e) /\ Accepted(q, e)[i] = q[i]
           /\ e.kind = "refreshDone" => \E i \in DOMAIN Accepted(q, e) : Accepted(q, e)[i] = e
           /\ \A i \in DOMAIN Accepted(q, e) : Accepted(q, e)[i].kind = "refreshDone" =>
                \/ i \in DOMAIN q /\ Accepted(q, e)[i] = q[i]
                \/ Accepted(q, e)[i] = e
<1> DEFINE same == {i \in DOMAIN q : ~IsFence(e) /\ SameKey(q[i], e)}
           merged == [i \in DOMAIN q |-> IF SameKey(q[i], e)
                                         THEN [q[i] EXCEPT !.childIDs = @ \union e.childIDs]
                                         ELSE q[i]]
<1>1. Accepted(q, e) = IF same = {} THEN Append(q, e) ELSE merged
  BY DEF Accepted
<1>2. CASE same = {}
  <2>1. Accepted(q, e) = Append(q, e)
    BY <1>1, <1>2
  <2> QED  BY <2>1, AppendFacts
<1>3. CASE same # {}
  <2>1. ~IsFence(e) /\ e.kind # "refreshDone"
    BY <1>3 DEF IsFence
  <2>2. \A i \in DOMAIN q : q[i] \in Edge
    OBVIOUS
  <2>3. \A i \in DOMAIN q : merged[i] \in Edge /\ merged[i].kind = q[i].kind
    BY <2>2 DEF Edge, Content
  <2>4. merged \in Seq(Edge)
    <3>1. Len(q) \in Nat /\ DOMAIN q = 1..Len(q)
      OBVIOUS
    <3>2. DOMAIN merged = 1..Len(q)
      BY <3>1
    <3>3. merged \in [1..Len(q) -> Edge]
      BY <2>3, <3>1
    <3> HIDE DEF merged
    <3> QED  BY <3>1, <3>2, <3>3
  <2>5. \A i \in DOMAIN q : q[i].kind = "refreshDone" => merged[i] = q[i]
    BY <2>1 DEF SameKey
  <2>6. DOMAIN merged = DOMAIN q
    OBVIOUS
  <2> HIDE DEF merged, same
  <2> QED  BY <1>1, <1>3, <2>1, <2>3, <2>4, <2>5, <2>6
<1> QED  BY <1>2, <1>3

\* A step leaves alone what the variables it does not change are responsible for.
LEMMA Frame ==
    /\ CacheInv /\ UNCHANGED cacheVars => CacheInv'
    /\ FlightInv /\ UNCHANGED flight => FlightInv'
    /\ CallerInv /\ UNCHANGED caller => CallerInv'
    /\ PipelineInv /\ UNCHANGED pipeline => PipelineInv'
    /\ LoopInv /\ UNCHANGED loop => LoopInv'
    /\ RecoveryInv /\ UNCHANGED recovery => RecoveryInv'
    /\ HistoryInv /\ UNCHANGED <<history, events>> => HistoryInv'
<1>1. CacheInv /\ UNCHANGED cacheVars => CacheInv'
  BY DEF CacheInv, cacheVars
<1>2. FlightInv /\ UNCHANGED flight => FlightInv'
  BY DEF FlightInv
<1>3. CallerInv /\ UNCHANGED caller => CallerInv'
  BY DEF CallerInv
<1>4. PipelineInv /\ UNCHANGED pipeline => PipelineInv'
  BY DEF PipelineInv, pipeline
<1>5. LoopInv /\ UNCHANGED loop => LoopInv'
  BY DEF LoopInv
<1>6. RecoveryInv /\ UNCHANGED recovery => RecoveryInv'
  BY DEF RecoveryInv
<1>7. HistoryInv /\ UNCHANGED <<history, events>> => HistoryInv'
  BY DEF HistoryInv, history
<1> QED  BY <1>1, <1>2, <1>3, <1>4, <1>5, <1>6, <1>7

\* The types of the two kinds of edge the refresh sends.
LEMMA EdgeTypes ==
    ASSUME NEW a \in Authors
    PROVE  /\ RefreshDone(a) \in Edge
           /\ RefreshDone(a).kind = "refreshDone"
           /\ RefreshDone(a).parentID = a
           /\ \A ws \in Content : /\ AuthorEdge(a, ws) \in Edge
                                  /\ AuthorEdge(a, ws).kind = "authorEdge"
  BY DEF RefreshDone, AuthorEdge, Edge, Content

\* denormQ stays a queue of edges whose refreshDones have no children.
LEMMA AcceptedType ==
    ASSUME PipelineInv, NEW e \in Edge,
           e.kind = "refreshDone" => e = RefreshDone(e.parentID),
           denormQ' = Accepted(denormQ, e)
    PROVE  /\ denormQ' \in Seq(Edge)
           /\ \A i \in DOMAIN denormQ' :
                denormQ'[i].kind = "refreshDone" => denormQ'[i] = RefreshDone(denormQ'[i].parentID)
<1> DEFINE q == Accepted(denormQ, e)
<1>1. denormQ \in Seq(Edge)
  BY DEF PipelineInv
<1>2. /\ q \in Seq(Edge)
      /\ \A i \in DOMAIN q : q[i].kind = "refreshDone" =>
           \/ i \in DOMAIN denormQ /\ q[i] = denormQ[i]
           \/ q[i] = e
  BY <1>1, AcceptedFacts
<1>3. denormQ' = q
  OBVIOUS
<1> HIDE DEF q
<1>4. ASSUME NEW i \in DOMAIN q, q[i].kind = "refreshDone"
      PROVE  q[i] = RefreshDone(q[i].parentID)
  <2>1. CASE i \in DOMAIN denormQ /\ q[i] = denormQ[i]
    BY <1>4, <2>1 DEF PipelineInv
  <2>2. CASE q[i] = e
    BY <1>4, <2>2
  <2> QED  BY <1>2, <1>4, <2>1, <2>2
<1> QED  BY <1>2, <1>3, <1>4

\* An outside event stays within its bound.
LEMMA EventFacts == HistoryInv /\ Event => events' \in 0..MaxEvents
  BY RefreshAssumption DEF HistoryInv, Event

\* A flight that is started, or joined, keeps its type.
LEMMA StartFlightFacts ==
    ASSUME FlightInv, NEW a \in Authors, StartFlight(a)
    PROVE  FlightInv'
<1>1. flight[a] \in FlightRec
  BY DEF FlightInv
<1>2. flight' = [flight EXCEPT ![a] = [flight[a] EXCEPT !.pc = IF @ = "idle" THEN "readMark" ELSE @]]
  BY DEF StartFlight
<1>3. [flight[a] EXCEPT !.pc = IF @ = "idle" THEN "readMark" ELSE @] \in FlightRec
  BY <1>1 DEF FlightRec
<1>4. flight'[a].cached = flight[a].cached /\ (flight'[a].pc \in {"persist", "send"} => flight'[a].pc = flight[a].pc)
  BY <1>1, <1>2 DEF FlightInv, FlightRec
<1> QED  BY <1>2, <1>3, <1>4 DEF FlightInv

\* A flight that goes past the mark keeps its type, and no other flight moves.
LEMMA PassMarkFacts ==
    ASSUME FlightInv, NEW a \in Authors, PassMark(a)
    PROVE  /\ FlightInv'
           /\ flight'[a].pc = "readAuthor"
           /\ \A b \in Authors : b # a => flight'[b] = flight[b]
<1>1. flight[a] \in FlightRec
  BY DEF FlightInv
<1> QED  BY <1>1 DEF PassMark, FlightInv, FlightRec

\* A flight that returns leaves itself, its callers and the loop in states they may be
\* in, and never takes the loop in or out of the handling of a refreshDone.
LEMMA ReturnFacts ==
    ASSUME TypeInv, NEW a \in Authors, NEW bytes \in Bytes, NEW error \in Errors,
           error = "none" => bytes # Nil,
           Return(a, bytes, error)
    PROVE  /\ FlightInv'
           /\ flight' = [flight EXCEPT ![a] = NoFlight]
           /\ CallerInv'
           /\ LoopInv'
           /\ loop.pc = "done" => loop' = loop
           /\ loop'.pc = "done" => loop' = loop
           /\ events' \in 0..MaxEvents
<1> USE DEF TypeInv
<1>1. /\ flight' = [flight EXCEPT ![a] = NoFlight]
      /\ FlightInv'
  <2>1. NoFlight \in FlightRec /\ NoFlight.pc = "idle"
    BY DEF NoFlight, FlightRec, Bytes
  <2> QED  BY <2>1 DEF Return, FlightInv
<1>2. CallerInv'
  BY DEF Return, CallerInv, CallerState
<1>3. events' \in 0..MaxEvents
  BY EventFacts DEF Return, HistoryInv
<1>4. /\ LoopInv'
      /\ loop.pc = "done" => loop' = loop
      /\ loop'.pc = "done" => loop' = loop
  <2>1. loop' = LoopAfter(a, bytes, error)
    BY DEF Return
  <2>2. CASE loop' = loop
    BY <2>2 DEF LoopInv
  <2>3. CASE loop.pc = "wait" /\ error = "none"
               /\ loop' = [loop EXCEPT !.pc = "merge", !.base = bytes]
    BY <2>3 DEF LoopInv, LoopRec
  <2>4. CASE loop.pc = "wait" /\ loop' = [loop EXCEPT !.pc = "load", !.retried = TRUE]
    BY <2>4 DEF LoopInv, LoopRec
  <2>5. CASE loop.pc = "wait" /\ loop' = IdleLoop
    BY <2>5 DEF LoopInv, LoopRec, IdleLoop, Bytes
  <2> QED  BY <2>1, <2>2, <2>3, <2>4, <2>5 DEF LoopAfter, LoopInv, LoopRec, Errors
<1> QED  BY <1>1, <1>2, <1>3, <1>4

\* The same for bytes read from the cache, the sentinel among them being a 404.
LEMMA ReturnCachedFacts ==
    ASSUME TypeInv, NEW a \in Authors, NEW bytes \in Bytes, bytes # Nil,
           ReturnCached(a, bytes)
    PROVE  /\ FlightInv'
           /\ flight' = [flight EXCEPT ![a] = NoFlight]
           /\ CallerInv'
           /\ LoopInv'
           /\ loop.pc = "done" => loop' = loop
           /\ loop'.pc = "done" => loop' = loop
           /\ events' \in 0..MaxEvents
<1>1. Nil \in Bytes
  BY DEF Bytes
<1>2. CASE bytes = Missing
  <2>1. Return(a, Nil, "notFound")
    BY <1>2 DEF ReturnCached
  <2> QED  BY <1>1, <2>1, ReturnFacts DEF Errors
<1>3. CASE bytes # Missing
  <2>1. Return(a, bytes, "none")
    BY <1>3 DEF ReturnCached
  <2> QED  BY <2>1, ReturnFacts DEF Errors
<1> QED  BY <1>2, <1>3

(***************************************************************************)
(* TypeInv is inductive, and implies TypeOK.                               *)
(***************************************************************************)
\* TypeInv says all that TypeOK does.
LEMMA TypeInvIsTypeOK == TypeInv => TypeOK
  BY DEF TypeInv, CacheInv, FlightInv, CallerInv, PipelineInv, LoopInv, RecoveryInv,
         HistoryInv, FlightRec, CallerState, WorkerRec, LoopRec, TypeOK

\* The process starts with nothing cached and nothing going on.
LEMMA InitType == Init => TypeInv
<1> SUFFICES ASSUME Init PROVE TypeInv
  OBVIOUS
<1> USE RefreshAssumption DEF Init
<1>1. CacheInv
  BY DEF CacheInv, Bytes
<1>2. FlightInv
  BY DEF FlightInv, NoFlight, FlightRec, Bytes
<1>3. CallerInv /\ RecoveryInv /\ HistoryInv
  BY DEF CallerInv, CallerState, RecoveryInv, HistoryInv, Content
<1>4. PipelineInv
  <2>1. <<>> \in Seq(Authors) /\ <<>> \in Seq(Edge) /\ DOMAIN <<>> = {}
    OBVIOUS
  <2>2. worker \in [Slots -> WorkerRec] /\ \A s \in Slots : worker[s].pc = "idle"
    BY DEF IdleWorker, WorkerRec, Content
  <2> QED  BY <2>1, <2>2 DEF PipelineInv
<1>5. LoopInv
  BY DEF LoopInv, IdleLoop, LoopRec, Bytes
<1> QED  BY <1>1, <1>2, <1>3, <1>4, <1>5 DEF TypeInv

\* GetAuthor's steps (controller.go, getAuthor) keep TypeInv.
LEMMA GetAuthorType ==
    ASSUME TypeInv, NEW a \in Authors, GetAuthor(a)
    PROVE  TypeInv'
<1> USE DEF TypeInv
<1>1. FirstWork \in Works /\ {FirstWork} \in Bytes /\ {FirstWork} # Nil /\ Nil \in Bytes
  BY RefreshAssumption DEF Bytes, Content
<1>2. ra[a] \in Bytes /\ author[a] \in Bytes /\ flight[a] \in FlightRec
  BY DEF CacheInv, FlightInv
<1>3. CASE ReadMark(a)
  <2>1. UNCHANGED <<cacheVars, pipeline, recovery, abandoned, panics, ensured, owed>>
    BY <1>3 DEF ReadMark
  <2>2. CASE ra[a] # Nil /\ ReturnCached(a, ra[a]) /\ UNCHANGED overlooked
    BY <1>2, <2>1, <2>2, ReturnCachedFacts, Frame DEF HistoryInv
  <2>3. CASE PassMark(a) /\ overlooked' = overlooked \ {a} /\ UNCHANGED <<caller, loop, events>>
    <3>1. FlightInv'
      BY <2>3, PassMarkFacts
    <3>2. HistoryInv'
      BY <2>1, <2>3 DEF HistoryInv
    <3> QED  BY <2>1, <2>3, <3>1, <3>2, Frame
  <2> QED  BY <1>3, <2>2, <2>3 DEF ReadMark
<1>4. CASE ReadAuthor(a)
  <2>1. UNCHANGED <<cacheVars, pipeline, recovery, history>>
    BY <1>4 DEF ReadAuthor
  <2>2. CASE fresh[a] /\ ReturnCached(a, author[a])
    <3>1. author[a] # Nil
      BY <2>2 DEF CacheInv
    <3> QED  BY <1>2, <2>1, <2>2, <3>1, ReturnCachedFacts, Frame DEF HistoryInv, history
  <2>3. CASE /\ flight' = [flight EXCEPT ![a] = [pc |-> "fetch", cached |-> author[a]]]
             /\ UNCHANGED <<caller, loop, events>>
    <3>1. FlightInv'
      BY <1>2, <2>3 DEF FlightInv, FlightRec
    <3> QED  BY <2>1, <2>3, <3>1, Frame
  <2> QED  BY <1>4, <2>2, <2>3 DEF ReadAuthor
<1>5. CASE Fetched(a)
  <2>1. FlightInv'
    BY <1>2, <1>5 DEF Fetched, FlightInv, FlightRec
  <2> QED  BY <1>5, <2>1, Frame DEF Fetched
<1>6. CASE FetchedNotFound(a)
  <2>1. CacheInv'
    <3>1. Missing \in Bytes /\ Missing # Nil
      BY RefreshAssumption DEF Bytes
    <3> QED  BY <1>6, <3>1 DEF FetchedNotFound, CacheInv
  <2>2. FlightInv' /\ CallerInv' /\ LoopInv' /\ events' \in 0..MaxEvents
    BY <1>1, <1>6, ReturnFacts DEF FetchedNotFound, Errors
  <2> QED  BY <1>6, <2>1, <2>2, Frame DEF FetchedNotFound, HistoryInv, history
<1>7. CASE FetchFailed(a)
  <2>1. FlightInv' /\ CallerInv' /\ LoopInv' /\ events' \in 0..MaxEvents
    <3>1. PICK error \in {"failed", "throttled"} : Return(a, Nil, error)
      BY <1>7 DEF FetchFailed
    <3> QED  BY <1>1, <3>1, ReturnFacts DEF Errors
  <2> QED  BY <1>7, <2>1, Frame DEF FetchFailed, HistoryInv, history
<1>8. CASE Save(a)
  <2>1. CacheInv'
    BY <1>1, <1>8 DEF Save, CacheInv
  <2>2. FlightInv'
    BY <1>1, <1>2, <1>8 DEF Save, FlightInv, FlightRec
  <2> QED  BY <1>8, <2>1, <2>2, Frame DEF Save
<1>9. CASE Persist(a)
  <2>1. CacheInv'
    BY <1>2, <1>9 DEF Persist, CacheInv, FlightRec
  <2>2. FlightInv'
    BY <1>2, <1>9 DEF Persist, FlightInv, FlightRec
  <2>3. HistoryInv'
    BY <1>9 DEF Persist, HistoryInv
  <2> QED  BY <1>9, <2>1, <2>2, <2>3, Frame DEF Persist
<1>10. CASE SendRefresh(a)
  <2>1. FlightInv' /\ CallerInv' /\ LoopInv' /\ events' \in 0..MaxEvents
    <3>1. flight[a].cached \in Bytes /\ flight[a].cached # Nil
      BY <1>2, <1>10 DEF SendRefresh, FlightInv, FlightRec
    <3>2. Return(a, flight[a].cached, "none")
      BY <1>10 DEF SendRefresh
    <3> QED  BY <3>1, <3>2, ReturnFacts DEF Errors
  <2>2. PipelineInv'
    BY <1>10, AppendFacts DEF SendRefresh, PipelineInv
  <2> QED  BY <1>10, <2>1, <2>2, Frame DEF SendRefresh, HistoryInv, history
<1> QED  BY <1>3, <1>4, <1>5, <1>6, <1>7, <1>8, <1>9, <1>10 DEF GetAuthor

\* The forwarder's and the workers' steps (Run's forwarder, refreshAuthor) keep TypeInv.
LEMMA ForwardType ==
    ASSUME TypeInv, Forward
    PROVE  TypeInv'
<1> USE DEF TypeInv
<1>1. PipelineInv'
  <2>1. refreshQ \in Seq(Authors) /\ refreshQ # <<>>
    BY DEF Forward, PipelineInv
  <2>2. Head(refreshQ) \in Authors /\ Tail(refreshQ) \in Seq(Authors)
    BY <2>1, TailFacts
  <2> QED  BY <2>2 DEF Forward, PipelineInv
<1> QED  BY <1>1, Frame DEF Forward

\* The same of refreshG's slots and what refreshAuthor sends.
LEMMA WorkerType ==
    ASSUME TypeInv, NEW s \in Slots, StartRefresh(s) \/ Refresh(s) \/ Panic(s)
    PROVE  TypeInv'
<1> USE DEF TypeInv
<1>1. worker[s] \in WorkerRec /\ (worker[s].pc # "idle" => worker[s].id \in Authors)
  BY DEF PipelineInv
<1>2. IdleWorker \in WorkerRec /\ IdleWorker.pc = "idle"
  BY DEF IdleWorker, WorkerRec, Content
<1>3. CASE StartRefresh(s)
  <2>1. forwarding \in Authors
    BY <1>3 DEF StartRefresh, PipelineInv
  <2>2. PipelineInv'
    <3>1. [pc |-> "collect", id |-> forwarding, found |-> {}] \in WorkerRec
      BY <2>1 DEF WorkerRec, Content
    <3> QED  BY <1>3, <2>1, <3>1 DEF StartRefresh, PipelineInv
  <2>3. HistoryInv'
    BY <1>3, <2>1 DEF StartRefresh, HistoryInv, Content
  <2> QED  BY <1>3, <2>2, <2>3, Frame DEF StartRefresh
<1>4. CASE Collect(s)
  <2>1. PipelineInv'
    <3>1. PICK found \in SUBSET Works :
            worker' = [worker EXCEPT ![s].found = found,
                                     ![s].pc = IF found = {} THEN "sendDone" ELSE "sendWorks"]
      BY <1>4 DEF Collect
    <3>2. worker' \in [Slots -> WorkerRec] /\ worker'[s].id = worker[s].id
          /\ \A t \in Slots : t # s => worker'[t] = worker[t]
      BY <1>1, <3>1 DEF PipelineInv, WorkerRec, Content
    <3> QED  BY <1>1, <1>4, <3>2 DEF Collect, PipelineInv
  <2> QED  BY <1>4, <2>1, Frame DEF Collect
<1>5. CASE SendWorks(s)
  <2>1. worker[s].id \in Authors /\ worker[s].found \in Content
    BY <1>1, <1>5 DEF SendWorks, WorkerRec
  <2>2. /\ denormQ' \in Seq(Edge)
        /\ \A i \in DOMAIN denormQ' :
             denormQ'[i].kind = "refreshDone" => denormQ'[i] = RefreshDone(denormQ'[i].parentID)
    <3>1. denormQ' = Accepted(denormQ, AuthorEdge(worker[s].id, worker[s].found))
      BY <1>5 DEF SendWorks
    <3>2. AuthorEdge(worker[s].id, worker[s].found) \in Edge
          /\ AuthorEdge(worker[s].id, worker[s].found).kind = "authorEdge"
      BY <2>1, EdgeTypes
    <3> QED  BY <3>1, <3>2, AcceptedType
  <2>3. /\ worker' \in [Slots -> WorkerRec] /\ worker'[s].id = worker[s].id
        /\ \A t \in Slots : t # s => worker'[t] = worker[t]
    BY <1>1, <1>5 DEF SendWorks, PipelineInv, WorkerRec, Content
  <2>4. PipelineInv'
    BY <1>5, <2>1, <2>2, <2>3 DEF SendWorks, PipelineInv
  <2>5. HistoryInv'
    <3>1. owed[worker[s].id] \union worker[s].found \in Content
      BY <2>1 DEF HistoryInv, Content
    <3> QED  BY <1>5, <2>1, <3>1 DEF SendWorks, HistoryInv
  <2> QED  BY <1>5, <2>4, <2>5, Frame DEF SendWorks
<1>6. CASE SendDone(s)
  <2>1. worker[s].id \in Authors
    BY <1>1, <1>6 DEF SendDone
  <2>2. /\ denormQ' \in Seq(Edge)
        /\ \A i \in DOMAIN denormQ' :
             denormQ'[i].kind = "refreshDone" => denormQ'[i] = RefreshDone(denormQ'[i].parentID)
    <3>1. denormQ' = Accepted(denormQ, RefreshDone(worker[s].id))
      BY <1>6 DEF SendDone
    <3> QED  BY <2>1, <3>1, EdgeTypes, AcceptedType
  <2>3. PipelineInv'
    BY <1>2, <1>6, <2>2 DEF SendDone, PipelineInv
  <2> QED  BY <1>6, <2>3, Frame DEF SendDone
<1>7. CASE Panic(s)
  <2>1. PipelineInv'
    BY <1>2, <1>7 DEF Panic, PipelineInv
  <2>2. HistoryInv'
    BY <1>1, <1>7, EventFacts DEF Panic, Abandon, HistoryInv
  <2> QED  BY <1>7, <2>1, <2>2, Frame DEF Panic
<1> QED  BY <1>3, <1>4, <1>5, <1>6, <1>7 DEF Refresh

\* The denormalization loop's steps (Run, denormalizeWorks) keep TypeInv.
LEMMA LoopType ==
    ASSUME TypeInv, Denormalize \/ UnmarkFailed
    PROVE  TypeInv'
<1> USE DEF TypeInv
<1>1. IdleLoop \in LoopRec /\ IdleLoop.pc = "idle" /\ IdleLoop.edge = Nil
  BY DEF IdleLoop, LoopRec, Bytes
<1>2. \A e \in Edge : e.parentID \in Authors
  BY DEF Edge
<1>3. loop.pc # "idle" => loop.edge.parentID \in Authors
  BY <1>2 DEF LoopInv
<1>4. loop' = IdleLoop => LoopInv'
  BY <1>1 DEF LoopInv
<1>5. CASE Receive
  <2>1. denormQ \in Seq(Edge) /\ denormQ # <<>>
    BY <1>5 DEF Receive, PipelineInv
  <2>2. Head(denormQ) \in Edge /\ Tail(denormQ) \in Seq(Edge) /\ Head(denormQ) = denormQ[1]
    BY <2>1, TailFacts
  <2>3. PipelineInv'
    <3>1. \A i \in DOMAIN Tail(denormQ) : i + 1 \in DOMAIN denormQ /\ Tail(denormQ)[i] = denormQ[i + 1]
      BY <2>1, TailFacts
    <3> QED  BY <1>5, <2>2, <3>1 DEF Receive, PipelineInv
  <2>4. LoopInv'
    <3>1. loop' = [IdleLoop EXCEPT !.edge = Head(denormQ),
                     !.pc = IF Head(denormQ).kind = "authorEdge" THEN "load" ELSE "done"]
      BY <1>5 DEF Receive
    <3>2. Head(denormQ).kind \in {"authorEdge", "refreshDone"}
      BY <2>2 DEF Edge
    <3>3. Head(denormQ).kind = "refreshDone" => Head(denormQ) = RefreshDone(Head(denormQ).parentID)
      <4>1. 1 \in DOMAIN denormQ
        BY <2>1
      <4> QED  BY <2>2, <4>1 DEF PipelineInv
    <3> QED  BY <1>1, <2>2, <3>1, <3>2, <3>3 DEF LoopInv, LoopRec
  <2>5. HistoryInv'
    <3>1. owed[Head(denormQ).parentID] \ Head(denormQ).childIDs \in Content
      BY <1>2, <2>2 DEF HistoryInv, Content
    <3> QED  BY <1>5, <3>1 DEF Receive, HistoryInv
  <2> QED  BY <1>5, <2>3, <2>4, <2>5, Frame DEF Receive
<1>6. CASE LoadAuthor
  <2>1. FlightInv'
    BY <1>3, <1>6, StartFlightFacts DEF LoadAuthor
  <2>2. LoopInv'
    BY <1>6 DEF LoadAuthor, LoopInv, LoopRec
  <2> QED  BY <1>6, <2>1, <2>2, Frame DEF LoadAuthor
<1>7. CASE Undecodable
  <2>1. CacheInv'
    BY <1>3, <1>7 DEF Undecodable, CacheInv
  <2> QED  BY <1>4, <1>7, <2>1, Frame DEF Undecodable, history
<1>8. CASE Merge
  <2>1. loop.base \in Content
    BY <1>8 DEF Merge, LoopInv, LoopRec, Bytes
  <2> DEFINE a == loop.edge.parentID
  <2>2. PICK got \in SUBSET loop.edge.childIDs, changed \in BOOLEAN :
          /\ IF loop.base \union got = loop.base /\ ~changed
             THEN UNCHANGED <<author, fresh>>
             ELSE /\ author' = [author EXCEPT ![a] = loop.base \union got]
                  /\ fresh' = [fresh EXCEPT ![a] = TRUE]
          /\ ensured' = [ensured EXCEPT ![a] = @ \union got]
    BY <1>8 DEF Merge
  <2>3. got \in Content /\ loop.base \union got \in Content
    BY <1>8, <2>1 DEF Merge, LoopInv, Edge, Content
  <2>4. \A ws \in Content : ws \in Bytes /\ ws # Nil
    BY RefreshAssumption DEF Bytes, Content
  <2>5. CacheInv'
    BY <1>3, <1>8, <2>2, <2>3, <2>4 DEF Merge, CacheInv
  <2>6. HistoryInv'
    <3>1. \A ws \in Content : ws \union got \in Content
      BY <2>3 DEF Content
    <3> QED  BY <1>3, <1>8, <2>2, <3>1 DEF Merge, HistoryInv
  <2> QED  BY <1>4, <1>8, <2>5, <2>6, Frame DEF Merge
<1>9. CASE Unmark
  <2>1. CacheInv'
    BY <1>3, <1>9 DEF Unmark, CacheInv, Bytes
  <2>2. PipelineInv'
    BY <1>9 DEF Unmark, PipelineInv
  <2>3. HistoryInv'
    BY <1>9 DEF Unmark, HistoryInv
  <2> QED  BY <1>4, <1>9, <2>1, <2>2, <2>3, Frame DEF Unmark
<1>10. CASE UnmarkFailed
  <2>1. PipelineInv'
    BY <1>10 DEF UnmarkFailed, PipelineInv
  <2>2. HistoryInv'
    BY <1>3, <1>10, EventFacts DEF UnmarkFailed, Abandon, HistoryInv
  <2> QED  BY <1>4, <1>10, <2>1, <2>2, Frame DEF UnmarkFailed
<1> QED  BY <1>5, <1>6, <1>7, <1>8, <1>9, <1>10 DEF Denormalize

\* Recovery's steps (Run, Persisted) keep TypeInv.
LEMMA RecoveryType ==
    ASSUME TypeInv, Recover \/ PersistedFailed
    PROVE  TypeInv'
<1> USE DEF TypeInv
<1>1. Marked \subseteq Authors /\ MarkedExpired \subseteq Authors
  BY DEF Marked, MarkedExpired
<1>2. CASE Persisted
  <2>1. RecoveryInv'
    BY <1>1, <1>2 DEF Persisted, RecoveryInv
  <2>2. HistoryInv'
    BY <1>1, <1>2 DEF Persisted, HistoryInv
  <2> QED  BY <1>2, <2>1, <2>2, Frame DEF Persisted
<1>3. CASE PersistedFailed
  <2>1. RecoveryInv'
    BY <1>3 DEF PersistedFailed, RecoveryInv
  <2>2. HistoryInv'
    BY <1>1, <1>3, EventFacts DEF PersistedFailed, HistoryInv
  <2> QED  BY <1>3, <2>1, <2>2, Frame DEF PersistedFailed
<1>4. CASE Resume
  <2>1. PICK a \in recovery : refreshQ' = Append(refreshQ, a) /\ recovery' = recovery \ {a}
    BY <1>4 DEF Resume
  <2>2. recovery \in SUBSET Authors
    BY <1>4 DEF Resume, RecoveryInv
  <2>3. PipelineInv'
    BY <1>4, <2>1, <2>2, AppendFacts DEF Resume, PipelineInv
  <2>4. RecoveryInv'
    BY <2>1, <2>2 DEF RecoveryInv
  <2> QED  BY <1>4, <2>3, <2>4, Frame DEF Resume
<1> QED  BY <1>2, <1>3, <1>4 DEF Recover

\* What callers do to an author (getBook's forced refresh, the DELETE handler), other
\* producers of edges, and time, keep TypeInv.
LEMMA CallerType ==
    ASSUME TypeInv, NEW a \in Authors,
           \/ Request(a) \/ Call(a) \/ Bust(a) \/ Lapse(a)
           \/ MissMark(a) \/ MissAuthor(a) \/ \E w \in Works : SendEdge(a, w)
    PROVE  TypeInv'
<1> USE DEF TypeInv, CallerState
<1>1. Nil \in Bytes
  BY DEF Bytes
<1>2. CASE Request(a)
  BY <1>2, StartFlightFacts, Frame DEF Request
<1>3. CASE ForceExpire(a)
  BY <1>3, Frame DEF ForceExpire, CacheInv, CallerInv
<1>4. CASE ForceDelete(a)
  <2>1. HistoryInv'
    BY <1>4 DEF ForceDelete, HistoryInv
  <2> QED  BY <1>1, <1>4, <2>1, Frame DEF ForceDelete, CacheInv, CallerInv
<1>5. CASE ForceGet(a)
  BY <1>5, StartFlightFacts, Frame DEF ForceGet, CallerInv
<1>6. CASE BustMark(a)
  BY <1>6, Frame DEF BustMark, CacheInv, CallerInv
<1>7. CASE BustGet(a)
  BY <1>7, StartFlightFacts, Frame DEF BustGet, CallerInv
<1>8. CASE BustDelete(a)
  BY <1>1, <1>8, Frame DEF BustDelete, CacheInv, CallerInv
<1>9. CASE Bust(a)
  BY <1>9, EventFacts, Frame DEF Bust, CacheInv, CallerInv, HistoryInv, history
<1>10. CASE Lapse(a)
  BY <1>10, EventFacts, Frame DEF Lapse, CacheInv, HistoryInv, history
<1>11. ASSUME NEW w \in Works, SendEdge(a, w)
       PROVE  TypeInv'
  <2>1. AuthorEdge(a, {w}) \in Edge /\ AuthorEdge(a, {w}).kind = "authorEdge"
    <3>1. {w} \in Content
      BY DEF Content
    <3> QED  BY <3>1, EdgeTypes
  <2>2. denormQ' = Accepted(denormQ, AuthorEdge(a, {w}))
    BY <1>11 DEF SendEdge
  <2>3. PipelineInv'
    BY <1>11, <2>1, <2>2, AcceptedType DEF SendEdge, PipelineInv
  <2> QED  BY <1>11, <2>3, EventFacts, Frame DEF SendEdge, HistoryInv, history
<1>12. CASE MissMark(a)
  <2>1. FlightInv'
    BY <1>12, PassMarkFacts DEF MissMark
  <2>2. HistoryInv'
    BY <1>12, EventFacts DEF MissMark, HistoryInv
  <2> QED  BY <1>12, <2>1, <2>2, Frame DEF MissMark
<1>13. CASE MissAuthor(a)
  <2>1. flight[a] \in FlightRec /\ flight' = [flight EXCEPT ![a].pc = "fetch"]
    BY <1>13 DEF MissAuthor, FlightInv
  <2>2. FlightInv'
    BY <2>1 DEF FlightInv, FlightRec
  <2> QED  BY <1>13, <2>2, EventFacts, Frame DEF MissAuthor, HistoryInv, history
<1> QED  BY <1>2, <1>3, <1>4, <1>5, <1>6, <1>7, <1>8, <1>9, <1>10, <1>11, <1>12, <1>13 DEF Call

\* A crash leaves the cache and starts the process anew.
LEMMA CrashType ==
    ASSUME TypeInv, Crash
    PROVE  TypeInv'
<1> USE DEF TypeInv
<1>1. CacheInv'
  BY Frame DEF Crash
<1>2. FlightInv'
  BY DEF Crash, FlightInv, NoFlight, FlightRec, Bytes
<1>3. CallerInv' /\ RecoveryInv'
  BY DEF Crash, CallerInv, CallerState, RecoveryInv
<1>4. HistoryInv'
  BY EventFacts DEF Crash, HistoryInv, Content
<1>5. PipelineInv'
  <2>1. <<>> \in Seq(Authors) /\ <<>> \in Seq(Edge) /\ DOMAIN <<>> = {}
    OBVIOUS
  <2>2. worker' \in [Slots -> WorkerRec] /\ \A s \in Slots : worker'[s].pc = "idle"
    BY DEF Crash, IdleWorker, WorkerRec, Content
  <2> QED  BY <2>1, <2>2 DEF Crash, PipelineInv
<1>6. LoopInv'
  BY DEF Crash, LoopInv, IdleLoop, LoopRec, Bytes
<1> QED  BY <1>1, <1>2, <1>3, <1>4, <1>5, <1>6

\* Every step keeps TypeInv.
LEMMA NextType == TypeInv /\ [Next]_vars => TypeInv'
<1> SUFFICES ASSUME TypeInv, [Next]_vars PROVE TypeInv'
  OBVIOUS
<1>1. CASE UNCHANGED vars
  BY <1>1, Frame DEF vars, TypeInv
<1>2. CASE Next
  BY <1>2, GetAuthorType, ForwardType, WorkerType, LoopType, RecoveryType, CallerType, CrashType
     DEF Next
<1> QED  BY <1>1, <1>2

\* Every variable has its type throughout, whatever the number of authors and slots; in
\* particular a flight never persists or returns no bytes at all (getAuthor).
THEOREM TypeCorrect == Spec => []TypeOK
<1>1. Spec => []TypeInv
  BY InitType, NextType, PTL DEF Spec
<1> QED  BY <1>1, TypeInvIsTypeOK, PTL

(***************************************************************************)
(* No flight fetches an author that has a mark it could read.              *)
(***************************************************************************)
Fetching == {"readAuthor", "fetch", "save", "persist"}

\* Steps that start no fetch and set no mark.
LEMMA FetchFrame ==
    ASSUME MarkedIsNotFetched,
           overlooked \subseteq overlooked',
           \A a \in Authors : flight'[a].pc \in Fetching => flight[a].pc \in Fetching,
           \A a \in Authors : ra'[a] # Nil => ra[a] # Nil
    PROVE  MarkedIsNotFetched'
  BY DEF MarkedIsNotFetched, Fetching

\* Starting or joining a flight (GetAuthor's singleflight) neither fetches nor ends one
\* that is about to hand over its refresh.
LEMMA StartFlightFetches ==
    ASSUME FlightInv, NEW a \in Authors, StartFlight(a)
    PROVE  \A b \in Authors : /\ flight'[b].pc \in Fetching => flight[b].pc \in Fetching
                              /\ flight[b].pc = "send" => flight'[b].pc = "send"
  BY DEF FlightInv, FlightRec, StartFlight, Fetching

\* A flight fetches only after it saw no mark or missed it, and a mark is set only by
\* the flight that fetched, of which there is one.
LEMMA NextFetch ==
    ASSUME TypeInv, MarkedIsNotFetched, [Next]_vars
    PROVE  MarkedIsNotFetched'
<1> USE DEF TypeInv
<1>1. \A a \in Authors : flight[a] \in FlightRec
  BY DEF FlightInv
<1>2. NoFlight.pc \notin Fetching
  BY DEF NoFlight, Fetching
<1>3. ASSUME NEW a \in Authors, GetAuthor(a)
      PROVE  MarkedIsNotFetched'
  <2>0. ASSUME UNCHANGED history
        PROVE  UNCHANGED overlooked
    BY <2>0 DEF history
  <2>1. \A bytes, error : Return(a, bytes, error) =>
          \A b \in Authors : flight'[b].pc \in Fetching => flight[b].pc \in Fetching
    BY <1>2 DEF Return, FlightInv
  <2>2. \A bytes : ReturnCached(a, bytes) =>
          \A b \in Authors : flight'[b].pc \in Fetching => flight[b].pc \in Fetching
    BY <2>1 DEF ReturnCached
  <2>3. CASE ReadMark(a)
    <3>1. UNCHANGED ra
      BY <2>3 DEF ReadMark, cacheVars
    <3>2. CASE ReturnCached(a, ra[a]) /\ UNCHANGED overlooked
      BY <2>2, <3>1, <3>2, FetchFrame
    <3>3. CASE ra[a] = Nil /\ PassMark(a) /\ overlooked' = overlooked \ {a}
      <4>1. \A b \in Authors : b # a => flight'[b] = flight[b]
        BY <3>3, PassMarkFacts
      <4> QED  BY <3>1, <3>3, <4>1 DEF MarkedIsNotFetched
    <3> QED  BY <2>3, <3>2, <3>3 DEF ReadMark
  <2>4. CASE ReadAuthor(a)
    <3>1. UNCHANGED <<ra, overlooked>>
      BY <2>4 DEF ReadAuthor, cacheVars, history
    <3>2. CASE ReturnCached(a, author[a])
      BY <2>2, <3>1, <3>2, FetchFrame
    <3>3. CASE flight' = [flight EXCEPT ![a] = [pc |-> "fetch", cached |-> author[a]]]
      BY <1>1, <2>4, <3>1, <3>3, FetchFrame DEF ReadAuthor, FlightInv, Fetching
    <3> QED  BY <2>4, <3>2, <3>3 DEF ReadAuthor
  <2>5. CASE Fetched(a)
    BY <1>1, <2>0, <2>5, FetchFrame DEF Fetched, FlightInv, FlightRec, Fetching, cacheVars
  <2>6. CASE FetchedNotFound(a)
    BY <2>0, <2>1, <2>6, FetchFrame DEF FetchedNotFound
  <2>7. CASE FetchFailed(a)
    BY <2>0, <2>1, <2>7, FetchFrame DEF FetchFailed, cacheVars
  <2>8. CASE Save(a)
    BY <1>1, <2>0, <2>8, FetchFrame DEF Save, FlightInv, FlightRec, Fetching
  <2>9. CASE Persist(a)
    <3>1. flight'[a].pc = "send"
      BY <1>1, <2>9 DEF Persist, FlightInv, FlightRec
    <3>2. \A b \in Authors : b # a => flight'[b] = flight[b] /\ ra'[b] = ra[b]
      BY <2>9 DEF Persist, FlightInv, CacheInv
    <3>3. UNCHANGED overlooked
      BY <2>9 DEF Persist
    <3> QED  BY <3>1, <3>2, <3>3 DEF MarkedIsNotFetched
  <2>10. CASE SendRefresh(a)
    BY <2>0, <2>1, <2>10, FetchFrame DEF SendRefresh, cacheVars
  <2> QED  BY <1>3, <2>3, <2>4, <2>5, <2>6, <2>7, <2>8, <2>9, <2>10 DEF GetAuthor
<1>4. CASE UNCHANGED <<ra, flight, overlooked>>
  BY <1>4, FetchFrame
<1>5. ASSUME NEW a \in Authors, UNCHANGED <<ra, overlooked>>, StartFlight(a)
      PROVE  MarkedIsNotFetched'
  BY <1>5, StartFlightFetches, FetchFrame
<1>6. ASSUME NEW a \in Authors, UNCHANGED <<flight, overlooked>>, ra' = [ra EXCEPT ![a] = Nil]
      PROVE  MarkedIsNotFetched'
  BY <1>6, FetchFrame DEF CacheInv
<1>7. ASSUME NEW a \in Authors, Request(a) \/ Call(a) \/ Bust(a) \/ Lapse(a)
      PROVE  MarkedIsNotFetched'
  BY <1>4, <1>5, <1>6, <1>7
     DEF Request, Call, ForceExpire, ForceDelete, ForceGet, BustMark, BustGet, BustDelete,
         Bust, Lapse, cacheVars, history
<1>8. ASSUME NEW a \in Authors, NEW w \in Works, SendEdge(a, w)
      PROVE  MarkedIsNotFetched'
  BY <1>4, <1>8 DEF SendEdge, cacheVars, history
<1>9. CASE Forward
  BY <1>4, <1>9 DEF Forward, cacheVars, history
<1>10. ASSUME NEW s \in Slots, StartRefresh(s) \/ Refresh(s) \/ Panic(s)
       PROVE  MarkedIsNotFetched'
  BY <1>4, <1>10 DEF StartRefresh, Refresh, Collect, SendWorks, SendDone, Panic, cacheVars, history
<1>11. CASE Denormalize \/ UnmarkFailed
  <2>1. loop.pc # "idle" => loop.edge.parentID \in Authors
    BY DEF LoopInv, Edge
  <2>2. CASE LoadAuthor
    BY <1>5, <2>1, <2>2 DEF LoadAuthor, cacheVars, history
  <2>3. CASE Unmark
    BY <1>6, <2>1, <2>3 DEF Unmark
  <2>4. CASE Receive \/ Undecodable \/ Merge \/ UnmarkFailed
    BY <1>4, <2>4 DEF Receive, Undecodable, Merge, UnmarkFailed, cacheVars, history
  <2> QED  BY <1>11, <2>2, <2>3, <2>4 DEF Denormalize
<1>12. CASE Recover \/ PersistedFailed
  BY <1>4, <1>12 DEF Recover, Persisted, Resume, PersistedFailed, cacheVars, history
<1>13. CASE Crash
  BY <1>2, <1>13 DEF Crash, MarkedIsNotFetched, Fetching
<1>14. CASE UNCHANGED vars
  BY <1>4, <1>14 DEF vars, cacheVars, history
<1>15. ASSUME NEW a \in Authors, MissMark(a)
       PROVE  MarkedIsNotFetched'
  <2>1. \A b \in Authors : b # a => flight'[b] = flight[b]
    BY <1>15, PassMarkFacts DEF MissMark
  <2> QED  BY <1>15, <2>1 DEF MissMark, MarkedIsNotFetched, cacheVars
<1>16. ASSUME NEW a \in Authors, MissAuthor(a)
       PROVE  MarkedIsNotFetched'
  BY <1>1, <1>16, FetchFrame DEF MissAuthor, FlightInv, Fetching, cacheVars, history
<1> QED  BY <1>3, <1>7, <1>8, <1>9, <1>10, <1>11, <1>12, <1>13, <1>14, <1>15, <1>16 DEF Next

\* For any number of authors, callers and workers: while an author is marked, no flight
\* fetches or overwrites it, or replaces the mark by what a refresh has half built,
\* except one whose read of the mark failed (getAuthor).
THEOREM MarkedNotFetched == Spec => []MarkedIsNotFetched
<1>1. Init => MarkedIsNotFetched
  BY DEF Init, MarkedIsNotFetched, NoFlight
<1>2. TypeInv /\ MarkedIsNotFetched /\ [Next]_vars => (TypeInv /\ MarkedIsNotFetched)'
  BY NextType, NextFetch
<1> QED  BY InitType, <1>1, <1>2, PTL DEF Spec

(***************************************************************************)
(* Every mark is on its way out.                                           *)
(***************************************************************************)
\* What will remove the mark of a, if it has one.
Cause(a) == \/ Handling(a)
            \/ flight[a].pc = "send"
            \/ recovery = Nil
            \/ a \in recovery
            \/ a \in abandoned

\* A step keeps every mark handled when it loses the cause of no mark that it leaves,
\* and sets none without a cause.
LEMMA CauseFrame ==
    ASSUME MarkIsHandled,
           \A a \in Authors : ra'[a] # Nil => \/ Cause(a)'
                                              \/ ra[a] # Nil /\ (Cause(a) => Cause(a)')
    PROVE  MarkIsHandled'
  BY DEF MarkIsHandled, Cause

\* A step outside the pipeline that takes no flight out of its last step.
LEMMA CauseOutside ==
    ASSUME MarkIsHandled,
           \A a \in Authors : ra'[a] # Nil => ra[a] # Nil,
           UNCHANGED <<pipeline, recovery, abandoned>>,
           \A a \in Authors : flight[a].pc = "send" => flight'[a].pc = "send",
           loop.pc = "done" => loop' = loop
    PROVE  MarkIsHandled'
<1>1. ASSUME NEW a \in Authors, Cause(a)
      PROVE  Cause(a)'
  BY <1>1 DEF Cause, Handling, pipeline
<1> QED  BY <1>1, CauseFrame

\* A queued refreshDone stays queued when another edge is pushed.
LEMMA PushKeepsDone ==
    ASSUME PipelineInv, NEW e \in Edge, NEW a \in Authors,
           denormQ' = Accepted(denormQ, e),
           \E i \in DOMAIN denormQ : denormQ[i] = RefreshDone(a)
    PROVE  \E i \in DOMAIN denormQ' : denormQ'[i] = RefreshDone(a)
<1>1. PICK i \in DOMAIN denormQ : denormQ[i] = RefreshDone(a)
  OBVIOUS
<1>2. denormQ \in Seq(Edge) /\ denormQ[i].kind = "refreshDone"
  BY <1>1, EdgeTypes DEF PipelineInv
<1>3. i \in DOMAIN Accepted(denormQ, e) /\ Accepted(denormQ, e)[i] = denormQ[i]
  BY <1>2, AcceptedFacts
<1> QED  BY <1>1, <1>3

\* The step that sets a mark hands its refresh over next (getAuthor).
LEMMA GetAuthorCause ==
    ASSUME TypeInv, MarkIsHandled, NEW a \in Authors, GetAuthor(a)
    PROVE  MarkIsHandled'
<1> USE DEF TypeInv
<1>1. \A b \in Authors : flight[b] \in FlightRec
  BY DEF FlightInv
<1>2. ra[a] \in Bytes /\ author[a] \in Bytes /\ Nil \in Bytes
  BY DEF CacheInv, Bytes
<1>3. ASSUME flight[a].pc # "send",
             flight' = [flight EXCEPT ![a] = NoFlight]
      PROVE  \A b \in Authors : flight[b].pc = "send" => flight'[b].pc = "send"
  BY <1>3 DEF FlightInv
<1>4. CASE ReadMark(a)
  <2>1. /\ flight[a].pc = "readMark"
        /\ UNCHANGED <<cacheVars, pipeline, recovery, abandoned>>
    BY <1>4 DEF ReadMark
  <2>2. CASE ra[a] # Nil /\ ReturnCached(a, ra[a])
    BY <1>2, <1>3, <2>1, <2>2, ReturnCachedFacts, CauseOutside DEF cacheVars
  <2>3. CASE PassMark(a) /\ UNCHANGED loop
    BY <2>1, <2>3, PassMarkFacts, CauseOutside DEF cacheVars
  <2> QED  BY <1>4, <2>2, <2>3 DEF ReadMark
<1>5. CASE ReadAuthor(a)
  <2>1. /\ flight[a].pc = "readAuthor"
        /\ UNCHANGED <<cacheVars, pipeline, recovery, history>>
    BY <1>5 DEF ReadAuthor
  <2>2. CASE fresh[a] /\ ReturnCached(a, author[a])
    <3>1. author[a] # Nil
      BY <2>2 DEF CacheInv
    <3> QED  BY <1>2, <1>3, <2>1, <2>2, <3>1, ReturnCachedFacts, CauseOutside DEF cacheVars, history
  <2>3. CASE flight' = [flight EXCEPT ![a] = [pc |-> "fetch", cached |-> author[a]]] /\ UNCHANGED loop
    BY <1>1, <2>1, <2>3, CauseOutside DEF FlightInv, cacheVars, history
  <2> QED  BY <1>5, <2>2, <2>3 DEF ReadAuthor
<1>6. CASE Fetched(a)
  BY <1>1, <1>6, CauseOutside DEF Fetched, FlightInv, cacheVars, history
<1>7. CASE FetchedNotFound(a)
  <2>1. Return(a, Nil, "notFound") /\ flight[a].pc = "fetch" /\ UNCHANGED <<ra, pipeline, recovery, history>>
    BY <1>7 DEF FetchedNotFound
  <2> QED  BY <1>2, <1>3, <2>1, ReturnFacts, CauseOutside DEF Errors, history
<1>8. CASE FetchFailed(a)
  <2>1. PICK error \in {"failed", "throttled"} : Return(a, Nil, error)
    BY <1>8 DEF FetchFailed
  <2>2. flight[a].pc = "fetch" /\ UNCHANGED <<cacheVars, pipeline, recovery, history>>
    BY <1>8 DEF FetchFailed
  <2> QED  BY <1>2, <1>3, <2>1, <2>2, ReturnFacts, CauseOutside DEF Errors, cacheVars, history
<1>9. CASE Save(a)
  BY <1>1, <1>9, CauseOutside DEF Save, FlightInv, history
<1>10. CASE Persist(a)
  <2>1. flight'[a].pc = "send"
    BY <1>1, <1>10 DEF Persist, FlightInv, FlightRec
  <2>2. ASSUME NEW b \in Authors, b # a
        PROVE  ra'[b] = ra[b] /\ (Cause(b) => Cause(b)')
    BY <1>10, <2>2 DEF Persist, FlightInv, CacheInv, Cause, Handling, pipeline, history
  <2>3. Cause(a)'
    BY <2>1 DEF Cause
  <2> QED  BY <2>2, <2>3, CauseFrame
<1>11. CASE SendRefresh(a)
  <2>1. /\ Return(a, flight[a].cached, "none")
        /\ flight[a].cached \in Bytes /\ flight[a].cached # Nil
        /\ refreshQ' = Append(refreshQ, a)
        /\ UNCHANGED <<ra, forwarding, worker, denormQ, recovery, abandoned>>
    BY <1>1, <1>11 DEF SendRefresh, FlightInv, FlightRec, cacheVars, history
  <2>2. /\ flight' = [flight EXCEPT ![a] = NoFlight]
        /\ loop.pc = "done" => loop' = loop
    BY <2>1, ReturnFacts DEF Errors
  <2>3. /\ \A i \in DOMAIN refreshQ : i \in DOMAIN refreshQ' /\ refreshQ'[i] = refreshQ[i]
        /\ \E i \in DOMAIN refreshQ' : refreshQ'[i] = a
    BY <2>1, AppendFacts DEF PipelineInv
  <2>4. Cause(a)'
    BY <2>3 DEF Cause, Handling
  <2>5. ASSUME NEW b \in Authors, b # a, Cause(b)
        PROVE  Cause(b)'
    <3>1. flight'[b] = flight[b]
      BY <2>2, <2>5 DEF FlightInv
    <3>2. Handling(b) => Handling(b)'
      BY <2>1, <2>2, <2>3 DEF Handling
    <3> QED  BY <2>1, <2>5, <3>1, <3>2 DEF Cause
  <2> QED  BY <2>1, <2>4, <2>5, CauseFrame
<1> QED  BY <1>4, <1>5, <1>6, <1>7, <1>8, <1>9, <1>10, <1>11 DEF GetAuthor

\* A refresh moves on through the forwarder, a worker and denormC without getting lost
\* (Run, refreshAuthor); one that panics leaves its mark behind.
LEMMA ForwardCause ==
    ASSUME TypeInv, MarkIsHandled, Forward
    PROVE  MarkIsHandled'
<1> USE DEF TypeInv
<1>1. refreshQ \in Seq(Authors) /\ refreshQ # <<>> /\ forwarding = Nil
  BY DEF Forward, PipelineInv
<1>2. ASSUME NEW a \in Authors, \E i \in DOMAIN refreshQ : refreshQ[i] = a
      PROVE  forwarding' = a \/ \E i \in DOMAIN refreshQ' : refreshQ'[i] = a
  <2>1. PICK i \in DOMAIN refreshQ : refreshQ[i] = a
    BY <1>2
  <2>2. CASE i = 1
    BY <1>1, <2>1, <2>2, TailFacts DEF Forward
  <2>3. CASE i # 1
    <3>1. i - 1 \in DOMAIN Tail(refreshQ) /\ Tail(refreshQ)[i - 1] = refreshQ[i]
      BY <1>1, <2>1, <2>3, TailFacts
    <3> QED  BY <2>1, <3>1 DEF Forward
  <2> QED  BY <2>2, <2>3
<1>3. ASSUME NEW a \in Authors, Cause(a)
      PROVE  Cause(a)'
  <2>1. Handling(a) => Handling(a)'
    BY <1>1, <1>2, RefreshAssumption DEF Forward, Handling
  <2> QED  BY <1>3, <2>1 DEF Forward, Cause, history
<1> QED  BY <1>3, CauseFrame DEF Forward, cacheVars

\* The same of refreshG's slots: the works go before the refreshDone, which takes over.
LEMMA WorkerCause ==
    ASSUME TypeInv, MarkIsHandled, NEW s \in Slots,
           StartRefresh(s) \/ Refresh(s) \/ Panic(s)
    PROVE  MarkIsHandled'
<1> USE DEF TypeInv
<1>1. worker \in [Slots -> WorkerRec] /\ (worker[s].pc # "idle" => worker[s].id \in Authors)
  BY DEF PipelineInv
<1>2. CASE StartRefresh(s)
  <2>1. worker[s].pc = "idle" /\ worker' = [worker EXCEPT ![s] = [pc |-> "collect", id |-> forwarding, found |-> {}]]
    BY <1>2 DEF StartRefresh
  <2>2. /\ worker'[s].pc # "idle" /\ worker'[s].id = forwarding
        /\ \A t \in Slots : worker[t].pc # "idle" => worker'[t] = worker[t]
    BY <1>1, <2>1
  <2>3. \A a \in Authors : Handling(a) => Handling(a)'
    BY <1>2, <2>2 DEF StartRefresh, Handling
  <2> QED  BY <1>2, <2>3, CauseFrame DEF StartRefresh, Cause, cacheVars
<1>3. CASE Collect(s)
  <2>1. PICK found \in SUBSET Works :
          worker' = [worker EXCEPT ![s].found = found,
                                   ![s].pc = IF found = {} THEN "sendDone" ELSE "sendWorks"]
    BY <1>3 DEF Collect
  <2>2. /\ worker'[s].pc # "idle" /\ worker'[s].id = worker[s].id
        /\ \A t \in Slots : t # s => worker'[t] = worker[t]
    BY <1>1, <2>1 DEF WorkerRec
  <2>3. \A a \in Authors : Handling(a) => Handling(a)'
    BY <1>3, <2>2 DEF Collect, Handling
  <2> QED  BY <1>3, <2>3, CauseFrame DEF Collect, Cause, cacheVars, history
<1>4. CASE SendWorks(s)
  <2>1. /\ worker'[s].pc # "idle" /\ worker'[s].id = worker[s].id
        /\ \A t \in Slots : t # s => worker'[t] = worker[t]
    BY <1>1, <1>4 DEF SendWorks, WorkerRec
  <2>2. AuthorEdge(worker[s].id, worker[s].found) \in Edge
    BY <1>1, <1>4, EdgeTypes DEF SendWorks, WorkerRec
  <2>3. \A a \in Authors : (\E i \in DOMAIN denormQ : denormQ[i] = RefreshDone(a))
                             => \E i \in DOMAIN denormQ' : denormQ'[i] = RefreshDone(a)
    BY <1>4, <2>2, PushKeepsDone DEF SendWorks
  <2>4. \A a \in Authors : Handling(a) => Handling(a)'
    BY <1>4, <2>1, <2>3 DEF SendWorks, Handling
  <2> QED  BY <1>4, <2>4, CauseFrame DEF SendWorks, Cause, cacheVars, history
<1>5. CASE SendDone(s)
  <2>1. worker[s].id \in Authors /\ RefreshDone(worker[s].id) \in Edge
        /\ RefreshDone(worker[s].id).kind = "refreshDone"
    BY <1>1, <1>5, EdgeTypes DEF SendDone
  <2>2. \A t \in Slots : t # s => worker'[t] = worker[t]
    BY <1>1, <1>5 DEF SendDone
  <2>3. \A a \in Authors : (\E i \in DOMAIN denormQ : denormQ[i] = RefreshDone(a))
                             => \E i \in DOMAIN denormQ' : denormQ'[i] = RefreshDone(a)
    BY <1>5, <2>1, PushKeepsDone DEF SendDone
  <2>4. \E i \in DOMAIN denormQ' : denormQ'[i] = RefreshDone(worker[s].id)
    BY <1>5, <2>1, AcceptedFacts DEF SendDone, PipelineInv
  <2>5. \A a \in Authors : Handling(a) => Handling(a)'
    BY <1>5, <2>2, <2>3, <2>4 DEF SendDone, Handling
  <2> QED  BY <1>5, <2>5, CauseFrame DEF SendDone, Cause, cacheVars, history
<1>6. CASE Panic(s)
  <2>1. \A t \in Slots : t # s => worker'[t] = worker[t]
    BY <1>1, <1>6 DEF Panic
  <2>2. ASSUME NEW a \in Authors, ra[a] # Nil, Cause(a)
        PROVE  Cause(a)'
    <3>1. CASE a = worker[s].id
      BY <1>6, <2>2, <3>1 DEF Panic, Abandon, Cause
    <3>2. CASE a # worker[s].id
      <4>1. Handling(a) => Handling(a)'
        BY <1>6, <2>1, <3>2 DEF Panic, Handling
      <4> QED  BY <1>6, <2>2, <4>1 DEF Panic, Abandon, Cause
    <3> QED  BY <3>1, <3>2
  <2> QED  BY <1>6, <2>2, CauseFrame DEF Panic, cacheVars
<1> QED  BY <1>2, <1>3, <1>4, <1>5, <1>6 DEF Refresh

\* The loop removes the mark of the refreshDone it handles, and no other (Run).
LEMMA LoopCause ==
    ASSUME TypeInv, MarkIsHandled, Denormalize \/ UnmarkFailed
    PROVE  MarkIsHandled'
<1> USE DEF TypeInv
<1>1. CASE Receive
  <2>1. denormQ \in Seq(Edge) /\ denormQ # <<>> /\ loop.pc = "idle"
    BY <1>1 DEF Receive, PipelineInv
  <2>2. loop' = [IdleLoop EXCEPT !.edge = Head(denormQ),
                   !.pc = IF Head(denormQ).kind = "authorEdge" THEN "load" ELSE "done"]
        /\ denormQ' = Tail(denormQ)
    BY <1>1 DEF Receive
  <2>3. ASSUME NEW a \in Authors, \E i \in DOMAIN denormQ : denormQ[i] = RefreshDone(a)
        PROVE  \/ \E i \in DOMAIN denormQ' : denormQ'[i] = RefreshDone(a)
               \/ loop'.pc = "done" /\ loop'.edge = RefreshDone(a)
    <3>1. PICK i \in DOMAIN denormQ : denormQ[i] = RefreshDone(a)
      BY <2>3
    <3>2. CASE i = 1
      <4>1. Head(denormQ) = RefreshDone(a)
        BY <2>1, <3>1, <3>2, TailFacts
      <4> QED  BY <2>2, <4>1, EdgeTypes DEF IdleLoop
    <3>3. CASE i # 1
      <4>1. i - 1 \in DOMAIN Tail(denormQ) /\ Tail(denormQ)[i - 1] = denormQ[i]
        BY <2>1, <3>1, <3>3, TailFacts
      <4> QED  BY <2>2, <3>1, <4>1
    <3> QED  BY <3>2, <3>3
  <2>4. \A a \in Authors : Handling(a) => Handling(a)'
    BY <1>1, <2>1, <2>3 DEF Receive, Handling
  <2> QED  BY <1>1, <2>4, CauseFrame DEF Receive, Cause, cacheVars, history
<1>2. loop.pc # "idle" => loop.edge.parentID \in Authors
  BY DEF LoopInv, Edge
<1>3. CASE LoadAuthor
  <2>1. \A a \in Authors : flight[a].pc = "send" => flight'[a].pc = "send"
    BY <1>2, <1>3, StartFlightFetches DEF LoadAuthor
  <2> QED  BY <1>3, <2>1, CauseOutside DEF LoadAuthor, cacheVars, history
<1>4. CASE Undecodable \/ Merge
  BY <1>4, CauseOutside DEF Undecodable, Merge, history
<1>5. CASE Unmark
  <2>1. loop.pc = "done" /\ loop.edge = RefreshDone(loop.edge.parentID)
    BY <1>5 DEF Unmark, LoopInv
  <2>2. ASSUME NEW a \in Authors, ra'[a] # Nil
        PROVE  ra[a] # Nil /\ (Cause(a) => Cause(a)')
    <3>1. a # loop.edge.parentID /\ ra'[a] = ra[a]
      BY <1>2, <1>5, <2>1, <2>2 DEF Unmark, CacheInv
    <3>2. loop.edge # RefreshDone(a)
      BY <3>1, EdgeTypes
    <3>3. Handling(a) => Handling(a)'
      BY <1>5, <3>2 DEF Unmark, Handling
    <3> QED  BY <1>5, <2>2, <3>1, <3>3 DEF Unmark, Cause
  <2> QED  BY <2>2, CauseFrame
<1>6. CASE UnmarkFailed
  <2>1. loop.pc = "done" /\ loop.edge = RefreshDone(loop.edge.parentID)
    BY <1>6 DEF UnmarkFailed, LoopInv
  <2>2. ASSUME NEW a \in Authors, ra[a] # Nil, Cause(a)
        PROVE  Cause(a)'
    <3>1. CASE a = loop.edge.parentID
      BY <1>6, <2>2, <3>1 DEF UnmarkFailed, Abandon, Cause
    <3>2. CASE a # loop.edge.parentID
      <4>1. loop.edge # RefreshDone(a)
        BY <3>2, EdgeTypes
      <4>2. Handling(a) => Handling(a)'
        BY <1>6, <4>1 DEF UnmarkFailed, Handling
      <4> QED  BY <1>6, <2>2, <4>2 DEF UnmarkFailed, Abandon, Cause
    <3> QED  BY <3>1, <3>2
  <2> QED  BY <1>6, <2>2, CauseFrame DEF UnmarkFailed, cacheVars
<1> QED  BY <1>1, <1>3, <1>4, <1>5, <1>6 DEF Denormalize

\* Recovery resumes what it read, and has nothing to read twice (Persisted).
LEMMA RecoveryCause ==
    ASSUME TypeInv, MarkIsHandled, Recover \/ PersistedFailed
    PROVE  MarkIsHandled'
<1> USE DEF TypeInv
<1>1. CASE Persisted
  <2>1. \A a \in Authors : ra'[a] # Nil => a \in recovery' \/ a \in abandoned'
    BY <1>1 DEF Persisted, Marked, MarkedExpired, cacheVars
  <2> QED  BY <2>1 DEF MarkIsHandled
<1>2. CASE PersistedFailed
  <2>1. \A a \in Authors : ra'[a] # Nil => a \in abandoned'
    BY <1>2 DEF PersistedFailed, Marked, cacheVars
  <2> QED  BY <2>1 DEF MarkIsHandled
<1>3. CASE Resume
  <2>1. PICK b \in recovery : refreshQ' = Append(refreshQ, b) /\ recovery' = recovery \ {b}
    BY <1>3 DEF Resume
  <2>2. recovery \in SUBSET Authors /\ recovery # Nil
    BY <1>3 DEF Resume, RecoveryInv
  <2>3. /\ \A i \in DOMAIN refreshQ : i \in DOMAIN refreshQ' /\ refreshQ'[i] = refreshQ[i]
        /\ \E i \in DOMAIN refreshQ' : refreshQ'[i] = b
    BY <2>1, <2>2, AppendFacts DEF PipelineInv
  <2>4. ASSUME NEW a \in Authors, Cause(a)
        PROVE  Cause(a)'
    <3>1. Handling(a) => Handling(a)'
      BY <1>3, <2>3 DEF Resume, Handling
    <3>2. a = b => Handling(a)'
      BY <2>3 DEF Handling
    <3> QED  BY <1>3, <2>1, <2>2, <2>4, <3>1, <3>2 DEF Resume, Cause, history
  <2> QED  BY <1>3, <2>4, CauseFrame DEF Resume, cacheVars
<1> QED  BY <1>1, <1>2, <1>3 DEF Recover

\* Callers remove marks but set none, and other producers only add edges.
LEMMA CallerCause ==
    ASSUME TypeInv, MarkIsHandled, NEW a \in Authors,
           \/ Request(a) \/ Call(a) \/ Bust(a) \/ Lapse(a)
           \/ MissMark(a) \/ MissAuthor(a) \/ \E w \in Works : SendEdge(a, w)
    PROVE  MarkIsHandled'
<1> USE DEF TypeInv
<1>1. CASE Request(a) \/ ForceGet(a) \/ BustGet(a)
  <2>1. \A b \in Authors : flight[b].pc = "send" => flight'[b].pc = "send"
    BY <1>1, StartFlightFetches DEF Request, ForceGet, BustGet
  <2> QED  BY <1>1, <2>1, CauseOutside DEF Request, ForceGet, BustGet, cacheVars, history
<1>2. CASE ForceExpire(a) \/ BustMark(a) \/ BustDelete(a) \/ Bust(a) \/ Lapse(a)
  BY <1>2, CauseOutside DEF ForceExpire, BustMark, BustDelete, Bust, Lapse, history
<1>3. CASE ForceDelete(a)
  <2>1. ASSUME NEW b \in Authors, ra'[b] # Nil
        PROVE  ra[b] # Nil /\ (Cause(b) => Cause(b)')
    <3>1. b # a /\ ra'[b] = ra[b]
      BY <1>3, <2>1 DEF ForceDelete, CacheInv
    <3> QED  BY <1>3, <2>1, <3>1 DEF ForceDelete, Cause, Handling, pipeline
  <2> QED  BY <2>1, CauseFrame
<1>4. ASSUME NEW w \in Works, SendEdge(a, w)
      PROVE  MarkIsHandled'
  <2>1. AuthorEdge(a, {w}) \in Edge /\ denormQ' = Accepted(denormQ, AuthorEdge(a, {w}))
    BY <1>4, EdgeTypes DEF SendEdge, Content
  <2>2. \A b \in Authors : (\E i \in DOMAIN denormQ : denormQ[i] = RefreshDone(b))
                             => \E i \in DOMAIN denormQ' : denormQ'[i] = RefreshDone(b)
    BY <2>1, PushKeepsDone
  <2>3. \A b \in Authors : Handling(b) => Handling(b)'
    BY <1>4, <2>2 DEF SendEdge, Handling
  <2> QED  BY <1>4, <2>3, CauseFrame DEF SendEdge, Cause, cacheVars, history
<1>5. CASE MissMark(a)
  <2>1. \A b \in Authors : flight[b].pc = "send" => flight'[b].pc = "send"
    BY <1>5, PassMarkFacts DEF MissMark
  <2> QED  BY <1>5, <2>1, CauseOutside DEF MissMark, cacheVars
<1>6. CASE MissAuthor(a)
  <2>1. \A b \in Authors : flight[b].pc = "send" => flight'[b].pc = "send"
    BY <1>6 DEF MissAuthor, FlightInv
  <2> QED  BY <1>6, <2>1, CauseOutside DEF MissAuthor, cacheVars, history
<1> QED  BY <1>1, <1>2, <1>3, <1>4, <1>5, <1>6 DEF Call

\* Every step keeps MarkIsHandled.
LEMMA NextCause ==
    ASSUME TypeInv, MarkIsHandled, [Next]_vars
    PROVE  MarkIsHandled'
<1>1. CASE UNCHANGED vars
  BY <1>1, CauseOutside DEF vars, cacheVars, history
<1>2. CASE Crash
  BY <1>2 DEF Crash, MarkIsHandled
<1>3. CASE Next /\ ~Crash
  BY <1>3, GetAuthorCause, ForwardCause, WorkerCause, LoopCause, RecoveryCause, CallerCause
     DEF Next
<1> QED  BY <1>1, <1>2, <1>3

\* For any number of authors, callers and workers: an author is never left marked, and
\* so served from before its refresh, with nothing on its way to remove the mark,
\* unless a panic, a failed Delete or the recovery left it behind.
THEOREM MarksHandled == Spec => []MarkIsHandled
<1>1. Init => MarkIsHandled
  BY DEF Init, MarkIsHandled
<1>2. TypeInv /\ MarkIsHandled /\ [Next]_vars => (TypeInv /\ MarkIsHandled)'
  BY NextType, NextCause
<1> QED  BY InitType, <1>1, <1>2, PTL DEF Spec

(***************************************************************************)
(* The works of a refresh come before its refreshDone.                     *)
(***************************************************************************)
\* The i-th edge brings the author a the work w.
Brings(i, a, w) == /\ i \in DOMAIN denormQ
                   /\ denormQ[i].kind = "authorEdge" /\ denormQ[i].parentID = a
                   /\ w \in denormQ[i].childIDs

\* A refreshDone of a comes after the i-th edge.
Followed(i, a) == \/ \E j \in DOMAIN denormQ : i < j /\ denormQ[j] = RefreshDone(a)
                  \/ \E s \in Slots : worker[s].pc = "sendDone" /\ worker[s].id = a

LEMMA WorksAreBrought ==
    WorksBeforeDone
      <=> \A a \in Authors : \A w \in owed[a] : \E i \in DOMAIN denormQ :
            Brings(i, a, w) /\ Followed(i, a)
  BY DEF WorksBeforeDone, Brings, Followed, SameKey, AuthorEdge

LEMMA WorksBroughtNext ==
    (\A a \in Authors : \A w \in owed'[a] : \E i \in DOMAIN denormQ' :
       Brings(i, a, w)' /\ Followed(i, a)')
      => WorksBeforeDone'
  BY DEF WorksBeforeDone, Brings, Followed, SameKey, AuthorEdge

\* edgebuf.push leaves every edge where it is, with the children it had; the edge it is
\* given is in the queue, and a refreshDone is the last one (buffer.go, push).
LEMMA AcceptedKeeps ==
    ASSUME NEW q \in Seq(Edge), NEW e \in Edge
    PROVE  /\ \A i \in DOMAIN q : /\ i \in DOMAIN Accepted(q, e)
                                  /\ Accepted(q, e)[i].kind = q[i].kind
                                  /\ Accepted(q, e)[i].parentID = q[i].parentID
                                  /\ q[i].childIDs \subseteq Accepted(q, e)[i].childIDs
           /\ \E i \in DOMAIN Accepted(q, e) : /\ Accepted(q, e)[i].kind = e.kind
                                               /\ Accepted(q, e)[i].parentID = e.parentID
                                               /\ e.childIDs \subseteq Accepted(q, e)[i].childIDs
           /\ e.kind = "refreshDone" =>
                \E j \in DOMAIN Accepted(q, e) : /\ Accepted(q, e)[j] = e
                                                 /\ \A i \in DOMAIN q : i < j
<1> DEFINE same == {i \in DOMAIN q : ~IsFence(e) /\ SameKey(q[i], e)}
           merged == [i \in DOMAIN q |-> IF SameKey(q[i], e)
                                         THEN [q[i] EXCEPT !.childIDs = @ \union e.childIDs]
                                         ELSE q[i]]
<1>1. Accepted(q, e) = IF same = {} THEN Append(q, e) ELSE merged
  BY DEF Accepted
<1>2. CASE same = {}
  <2>1. \A i \in DOMAIN q : i < Len(q) + 1
    OBVIOUS
  <2>2. Len(q) + 1 \in DOMAIN Append(q, e)
    BY AppendFacts
  <2>3. Accepted(q, e) = Append(q, e)
    BY <1>1, <1>2
  <2>4. \A i \in DOMAIN q : i \in DOMAIN Append(q, e) /\ Append(q, e)[i] = q[i]
    BY AppendFacts
  <2>5. Append(q, e)[Len(q) + 1] = e
    BY AppendFacts
  <2> QED  BY <2>1, <2>2, <2>3, <2>4, <2>5
<1>3. CASE same # {}
  <2>1. ~IsFence(e) /\ e.kind # "refreshDone"
    BY <1>3 DEF IsFence
  <2>2. \A i \in DOMAIN q : q[i] \in Edge
    OBVIOUS
  <2>3. \A i \in DOMAIN q : /\ merged[i].kind = q[i].kind
                            /\ merged[i].parentID = q[i].parentID
                            /\ q[i].childIDs \subseteq merged[i].childIDs
                            /\ SameKey(q[i], e) => e.childIDs \subseteq merged[i].childIDs
    BY <2>2 DEF Edge, Content
  <2>4. DOMAIN merged = DOMAIN q
    OBVIOUS
  <2>5. PICK k \in DOMAIN q : SameKey(q[k], e)
    BY <1>3
  <2> HIDE DEF merged, same
  <2>6. merged[k].kind = e.kind /\ merged[k].parentID = e.parentID
    BY <2>3, <2>5 DEF SameKey
  <2> QED  BY <1>1, <1>3, <2>1, <2>3, <2>4, <2>5, <2>6
<1> QED  BY <1>2, <1>3

\* What was brought before a push is brought after it, and followed by a refreshDone when
\* only the worker that pushes its own is done.
LEMMA PushKeepsWorks ==
    ASSUME PipelineInv, NEW e \in Edge, denormQ' = Accepted(denormQ, e),
           NEW a \in Authors, NEW w, NEW i \in DOMAIN denormQ,
           Brings(i, a, w), Followed(i, a),
           \A s \in Slots : worker[s].pc = "sendDone" /\ worker[s].id = a =>
             \/ e = RefreshDone(a)
             \/ worker'[s].pc = "sendDone" /\ worker'[s].id = a
    PROVE  i \in DOMAIN denormQ' /\ Brings(i, a, w)' /\ Followed(i, a)'
<1>1. denormQ \in Seq(Edge)
  BY DEF PipelineInv
<1>2. i \in DOMAIN denormQ' /\ Brings(i, a, w)'
  BY <1>1, AcceptedKeeps DEF Brings
<1>3. CASE \E j \in DOMAIN denormQ : i < j /\ denormQ[j] = RefreshDone(a)
  <2>1. PICK j \in DOMAIN denormQ : i < j /\ denormQ[j] = RefreshDone(a)
    BY <1>3
  <2>2. j \in DOMAIN denormQ' /\ denormQ'[j] = RefreshDone(a)
    <3>1. denormQ[j].kind = "refreshDone"
      BY <2>1, EdgeTypes
    <3>2. j \in DOMAIN Accepted(denormQ, e) /\ Accepted(denormQ, e)[j] = denormQ[j]
      BY <1>1, <2>1, <3>1, AcceptedFacts
    <3> QED  BY <2>1, <3>2
  <2> QED  BY <1>2, <2>1, <2>2 DEF Followed
<1>4. CASE e = RefreshDone(a)
  <2>1. PICK j \in DOMAIN denormQ' : denormQ'[j] = e /\ \A k \in DOMAIN denormQ : k < j
    BY <1>1, <1>4, AcceptedKeeps, EdgeTypes
  <2> QED  BY <1>2, <1>4, <2>1 DEF Followed
<1>5. CASE \E s \in Slots : worker'[s].pc = "sendDone" /\ worker'[s].id = a
  BY <1>2, <1>5 DEF Followed
<1> QED  BY <1>2, <1>3, <1>4, <1>5 DEF Followed

\* A step that leaves the queue alone, owes nothing more and takes no worker away from
\* the refreshDone it is about to send.
LEMMA WorksFrame ==
    ASSUME WorksBeforeDone, UNCHANGED <<denormQ, owed>>,
           \A s \in Slots : worker[s].pc = "sendDone" => worker'[s] = worker[s]
    PROVE  WorksBeforeDone'
<1>1. ASSUME NEW a \in Authors, NEW i, Followed(i, a)
      PROVE  Followed(i, a)'
  BY <1>1 DEF Followed
<1>2. \A a \in Authors : \A w, i : Brings(i, a, w) => Brings(i, a, w)'
  BY DEF Brings
<1> QED  BY <1>1, <1>2, WorksAreBrought, WorksBroughtNext

\* What a worker sends, and what anybody else does (refreshAuthor).
LEMMA WorkerWorks ==
    ASSUME TypeInv, WorksBeforeDone, NEW s \in Slots,
           StartRefresh(s) \/ Refresh(s) \/ Panic(s)
    PROVE  WorksBeforeDone'
<1> USE DEF TypeInv
<1>1. worker \in [Slots -> WorkerRec] /\ (worker[s].pc # "idle" => worker[s].id \in Authors)
  BY DEF PipelineInv
<1>2. denormQ \in Seq(Edge)
  BY DEF PipelineInv
<1>3. CASE StartRefresh(s) \/ Collect(s) \/ Panic(s)
  BY <1>1, <1>3, WorksFrame DEF StartRefresh, Collect, Panic, history
<1>4. CASE SendWorks(s)
  <2> DEFINE b == worker[s].id
             e == AuthorEdge(b, worker[s].found)
  <2>1. b \in Authors /\ worker[s].found \in Content
    BY <1>1, <1>4 DEF SendWorks, WorkerRec
  <2>2. /\ e \in Edge /\ e.kind = "authorEdge" /\ e.parentID = b
        /\ e.childIDs = worker[s].found
    BY <2>1, EdgeTypes DEF AuthorEdge
  <2>3. denormQ' = Accepted(denormQ, e)
    BY <1>4 DEF SendWorks
  <2>4. worker'[s].pc = "sendDone" /\ worker'[s].id = b
    BY <1>1, <1>4 DEF SendWorks, WorkerRec
  <2>5. \A t \in Slots : t # s => worker'[t] = worker[t]
    BY <1>1, <1>4 DEF SendWorks
  <2>6. owed' = [owed EXCEPT ![b] = @ \union worker[s].found]
    BY <1>4 DEF SendWorks
  <2>7. worker[s].pc = "sendWorks"
    BY <1>4 DEF SendWorks
  <2> HIDE DEF b, e
  <2>8. ASSUME NEW a \in Authors, NEW w \in owed'[a]
        PROVE  \E i \in DOMAIN denormQ' : Brings(i, a, w)' /\ Followed(i, a)'
    <3>1. CASE w \in owed[a]
      <4>1. PICK i \in DOMAIN denormQ : Brings(i, a, w) /\ Followed(i, a)
        BY <3>1, WorksAreBrought
      <4>2. \A t \in Slots : worker[t].pc = "sendDone" => worker'[t] = worker[t]
        BY <2>5, <2>7
      <4> QED  BY <2>2, <2>3, <4>1, <4>2, PushKeepsWorks
    <3>2. CASE w \notin owed[a]
      <4>1. a = b /\ w \in worker[s].found
        BY <2>1, <2>6, <2>8, <3>2 DEF HistoryInv
      <4>2. PICK i \in DOMAIN denormQ' : /\ denormQ'[i].kind = "authorEdge"
                                         /\ denormQ'[i].parentID = b
                                         /\ worker[s].found \subseteq denormQ'[i].childIDs
        BY <1>2, <2>2, <2>3, AcceptedKeeps
      <4> QED  BY <2>4, <4>1, <4>2 DEF Brings, Followed
    <3> QED  BY <3>1, <3>2
  <2> QED  BY <2>8, WorksBroughtNext
<1>5. CASE SendDone(s)
  <2> DEFINE b == worker[s].id
  <2>1. b \in Authors /\ RefreshDone(b) \in Edge
    BY <1>1, <1>5, EdgeTypes DEF SendDone
  <2>2. denormQ' = Accepted(denormQ, RefreshDone(b)) /\ UNCHANGED owed
    BY <1>5 DEF SendDone, history
  <2>3. \A t \in Slots : t # s => worker'[t] = worker[t]
    BY <1>1, <1>5 DEF SendDone
  <2>4. ASSUME NEW a \in Authors, NEW w \in owed'[a]
        PROVE  \E i \in DOMAIN denormQ' : Brings(i, a, w)' /\ Followed(i, a)'
    <3>1. PICK i \in DOMAIN denormQ : Brings(i, a, w) /\ Followed(i, a)
      BY <2>2, <2>4, WorksAreBrought
    <3>2. ASSUME NEW t \in Slots, worker[t].pc = "sendDone", worker[t].id = a
          PROVE  \/ RefreshDone(b) = RefreshDone(a)
                 \/ worker'[t].pc = "sendDone" /\ worker'[t].id = a
      BY <2>3, <3>2
    <3> HIDE DEF b
    <3> QED  BY <2>1, <2>2, <3>1, <3>2, PushKeepsWorks
  <2> QED  BY <2>4, WorksBroughtNext
<1> QED  BY <1>3, <1>4, <1>5 DEF Refresh

\* The loop receives an edge from the front, with all that it brings (Run).
LEMMA ReceiveWorks ==
    ASSUME TypeInv, WorksBeforeDone, Receive
    PROVE  WorksBeforeDone'
<1> USE DEF TypeInv
<1>1. denormQ \in Seq(Edge) /\ denormQ # <<>> /\ denormQ' = Tail(denormQ) /\ UNCHANGED worker
  BY DEF Receive, PipelineInv
<1>2. /\ Head(denormQ) = denormQ[1] /\ Head(denormQ) \in Edge
      /\ \A i \in DOMAIN denormQ : i # 1 => /\ i - 1 \in DOMAIN denormQ'
                                            /\ denormQ'[i - 1] = denormQ[i]
      /\ DOMAIN denormQ \subseteq Nat \ {0}
  BY <1>1, TailFacts
<1>3. ASSUME NEW a \in Authors, NEW w \in owed'[a]
      PROVE  \E i \in DOMAIN denormQ' : Brings(i, a, w)' /\ Followed(i, a)'
  <2>1. /\ w \in owed[a]
        /\ Head(denormQ).parentID = a => w \notin Head(denormQ).childIDs
    BY <1>2, <1>3 DEF Receive, HistoryInv, Edge
  <2>2. PICK i \in DOMAIN denormQ : Brings(i, a, w) /\ Followed(i, a)
    BY <2>1, WorksAreBrought
  <2>3. i # 1
    BY <1>2, <2>1, <2>2 DEF Brings
  <2>4. i - 1 \in DOMAIN denormQ' /\ Brings(i - 1, a, w)'
    BY <1>2, <2>2, <2>3 DEF Brings
  <2>5. Followed(i - 1, a)'
    <3>1. CASE \E j \in DOMAIN denormQ : i < j /\ denormQ[j] = RefreshDone(a)
      <4>1. PICK j \in DOMAIN denormQ : i < j /\ denormQ[j] = RefreshDone(a)
        BY <3>1
      <4>2. j # 1 /\ i - 1 < j - 1
        BY <1>2, <2>3, <4>1
      <4> QED  BY <1>2, <4>1, <4>2 DEF Followed
    <3>2. CASE \E s \in Slots : worker[s].pc = "sendDone" /\ worker[s].id = a
      BY <1>1, <3>2 DEF Followed
    <3> QED  BY <2>2, <3>1, <3>2 DEF Followed
  <2> QED  BY <2>4, <2>5
<1> QED  BY <1>3, WorksBroughtNext

\* Every step keeps WorksBeforeDone.
LEMMA NextWorks ==
    ASSUME TypeInv, WorksBeforeDone, [Next]_vars
    PROVE  WorksBeforeDone'
<1> USE DEF TypeInv
<1>1. ASSUME UNCHANGED <<denormQ, owed, worker>>
      PROVE  WorksBeforeDone'
  BY <1>1, WorksFrame
<1>2. ASSUME NEW a \in Authors, GetAuthor(a)
      PROVE  WorksBeforeDone'
  BY <1>1, <1>2 DEF GetAuthor, ReadMark, ReadAuthor, Fetched, FetchedNotFound, FetchFailed, Save,
                    Persist, SendRefresh, pipeline, history
<1>3. ASSUME NEW a \in Authors,
             \/ Request(a) \/ Call(a) \/ Bust(a) \/ Lapse(a)
             \/ MissMark(a) \/ MissAuthor(a)
      PROVE  WorksBeforeDone'
  BY <1>1, <1>3 DEF Request, Call, ForceExpire, ForceDelete, ForceGet, BustMark, BustGet,
                    BustDelete, Bust, Lapse, MissMark, MissAuthor, pipeline, history
<1>4. ASSUME NEW b \in Authors, NEW v \in Works, SendEdge(b, v)
      PROVE  WorksBeforeDone'
  <2>1. /\ AuthorEdge(b, {v}) \in Edge /\ denormQ' = Accepted(denormQ, AuthorEdge(b, {v}))
        /\ UNCHANGED <<worker, owed>>
    BY <1>4, EdgeTypes DEF SendEdge, Content, history
  <2>2. ASSUME NEW a \in Authors, NEW w \in owed'[a]
        PROVE  \E i \in DOMAIN denormQ' : Brings(i, a, w)' /\ Followed(i, a)'
    <3>1. PICK i \in DOMAIN denormQ : Brings(i, a, w) /\ Followed(i, a)
      BY <2>1, <2>2, WorksAreBrought
    <3> QED  BY <2>1, <3>1, PushKeepsWorks
  <2> QED  BY <2>2, WorksBroughtNext
<1>5. CASE Forward
  BY <1>1, <1>5 DEF Forward, history
<1>6. CASE Denormalize \/ UnmarkFailed
  BY <1>1, <1>6, ReceiveWorks
     DEF Denormalize, LoadAuthor, Undecodable, Merge, Unmark, UnmarkFailed, pipeline, history
<1>7. CASE Recover \/ PersistedFailed
  BY <1>1, <1>7 DEF Recover, Persisted, Resume, PersistedFailed, pipeline, history
<1>8. CASE Crash
  BY <1>8 DEF Crash, WorksBeforeDone
<1>9. CASE UNCHANGED vars
  BY <1>1, <1>9 DEF vars, pipeline, history
<1> QED  BY <1>2, <1>3, <1>4, <1>5, <1>6, <1>7, <1>8, <1>9, WorkerWorks DEF Next

\* For any number of authors, works and workers: what a refresh sent is received before a
\* refreshDone of its author, with edges of others merged into its own at any time.
THEOREM WorksComeFirst == Spec => []WorksBeforeDone
<1>1. Init => WorksBeforeDone
  BY DEF Init, WorksBeforeDone
<1>2. TypeInv /\ WorksBeforeDone /\ [Next]_vars => (TypeInv /\ WorksBeforeDone)'
  BY NextType, NextWorks
<1> QED  BY InitType, <1>1, <1>2, PTL DEF Spec

(***************************************************************************)
(* The gauge counts the refreshes.  A refresh is counted while it is with  *)
(* the forwarder, in a busy slot, a refreshDone in the queue, or one the   *)
(* loop handles; a step moves one of them from one place to the next.      *)
(***************************************************************************)
Busy == {s \in Slots : worker[s].pc # "idle"}
Dones(q) == {i \in DOMAIN q : q[i].kind = "refreshDone"}
One(P) == IF P THEN 1 ELSE 0

\* The invariant with its counts named.
Counted == refreshWaiting = panics + One(forwarding # Nil) + Cardinality(Busy)
                          + Cardinality(Dones(denormQ)) + One(loop.pc = "done")

LEMMA CountedIsWaiting == RefreshWaitingOK <=> Counted
  BY DEF RefreshWaitingOK, Counted, Busy, Dones, One

\* There are finitely many busy slots and queued edges, so both can be counted.
LEMMA CountsAreNumbers ==
    ASSUME PipelineInv
    PROVE  /\ IsFiniteSet(Busy) /\ Cardinality(Busy) \in Nat
           /\ \A q \in Seq(Edge) : IsFiniteSet(Dones(q)) /\ Cardinality(Dones(q)) \in Nat
<1>1. Busy \in SUBSET Slots
  BY DEF Busy
<1>2. IsFiniteSet(Busy)
  BY <1>1, FS_Subset, RefreshAssumption
<1>3. ASSUME NEW q \in Seq(Edge)
      PROVE  IsFiniteSet(Dones(q))
  <2>1. Dones(q) \in SUBSET (1..Len(q)) /\ Len(q) \in Nat
    BY DEF Dones
  <2>2. IsFiniteSet(1..Len(q))
    BY <2>1, FS_Interval
  <2> QED  BY <2>1, <2>2, FS_Subset
<1> QED  BY <1>2, <1>3, FS_CardinalityType

\* edgebuf.push queues a refreshDone as one more, and no other edge as one (buffer.go).
LEMMA PushCounts ==
    ASSUME PipelineInv, NEW e \in Edge
    PROVE  Cardinality(Dones(Accepted(denormQ, e)))
             = Cardinality(Dones(denormQ)) + One(e.kind = "refreshDone")
<1> DEFINE q == denormQ
           same == {i \in DOMAIN q : ~IsFence(e) /\ SameKey(q[i], e)}
           merged == [i \in DOMAIN q |-> IF SameKey(q[i], e)
                                         THEN [q[i] EXCEPT !.childIDs = @ \union e.childIDs]
                                         ELSE q[i]]
<1>1. Accepted(q, e) = IF same = {} THEN Append(q, e) ELSE merged
  BY DEF Accepted
<1>2. q \in Seq(Edge) /\ IsFiniteSet(Dones(q)) /\ Cardinality(Dones(q)) \in Nat
  BY CountsAreNumbers DEF PipelineInv
<1>3. CASE same = {} /\ e.kind = "refreshDone"
  <2>1. Dones(Append(q, e)) = Dones(q) \union {Len(q) + 1} /\ Len(q) + 1 \notin Dones(q)
    BY <1>2, <1>3, AppendFacts DEF Dones
  <2>2. Cardinality(Dones(q) \union {Len(q) + 1}) = Cardinality(Dones(q)) + 1
    BY <1>2, <2>1, FS_AddElement
  <2> QED  BY <1>1, <1>3, <2>1, <2>2 DEF One
<1>4. CASE same = {} /\ e.kind # "refreshDone"
  <2>1. Dones(Append(q, e)) = Dones(q)
    BY <1>2, <1>4, AppendFacts DEF Dones
  <2> QED  BY <1>1, <1>2, <1>4, <2>1 DEF One
<1>5. CASE same # {}
  <2>1. e.kind # "refreshDone"
    BY <1>5 DEF IsFence
  <2>2. \A i \in DOMAIN q : q[i] \in Edge
    BY <1>2
  <2>3. DOMAIN merged = DOMAIN q /\ \A i \in DOMAIN q : merged[i].kind = q[i].kind
    BY <2>2 DEF Edge, Content
  <2>4. Dones(merged) = Dones(q)
    <3> HIDE DEF merged
    <3> QED  BY <2>3 DEF Dones
  <2> QED  BY <1>1, <1>2, <1>5, <2>1, <2>4 DEF One
<1> QED  BY <1>3, <1>4, <1>5

\* Receiving takes the oldest edge out of the count, and moves the others up.
LEMMA TailCounts ==
    ASSUME PipelineInv, denormQ # <<>>
    PROVE  Cardinality(Dones(denormQ))
             = Cardinality(Dones(Tail(denormQ))) + One(Head(denormQ).kind = "refreshDone")
<1> DEFINE q == denormQ
           rest == Dones(q) \ {1}
           up == [i \in Dones(Tail(q)) |-> i + 1]
<1>1. q \in Seq(Edge) /\ q # <<>> /\ Tail(q) \in Seq(Edge)
  BY TailFacts DEF PipelineInv
<1>2. /\ IsFiniteSet(Dones(q)) /\ Cardinality(Dones(q)) \in Nat
      /\ IsFiniteSet(Dones(Tail(q))) /\ Cardinality(Dones(Tail(q))) \in Nat
  BY <1>1, CountsAreNumbers
<1>3. DOMAIN q \subseteq Nat /\ DOMAIN Tail(q) \subseteq Nat \ {0}
  BY <1>1
<1>4. up \in Bijection(Dones(Tail(q)), rest)
  <2>1. \A i \in Dones(Tail(q)) : i + 1 \in rest
    BY <1>1, <1>3, TailFacts DEF Dones
  <2>2. \A j \in rest : j - 1 \in Dones(Tail(q)) /\ j = (j - 1) + 1
    BY <1>1, <1>3, TailFacts DEF Dones
  <2>3. \A i, j \in Dones(Tail(q)) : i + 1 = j + 1 => i = j
    BY <1>3 DEF Dones
  <2> QED  BY <2>1, <2>2, <2>3 DEF Bijection, Injection, Surjection, IsInjective
<1>5. Cardinality(rest) = Cardinality(Dones(Tail(q)))
  BY <1>2, <1>4, FS_Bijection DEF ExistsBijection
<1>6. 1 \in Dones(q) <=> Head(q).kind = "refreshDone"
  BY <1>1, TailFacts DEF Dones
<1>7. Cardinality(rest) = IF 1 \in Dones(q) THEN Cardinality(Dones(q)) - 1
                                            ELSE Cardinality(Dones(q))
  BY <1>2, FS_RemoveElement
<1> HIDE DEF q, rest
<1> QED  BY <1>2, <1>5, <1>6, <1>7 DEF One, q

\* A step keeps the count when it moves no refresh.
LEMMA CountFrame ==
    ASSUME TypeInv, Counted, UNCHANGED <<refreshWaiting, panics, forwarding>>,
           Busy' = Busy, Cardinality(Dones(denormQ))' = Cardinality(Dones(denormQ)),
           loop'.pc = "done" <=> loop.pc = "done"
    PROVE  Counted'
  BY DEF Counted, One

\* What the flights, the callers and the outside do moves no refresh.
LEMMA OutsideCount ==
    ASSUME TypeInv, Counted, NEW a \in Authors,
           \/ GetAuthor(a) \/ Request(a) \/ Call(a) \/ Bust(a) \/ Lapse(a)
           \/ MissMark(a) \/ MissAuthor(a) \/ \E w \in Works : SendEdge(a, w)
    PROVE  Counted'
<1> USE DEF TypeInv
<1>1. ASSUME UNCHANGED <<refreshWaiting, panics, forwarding, worker, denormQ>>,
             loop'.pc = "done" <=> loop.pc = "done"
      PROVE  Counted'
  BY <1>1, CountFrame DEF Busy, Dones
<1>2. CASE ReadMark(a)
  <2>1. loop'.pc = "done" <=> loop.pc = "done"
    BY <1>2, ReturnCachedFacts DEF ReadMark, CacheInv
  <2> QED  BY <1>1, <1>2, <2>1 DEF ReadMark, pipeline, history
<1>3. CASE ReadAuthor(a)
  <2>1. loop'.pc = "done" <=> loop.pc = "done"
    BY <1>3, ReturnCachedFacts DEF ReadAuthor, CacheInv
  <2> QED  BY <1>1, <1>3, <2>1 DEF ReadAuthor, pipeline, history
<1>4. CASE Fetched(a) \/ Save(a) \/ Persist(a)
  BY <1>1, <1>4 DEF Fetched, Save, Persist, pipeline, history
<1>5. CASE FetchedNotFound(a) \/ FetchFailed(a)
  <2>1. \E error \in Errors \ {"none"} : Return(a, Nil, error)
    BY <1>5 DEF FetchedNotFound, FetchFailed, Errors
  <2>2. loop'.pc = "done" <=> loop.pc = "done"
    BY <2>1, ReturnFacts DEF Bytes
  <2> QED  BY <1>1, <1>5, <2>2 DEF FetchedNotFound, FetchFailed, pipeline, history
<1>6. CASE SendRefresh(a)
  <2>1. Return(a, flight[a].cached, "none") /\ flight[a].cached \in Bytes /\ flight[a].cached # Nil
    BY <1>6 DEF SendRefresh, FlightInv, FlightRec
  <2>2. loop'.pc = "done" <=> loop.pc = "done"
    BY <2>1, ReturnFacts DEF Errors
  <2> QED  BY <1>1, <1>6, <2>2 DEF SendRefresh, history
<1>7. CASE Request(a) \/ Call(a) \/ Bust(a) \/ Lapse(a)
  BY <1>1, <1>7 DEF Request, Call, ForceExpire, ForceDelete, ForceGet, Bust, BustMark,
                    BustGet, BustDelete, Lapse, pipeline, history
<1>8. ASSUME NEW w \in Works, SendEdge(a, w)
      PROVE  Counted'
  <2>1. AuthorEdge(a, {w}) \in Edge /\ AuthorEdge(a, {w}).kind = "authorEdge"
        /\ denormQ' = Accepted(denormQ, AuthorEdge(a, {w}))
    BY <1>8, EdgeTypes DEF SendEdge, Content
  <2>2. Cardinality(Dones(denormQ)) \in Nat
    BY CountsAreNumbers DEF PipelineInv
  <2>3. Cardinality(Dones(denormQ'))  = Cardinality(Dones(denormQ))
    BY <2>1, <2>2, PushCounts DEF One
  <2> QED  BY <1>8, <2>3, CountFrame DEF SendEdge, Busy, Dones, history
<1>9. CASE MissMark(a) \/ MissAuthor(a)
  BY <1>1, <1>9 DEF MissMark, MissAuthor, pipeline, history
<1> QED  BY <1>2, <1>3, <1>4, <1>5, <1>6, <1>7, <1>8, <1>9 DEF GetAuthor

\* The forwarder counts a refresh as it takes it, a slot takes it over and gives it to
\* the queue as a refreshDone, or loses it in a panic (Run, refreshAuthor).
LEMMA WorkerCount ==
    ASSUME TypeInv, Counted,
           Forward \/ \E s \in Slots : StartRefresh(s) \/ Refresh(s) \/ Panic(s)
    PROVE  Counted'
<1> USE DEF TypeInv
<1>1. /\ IsFiniteSet(Busy) /\ Cardinality(Busy) \in Nat
      /\ Cardinality(Dones(denormQ)) \in Nat
      /\ panics \in Nat /\ refreshWaiting \in Int
  BY CountsAreNumbers DEF PipelineInv, HistoryInv
<1>2. CASE Forward
  <2>1. forwarding' # Nil
    BY <1>2, TailFacts, RefreshAssumption DEF Forward, PipelineInv
  <2> QED  BY <1>1, <1>2, <2>1 DEF Forward, Counted, One, Busy, Dones, history
<1>3. ASSUME NEW s \in Slots, StartRefresh(s) \/ Refresh(s) \/ Panic(s)
      PROVE  Counted'
  <2>1. worker \in [Slots -> WorkerRec]
    BY DEF PipelineInv
  <2>2. CASE StartRefresh(s)
    <3>1. Busy' = Busy \union {s} /\ s \notin Busy
      BY <2>1, <2>2 DEF StartRefresh, Busy
    <3>2. Cardinality(Busy)' = Cardinality(Busy) + 1
      BY <1>1, <3>1, FS_AddElement
    <3> QED  BY <1>1, <2>2, <3>2 DEF StartRefresh, Counted, One, Dones
  <2>3. ASSUME worker'[s].pc = "idle", worker[s].pc # "idle",
               \A t \in Slots : t # s => worker'[t] = worker[t]
        PROVE  Cardinality(Busy)' = Cardinality(Busy) - 1
    <3>1. Busy' = Busy \ {s} /\ s \in Busy
      BY <2>3 DEF Busy
    <3> QED  BY <1>1, <3>1, FS_RemoveElement
  <2>4. CASE Collect(s)
    <3>1. Busy' = Busy
      BY <2>1, <2>4 DEF Collect, Busy
    <3> QED  BY <2>4, <3>1, CountFrame DEF Collect, Dones, history
  <2>5. CASE SendWorks(s)
    <3>1. Busy' = Busy
      BY <2>1, <2>5 DEF SendWorks, Busy
    <3>2. AuthorEdge(worker[s].id, worker[s].found) \in Edge
          /\ AuthorEdge(worker[s].id, worker[s].found).kind = "authorEdge"
      BY <2>1, <2>5, EdgeTypes DEF SendWorks, PipelineInv, WorkerRec
    <3>3. Cardinality(Dones(denormQ'))  = Cardinality(Dones(denormQ))
      BY <1>1, <2>5, <3>2, PushCounts DEF SendWorks, One
    <3> QED  BY <2>5, <3>1, <3>3, CountFrame DEF SendWorks, Dones, history
  <2>6. CASE SendDone(s)
    <3>1. Cardinality(Busy)' = Cardinality(Busy) - 1
      BY <2>1, <2>3, <2>6 DEF SendDone, IdleWorker
    <3>2. RefreshDone(worker[s].id) \in Edge /\ RefreshDone(worker[s].id).kind = "refreshDone"
      BY <2>6, EdgeTypes DEF SendDone, PipelineInv
    <3>3. Cardinality(Dones(denormQ'))  = Cardinality(Dones(denormQ)) + 1
      BY <1>1, <2>6, <3>2, PushCounts DEF SendDone, One
    <3>4. UNCHANGED <<refreshWaiting, panics, forwarding, loop>>
      BY <2>6 DEF SendDone, history
    <3> QED  BY <1>1, <3>1, <3>3, <3>4 DEF Counted, One
  <2>7. CASE Panic(s)
    <3>1. Cardinality(Busy)' = Cardinality(Busy) - 1
      BY <2>1, <2>3, <2>7 DEF Panic, IdleWorker
    <3> QED  BY <1>1, <2>7, <3>1 DEF Panic, Counted, One, Dones
  <2> QED  BY <1>3, <2>2, <2>4, <2>5, <2>6, <2>7 DEF Refresh
<1> QED  BY <1>2, <1>3

\* The loop takes a refreshDone out of the queue, and out of the gauge when it has
\* handled it, whether Delete succeeds or fails (Run).
LEMMA LoopCount ==
    ASSUME TypeInv, Counted, Denormalize \/ UnmarkFailed
    PROVE  Counted'
<1> USE DEF TypeInv
<1>1. /\ Cardinality(Busy) \in Nat /\ Cardinality(Dones(denormQ)) \in Nat
      /\ panics \in Nat /\ refreshWaiting \in Int
  BY CountsAreNumbers DEF PipelineInv, HistoryInv
<1>2. CASE Receive
  <2>1. Cardinality(Dones(denormQ))
          = Cardinality(Dones(denormQ')) + One(Head(denormQ).kind = "refreshDone")
    BY <1>2, TailCounts DEF Receive
  <2>2. Head(denormQ).kind = "refreshDone" <=> loop'.pc = "done"
    <3>1. Head(denormQ) \in Edge
      BY <1>2, TailFacts DEF Receive, PipelineInv
    <3>2. Head(denormQ).kind = "refreshDone" <=> Head(denormQ).kind # "authorEdge"
      BY <3>1 DEF Edge
    <3>3. loop'.pc = IF Head(denormQ).kind = "authorEdge" THEN "load" ELSE "done"
      BY <1>2 DEF Receive, IdleLoop
    <3> QED  BY <3>2, <3>3
  <2>3. Tail(denormQ) \in Seq(Edge)
    BY <1>2, TailFacts DEF Receive, PipelineInv
  <2>4. Cardinality(Dones(denormQ')) \in Nat
    BY <1>2, <2>3, CountsAreNumbers DEF Receive
  <2>5. UNCHANGED <<refreshWaiting, panics, forwarding, Busy>> /\ loop.pc = "idle"
    BY <1>2 DEF Receive, Busy, history
  <2> QED  BY <1>1, <2>1, <2>2, <2>4, <2>5 DEF Counted, One
<1>3. CASE LoadAuthor \/ Undecodable \/ Merge
  <2>1. loop.pc # "done" /\ loop'.pc # "done"
    BY <1>3 DEF LoadAuthor, Undecodable, Merge, IdleLoop, LoopInv, LoopRec
  <2> QED  BY <1>3, <2>1, CountFrame DEF LoadAuthor, Undecodable, Merge, Busy, Dones,
                                         pipeline, history
<1>4. CASE Unmark \/ UnmarkFailed
  <2>1. /\ loop.pc = "done" /\ loop'.pc # "done"
        /\ refreshWaiting' = refreshWaiting - 1
        /\ UNCHANGED <<panics, forwarding, worker, denormQ>>
    BY <1>4 DEF Unmark, UnmarkFailed, IdleLoop
  <2> QED  BY <1>1, <2>1 DEF Counted, One, Busy, Dones
<1> QED  BY <1>2, <1>3, <1>4 DEF Denormalize

\* At the start nothing is counted and nothing is there to count.
LEMMA NothingCounted ==
    ASSUME worker = [s \in Slots |-> IdleWorker], denormQ = <<>>, forwarding = Nil,
           loop = IdleLoop, refreshWaiting = 0, panics = 0
    PROVE  Counted
<1>1. Busy = {} /\ Dones(denormQ) = {}
  BY DEF Busy, Dones, IdleWorker
<1>2. Cardinality(Busy) = 0 /\ Cardinality(Dones(denormQ)) = 0
  BY <1>1, FS_EmptySet
<1>3. One(forwarding # Nil) = 0 /\ One(loop.pc = "done") = 0
  BY DEF One, IdleLoop
<1> QED  BY <1>2, <1>3 DEF Counted

\* For any number of authors, edges and slots: the gauge is the number of refreshes that
\* were started and whose refreshDone has not been handled, and the panics since the
\* process started, each of which leaves it one too high.
THEOREM GaugeCounts == Spec => []RefreshWaitingOK
<1>1. Init => Counted
  BY NothingCounted DEF Init
<1>2. TypeInv /\ Counted /\ [Next]_vars => (TypeInv /\ Counted)'
  <2> SUFFICES ASSUME TypeInv, Counted, [Next]_vars
               PROVE  Counted'
    BY NextType
  <2>1. CASE UNCHANGED vars
    BY <2>1, CountFrame DEF vars, pipeline, history, Busy, Dones
  <2>2. CASE Crash
    <3>1. Busy' = {} /\ Dones(denormQ') = {}
      BY <2>2 DEF Crash, Busy, Dones, IdleWorker
    <3>2. Cardinality(Busy') = 0 /\ Cardinality(Dones(denormQ')) = 0
      BY <3>1, FS_EmptySet
    <3>3. One(forwarding' # Nil) = 0 /\ One(loop'.pc = "done") = 0
      BY <2>2 DEF Crash, One, IdleLoop
    <3> QED  BY <2>2, <3>2, <3>3 DEF Crash, Counted
  <2>3. CASE Recover \/ PersistedFailed
    <3>1. UNCHANGED <<refreshWaiting, panics, forwarding, worker, denormQ, loop>>
      BY <2>3 DEF Recover, Persisted, Resume, PersistedFailed, pipeline, history
    <3> QED  BY <3>1, CountFrame DEF Busy, Dones
  <2>4. CASE Next /\ ~Crash /\ ~(Recover \/ PersistedFailed)
    BY <2>4, OutsideCount, WorkerCount, LoopCount DEF Next
  <2> QED  BY <2>1, <2>2, <2>3, <2>4
<1>3. TypeInv /\ Counted => RefreshWaitingOK
  BY CountedIsWaiting
<1> QED  BY InitType, <1>1, <1>2, <1>3, PTL DEF Spec
=============================================================================
