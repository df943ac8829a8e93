----------------------- MODULE CloudflareBuster_proofs -----------------------
(***************************************************************************)
(* Proofs about CloudflareBuster, for any URLs, any limit of URLs per      *)
(* request and any number of requests at once: its type invariant, that it *)
(* implements PurgeQueue, and that a request which cannot be built ends    *)
(* all purging.                                                            *)
(*                                                                         *)
(* PurgeQueue takes a request to be one that has URLs, so the refinement   *)
(* needs to know that a request goroutine has URLs exactly while it runs.  *)
(* What flush takes is not empty because it counts the queue, which is a   *)
(* finite set.                                                             *)
(***************************************************************************)
EXTENDS CloudflareBuster, FiniteSetTheorems, TLAPS

\* A goroutine has URLs exactly while it runs, and there are finitely many to count.
RequestsOK ==
    /\ IsFiniteSet(queue)
    /\ \A r \in Requests :
        /\ IsFiniteSet(request[r].urls)
        /\ request[r].pc = "idle" <=> request[r].urls = {}

\* flush (cloudflare.go:91) never writes to the pipe of more than one request: whoever builds
\* a request that is not read yet has flush waiting for it, with the lock.
OneWriter == \A r \in Requests : request[r].pc \in {"started", "unbuilt"} => mu = r

Inv == TypeOK /\ OneWriter /\ RequestsOK

\* Nothing waits and nothing runs when the process starts (newCloudflareBuster).
LEMMA InitInv == Init => Inv
  BY FS_EmptySet DEF Init, Inv, TypeOK, OneWriter, RequestsOK, Idle

\* What flush takes out of the queue is some of it, and not nothing (cloudflare.go:91).
LEMMA FilesTaken ==
    ASSUME IsFiniteSet(queue), queue # {}, NEW files \in SUBSET queue,
           Cardinality(files) = IF Cardinality(queue) < MaxFiles
                                THEN Cardinality(queue) ELSE MaxFiles
    PROVE  files # {} /\ IsFiniteSet(files) /\ IsFiniteSet(queue \ files)
<1>1. Cardinality(queue) \in Nat /\ Cardinality(queue) # 0
  BY FS_CardinalityType, FS_EmptySet
<1>2. Cardinality(files) # 0
  BY <1>1, BusterAssumption
<1>3. files # {}
  BY <1>2, FS_EmptySet
<1>4. IsFiniteSet(files) /\ IsFiniteSet(queue \ files)
  BY FS_Subset
<1> QED  BY <1>3, <1>4

\* A step of a goroutine to another place keeps its URLs, and the others as they are.
LEMMA GotoKeeps ==
    ASSUME Inv, NEW r \in Requests, NEW pc \in {"sent", "failed", "unbuilt"},
           Goto(r, pc), request[r].pc # "idle", UNCHANGED <<queue, mu, endpoint>>,
           pc = "unbuilt" => request[r].pc = "started"
    PROVE  Inv' /\ \A s \in Requests : request'[s].urls = request[s].urls
<1>1. /\ request' = [request EXCEPT ![r] = [request[r] EXCEPT !.pc = pc]]
      /\ request[r] \in [pc : {"idle", "started", "sent", "failed", "unbuilt"},
                         urls : SUBSET Urls]
  BY DEF Goto, Inv, TypeOK
<1>2. /\ [request[r] EXCEPT !.pc = pc].pc = pc
      /\ [request[r] EXCEPT !.pc = pc].urls = request[r].urls
      /\ [request[r] EXCEPT !.pc = pc]
             \in [pc : {"idle", "started", "sent", "failed", "unbuilt"}, urls : SUBSET Urls]
  BY <1>1
<1>3. /\ request'[r].pc = pc /\ request'[r].urls = request[r].urls
      /\ \A s \in Requests \ {r} : request'[s] = request[s]
  BY <1>1, <1>2 DEF Inv, TypeOK
<1>4. TypeOK'
  BY <1>1, <1>2 DEF Inv, TypeOK
<1>5. OneWriter'
  BY <1>3 DEF Inv, OneWriter
<1>6. RequestsOK'
  BY <1>3 DEF Inv, RequestsOK
<1> QED  BY <1>3, <1>4, <1>5, <1>6 DEF Inv

\* A goroutine that ends has no URLs left (Idle), and was not one flush writes to.
LEMMA EndKeeps ==
    ASSUME Inv, NEW r \in Requests, request' = [request EXCEPT ![r] = Idle],
           UNCHANGED <<mu, endpoint>>, queue' \subseteq Urls, IsFiniteSet(queue')
    PROVE  Inv' /\ request'[r].urls = {} /\ \A s \in Requests \ {r} : request'[s] = request[s]
<1>1. /\ request'[r] = [pc |-> "idle", urls |-> {}]
      /\ \A s \in Requests \ {r} : request'[s] = request[s]
  BY DEF Inv, TypeOK, Idle
<1>2. TypeOK'
  BY DEF Inv, TypeOK, Idle
<1>3. OneWriter'
  BY <1>1 DEF Inv, OneWriter
<1>4. RequestsOK'
  <2>1. ASSUME NEW s \in Requests
        PROVE  IsFiniteSet(request'[s].urls)
               /\ (request'[s].pc = "idle" <=> request'[s].urls = {})
    <3>1. CASE s = r
      BY <1>1, <3>1, FS_EmptySet
    <3>2. CASE s # r
      BY <1>1, <3>2 DEF Inv, RequestsOK
    <3> QED  BY <3>1, <3>2
  <2> QED  BY <2>1 DEF RequestsOK
<1> QED  BY <1>1, <1>2, <1>3, <1>4 DEF Inv

\* flush hands a request its files and holds the lock for it: in PurgeQueue, a Take.
LEMMA FlushStep ==
    ASSUME Inv, NEW r \in Requests, flush(r)
    PROVE  Inv' /\ Promise!Take(r)
<1>1. PICK files \in SUBSET queue :
        /\ Cardinality(files) = IF Cardinality(queue) < MaxFiles
                                THEN Cardinality(queue) ELSE MaxFiles
        /\ queue' = queue \ files
        /\ request' = [request EXCEPT ![r] = [pc |-> "started", urls |-> files]]
  BY DEF flush
<1>2. files # {} /\ IsFiniteSet(files) /\ IsFiniteSet(queue')
  BY <1>1, FilesTaken DEF flush, Inv, RequestsOK
<1>3. /\ request'[r] = [pc |-> "started", urls |-> files]
      /\ \A s \in Requests \ {r} : request'[s] = request[s]
  BY <1>1 DEF Inv, TypeOK
<1>4. TypeOK'
  BY <1>1 DEF flush, Inv, TypeOK
<1>5. OneWriter'
  BY <1>3, BusterAssumption DEF flush, Inv, OneWriter
<1>6. RequestsOK'
  BY <1>2, <1>3 DEF Inv, RequestsOK
<1>7. Promise!Take(r)
  <2>1. request[r].urls = {}
    BY DEF flush, Inv, RequestsOK
  <2>2. files \in (SUBSET queue) \ {{}}
    BY <1>2
  <2>3. request'[r].urls = files /\ \A s \in Requests \ {r} : request'[s].urls = request[s].urls
    BY <1>3
  <2>4. [s \in Requests |-> request'[s].urls]
            = [[s \in Requests |-> request[s].urls] EXCEPT ![r] = files]
    BY <2>3, Zenon
  <2> QED  BY <1>1, <2>1, <2>2, <2>4 DEF Promise!Take
<1> QED  BY <1>4, <1>5, <1>6, <1>7 DEF Inv

\* The URLs of a request that fails are due again: in PurgeQueue, Failed.
LEMMA OnErrorStep ==
    ASSUME Inv, NEW r \in Requests, onError(r)
    PROVE  Inv' /\ Promise!Failed(r)
<1>1. /\ queue' = queue \union request[r].urls
      /\ request' = [request EXCEPT ![r] = Idle]
      /\ request[r].urls # {}
  BY DEF onError, Inv, RequestsOK
<1>2. queue' \subseteq Urls /\ IsFiniteSet(queue')
  BY <1>1, FS_Union DEF Inv, TypeOK, RequestsOK
<1>3. Inv' /\ request'[r].urls = {} /\ \A s \in Requests \ {r} : request'[s] = request[s]
  BY <1>1, <1>2, EndKeeps DEF onError
<1>4. [s \in Requests |-> request'[s].urls]
          = [[s \in Requests |-> request[s].urls] EXCEPT ![r] = {}]
  BY <1>3
<1> QED  BY <1>1, <1>3, <1>4 DEF Promise!Failed

\* A request that is answered with 200 leaves what became due meanwhile: Done.
LEMMA PurgedStep ==
    ASSUME Inv, NEW r \in Requests, Purged(r)
    PROVE  Inv' /\ Promise!Done(r)
<1>1. queue' = queue /\ request' = [request EXCEPT ![r] = Idle] /\ request[r].urls # {}
  BY DEF Purged, Inv, RequestsOK
<1>2. Inv' /\ request'[r].urls = {} /\ \A s \in Requests \ {r} : request'[s] = request[s]
  BY <1>1, EndKeeps DEF Purged, Inv, TypeOK, RequestsOK
<1>3. [s \in Requests |-> request'[s].urls]
          = [[s \in Requests |-> request[s].urls] EXCEPT ![r] = {}]
  BY <1>2
<1> QED  BY <1>1, <1>2, <1>3 DEF Promise!Done

\* The steps that PurgeQueue does not see: neither the queue nor anybody's URLs change.
Unseen == UNCHANGED queue /\ \A s \in Requests : request'[s].urls = request[s].urls

LEMMA UnseenStutters == ASSUME Unseen PROVE UNCHANGED Promise!purgeVars
<1>1. [s \in Requests |-> request'[s].urls] = [s \in Requests |-> request[s].urls]
  BY DEF Unseen
<1> QED  BY <1>1 DEF Unseen, Promise!purgeVars

\* Every step of the buster keeps the invariant, and is one of PurgeQueue or unseen.
LEMMA NextStep ==
    ASSUME Inv, [Next]_vars
    PROVE  Inv' /\ [Promise!Next]_(Promise!purgeVars)
<1>1. ASSUME NEW url \in Urls, Add(url)
      PROVE  Inv' /\ Promise!Add(url)
  <2>1. queue' = queue \union {url} /\ UNCHANGED <<mu, request, endpoint>>
    BY <1>1 DEF Add
  <2>2. IsFiniteSet(queue')
    BY <2>1, FS_AddElement DEF Inv, RequestsOK
  <2>3. Inv'
    BY <2>1, <2>2 DEF Inv, TypeOK, OneWriter, RequestsOK
  <2> QED  BY <2>1, <2>3 DEF Promise!Add
<1>2. ASSUME NEW r \in Requests, Send(r) \/ Fail(r) \/ BuildFails(r)
      PROVE  Inv' /\ Unseen
  BY <1>2, GotoKeeps DEF Send, Fail, BuildFails, Unseen
<1>3. ASSUME NEW r \in Requests, Flushed(r)
      PROVE  Inv' /\ Unseen
  <2>1. OneWriter'
    BY <1>3 DEF Flushed, Inv, OneWriter
  <2> QED  BY <1>3, <2>1 DEF Flushed, Inv, TypeOK, RequestsOK, Unseen
<1>4. ASSUME UNCHANGED vars
      PROVE  Inv' /\ Unseen
  BY <1>4 DEF vars, Inv, TypeOK, OneWriter, RequestsOK, Unseen
<1> QED
  BY <1>1, <1>2, <1>3, <1>4, FlushStep, OnErrorStep, PurgedStep, UnseenStutters
  DEF Next, Step, Promise!Next

\* For any URLs, limit and requests: the queue, the lock and the request goroutines hold
\* what the code's can.
THEOREM TypeCorrect == Spec => []TypeOK
<1>1. Inv /\ [Next]_vars => Inv'
  BY NextStep
<1>2. Inv => TypeOK
  BY DEF Inv
<1> QED  BY InitInv, <1>1, <1>2, PTL DEF Spec

\* For any URLs, limit and requests, the buster keeps its promise to the cache: only a
\* request takes a URL off the queue, a failure brings it back, and a success does not
\* touch what was added meanwhile.
THEOREM ImplementsPurgeQueue == Spec => KeepsPromise
<1>1. Init => Promise!Init
  BY DEF Init, Promise!Init, Idle
<1>2. Inv /\ [Next]_vars => Inv' /\ [Promise!Next]_(Promise!purgeVars)
  BY NextStep
<1> QED  BY InitInv, <1>1, <1>2, PTL DEF Spec, KeepsPromise, Promise!Spec

\* What a request that could not be built leaves possible: nothing that takes the lock.
UnbuiltBlocks ==
    \A r \in Requests : request[r].pc = "unbuilt" =>
        UNCHANGED <<queue, mu>> /\ request'[r].pc = "unbuilt"

\* The converse of what LockIsReleased assumes, for any URLs, limit and requests: once
\* http.NewRequest has failed (cloudflare.go:114), flush keeps the lock for good, because the
\* goroutine that would close its pipe waits for that lock in onError; no URL is added or
\* purged from then on, and every write of the cache that comes to Add waits with it.
THEOREM UnbuiltStopsAll == Spec => [][UnbuiltBlocks]_vars
<1>1. ASSUME Inv, Next
      PROVE  UnbuiltBlocks
  <2> SUFFICES ASSUME NEW r \in Requests, request[r].pc = "unbuilt"
               PROVE  UNCHANGED <<queue, mu>> /\ request'[r].pc = "unbuilt"
    BY DEF UnbuiltBlocks
  <2>1. mu = r /\ mu # NoRequest
    BY <1>1, BusterAssumption DEF Inv, OneWriter
  <2>2. ASSUME NEW s \in Requests, Flushed(s)
        PROVE  FALSE
    BY <2>1, <2>2 DEF Flushed
  <2>3. ASSUME NEW s \in Requests, Send(s) \/ Fail(s) \/ BuildFails(s) \/ Purged(s)
        PROVE  UNCHANGED <<queue, mu>> /\ request'[r].pc = "unbuilt"
    <3>1. s # r /\ UNCHANGED <<queue, mu>>
      BY <2>3 DEF Send, Fail, BuildFails, Purged
    <3>2. request'[r] = request[r]
      BY <1>1, <2>3, <3>1 DEF Send, Fail, BuildFails, Purged, Goto, Inv, TypeOK
    <3> QED  BY <3>1, <3>2
  <2> QED  BY <1>1, <2>1, <2>2, <2>3 DEF Next, Add, flush, onError, Step
<1>2. Inv /\ [Next]_vars => Inv' /\ [UnbuiltBlocks]_vars
  BY <1>1, NextStep
<1> QED  BY InitInv, <1>2, PTL DEF Spec
=============================================================================
