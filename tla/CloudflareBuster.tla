-------------------------- MODULE CloudflareBuster --------------------------
(***************************************************************************)
(* internal/cloudflare.go: the set of URLs waiting to be purged from the   *)
(* CDN.  Cache writes Add a URL; once a second flush takes at most         *)
(* MaxFiles of them and starts a goroutine that makes the request, to      *)
(* which it writes the body through a pipe while it holds the lock.  A     *)
(* request that fails puts its URLs back.                                  *)
(***************************************************************************)
EXTENDS Naturals, FiniteSets

CONSTANTS
    Urls,
    MaxFiles,   \* how many URLs one request may name: 100
    Requests,   \* identities of the request goroutines alive at once (a bound)
    NoRequest

ASSUME BusterAssumption ==
    MaxFiles \in Nat \ {0} /\ NoRequest \notin Requests

VARIABLES
    queue,      \* cb.queue
    mu,         \* cb.mu: the request flush holds it for, or NoRequest
    request,    \* the request goroutines
    endpoint    \* whether cb.url parses; it is built from the configured zone

vars == <<queue, mu, request, endpoint>>

Idle == [pc |-> "idle", urls |-> {}]

Init ==
    /\ queue = {}
    /\ mu = NoRequest
    /\ request = [r \in Requests |-> Idle]
    /\ endpoint \in {"valid", "invalid"}

\* Add is atomic: the lock is released before it returns.
Add(url) ==
    /\ mu = NoRequest
    /\ queue' = queue \union {url}
    /\ UNCHANGED <<mu, request, endpoint>>

BadFlush(r) ==
    /\ mu = NoRequest
    /\ queue # {}
    /\ request[r].pc = "idle"
    /\ \E files \in SUBSET queue :
        /\ Cardinality(files) = IF Cardinality(queue) < MaxFiles
                                THEN Cardinality(queue) ELSE MaxFiles
        /\ queue' = {}
        /\ request' = [request EXCEPT ![r] = [pc |-> "started", urls |-> files]]
    /\ mu' = r
    /\ UNCHANGED endpoint

\* Take some MaxFiles URLs, or all when there are fewer, and start their request.
flush(r) ==
    /\ mu = NoRequest
    /\ queue # {}
    /\ request[r].pc = "idle"
    /\ \E files \in SUBSET queue :
        /\ Cardinality(files) = IF Cardinality(queue) < MaxFiles
                                THEN Cardinality(queue) ELSE MaxFiles
        /\ queue' = queue \ files
        /\ request' = [request EXCEPT ![r] = [pc |-> "started", urls |-> files]]
    /\ mu' = r
    /\ UNCHANGED endpoint

Goto(r, pc) == request' = [request EXCEPT ![r].pc = pc]

\* The transport reads the body out of the pipe.
Send(r) ==
    /\ request[r].pc = "started"
    /\ endpoint = "valid"
    /\ Goto(r, "sent")
    /\ UNCHANGED <<queue, mu, endpoint>>

\* Do fails, before or after the body is read, or times out, or is refused.  The
\* transport closes its end of the pipe in every case.
Fail(r) ==
    /\ request[r].pc \in {"started", "sent"}
    /\ endpoint = "valid"
    /\ Goto(r, "failed")
    /\ UNCHANGED <<queue, mu, endpoint>>

\* NewRequest fails: nobody will read the pipe, which stays open until onError is over.
BuildFails(r) ==
    /\ request[r].pc = "started"
    /\ endpoint = "invalid"
    /\ Goto(r, "unbuilt")
    /\ UNCHANGED <<queue, mu, endpoint>>

BadFlushedUnclosed(r) ==
    /\ mu = r
    /\ request[r].pc = "sent"
    /\ mu' = NoRequest
    /\ UNCHANGED <<queue, request, endpoint>>

\* The body has been read, or the pipe closed: flush returns and releases the lock.
Flushed(r) ==
    /\ mu = r
    /\ request[r].pc \in {"sent", "failed", "idle"}
    /\ mu' = NoRequest
    /\ UNCHANGED <<queue, request, endpoint>>

BadOnErrorNests(r) ==
    /\ request[r].pc \in {"failed", "unbuilt"}
    /\ mu = NoRequest
    /\ queue' = queue \union {request[r].urls}
    /\ request' = [request EXCEPT ![r] = Idle]
    /\ UNCHANGED <<mu, endpoint>>

\* Put the URLs of a failed request back; this needs the lock.
onError(r) ==
    /\ request[r].pc \in {"failed", "unbuilt"}
    /\ mu = NoRequest
    /\ queue' = queue \union request[r].urls
    /\ request' = [request EXCEPT ![r] = Idle]
    /\ UNCHANGED <<mu, endpoint>>

\* Cloudflare answers 200.
Purged(r) ==
    /\ request[r].pc = "sent"
    /\ request' = [request EXCEPT ![r] = Idle]
    /\ UNCHANGED <<queue, mu, endpoint>>

Step(r) ==
    Send(r) \/ Fail(r) \/ BuildFails(r) \/ Flushed(r) \/ onError(r) \/ Purged(r)

Next == (\E url \in Urls : Add(url)) \/ (\E r \in Requests : flush(r) \/ Step(r))

Spec == Init /\ [][Next]_vars

(***************************************************************************)
(* Requests run under a timeout and goroutines that can run do; the lock   *)
(* goes in the end to whoever waits for it (a Go mutex starves nobody),    *)
(* hence strong fairness for onError.  Nothing obliges Cloudflare to       *)
(* accept a request.                                                       *)
(***************************************************************************)
Fairness ==
    \A r \in Requests :
        /\ WF_vars(Send(r) \/ Fail(r) \/ BuildFails(r) \/ Purged(r))
        /\ WF_vars(Flushed(r))
        /\ SF_vars(onError(r))

FairSpec == Spec /\ Fairness

-----------------------------------------------------------------------------
\* The variables hold what the code's can: cb.queue, cb.mu and each request goroutine.
TypeOK ==
    /\ queue \subseteq Urls
    /\ mu \in Requests \union {NoRequest}
    /\ request \in [Requests -> [pc : {"idle", "started", "sent", "failed", "unbuilt"},
                                 urls : SUBSET Urls]]
    /\ endpoint \in {"valid", "invalid"}

(***************************************************************************)
(* Of flush and onError: only a URL that is in a request of its own leaves *)
(* the queue, only a failure brings it back, and only a 200 drops it; what *)
(* is added while its URL is in a request is purged again.                 *)
(***************************************************************************)
Promise == INSTANCE PurgeQueue WITH due <- queue, purging <- [r \in Requests |-> request[r].urls]
KeepsPromise == Promise!Spec

(***************************************************************************)
(* The lock that cache writes need for Add, and that flush holds while it  *)
(* writes to a request (cloudflare.go:74), is released again and again, if *)
(* requests can be built.                                                  *)
(***************************************************************************)
LockIsReleased == endpoint = "valid" => []<>(mu = NoRequest)
=============================================================================
