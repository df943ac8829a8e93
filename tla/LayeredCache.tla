---------------------------- MODULE LayeredCache ----------------------------
(***************************************************************************)
(* internal/cache.go over memory.go, postgres.go and the cache half of     *)
(* cloudflare.go: a call visits the layers one after the other, and other  *)
(* calls run in between.  A value found in Postgres percolates to memory;  *)
(* whatever is set or expired has its URL queued for purging from the CDN, *)
(* of which PurgeQueue says what CloudflareBuster implements.              *)
(*                                                                         *)
(* Every Set stores a value of its own, its version.  Of a TTL three cases *)
(* are told apart: "fresh", "lapsed" when it ran out, and "expired" when   *)
(* Expire took it.  What is not fresh is read as a TTL of 0.  Memory drops *)
(* entries whose TTL ran out, except those stored with a TTL of 0, which   *)
(* it keeps and reports as 0.                                              *)
(***************************************************************************)
EXTENDS Naturals

CONSTANTS
    Clients,        \* goroutines that call the cache
    Keys,
    NoEntry,
    MaxVersion,     \* bound: how many Sets there are
    Urls, pather,   \* the URL of each key, which keys may share
    Requests        \* the purges under way at once (a bound)

ASSUME CacheAssumption ==
    /\ pather \in [Keys -> Urls]
    /\ MaxVersion \in Nat
    /\ NoEntry \notin [val : Nat, ttl : {"fresh", "lapsed", "expired"}]

VARIABLES
    memory, postgres,               \* the entry of each key in the two layers that store
    op,                             \* the call each client is in
    due, purging,                   \* PurgeQueue: the URLs to purge
    version,                        \* history: how many Sets were called
    torn,                           \* history: keys whose layers a race or a failure may have parted
    gone, carried,                  \* history: versions deleted; those a Get had read by then
    dirty, since                    \* history: keys changed since a purge began; and since each request

Buster == INSTANCE PurgeQueue
stores == <<memory, postgres>>
buster == <<due, purging>>
history == <<version, torn, gone, carried, dirty, since>>
vars == <<stores, op, buster, history>>

Versions == 0 .. MaxVersion
TTLs == {"fresh", "lapsed", "expired"}
Entry(val, ttl) == [val |-> val, ttl |-> ttl]
Entries == [val : Versions, ttl : TTLs] \union {NoEntry}

(***************************************************************************)
(* A call: where it is, for a Get what it has read, and (history) whether  *)
(* it has had the key for itself.  A Get that found the key goes on to     *)
(* "bytes", memory's second lookup, or to "fill", the percolation.         *)
(***************************************************************************)
Kinds == {"get", "set", "expire", "delete"}
Writers == Kinds \ {"get"}
Visits == {"memory", "postgres", "cloudflare", "cloudflare again", "bytes", "fill"}
NoOp == [kind |-> "none"]
Ops == [kind : Kinds, key : Keys, at : Visits, entry : Entries, alone : BOOLEAN]

TopDown(kind, visit) ==
    CASE visit = "start" -> "memory"
      [] visit = "memory" -> "postgres"
      [] visit = "postgres" -> IF kind \in {"set", "expire"} THEN "cloudflare" ELSE "return"
      [] visit = "cloudflare" -> "cloudflare again"
      [] visit \in {"cloudflare again", "bytes", "fill"} -> "return"

BottomUp(visit) ==
    CASE visit = "start" -> "postgres"
      [] visit = "postgres" -> "memory"
      [] visit = "memory" -> "return"

BadAfterDelete(kind, visit) == TopDown(kind, visit)

BadAfterExpire(kind, visit) ==
    IF kind = "delete" THEN BottomUp(visit)
    ELSE IF kind = "expire" /\ visit = "start" THEN "postgres"
    ELSE TopDown(kind, visit)

(***************************************************************************)
(* The layers in the order of wrapped, where NewCache appends Cloudflare's *)
(* twice; for Delete backwards.  A Get and a Delete do nothing there.      *)
(***************************************************************************)
After(kind, visit) == IF kind = "delete" THEN BottomUp(visit) ELSE TopDown(kind, visit)

Init ==
    /\ memory = [k \in Keys |-> NoEntry]
    /\ postgres \in [Keys -> {NoEntry, Entry(0, "fresh"), Entry(0, "lapsed")}]
    /\ op = [c \in Clients |-> NoOp]
    /\ Buster!Init
    /\ version = 0
    /\ torn = {}
    /\ gone = [k \in Keys |-> {}]
    /\ carried = [k \in Keys |-> {}]
    /\ dirty = {}
    /\ since = [r \in Requests |-> {}]

Running(k) == {c \in Clients : op[c] # NoOp /\ op[c].key = k}
Writing(k) == {c \in Running(k) : op[c].kind \in Writers}

(***************************************************************************)
(* A call starts.  A Set of nothing, or with a TTL of 0, is refused before *)
(* it has any effect, and left out.  Calls of one key may part its layers  *)
(* when they overlap and one of them writes.                               *)
(***************************************************************************)
Begin(c, kind, k) ==
    /\ op[c] = NoOp
    /\ kind = "set" => version < MaxVersion
    /\ version' = IF kind = "set" THEN version + 1 ELSE version
    /\ op' = [d \in Clients |->
                IF d = c
                THEN [kind |-> kind, key |-> k, at |-> After(kind, "start"),
                      entry |-> IF kind = "set" THEN Entry(version', "fresh") ELSE NoEntry,
                      alone |-> Running(k) = {}]
                ELSE IF d \in Running(k) THEN [op[d] EXCEPT !.alone = FALSE]
                ELSE op[d]]
    /\ torn' = IF (IF kind = "get" THEN Writing(k) ELSE Running(k)) # {}
               THEN torn \union {k} ELSE torn
    /\ UNCHANGED <<stores, buster, gone, carried, dirty, since>>

\* Client c is in a call of this kind and about to visit this layer, of key k.
At(c, kind, visit, k) ==
    /\ op[c] # NoOp
    /\ op[c].kind = kind
    /\ op[c].key = k
    /\ op[c].at = visit

Return(c) == op' = [op EXCEPT ![c] = NoOp]
Found(c, visit, entry) == op' = [op EXCEPT ![c].at = visit, ![c].entry = entry]

Continue(c) ==
    LET next == After(op[c].kind, op[c].at)
    IN  IF next = "return" THEN Return(c) ELSE op' = [op EXCEPT ![c].at = next]

-----------------------------------------------------------------------------
(* Get.                                                                    *)

\* memoryCache.GetWithTTL asks for the TTL, which says whether there is an entry ...
GetMemory(c, k) ==
    /\ At(c, "get", "memory", k)
    /\ IF memory[k] = NoEntry THEN Continue(c) ELSE Found(c, "bytes", memory[k])
    /\ UNCHANGED <<stores, buster, history>>

\* ... and then for the bytes, of which there are none if the entry has gone since.
GetBytes(c, k) ==
    /\ At(c, "get", "bytes", k)
    /\ Return(c)
    /\ UNCHANGED <<stores, buster, history>>

\* A row whose TTL is over is a hit with a TTL of 0; a query that fails is a miss.
GetPostgres(c, k) ==
    /\ At(c, "get", "postgres", k)
    /\ \/ Return(c)
       \/ postgres[k] # NoEntry /\ Found(c, "fill", postgres[k])
    /\ UNCHANGED <<stores, buster, history>>

\* The deferred Set of the layer above, with the TTL the row had when it was read.
Percolate(c, k) ==
    /\ At(c, "get", "fill", k)
    /\ memory' = [memory EXCEPT ![k] = op[c].entry]
    /\ Return(c)
    /\ UNCHANGED <<postgres, buster, history>>

-----------------------------------------------------------------------------
(* Set, Expire and Delete.                                                 *)

\* What the CDN may hold of the key is out of date from here on.
Changed(k) ==
    /\ dirty' = dirty \union {k}
    /\ since' = [r \in Requests |-> since[r] \union {k}]

\* A writer that had the key for itself has brought its layers together.
Mended(c, k) == torn' = IF op[c].alone THEN torn \ {k} ELSE torn

SetMemory(c, k) ==
    /\ At(c, "set", "memory", k)
    /\ memory' = [memory EXCEPT ![k] = op[c].entry]
    /\ Continue(c)
    /\ Changed(k)
    /\ UNCHANGED <<postgres, buster, version, torn, gone, carried>>

\* A failure is logged, and Set goes on.
SetPostgres(c, k) ==
    /\ At(c, "set", "postgres", k)
    /\ \/ postgres' = [postgres EXCEPT ![k] = op[c].entry] /\ Mended(c, k)
       \/ UNCHANGED postgres /\ torn' = torn \union {k}
    /\ Continue(c)
    /\ Changed(k)
    /\ UNCHANGED <<memory, buster, version, gone, carried>>

ExpireMemory(c, k) ==
    /\ At(c, "expire", "memory", k)
    /\ memory' = [memory EXCEPT ![k] = NoEntry]
    /\ Continue(c)
    /\ Changed(k)
    /\ UNCHANGED <<postgres, buster, version, torn, gone, carried>>

\* Expire goes on after a failure, whose error the next layer's result replaces.
ExpirePostgres(c, k) ==
    /\ At(c, "expire", "postgres", k)
    /\ \/ /\ postgres[k] # NoEntry
          /\ postgres' = [postgres EXCEPT ![k].ttl = "expired"]
       \/ UNCHANGED postgres
    /\ Mended(c, k)
    /\ Continue(c)
    /\ Changed(k)
    /\ UNCHANGED <<memory, buster, version, gone, carried>>

AtCloudflare(c, k) ==
    \E kind \in {"set", "expire"}, visit \in {"cloudflare", "cloudflare again"} : At(c, kind, visit, k)

BadPurge(c, k) ==
    /\ AtCloudflare(c, k)
    /\ IF purging = [r \in Requests |-> {}] THEN Buster!Add(pather[k]) ELSE UNCHANGED buster
    /\ Continue(c)
    /\ UNCHANGED <<stores, history>>

BadPurgeKey(c, k) ==
    /\ AtCloudflare(c, k)
    /\ Buster!Add(k)
    /\ Continue(c)
    /\ UNCHANGED <<stores, history>>

\* The Cloudflare layer queues the key's URL.
Purge(c, k) ==
    /\ AtCloudflare(c, k)
    /\ Buster!Add(pather[k])
    /\ Continue(c)
    /\ UNCHANGED <<stores, history>>

\* What Gets have read of the key but not percolated yet.
ReadOf(k) == {op[c].entry.val : c \in {d \in Running(k) : op[d].at = "fill"}}

DeletePostgres(c, k) ==
    /\ At(c, "delete", "postgres", k)
    /\ \/ /\ postgres[k] # NoEntry
          /\ postgres' = [postgres EXCEPT ![k] = NoEntry]
          /\ gone' = [gone EXCEPT ![k] = @ \union {postgres[k].val}]
          /\ carried' = [carried EXCEPT ![k] = @ \union ReadOf(k)]
       \/ UNCHANGED <<postgres, gone, carried>>
    /\ Continue(c)
    /\ UNCHANGED <<memory, buster, version, torn, dirty, since>>

DeleteMemory(c, k) ==
    /\ At(c, "delete", "memory", k)
    /\ memory' = [memory EXCEPT ![k] = NoEntry]
    /\ Mended(c, k)
    /\ Continue(c)
    /\ UNCHANGED <<postgres, buster, version, gone, carried, dirty, since>>

Step(c, k) ==
    \/ GetMemory(c, k) \/ GetBytes(c, k) \/ GetPostgres(c, k) \/ Percolate(c, k)
    \/ SetMemory(c, k) \/ SetPostgres(c, k)
    \/ ExpireMemory(c, k) \/ ExpirePostgres(c, k)
    \/ Purge(c, k)
    \/ DeletePostgres(c, k) \/ DeleteMemory(c, k)
-----------------------------------------------------------------------------
(* Around the calls.                                                       *)

\* Memory drops an entry: its TTL ran out, or room was needed.
Evict(k) ==
    /\ memory[k] # NoEntry
    /\ memory' = [memory EXCEPT ![k] = NoEntry]
    /\ UNCHANGED <<postgres, op, buster, history>>

\* The TTL of a row runs out.
Lapse(k) ==
    /\ postgres[k] # NoEntry
    /\ postgres[k].ttl = "fresh"
    /\ postgres' = [postgres EXCEPT ![k].ttl = "lapsed"]
    /\ UNCHANGED <<memory, op, buster, history>>

\* The tick of Run.
Flush(r) ==
    /\ Buster!Take(r)
    /\ since' = [since EXCEPT ![r] = {}]
    /\ UNCHANGED <<stores, op, version, torn, gone, carried, dirty>>

\* Purging covers the changes up to the flush.
Purged(r) ==
    /\ Buster!Done(r)
    /\ dirty' = {k \in dirty : k \in since[r] \/ pather[k] \notin purging[r]}
    /\ UNCHANGED <<stores, op, version, torn, gone, carried, since>>

PurgeFailed(r) ==
    /\ Buster!Failed(r)
    /\ UNCHANGED <<stores, op, history>>

\* The process dies and starts again: Postgres is all that is left.
Crash ==
    /\ memory' = [k \in Keys |-> NoEntry]
    /\ op' = [c \in Clients |-> NoOp]
    /\ due' = {}
    /\ purging' = [r \in Requests |-> {}]
    /\ torn' = {}
    /\ dirty' = {}
    /\ since' = [r \in Requests |-> {}]
    /\ UNCHANGED <<postgres, version, gone, carried>>

Next ==
    \/ \E c \in Clients, k \in Keys : Step(c, k) \/ \E kind \in Kinds : Begin(c, kind, k)
    \/ \E k \in Keys : Evict(k) \/ Lapse(k)
    \/ \E r \in Requests : Flush(r) \/ Purged(r) \/ PurgeFailed(r)
    \/ Crash

Spec == Init /\ [][Next]_vars

-----------------------------------------------------------------------------
\* The variables hold what the code's can: calls visit layers, stores hold entries.
TypeOK ==
    /\ memory \in [Keys -> Entries]
    /\ postgres \in [Keys -> Entries]
    /\ op \in [Clients -> Ops \union {NoOp}]
    /\ due \subseteq Urls
    /\ purging \in [Requests -> SUBSET Urls]
    /\ version \in Versions
    /\ torn \subseteq Keys /\ dirty \subseteq Keys
    /\ gone \in [Keys -> SUBSET Versions] /\ carried \in [Keys -> SUBSET Versions]
    /\ since \in [Requests -> SUBSET Keys]

(***************************************************************************)
(* As long as no writer of a key overlapped another call of it, and since  *)
(* the last writer that did not, what memory holds is what Postgres holds, *)
(* and what was expired is not fresh in memory: percolation, evictions,    *)
(* lapses and any number of concurrent Gets do not part the layers, and    *)
(* one writer alone brings layers that were parted together again.  The    *)
(* races that do part them: a Get that has read the row before a Set, an   *)
(* Expire or a Delete gets to it percolates after they visited memory.     *)
(***************************************************************************)
Coherent ==
    \A k \in Keys \ torn :
        Writing(k) = {} /\ memory[k] # NoEntry =>
            /\ postgres[k] # NoEntry
            /\ memory[k].val = postgres[k].val
            /\ postgres[k].ttl = "expired" => memory[k].ttl # "fresh"

(***************************************************************************)
(* What Delete's order is for (cache.go:85): a value it has removed from   *)
(* Postgres is back in memory only if a Get had already read it by then,   *)
(* or if Delete has yet to visit memory.  No later Get finds it.           *)
(***************************************************************************)
DeletedStaysGone ==
    \A k \in Keys :
        memory[k] # NoEntry /\ memory[k].val \in gone[k] =>
            \/ memory[k].val \in carried[k]
            \/ \E c \in Clients : At(c, "delete", "memory", k)

(***************************************************************************)
(* Whatever was set or expired since Cloudflare last purged its URL is on  *)
(* its way to be purged: waiting, in a request, or its call is about to    *)
(* queue it.  Failed requests and changes during a request lose nothing.   *)
(***************************************************************************)
PurgeFollowsWrite ==
    \A k \in dirty :
        \/ pather[k] \in due \union Buster!InFlight
        \/ \E c \in Running(k) : op[c].kind \in {"set", "expire"}

=============================================================================
