------------------------ MODULE LayeredCache_proofs ------------------------
(***************************************************************************)
(* Proofs about LayeredCache, for any clients, keys, URLs, purges and      *)
(* number of Sets.  TypeInv adds to TypeOK where a call of each kind can   *)
(* be and what it carries there; DeleteInv follows each version from its   *)
(* Set to its deletion, PurgeInv each change to the purge that covers it,  *)
(* LayersInv what the layers and the calls of a key hold of each other.    *)
(***************************************************************************)
EXTENDS LayeredCache, TLAPS

Places(kind) ==
    IF kind = "get" THEN {"memory", "postgres", "bytes", "fill"}
    ELSE IF kind = "delete" THEN {"postgres", "memory"}
    ELSE {"memory", "postgres", "cloudflare", "cloudflare again"}

Active(c) == op[c] # NoOp

\* A call is where its kind can be; a Set carries its version, a fill what it read.
OpInv ==
    \A c \in Clients : Active(c) =>
        /\ op[c] \in Ops
        /\ op[c].at \in Places(op[c].kind)
        /\ op[c].at = "fill" => op[c].entry # NoEntry
        /\ op[c].kind = "set" =>
             op[c].entry # NoEntry /\ op[c].entry.ttl = "fresh" /\ op[c].entry.val <= version

StoresInv ==
    /\ memory \in [Keys -> Entries]
    /\ postgres \in [Keys -> Entries]
    /\ version \in Versions

HistoryInv ==
    /\ torn \subseteq Keys /\ dirty \subseteq Keys
    /\ gone \in [Keys -> SUBSET Versions] /\ carried \in [Keys -> SUBSET Versions]
    /\ since \in [Requests -> SUBSET Keys]
    /\ due \subseteq Urls
    /\ purging \in [Requests -> SUBSET Urls]

TypeInv ==
    /\ StoresInv
    /\ op \in [Clients -> Ops \union {NoOp}]
    /\ OpInv
    /\ HistoryInv

LEMMA NoOpIsNoOp == NoOp \notin Ops
  BY SMT DEF NoOp, Ops, Kinds

LEMMA EntryFacts ==
    /\ NoEntry \in Entries
    /\ \A e \in Entries : e # NoEntry =>
         e.val \in Versions /\ e.ttl \in TTLs /\ e = Entry(e.val, e.ttl)
    /\ \A v \in Versions, t \in TTLs : Entry(v, t) \in Entries /\ Entry(v, t) # NoEntry
  BY CacheAssumption, SMT DEF Entries, Versions, TTLs, Entry

\* A row with another TTL.
LEMMA TTLFacts ==
    ASSUME postgres \in [Keys -> Entries], NEW k \in Keys, postgres[k] # NoEntry, NEW t \in TTLs,
           postgres' = [postgres EXCEPT ![k].ttl = t]
    PROVE  /\ postgres' \in [Keys -> Entries]
           /\ postgres'[k] = Entry(postgres[k].val, t)
           /\ \A l \in Keys : l # k => postgres'[l] = postgres[l]
  <1>1. postgres[k] = Entry(postgres[k].val, postgres[k].ttl) /\ postgres[k].val \in Versions
    BY EntryFacts
  <1>2. [postgres[k] EXCEPT !.ttl = t] = Entry(postgres[k].val, t)
    BY <1>1, SMT DEF Entry
  <1>3. postgres' = [postgres EXCEPT ![k] = Entry(postgres[k].val, t)]
    BY <1>2
  <1>4. Entry(postgres[k].val, t) \in Entries
    BY <1>1, EntryFacts
  <1> QED
    BY <1>3, <1>4

\* A call at a layer of one of its kinds has the fields of one.
LEMMA AtFacts ==
    ASSUME TypeInv, NEW c \in Clients, NEW k \in Keys, NEW kind, NEW visit, At(c, kind, visit, k)
    PROVE  /\ op[c] \in Ops /\ op[c].at \in Places(op[c].kind)
           /\ op[c].kind = kind /\ op[c].at = visit /\ op[c].key = k
           /\ Active(c)
  BY DEF TypeInv, OpInv, Active, At

\* Where a call goes next.
LEMMA AfterFacts ==
    /\ After("delete", "start") = "postgres"
    /\ After("delete", "postgres") = "memory"
    /\ After("delete", "memory") = "return"
    /\ After("get", "start") = "memory"
    /\ After("get", "memory") = "postgres"
    /\ After("get", "postgres") = "return"
    /\ After("set", "start") = "memory"
    /\ After("set", "memory") = "postgres"
    /\ After("set", "postgres") = "cloudflare"
    /\ After("set", "cloudflare") = "cloudflare again"
    /\ After("set", "cloudflare again") = "return"
    /\ After("expire", "start") = "memory"
    /\ After("expire", "memory") = "postgres"
    /\ After("expire", "postgres") = "cloudflare"
    /\ After("expire", "cloudflare") = "cloudflare again"
    /\ After("expire", "cloudflare again") = "return"
  BY DEF After, BottomUp, TopDown

\* Going on with a call keeps the calls well formed.
LEMMA ContinueFacts ==
    ASSUME TypeInv, NEW c \in Clients, Active(c), op[c].at \notin {"bytes", "fill"}, Continue(c), version' = version
    PROVE  /\ op' \in [Clients -> Ops \union {NoOp}]
           /\ OpInv'
           /\ \A d \in Clients : d # c => op'[d] = op[d]
           /\ op'[c] # NoOp => op'[c] = [op[c] EXCEPT !.at = op'[c].at]
  <1> DEFINE next == After(op[c].kind, op[c].at)
  <1>1. op[c] \in Ops /\ op[c].at \in Places(op[c].kind)
    BY DEF TypeInv, OpInv
  <1>2. next = "return" \/ next \in Places(op[c].kind) \ {"fill", "bytes"}
    <2>1. op[c].kind \in Kinds
      BY <1>1 DEF Ops
    <2>2. CASE op[c].kind = "get"
      BY <1>1, <2>2, AfterFacts DEF Places, Kinds
    <2>3. CASE op[c].kind = "delete"
      BY <1>1, <2>3, AfterFacts DEF Places, Kinds
    <2>4. CASE op[c].kind = "set"
      BY <1>1, <2>4, AfterFacts DEF Places, Kinds
    <2>5. CASE op[c].kind = "expire"
      BY <1>1, <2>5, AfterFacts DEF Places, Kinds
    <2> QED
      BY <2>1, <2>2, <2>3, <2>4, <2>5 DEF Kinds
  <1>3. CASE next = "return"
    <2>1. op' = [op EXCEPT ![c] = NoOp]
      BY <1>3 DEF Continue, Return
    <2> QED
      BY <2>1 DEF TypeInv, OpInv, Active
  <1>4. CASE next # "return"
    <2>1. op' = [op EXCEPT ![c].at = next]
      BY <1>4 DEF Continue
    <2>2. next \in Visits
      BY <1>2, <1>4 DEF Places, Visits
    <2>3. op' \in [Clients -> Ops \union {NoOp}] /\ op'[c] \in Ops /\ op'[c] = [op[c] EXCEPT !.at = next]
      BY <1>1, <2>1, <2>2, SMT DEF TypeInv, Ops
    <2>4. op'[c].at = next /\ op'[c].kind = op[c].kind /\ op'[c].entry = op[c].entry
      BY <1>1, <2>3, SMT DEF Ops
    <2> QED
      BY <1>1, <1>2, <1>4, <2>1, <2>2, <2>3, <2>4 DEF TypeInv, OpInv, Active
  <1> QED
    BY <1>3, <1>4

\* A call that goes on is the same call at the next layer ...
LEMMA ContinueGoes ==
    ASSUME TypeInv, NEW c \in Clients, NEW k \in Keys, NEW kind, NEW visit,
           At(c, kind, visit, k), Continue(c), NEW next \in Visits, After(kind, visit) = next
    PROVE  /\ At(c, kind, next, k)'
           /\ op'[c] # NoOp /\ op'[c].kind = kind /\ op'[c].key = k /\ op'[c].at = next
           /\ op'[c].entry = op[c].entry /\ op'[c].alone = op[c].alone
           /\ op[c] # NoOp /\ op[c].kind = kind /\ op[c].key = k /\ op[c].at = visit
           /\ \A d \in Clients : d # c => op'[d] = op[d]
  <1>1. op[c] \in Ops /\ op[c].kind = kind /\ op[c].at = visit /\ op[c].key = k
    BY AtFacts
  <1>2. next # "return"
    BY DEF Visits
  <1>3. op' = [op EXCEPT ![c].at = next]
    BY <1>1, <1>2 DEF Continue
  <1> DEFINE o == op[c]
  <1>4. op'[c] = [o EXCEPT !.at = next]
    BY <1>3 DEF TypeInv
  <1> HIDE DEF o
  <1>5. o \in Ops /\ [o EXCEPT !.at = next] \in Ops
    BY <1>1, Zenon DEF Ops, o
  <1>6. /\ [o EXCEPT !.at = next].kind = o.kind /\ [o EXCEPT !.at = next].key = o.key
        /\ [o EXCEPT !.at = next].entry = o.entry /\ [o EXCEPT !.at = next].alone = o.alone
        /\ [o EXCEPT !.at = next].at = next
    BY <1>5, Zenon DEF Ops
  <1>7. op'[c] # NoOp
    BY <1>4, <1>5, NoOpIsNoOp
  <1>8. \A d \in Clients : d # c => op'[d] = op[d]
    BY <1>3 DEF TypeInv
  <1> QED
    BY <1>1, <1>4, <1>6, <1>7, <1>8 DEF At, o

\* ... or is over.
LEMMA ContinueEnds ==
    ASSUME TypeInv, NEW c \in Clients, NEW k \in Keys, NEW kind, NEW visit,
           At(c, kind, visit, k), Continue(c), After(kind, visit) = "return"
    PROVE  op'[c] = NoOp /\ \A d \in Clients : d # c => op'[d] = op[d]
  BY AtFacts DEF Continue, Return, TypeInv

\* A call that has found its entry, or returns, leaves the calls well formed as well.
LEMMA FoundFacts ==
    ASSUME TypeInv, NEW c \in Clients, Active(c), op[c].kind = "get",
           NEW visit \in {"bytes", "fill"}, NEW entry \in Entries, entry # NoEntry,
           Found(c, visit, entry), version' = version
    PROVE  /\ op' \in [Clients -> Ops \union {NoOp}]
           /\ OpInv'
           /\ \A d \in Clients : d # c => op'[d] = op[d]
           /\ op'[c] = [op[c] EXCEPT !.at = visit, !.entry = entry]
  <1>1. op[c] \in Ops
    BY DEF TypeInv, OpInv
  <1>2. op' = [op EXCEPT ![c] = [op[c] EXCEPT !.at = visit, !.entry = entry]]
    BY DEF Found
  <1>3. visit \in Visits
    BY DEF Visits
  <1> DEFINE o == op[c]
             found == [o EXCEPT !.at = visit, !.entry = entry]
  <1>4. op'[c] = found
    BY <1>2 DEF TypeInv
  <1> HIDE DEF o
  <1>5. found \in Ops
    BY <1>1, <1>3, Zenon DEF Ops, o
  <1>6. found.at = visit /\ found.entry = entry /\ found.kind = o.kind
    BY <1>1, Zenon DEF Ops, o
  <1> HIDE DEF found
  <1>7. \A d \in Clients : d # c => op'[d] = op[d]
    BY <1>2 DEF TypeInv
  <1>8. op' \in [Clients -> Ops \union {NoOp}]
    BY <1>2, <1>4, <1>5 DEF TypeInv, found, o
  <1>9. op'[c].at \in Places(op'[c].kind) /\ op'[c].kind = "get"
    BY <1>4, <1>6 DEF Places, o
  <1>10. OpInv'
    BY <1>4, <1>5, <1>6, <1>7, <1>9 DEF TypeInv, OpInv, Active
  <1> QED
    BY <1>4, <1>7, <1>8, <1>10 DEF found, o

LEMMA ReturnFacts ==
    ASSUME TypeInv, NEW c \in Clients, Return(c), version' = version
    PROVE  /\ op' \in [Clients -> Ops \union {NoOp}]
           /\ OpInv'
           /\ \A d \in Clients : d # c => op'[d] = op[d]
           /\ op'[c] = NoOp
  BY DEF Return, TypeInv, OpInv, Active

LEMMA BeginFacts ==
    ASSUME TypeInv, NEW c \in Clients, NEW k \in Keys, NEW kind \in Kinds, Begin(c, kind, k)
    PROVE  /\ op' \in [Clients -> Ops \union {NoOp}]
           /\ OpInv'
           /\ version' \in Versions
           /\ version' = IF kind = "set" THEN version + 1 ELSE version
           /\ op'[c] = [kind |-> kind, key |-> k, at |-> After(kind, "start"),
                        entry |-> IF kind = "set" THEN Entry(version', "fresh") ELSE NoEntry,
                        alone |-> Running(k) = {}]
           /\ \A d \in Clients : d # c =>
                op'[d] = IF d \in Running(k) THEN [op[d] EXCEPT !.alone = FALSE] ELSE op[d]
  <1> DEFINE entry == IF kind = "set" THEN Entry(version', "fresh") ELSE NoEntry
             mine == [kind |-> kind, key |-> k, at |-> After(kind, "start"), entry |-> entry,
                      alone |-> Running(k) = {}]
  <1>1. /\ version' = IF kind = "set" THEN version + 1 ELSE version
        /\ op' = [d \in Clients |->
                    IF d = c THEN mine
                    ELSE IF d \in Running(k) THEN [op[d] EXCEPT !.alone = FALSE]
                    ELSE op[d]]
    BY DEF Begin
  <1>2. version' \in Versions /\ version <= version'
    BY <1>1, CacheAssumption, SMT DEF Begin, TypeInv, StoresInv, Versions
  <1>3. entry \in Entries /\ (kind = "set" => entry # NoEntry /\ entry.ttl = "fresh" /\ entry.val = version')
    BY <1>2, EntryFacts DEF Entry, TTLs
  <1>4. After(kind, "start") \in {"memory", "postgres"}
    BY AfterFacts DEF Kinds
  <1>5. mine \in Ops
    <2> HIDE DEF entry
    <2>1. After(kind, "start") \in Visits /\ (Running(k) = {}) \in BOOLEAN
      BY <1>4 DEF Visits
    <2> QED
      BY <1>3, <2>1, Zenon DEF Ops
  <1>6. After(kind, "start") \in Places(kind)
    BY AfterFacts DEF Places, Kinds
  <1> HIDE DEF entry
  <1>7. /\ mine.kind = kind /\ mine.at = After(kind, "start") /\ mine.entry = entry
        /\ mine.at # "fill"
    BY <1>4
  <1> HIDE DEF mine
  <1>8. op'[c] = mine
    BY <1>1
  <1>9. \A d \in Clients : d # c =>
          op'[d] = IF d \in Running(k) THEN [op[d] EXCEPT !.alone = FALSE] ELSE op[d]
    BY <1>1
  <1>10. ASSUME NEW d \in Clients, d # c
         PROVE  /\ op'[d] \in Ops \union {NoOp}
                /\ Active(d) => Active(d)' /\ op[d] \in Ops /\ op'[d].at = op[d].at
                     /\ op'[d].kind = op[d].kind /\ op'[d].entry = op[d].entry
                /\ Active(d)' => Active(d)
    <2>1. op[d] \in Ops \/ op[d] = NoOp
      BY DEF TypeInv
    <2>2. CASE d \in Running(k)
      <3>1. op[d] \in Ops
        BY <2>1, <2>2 DEF Running
      <3>2. op'[d] = [op[d] EXCEPT !.alone = FALSE]
        BY <1>9, <1>10, <2>2
      <3>3. /\ op'[d] \in Ops
            /\ op'[d].at = op[d].at /\ op'[d].kind = op[d].kind /\ op'[d].entry = op[d].entry
        <4> DEFINE o == op[d]
        <4>1. o \in Ops /\ op'[d] = [o EXCEPT !.alone = FALSE]
          BY <3>1, <3>2
        <4> HIDE DEF o
        <4>2. [o EXCEPT !.alone = FALSE] \in Ops
          BY <4>1, Zenon DEF Ops
        <4>3. /\ [o EXCEPT !.alone = FALSE].at = o.at /\ [o EXCEPT !.alone = FALSE].kind = o.kind
              /\ [o EXCEPT !.alone = FALSE].entry = o.entry
          BY <4>1, Zenon DEF Ops
        <4> QED
          BY <4>1, <4>2, <4>3 DEF o
      <3> QED
        BY <2>2, <3>1, <3>3, NoOpIsNoOp DEF Active, Running
    <2>3. CASE d \notin Running(k)
      BY <1>9, <1>10, <2>1, <2>3 DEF Active
    <2> QED
      BY <2>2, <2>3
  <1>11. op' \in [Clients -> Ops \union {NoOp}]
    <2>1. \A d \in Clients : op'[d] \in Ops \union {NoOp}
      BY <1>5, <1>8, <1>10
    <2> QED
      BY <1>1, <2>1
  <1>12. OpInv'
    <2> SUFFICES ASSUME NEW d \in Clients, Active(d)'
                 PROVE  /\ op'[d] \in Ops
                        /\ op'[d].at \in Places(op'[d].kind)
                        /\ op'[d].at = "fill" => op'[d].entry # NoEntry
                        /\ op'[d].kind = "set" =>
                             /\ op'[d].entry # NoEntry /\ op'[d].entry.ttl = "fresh"
                             /\ op'[d].entry.val <= version'
      BY DEF OpInv, Active
    <2>1. CASE d = c
      <3>1. op'[d].entry.val = version' => op'[d].entry.val <= version'
        BY <1>2, SMT DEF Versions
      <3> QED
        BY <2>1, <3>1, <1>3, <1>5, <1>6, <1>7, <1>8
    <2>2. CASE d # c
      <3>1. /\ op[d] \in Ops /\ op'[d] \in Ops /\ op'[d].at = op[d].at
            /\ op'[d].kind = op[d].kind /\ op'[d].entry = op[d].entry /\ Active(d)
        BY <1>10, <2>2, NoOpIsNoOp DEF Active
      <3>2. op[d].kind = "set" => op[d].entry.val <= version'
        <4>1. op[d].kind = "set" => op[d].entry.val <= version /\ op[d].entry.val \in Versions
          BY <3>1, EntryFacts DEF TypeInv, OpInv, Ops
        <4> QED
          BY <4>1, <1>2, SMT DEF TypeInv, StoresInv, Versions
      <3> QED
        BY <3>1, <3>2 DEF TypeInv, OpInv
    <2> QED
      BY <2>1, <2>2
  <1> QED
    BY <1>1, <1>2, <1>8, <1>9, <1>11, <1>12 DEF mine, entry

\* The fields of a call that has found its entry.
LEMMA FoundShape ==
    ASSUME NEW o \in Ops, NEW visit, NEW entry
    PROVE  /\ [o EXCEPT !.at = visit, !.entry = entry].kind = o.kind
           /\ [o EXCEPT !.at = visit, !.entry = entry].key = o.key
           /\ [o EXCEPT !.at = visit, !.entry = entry].at = visit
           /\ [o EXCEPT !.at = visit, !.entry = entry].entry = entry
           /\ [o EXCEPT !.at = visit, !.entry = entry].alone = o.alone
  BY Zenon DEF Ops

\* A new TTL, or none, leaves every row its value.
LEMMA ExpiredRow ==
    ASSUME postgres \in [Keys -> Entries], NEW k \in Keys,
           \/ postgres[k] # NoEntry /\ postgres' = [postgres EXCEPT ![k].ttl = "expired"]
           \/ UNCHANGED postgres
    PROVE  \A l \in Keys :
             /\ postgres'[l] # NoEntry => postgres[l] # NoEntry
             /\ postgres'[l] # NoEntry => postgres'[l].val = postgres[l].val
  <1>1. CASE UNCHANGED postgres
    BY <1>1
  <1>2. CASE postgres[k] # NoEntry /\ postgres' = [postgres EXCEPT ![k].ttl = "expired"]
    <2>1. "expired" \in TTLs
      BY DEF TTLs
    <2>2. /\ postgres'[k] = Entry(postgres[k].val, "expired")
          /\ \A l \in Keys : l # k => postgres'[l] = postgres[l]
      BY <1>2, <2>1, TTLFacts
    <2> QED
      BY <1>2, <2>2 DEF Entry
  <1> QED
    BY <1>1, <1>2

LEMMA LapsedRow ==
    ASSUME postgres \in [Keys -> Entries], NEW k \in Keys, postgres[k] # NoEntry,
           postgres' = [postgres EXCEPT ![k].ttl = "lapsed"]
    PROVE  \A l \in Keys :
             /\ postgres'[l] # NoEntry => postgres[l] # NoEntry
             /\ postgres'[l] # NoEntry => postgres'[l].val = postgres[l].val
  <1>1. "lapsed" \in TTLs
    BY DEF TTLs
  <1>2. /\ postgres'[k] = Entry(postgres[k].val, "lapsed")
        /\ \A l \in Keys : l # k => postgres'[l] = postgres[l]
    BY <1>1, TTLFacts
  <1> QED
    BY <1>2 DEF Entry

\* The start of a call changes nothing of the others but whether they are alone.
LEMMA BeginKeeps ==
    ASSUME TypeInv, NEW c \in Clients, NEW k \in Keys, NEW kind \in Kinds, Begin(c, kind, k),
           NEW d \in Clients, op[d] # NoOp
    PROVE  /\ d # c /\ op'[d] # NoOp
           /\ op'[d].kind = op[d].kind /\ op'[d].key = op[d].key
           /\ op'[d].at = op[d].at /\ op'[d].entry = op[d].entry
           /\ op'[d].alone => op[d].alone /\ d \notin Running(k)
  <1>1. d # c
    BY DEF Begin
  <1>2. op[d] \in Ops
    BY DEF TypeInv, OpInv, Active
  <1>3. op'[d] = IF d \in Running(k) THEN [op[d] EXCEPT !.alone = FALSE] ELSE op[d]
    <2>1. \A e \in Clients : e # c =>
            op'[e] = IF e \in Running(k) THEN [op[e] EXCEPT !.alone = FALSE] ELSE op[e]
      BY BeginFacts, Zenon
    <2> QED
      BY <1>1, <2>1, Zenon
  <1> DEFINE o == op[d]
  <1> HIDE DEF o
  <1>4. o \in Ops
    BY <1>2 DEF o
  <1>5. [o EXCEPT !.alone = FALSE] \in Ops
    BY <1>4, Zenon DEF Ops
  <1>6. /\ [o EXCEPT !.alone = FALSE].kind = o.kind /\ [o EXCEPT !.alone = FALSE].key = o.key
        /\ [o EXCEPT !.alone = FALSE].at = o.at /\ [o EXCEPT !.alone = FALSE].entry = o.entry
        /\ [o EXCEPT !.alone = FALSE].alone = FALSE
    BY <1>4, Zenon DEF Ops
  <1> QED
    BY <1>1, <1>2, <1>3, <1>5, <1>6, NoOpIsNoOp DEF o

-----------------------------------------------------------------------------

LEMMA TypeInit == Init => TypeInv
  <1> SUFFICES ASSUME Init PROVE TypeInv
    OBVIOUS
  <1>1. version \in Versions /\ 0 \in Versions
    BY CacheAssumption, SMT DEF Init, Versions
  <1>2. {NoEntry, Entry(0, "fresh"), Entry(0, "lapsed")} \subseteq Entries
    BY <1>1, EntryFacts DEF TTLs
  <1>3. postgres \in [Keys -> Entries]
    BY <1>2 DEF Init
  <1>4. memory \in [Keys -> Entries]
    BY EntryFacts DEF Init
  <1>5. due = {} /\ purging = [r \in Requests |-> {}]
    BY DEF Init, Buster!Init
  <1> QED
    BY <1>1, <1>3, <1>4, <1>5 DEF Init, TypeInv, StoresInv, OpInv, HistoryInv, Active

LEMMA TypeStep == TypeInv /\ [Next]_vars => TypeInv'
  <1> SUFFICES ASSUME TypeInv, [Next]_vars PROVE TypeInv'
    OBVIOUS
  <1> USE DEF TypeInv, StoresInv, HistoryInv, stores, buster, history
  <1>1. ASSUME NEW c \in Clients, NEW k \in Keys, Step(c, k)
        PROVE  TypeInv'
    <2>1. CASE GetMemory(c, k)
      <3>1. Active(c) /\ op[c].kind = "get" /\ op[c].at = "memory" /\ version' = version
        BY <2>1 DEF GetMemory, At, Active
      <3>2. memory[k] \in Entries
        OBVIOUS
      <3>3. op' \in [Clients -> Ops \union {NoOp}] /\ OpInv'
        BY <2>1, <3>1, <3>2, ContinueFacts, FoundFacts DEF GetMemory
      <3> QED
        BY <2>1, <3>3 DEF GetMemory
    <2>2. CASE GetBytes(c, k)
      BY <2>2, ReturnFacts DEF GetBytes
    <2>3. CASE GetPostgres(c, k)
      <3>1. Active(c) /\ op[c].kind = "get" /\ op[c].at = "postgres" /\ version' = version
        BY <2>3 DEF GetPostgres, At, Active
      <3>2. postgres[k] \in Entries
        OBVIOUS
      <3>3. op' \in [Clients -> Ops \union {NoOp}] /\ OpInv'
        BY <2>3, <3>1, <3>2, ReturnFacts, FoundFacts DEF GetPostgres
      <3> QED
        BY <2>3, <3>3 DEF GetPostgres
    <2>4. CASE Percolate(c, k)
      <3>1. op[c].entry \in Entries
        BY <2>4, AtFacts DEF Percolate, Ops
      <3> QED
        BY <2>4, <3>1, ReturnFacts DEF Percolate
    <2>5. CASE SetMemory(c, k)
      <3>1. op[c].entry \in Entries /\ Active(c) /\ op[c].at = "memory" /\ version' = version
        BY <2>5, AtFacts DEF SetMemory, Ops
      <3> QED
        BY <2>5, <3>1, ContinueFacts DEF SetMemory, Changed
    <2>6. CASE SetPostgres(c, k)
      <3>1. op[c].entry \in Entries /\ Active(c) /\ op[c].at = "postgres" /\ version' = version
        BY <2>6, AtFacts DEF SetPostgres, Ops
      <3> QED
        BY <2>6, <3>1, ContinueFacts DEF SetPostgres, Changed, Mended
    <2>7. CASE ExpireMemory(c, k)
      <3>1. Active(c) /\ op[c].at = "memory" /\ version' = version
        BY <2>7, AtFacts DEF ExpireMemory
      <3> QED
        BY <2>7, <3>1, ContinueFacts, EntryFacts DEF ExpireMemory, Changed
    <2>8. CASE ExpirePostgres(c, k)
      <3>1. Active(c) /\ op[c].at = "postgres" /\ version' = version
        BY <2>8, AtFacts DEF ExpirePostgres
      <3>2. postgres' \in [Keys -> Entries]
        BY <2>8, TTLFacts DEF ExpirePostgres, TTLs
      <3> QED
        BY <2>8, <3>1, <3>2, ContinueFacts DEF ExpirePostgres, Changed, Mended
    <2>9. CASE Purge(c, k)
      <3>1. Active(c) /\ op[c].at \notin {"bytes", "fill"} /\ version' = version
        BY <2>9, AtFacts DEF Purge, AtCloudflare
      <3>2. due' \subseteq Urls /\ purging' = purging
        BY <2>9, CacheAssumption DEF Purge, Buster!Add
      <3> QED
        BY <2>9, <3>1, <3>2, ContinueFacts DEF Purge
    <2>10. CASE DeletePostgres(c, k)
      <3>1. Active(c) /\ op[c].at = "postgres" /\ version' = version
        BY <2>10, AtFacts DEF DeletePostgres
      <3>2. ReadOf(k) \subseteq Versions
        BY EntryFacts DEF ReadOf, Running, OpInv, Active, Ops
      <3>3. postgres[k] # NoEntry => postgres[k].val \in Versions
        BY EntryFacts
      <3>4. /\ postgres' \in [Keys -> Entries]
            /\ gone' \in [Keys -> SUBSET Versions] /\ carried' \in [Keys -> SUBSET Versions]
        BY <2>10, <3>2, <3>3, EntryFacts DEF DeletePostgres
      <3> QED
        BY <2>10, <3>1, <3>4, ContinueFacts DEF DeletePostgres
    <2>11. CASE DeleteMemory(c, k)
      <3>1. Active(c) /\ op[c].at = "memory" /\ version' = version
        BY <2>11, AtFacts DEF DeleteMemory
      <3> QED
        BY <2>11, <3>1, ContinueFacts, EntryFacts DEF DeleteMemory, Mended
    <2> QED
      BY <1>1, <2>1, <2>2, <2>3, <2>4, <2>5, <2>6, <2>7, <2>8, <2>9, <2>10, <2>11 DEF Step
  <1>2. ASSUME NEW c \in Clients, NEW k \in Keys, NEW kind \in Kinds, Begin(c, kind, k)
        PROVE  TypeInv'
    <2>1. op' \in [Clients -> Ops \union {NoOp}] /\ OpInv' /\ version' \in Versions
      BY <1>2, BeginFacts
    <2>2. torn' \subseteq Keys /\ UNCHANGED <<memory, postgres, due, purging, gone, carried, dirty, since>>
      BY <1>2 DEF Begin
    <2> QED
      BY <2>1, <2>2
  <1>3. ASSUME NEW k \in Keys, Evict(k) \/ Lapse(k)
        PROVE  TypeInv'
    <2>1. CASE Evict(k)
      BY <2>1, EntryFacts DEF Evict, OpInv, Active
    <2>2. CASE Lapse(k)
      <3>1. postgres' \in [Keys -> Entries]
        BY <2>2, TTLFacts DEF Lapse, TTLs
      <3> QED
        BY <2>2, <3>1 DEF Lapse, OpInv, Active
    <2> QED
      BY <1>3, <2>1, <2>2
  <1>4. ASSUME NEW r \in Requests, Flush(r) \/ Purged(r) \/ PurgeFailed(r)
        PROVE  TypeInv'
    <2>1. due' \subseteq Urls /\ purging' \in [Requests -> SUBSET Urls]
      BY <1>4 DEF Flush, Purged, PurgeFailed, Buster!Take, Buster!Done, Buster!Failed
    <2> QED
      BY <1>4, <2>1 DEF Flush, Purged, PurgeFailed, OpInv, Active
  <1>5. CASE Crash
    BY <1>5, EntryFacts DEF Crash, OpInv, Active
  <1>6. CASE UNCHANGED vars
    BY <1>6 DEF vars, OpInv, Active
  <1> QED
    BY <1>1, <1>2, <1>3, <1>4, <1>5, <1>6 DEF Next

\* The parameters of the specification keep every variable in its type.
THEOREM TypeCorrect == Spec => []TypeOK
  <1>1. TypeInv => TypeOK
    BY DEF TypeInv, StoresInv, HistoryInv, TypeOK
  <1> QED
    BY <1>1, TypeInit, TypeStep, PTL DEF Spec

-----------------------------------------------------------------------------

\* A call that has yet to queue the key's URL for the last time.
Queueing(k) == \E c \in Clients : Active(c) /\ op[c].key = k /\ op[c].kind \in {"set", "expire"}

\* Each change is covered: its URL waits, or a purge that began after it has it, or its call will.
PurgeInv ==
    \A k \in dirty :
        \/ pather[k] \in due
        \/ \E r \in Requests : pather[k] \in purging[r] /\ k \notin since[r]
        \/ Queueing(k)

LEMMA PurgeStep == TypeInv /\ PurgeInv /\ [Next]_vars => PurgeInv'
  <1> SUFFICES ASSUME TypeInv, PurgeInv, [Next]_vars PROVE PurgeInv'
    OBVIOUS
  <1> USE DEF stores, buster, history
  <1>1. ASSUME NEW c \in Clients, NEW k \in Keys, Step(c, k)
        PROVE  PurgeInv'
    \* Steps after which the calls that have yet to queue a URL still have to.
    <2>1. ASSUME \A l \in Keys : Queueing(l) => Queueing(l)', UNCHANGED <<due, purging, dirty, since>>
          PROVE  PurgeInv'
      BY <2>1 DEF PurgeInv, TypeInv, HistoryInv
    \* Steps that change what the CDN may hold, of a call that has yet to queue the URL.
    <2>2. ASSUME \A l \in Keys : Queueing(l) => Queueing(l)', Queueing(k)', Changed(k),
                 UNCHANGED <<due, purging>>
          PROVE  PurgeInv'
      <3>1. dirty' = dirty \union {k} /\ \A r \in Requests : since'[r] = since[r] \union {k}
        BY <2>2 DEF Changed
      <3> QED
        BY <2>2, <3>1 DEF PurgeInv, TypeInv, HistoryInv
    <2>3. ASSUME op[c].kind \notin {"set", "expire"}, \A d \in Clients : d # c => op'[d] = op[d]
          PROVE  \A l \in Keys : Queueing(l) => Queueing(l)'
      BY <2>3 DEF Queueing, Active
    <2>4. ASSUME NEW kind \in {"set", "expire"}, NEW visit, NEW next \in Visits,
                 At(c, kind, visit, k), Continue(c), After(kind, visit) = next
          PROVE  Queueing(k)' /\ \A l \in Keys : Queueing(l) => Queueing(l)'
      <3>1. /\ op[c].key = k
            /\ op'[c] # NoOp /\ op'[c].kind = kind /\ op'[c].key = k
            /\ \A d \in Clients : d # c => op'[d] = op[d]
        BY <2>4, ContinueGoes, AtFacts
      <3> QED
        BY <3>1 DEF Queueing, Active
    <2>5. CASE GetMemory(c, k) \/ GetBytes(c, k) \/ GetPostgres(c, k) \/ Percolate(c, k)
      <3>1. op[c].kind = "get" /\ \A d \in Clients : d # c => op'[d] = op[d]
        <4>1. op[c].kind = "get" /\ (Return(c) \/ Continue(c) \/ \E visit, entry : Found(c, visit, entry))
          BY <2>5 DEF GetMemory, GetBytes, GetPostgres, Percolate, At
        <4> QED
          BY <4>1 DEF Return, Continue, Found, TypeInv
      <3>2. UNCHANGED <<due, purging, dirty, since>>
        BY <2>5 DEF GetMemory, GetBytes, GetPostgres, Percolate
      <3> QED
        BY <3>1, <3>2, <2>1, <2>3
    <2>6. CASE SetMemory(c, k)
      BY <2>6, <2>2, <2>4, AfterFacts DEF SetMemory, Visits
    <2>7. CASE SetPostgres(c, k)
      BY <2>7, <2>2, <2>4, AfterFacts DEF SetPostgres, Visits
    <2>8. CASE ExpireMemory(c, k)
      BY <2>8, <2>2, <2>4, AfterFacts DEF ExpireMemory, Visits
    <2>9. CASE ExpirePostgres(c, k)
      BY <2>9, <2>2, <2>4, AfterFacts DEF ExpirePostgres, Visits
    <2>10. CASE Purge(c, k)
      <3>1. due' = due \union {pather[k]} /\ UNCHANGED <<purging, dirty, since>>
        BY <2>10 DEF Purge, Buster!Add
      <3>2. op[c].key = k /\ \A d \in Clients : d # c => op'[d] = op[d]
        BY <2>10 DEF Purge, AtCloudflare, At, Continue, Return, TypeInv
      <3>3. \A l \in Keys : Queueing(l) => Queueing(l)' \/ l = k
        BY <3>2 DEF Queueing, Active
      <3> QED
        BY <3>1, <3>3 DEF PurgeInv, TypeInv, HistoryInv
    <2>11. CASE DeletePostgres(c, k) \/ DeleteMemory(c, k)
      <3>1. op[c].kind = "delete" /\ \A d \in Clients : d # c => op'[d] = op[d]
        BY <2>11 DEF DeletePostgres, DeleteMemory, At, Continue, Return, TypeInv
      <3>2. UNCHANGED <<due, purging, dirty, since>>
        BY <2>11 DEF DeletePostgres, DeleteMemory
      <3> QED
        BY <3>1, <3>2, <2>1, <2>3
    <2> QED
      BY <1>1, <2>5, <2>6, <2>7, <2>8, <2>9, <2>10, <2>11 DEF Step
  <1>2. ASSUME NEW c \in Clients, NEW k \in Keys, NEW kind \in Kinds, Begin(c, kind, k)
        PROVE  PurgeInv'
    <2>1. UNCHANGED <<due, purging, dirty, since>>
      BY <1>2 DEF Begin
    <2>2. ASSUME NEW d \in Clients, Active(d)
          PROVE  Active(d)' /\ op'[d].key = op[d].key /\ op'[d].kind = op[d].kind
      BY <1>2, <2>2, BeginKeeps DEF Active
    <2> QED
      BY <2>1, <2>2 DEF PurgeInv, Queueing, TypeInv, HistoryInv
  <1>3. ASSUME NEW k \in Keys, Evict(k) \/ Lapse(k)
        PROVE  PurgeInv'
    BY <1>3 DEF Evict, Lapse, PurgeInv, Queueing, Active
  <1>4. ASSUME NEW r \in Requests, Flush(r)
        PROVE  PurgeInv'
    <2>1. PICK files \in SUBSET due :
            due' = due \ files /\ purging' = [purging EXCEPT ![r] = files]
      BY <1>4 DEF Flush, Buster!Take
    <2>2. purging[r] = {} /\ since' = [since EXCEPT ![r] = {}] /\ UNCHANGED <<op, dirty>>
      BY <1>4 DEF Flush, Buster!Take
    <2> QED
      BY <2>1, <2>2 DEF PurgeInv, Queueing, Active, TypeInv, HistoryInv
  <1>5. ASSUME NEW r \in Requests, Purged(r)
        PROVE  PurgeInv'
    <2>1. /\ purging' = [purging EXCEPT ![r] = {}]
          /\ dirty' = {k \in dirty : k \in since[r] \/ pather[k] \notin purging[r]}
          /\ UNCHANGED <<op, due, since>>
      BY <1>5 DEF Purged, Buster!Done
    <2> QED
      BY <2>1 DEF PurgeInv, Queueing, Active, TypeInv, HistoryInv
  <1>6. ASSUME NEW r \in Requests, PurgeFailed(r)
        PROVE  PurgeInv'
    <2>1. /\ due' = due \union purging[r] /\ purging' = [purging EXCEPT ![r] = {}]
          /\ UNCHANGED <<op, dirty, since>>
      BY <1>6 DEF PurgeFailed, Buster!Failed
    <2> QED
      BY <2>1 DEF PurgeInv, Queueing, Active, TypeInv, HistoryInv
  <1>7. CASE Crash
    BY <1>7 DEF Crash, PurgeInv
  <1>8. CASE UNCHANGED vars
    BY <1>8 DEF vars, PurgeInv, Queueing, Active
  <1> QED
    BY <1>1, <1>2, <1>3, <1>4, <1>5, <1>6, <1>7, <1>8 DEF Next

(***************************************************************************)
(* Nothing that was set or expired escapes the CDN's purge: its URL waits, *)
(* is in a request, or is about to be queued, however calls, failed and    *)
(* successful purges interleave.                                           *)
(***************************************************************************)
THEOREM PurgesFollow == Spec => []PurgeFollowsWrite
  <1>1. Init => PurgeInv
    BY DEF Init, PurgeInv
  <1>2. TypeInv /\ PurgeInv => PurgeFollowsWrite
    BY DEF TypeInv, HistoryInv, PurgeInv, PurgeFollowsWrite, Queueing, Active, Running, Buster!InFlight
  <1> QED
    BY <1>1, <1>2, TypeInit, TypeStep, PurgeStep, PTL DEF Spec

-----------------------------------------------------------------------------

\* Versions are older than the next Set's, and what is in Postgres has not been deleted.
RowInv ==
    \A k \in Keys :
        /\ postgres[k] # NoEntry => postgres[k].val <= version /\ postgres[k].val \notin gone[k]
        /\ \A v \in gone[k] : v <= version

\* A Set brings a version no other Set has, and that Postgres has not seen before it gets there.
SetInv ==
    \A c \in Clients : Active(c) /\ op[c].kind = "set" =>
        /\ op[c].at \in {"memory", "postgres"} =>
             /\ op[c].entry.val \notin gone[op[c].key]
             /\ postgres[op[c].key] # NoEntry => postgres[op[c].key].val # op[c].entry.val
        /\ \A d \in Clients : Active(d) /\ op[d].kind = "set" /\ op[d].entry.val = op[c].entry.val => d = c

\* A deleted version that is about to percolate had been read when it was deleted.
FillInv ==
    \A c \in Clients : Active(c) /\ op[c].at = "fill" /\ op[c].entry.val \in gone[op[c].key] =>
        op[c].entry.val \in carried[op[c].key]

Deleting(k) == \E c \in Clients : At(c, "delete", "memory", k)

MemoryInv ==
    \A k \in Keys : memory[k] # NoEntry /\ memory[k].val \in gone[k] =>
        memory[k].val \in carried[k] \/ Deleting(k)

DeleteInv == RowInv /\ SetInv /\ FillInv /\ MemoryInv

LEMMA DeleteInit == Init => DeleteInv
  <1> SUFFICES ASSUME Init PROVE DeleteInv
    OBVIOUS
  <1>1. RowInv
    <2>1. \A k \in Keys : postgres[k] # NoEntry => postgres[k].val = 0
      BY DEF Init, Entry
    <2>2. version = 0 /\ 0 <= 0 /\ \A k \in Keys : gone[k] = {}
      BY SMT DEF Init
    <2> QED
      BY <2>1, <2>2 DEF RowInv
  <1>2. SetInv /\ FillInv /\ MemoryInv
    BY DEF Init, SetInv, FillInv, MemoryInv, Active
  <1> QED
    BY <1>1, <1>2 DEF DeleteInv

\* What only concerns the calls other than c, and what no store has lost, is kept.
LEMMA OthersKeep ==
    ASSUME TypeInv, DeleteInv, NEW c \in Clients, \A d \in Clients : d # c => op'[d] = op[d],
           \/ op'[c] = NoOp
           \/ op[c] # NoOp /\ op'[c].kind = op[c].kind /\ op'[c].key = op[c].key
              /\ op'[c].entry = op[c].entry /\ op'[c].at # "fill"
              /\ (op'[c].at \in {"memory", "postgres"} /\ op[c].kind = "set" => op[c].at = "memory"),
           UNCHANGED <<postgres, gone, carried, version>>
    PROVE  /\ RowInv' /\ SetInv' /\ FillInv'
           /\ \A k \in Keys : Deleting(k) => Deleting(k)' \/ At(c, "delete", "memory", k)
  <1> USE DEF DeleteInv
  <1>1. RowInv'
    BY DEF RowInv
  <1>2. SetInv'
    BY DEF SetInv, Active
  <1>3. FillInv'
    BY DEF FillInv, Active
  <1>4. \A k \in Keys : Deleting(k) => Deleting(k)' \/ At(c, "delete", "memory", k)
    BY DEF Deleting, At
  <1> QED
    BY <1>1, <1>2, <1>3, <1>4

LEMMA DeleteStep == TypeInv /\ DeleteInv /\ [Next]_vars => DeleteInv'
  <1> SUFFICES ASSUME TypeInv, DeleteInv, [Next]_vars PROVE DeleteInv'
    OBVIOUS
  <1> USE DEF stores, buster, history
  <1>1. ASSUME NEW c \in Clients, NEW k \in Keys, Step(c, k)
        PROVE  DeleteInv'
    <2>1. CASE GetMemory(c, k)
      <3>1. /\ At(c, "get", "memory", k)
            /\ UNCHANGED <<memory, postgres, version, gone, carried>>
        BY <2>1 DEF GetMemory
      <3>2. CASE Continue(c)
        <4>1. /\ op'[c].kind = op[c].kind /\ op'[c].key = op[c].key /\ op[c] # NoOp
              /\ op'[c].entry = op[c].entry /\ op'[c].at = "postgres" /\ op[c].kind = "get"
              /\ \A d \in Clients : d # c => op'[d] = op[d]
          <5>1. After("get", "memory") = "postgres" /\ "postgres" \in Visits
            BY AfterFacts DEF Visits
          <5> QED
            BY <3>1, <3>2, <5>1, ContinueGoes
        <4> QED
          BY <3>1, <4>1, OthersKeep DEF DeleteInv, MemoryInv, At
      <3>3. CASE memory[k] # NoEntry /\ Found(c, "bytes", memory[k])
        <4>1. op'[c] = [op[c] EXCEPT !.at = "bytes", !.entry = memory[k]]
          BY <3>1, <3>3, FoundFacts DEF At, Active, TypeInv, StoresInv
        <4>2. op[c] \in Ops
          BY <3>1, AtFacts
        <4>3. op'[c].kind = "get" /\ op'[c].at = "bytes" /\ \A d \in Clients : d # c => op'[d] = op[d]
          BY <3>1, <3>3, <4>1, <4>2, FoundShape DEF At, Found, TypeInv
        <4> QED
          BY <3>1, <4>3 DEF DeleteInv, MemoryInv, RowInv, SetInv, FillInv, Deleting, Active, At
      <3> QED
        BY <2>1, <3>2, <3>3 DEF GetMemory
    <2>2. CASE GetBytes(c, k)
      BY <2>2, ReturnFacts, OthersKeep DEF GetBytes, DeleteInv, MemoryInv, At
    <2>3. CASE GetPostgres(c, k)
      <3>1. /\ At(c, "get", "postgres", k)
            /\ UNCHANGED <<memory, postgres, version, gone, carried>>
        BY <2>3 DEF GetPostgres
      <3>2. CASE Return(c)
        BY <3>1, <3>2, ReturnFacts, OthersKeep DEF DeleteInv, MemoryInv, At
      <3>3. CASE postgres[k] # NoEntry /\ Found(c, "fill", postgres[k])
        <4>1. op'[c] = [op[c] EXCEPT !.at = "fill", !.entry = postgres[k]]
          BY <3>1, <3>3, FoundFacts DEF At, Active, TypeInv, StoresInv
        <4>2. op[c] \in Ops
          BY <3>1, AtFacts
        <4>3. /\ op'[c].kind = "get" /\ op'[c].at = "fill" /\ op'[c].key = k
              /\ op'[c].entry = postgres[k]
              /\ \A d \in Clients : d # c => op'[d] = op[d]
          BY <3>1, <3>3, <4>1, <4>2, FoundShape DEF At, Found, TypeInv
        <4> QED
          BY <3>1, <3>3, <4>3 DEF DeleteInv, MemoryInv, RowInv, SetInv, FillInv, Deleting, Active, At
      <3> QED
        BY <2>3, <3>2, <3>3 DEF GetPostgres
    <2>4. CASE Percolate(c, k)
      <3>1. /\ At(c, "get", "fill", k) /\ Return(c) /\ memory' = [memory EXCEPT ![k] = op[c].entry]
            /\ UNCHANGED <<postgres, version, gone, carried>>
        BY <2>4 DEF Percolate
      <3>2. RowInv' /\ SetInv' /\ FillInv' /\ \A l \in Keys : Deleting(l) => Deleting(l)'
        BY <3>1, ReturnFacts, OthersKeep DEF At
      <3>3. MemoryInv'
        BY <3>1, <3>2 DEF DeleteInv, MemoryInv, FillInv, Active, At, TypeInv, StoresInv
      <3> QED
        BY <3>2, <3>3 DEF DeleteInv
    <2>5. CASE SetMemory(c, k)
      <3>1. /\ At(c, "set", "memory", k) /\ Continue(c) /\ memory' = [memory EXCEPT ![k] = op[c].entry]
            /\ UNCHANGED <<postgres, version, gone, carried>>
        BY <2>5 DEF SetMemory
      <3>2. RowInv' /\ SetInv' /\ FillInv' /\ \A l \in Keys : Deleting(l) => Deleting(l)'
        <4>1. /\ op'[c].kind = op[c].kind /\ op'[c].key = op[c].key /\ op[c] # NoOp
              /\ op'[c].entry = op[c].entry /\ op'[c].at = "postgres"
              /\ op[c].at = "memory" /\ op[c].kind = "set"
              /\ \A d \in Clients : d # c => op'[d] = op[d]
          <5>1. After("set", "memory") = "postgres" /\ "postgres" \in Visits
            BY AfterFacts DEF Visits
          <5> QED
            BY <3>1, <5>1, ContinueGoes
        <4> QED
          BY <3>1, <4>1, OthersKeep DEF At
      <3>3. MemoryInv'
        BY <3>1, <3>2 DEF DeleteInv, MemoryInv, SetInv, Active, At, TypeInv, StoresInv
      <3> QED
        BY <3>2, <3>3 DEF DeleteInv
    <2>6. CASE SetPostgres(c, k)
      <3>1. /\ At(c, "set", "postgres", k) /\ Continue(c)
            /\ UNCHANGED <<memory, version, gone, carried>>
        BY <2>6 DEF SetPostgres
      <3>2. /\ op'[c].kind = op[c].kind /\ op'[c].key = op[c].key /\ op[c] # NoOp
            /\ op'[c].entry = op[c].entry /\ op'[c].at = "cloudflare" /\ op[c].kind = "set" /\ op[c].key = k
            /\ \A d \in Clients : d # c => op'[d] = op[d]
        <4>1. After("set", "postgres") = "cloudflare" /\ "cloudflare" \in Visits
          BY AfterFacts DEF Visits
        <4> QED
          BY <3>1, <4>1, ContinueGoes
      <3>3. CASE UNCHANGED postgres
        BY <3>1, <3>2, <3>3, OthersKeep DEF DeleteInv, MemoryInv, At
      <3>4. CASE postgres' = [postgres EXCEPT ![k] = op[c].entry]
        <4>1. /\ op[c].entry # NoEntry /\ op[c].entry.val <= version
              /\ op[c].entry.val \notin gone[k]
          BY <3>1, <3>2 DEF DeleteInv, SetInv, TypeInv, OpInv, Active, At
        <4>2. RowInv'
          BY <3>1, <3>4, <4>1 DEF DeleteInv, RowInv, TypeInv, StoresInv
        <4>3. SetInv'
          BY <3>1, <3>2, <3>4 DEF DeleteInv, SetInv, TypeInv, StoresInv, Active
        <4>4. FillInv' /\ MemoryInv'
          BY <3>1, <3>2 DEF DeleteInv, FillInv, MemoryInv, Deleting, Active, At
        <4> QED
          BY <4>2, <4>3, <4>4 DEF DeleteInv
      <3> QED
        BY <2>6, <3>3, <3>4 DEF SetPostgres
    <2>7. CASE ExpireMemory(c, k)
      <3>1. /\ At(c, "expire", "memory", k) /\ Continue(c) /\ memory' = [memory EXCEPT ![k] = NoEntry]
            /\ UNCHANGED <<postgres, version, gone, carried>>
        BY <2>7 DEF ExpireMemory
      <3>2. RowInv' /\ SetInv' /\ FillInv' /\ \A l \in Keys : Deleting(l) => Deleting(l)'
        <4>1. /\ op'[c].kind = op[c].kind /\ op'[c].key = op[c].key /\ op[c] # NoOp
              /\ op'[c].entry = op[c].entry /\ op'[c].at = "postgres"
              /\ op[c].at = "memory" /\ op[c].kind = "expire"
              /\ \A d \in Clients : d # c => op'[d] = op[d]
          <5>1. After("expire", "memory") = "postgres" /\ "postgres" \in Visits
            BY AfterFacts DEF Visits
          <5> QED
            BY <3>1, <5>1, ContinueGoes
        <4> QED
          BY <3>1, <4>1, OthersKeep DEF At
      <3>3. MemoryInv'
        BY <3>1, <3>2 DEF DeleteInv, MemoryInv, TypeInv, StoresInv
      <3> QED
        BY <3>2, <3>3 DEF DeleteInv
    <2>8. CASE ExpirePostgres(c, k)
      <3>1. /\ At(c, "expire", "postgres", k) /\ Continue(c)
            /\ UNCHANGED <<memory, version, gone, carried>>
        BY <2>8 DEF ExpirePostgres
      <3>2. /\ op'[c].kind = op[c].kind /\ op'[c].key = op[c].key /\ op[c] # NoOp
            /\ op'[c].entry = op[c].entry /\ op'[c].at = "cloudflare" /\ op[c].kind = "expire" /\ op[c].key = k
            /\ \A d \in Clients : d # c => op'[d] = op[d]
        <4>1. After("expire", "postgres") = "cloudflare" /\ "cloudflare" \in Visits
          BY AfterFacts DEF Visits
        <4> QED
          BY <3>1, <4>1, ContinueGoes
      <3>3. \A l \in Keys : /\ postgres'[l] # NoEntry => postgres[l] # NoEntry
                            /\ postgres'[l] # NoEntry => postgres'[l].val = postgres[l].val
        BY <2>8, ExpiredRow DEF ExpirePostgres, TypeInv, StoresInv
      <3> QED
        BY <3>1, <3>2, <3>3 DEF DeleteInv, RowInv, SetInv, FillInv, MemoryInv, Deleting, Active, At,
                                OpInv, TypeInv, Ops
    <2>9. CASE Purge(c, k)
      <3>1. AtCloudflare(c, k) /\ Continue(c) /\ UNCHANGED <<memory, postgres, version, gone, carried>>
        BY <2>9 DEF Purge
      <3>2. /\ op[c].kind \in {"set", "expire"} /\ op[c] # NoOp /\ \A d \in Clients : d # c => op'[d] = op[d]
            /\ \/ op'[c] = NoOp
               \/ op'[c].kind = op[c].kind /\ op'[c].key = op[c].key
                  /\ op'[c].entry = op[c].entry /\ op'[c].at = "cloudflare again"
        <4>0. ASSUME NEW type \in {"set", "expire"}, NEW visit, NEW next \in Visits,
                     At(c, type, visit, k), Continue(c), After(type, visit) = next
              PROVE  /\ op'[c].kind = type /\ op'[c].key = k /\ op'[c].at = next
                     /\ op'[c].entry = op[c].entry /\ op[c].key = k
                     /\ \A d \in Clients : d # c => op'[d] = op[d]
          BY <4>0, ContinueGoes
        <4>1. PICK type \in {"set", "expire"}, visit \in {"cloudflare", "cloudflare again"} :
                At(c, type, visit, k)
          BY <3>1 DEF AtCloudflare
        <4>2. op[c].kind = type /\ op[c] # NoOp
          BY <4>1 DEF At
        <4>3. CASE visit = "cloudflare"
          <5>1. After(type, visit) = "cloudflare again" /\ "cloudflare again" \in Visits
            BY <4>3, AfterFacts DEF Visits
          <5>2. /\ op'[c].kind = type /\ op'[c].key = k /\ op'[c].at = "cloudflare again"
                /\ op'[c].entry = op[c].entry /\ op[c].key = k
                /\ \A d \in Clients : d # c => op'[d] = op[d]
            BY <3>1, <4>0, <4>1, <5>1
          <5> QED
            BY <4>2, <5>2
        <4>4. CASE visit = "cloudflare again"
          <5>1. After(type, visit) = "return"
            BY <4>4, AfterFacts
          <5> QED
            BY <3>1, <4>1, <4>2, <5>1, ContinueEnds
        <4> QED
          BY <4>3, <4>4
      <3> QED
        BY <3>1, <3>2, OthersKeep DEF DeleteInv, MemoryInv, At
    <2>10. CASE DeletePostgres(c, k)
      <3>1. At(c, "delete", "postgres", k) /\ Continue(c) /\ UNCHANGED <<memory, version>>
        BY <2>10 DEF DeletePostgres
      <3>2. /\ op'[c].kind = "delete" /\ op'[c].key = k /\ op[c] # NoOp /\ op'[c] # NoOp
            /\ op'[c].entry = op[c].entry /\ op'[c].at = "memory" /\ op[c].kind = "delete" /\ op[c].key = k
            /\ op[c].at = "postgres"
            /\ \A d \in Clients : d # c => op'[d] = op[d]
        <4>1. After("delete", "postgres") = "memory" /\ "memory" \in Visits
          BY AfterFacts DEF Visits
        <4> QED
          BY <3>1, <4>1, ContinueGoes
      <3>3. CASE UNCHANGED <<postgres, gone, carried>>
        BY <3>1, <3>2, <3>3, OthersKeep DEF DeleteInv, MemoryInv, At
      <3>4. CASE /\ postgres[k] # NoEntry
                 /\ postgres' = [postgres EXCEPT ![k] = NoEntry]
                 /\ gone' = [gone EXCEPT ![k] = @ \union {postgres[k].val}]
                 /\ carried' = [carried EXCEPT ![k] = @ \union ReadOf(k)]
        <4> USE DEF TypeInv, StoresInv, HistoryInv
        <4>1. RowInv'
          BY <3>1, <3>4 DEF DeleteInv, RowInv
        <4>2. SetInv'
          BY <3>1, <3>2, <3>4 DEF DeleteInv, SetInv, Active
        <4>3. FillInv'
          BY <3>1, <3>2, <3>4 DEF DeleteInv, FillInv, Active, ReadOf, Running
        <4>4. Deleting(k)' /\ \A l \in Keys : Deleting(l) => Deleting(l)'
          BY <3>2 DEF Deleting, At
        <4>5. MemoryInv'
          BY <3>1, <3>4, <4>4 DEF DeleteInv, MemoryInv
        <4> QED
          BY <4>1, <4>2, <4>3, <4>5 DEF DeleteInv
      <3> QED
        BY <2>10, <3>3, <3>4 DEF DeletePostgres
    <2>11. CASE DeleteMemory(c, k)
      <3>1. /\ At(c, "delete", "memory", k) /\ Continue(c) /\ memory' = [memory EXCEPT ![k] = NoEntry]
            /\ UNCHANGED <<postgres, version, gone, carried>>
        BY <2>11 DEF DeleteMemory
      <3>2. RowInv' /\ SetInv' /\ FillInv' /\ \A l \in Keys : Deleting(l) => Deleting(l)' \/ l = k
        <4>1. op'[c] = NoOp /\ \A d \in Clients : d # c => op'[d] = op[d]
          BY <3>1, ContinueEnds, AfterFacts
        <4> QED
          BY <3>1, <4>1, OthersKeep DEF At
      <3>3. MemoryInv'
        BY <3>1, <3>2 DEF DeleteInv, MemoryInv, TypeInv, StoresInv
      <3> QED
        BY <3>2, <3>3 DEF DeleteInv
    <2> QED
      BY <1>1, <2>1, <2>2, <2>3, <2>4, <2>5, <2>6, <2>7, <2>8, <2>9, <2>10, <2>11 DEF Step
  <1>2. ASSUME NEW c \in Clients, NEW k \in Keys, NEW kind \in Kinds, Begin(c, kind, k)
        PROVE  DeleteInv'
    <2>1. UNCHANGED <<memory, postgres, gone, carried>>
      BY <1>2 DEF Begin
    <2>2. \A d \in Clients : Active(d) =>
            /\ d # c /\ Active(d)' /\ op'[d].kind = op[d].kind /\ op'[d].key = op[d].key
            /\ op'[d].at = op[d].at /\ op'[d].entry = op[d].entry
      BY <1>2, BeginKeeps DEF Active
    <2>3. \A d \in Clients : d # c /\ Active(d)' => Active(d)
      <3>1. \A d \in Clients : d # c =>
              op'[d] = IF d \in Running(k) THEN [op[d] EXCEPT !.alone = FALSE] ELSE op[d]
        BY <1>2, BeginFacts, Zenon
      <3> QED
        BY <3>1 DEF Active, Running
    <2>4. /\ op'[c].key = k /\ op'[c].at # "fill" /\ op'[c].kind = kind
          /\ kind = "set" => op'[c].entry.val = version + 1
      <3>1. op'[c] = [kind |-> kind, key |-> k, at |-> After(kind, "start"),
                      entry |-> IF kind = "set" THEN Entry(version', "fresh") ELSE NoEntry,
                      alone |-> Running(k) = {}]
        BY <1>2, BeginFacts, Zenon
      <3>2. kind = "set" => version' = version + 1
        BY <1>2 DEF Begin
      <3>3. op'[c].key = k /\ op'[c].at = After(kind, "start") /\ op'[c].kind = kind
        BY <3>1
      <3>4. kind = "set" => op'[c].entry = Entry(version', "fresh")
        BY <3>1
      <3>5. After(kind, "start") # "fill"
        BY AfterFacts DEF Kinds
      <3> QED
        BY <3>2, <3>3, <3>4, <3>5 DEF Entry
    <2>5. version \in Nat /\ (version' = version \/ version' = version + 1)
      BY <1>2 DEF Begin, TypeInv, StoresInv, Versions
    <2>6. \A v \in Versions : v <= version => v <= version' /\ v # version + 1
      BY <2>5, SMT DEF Versions
    <2>7. RowInv'
      <3>1. \A l \in Keys : postgres[l] # NoEntry => postgres[l].val \in Versions
        BY EntryFacts DEF TypeInv, StoresInv
      <3>2. \A l \in Keys : \A v \in gone[l] : v \in Versions
        BY DEF TypeInv, HistoryInv
      <3> QED
        BY <2>1, <2>6, <3>1, <3>2 DEF DeleteInv, RowInv
    <2>8. SetInv'
      <3>1. \A d \in Clients : Active(d) /\ op[d].kind = "set" => op[d].entry.val # version + 1
        <4>1. \A d \in Clients : Active(d) /\ op[d].kind = "set" =>
                op[d].entry.val \in Versions /\ op[d].entry.val <= version
          BY EntryFacts DEF TypeInv, OpInv, Ops
        <4> QED
          BY <2>6, <4>1
      <3>2. kind = "set" =>
              /\ version + 1 \notin gone[k]
              /\ postgres[k] # NoEntry => postgres[k].val # version + 1
        BY <2>6, EntryFacts DEF DeleteInv, RowInv, TypeInv, StoresInv, HistoryInv
      <3> QED
        BY <2>1, <2>2, <2>3, <2>4, <3>1, <3>2 DEF DeleteInv, SetInv
    <2>9. FillInv' /\ MemoryInv'
      BY <2>1, <2>2, <2>3, <2>4 DEF DeleteInv, FillInv, MemoryInv, Deleting, At, Active
    <2> QED
      BY <2>7, <2>8, <2>9 DEF DeleteInv
  <1>3. ASSUME NEW k \in Keys, Evict(k)
        PROVE  DeleteInv'
    BY <1>3 DEF Evict, DeleteInv, RowInv, SetInv, FillInv, MemoryInv, Deleting, At, Active,
                TypeInv, StoresInv
  <1>4. ASSUME NEW k \in Keys, Lapse(k)
        PROVE  DeleteInv'
    <2>1. \A l \in Keys : /\ postgres'[l] # NoEntry => postgres[l] # NoEntry
                          /\ postgres'[l] # NoEntry => postgres'[l].val = postgres[l].val
      BY <1>4, LapsedRow DEF Lapse, TypeInv, StoresInv
    <2>2. UNCHANGED <<memory, op, version, gone, carried>>
      BY <1>4 DEF Lapse
    <2> QED
      BY <2>1, <2>2 DEF DeleteInv, RowInv, SetInv, FillInv, MemoryInv, Deleting, At, Active,
                        TypeInv, OpInv, Ops
  <1>5. CASE \E r \in Requests : Flush(r) \/ Purged(r) \/ PurgeFailed(r)
    <2>1. UNCHANGED <<memory, postgres, op, version, gone, carried>>
      BY <1>5 DEF Flush, Purged, PurgeFailed
    <2> QED
      BY <2>1 DEF DeleteInv, RowInv, SetInv, FillInv, MemoryInv, Deleting, At, Active
  <1>6. CASE Crash
    BY <1>6 DEF Crash, DeleteInv, RowInv, SetInv, FillInv, MemoryInv, Active
  <1>7. CASE UNCHANGED vars
    BY <1>7 DEF vars, DeleteInv, RowInv, SetInv, FillInv, MemoryInv, Deleting, At, Active
  <1> QED
    BY <1>1, <1>2, <1>3, <1>4, <1>5, <1>6, <1>7 DEF Next

(***************************************************************************)
(* What Delete's order buys: a version that was deleted from Postgres is   *)
(* in memory only until Delete gets there, unless a Get had read it before *)
(* the row went.                                                           *)
(***************************************************************************)
THEOREM DeletionsHold == Spec => []DeletedStaysGone
  <1>1. DeleteInv => DeletedStaysGone
    BY DEF DeleteInv, MemoryInv, Deleting, DeletedStaysGone
  <1> QED
    BY <1>1, TypeInit, TypeStep, DeleteInit, DeleteStep, PTL DEF Spec


-----------------------------------------------------------------------------
(* Coherence.  Its invariant has to say what a lone writer's half-done call *)
(* leaves behind, and that what a Get has read but not percolated would     *)
(* not part the layers.                                                     *)

\* An entry that memory could hold beside this row.
Consistent(row, entry) ==
    entry # NoEntry =>
        /\ row # NoEntry
        /\ entry.val = row.val
        /\ row.ttl = "expired" => entry.ttl # "fresh"

\* Between its two layers: a Set after memory, a Delete after Postgres.
Halfway(o) == \/ o.kind = "set" /\ o.at = "postgres"
              \/ o.kind = "delete" /\ o.at = "memory"

AloneOK(k) == \A c \in Running(k) : op[c].alone => Running(k) = {c}

WritersOK(k) == k \notin torn => \A c \in Running(k) : op[c].kind \in Writers => op[c].alone

HalfOK(k) == \A c \in Running(k) : op[c].alone /\ op[c].at = "postgres" =>
    /\ op[c].kind = "set" => memory[k] \in {NoEntry, op[c].entry}
    /\ op[c].kind = "expire" => memory[k] = NoEntry

AgreeOK(k) == k \notin torn =>
    Consistent(postgres[k], memory[k]) \/ \E c \in Running(k) : Halfway(op[c])

FillsOK(k) == k \notin torn =>
    \A c \in Running(k) : op[c].at = "fill" => Consistent(postgres[k], op[c].entry)

LayersOK(k) == AloneOK(k) /\ WritersOK(k) /\ HalfOK(k) /\ AgreeOK(k) /\ FillsOK(k)

LayersInv == \A k \in Keys : LayersOK(k)

\* A key whose entries and calls stay as they are.
LEMMA LayersFrame ==
    ASSUME NEW l \in Keys, LayersOK(l),
           \A d \in Clients : op'[d] = op[d] \/ (d \notin Running(l) /\ d \notin Running(l)'),
           memory'[l] = memory[l], postgres'[l] = postgres[l],
           l \in torn' <=> l \in torn
    PROVE  LayersOK(l)'
  <1>1. \A d \in Clients : d \in Running(l)' <=> d \in Running(l)
    BY DEF Running
  <1>2. Running(l)' = Running(l) /\ \A d \in Running(l) : d \in Clients /\ op'[d] = op[d]
    <2>1. Running(l) \subseteq Clients /\ Running(l)' \subseteq Clients
      BY DEF Running
    <2> QED BY <1>1, <2>1
  <1>3. AloneOK(l)'
    BY <1>2 DEF LayersOK, AloneOK
  <1>4. WritersOK(l)'
    BY <1>2 DEF LayersOK, WritersOK
  <1>5. HalfOK(l)'
    BY <1>2 DEF LayersOK, HalfOK
  <1>6. AgreeOK(l)'
    BY <1>2 DEF LayersOK, AgreeOK
  <1>7. FillsOK(l)'
    BY <1>2 DEF LayersOK, FillsOK
  <1> QED BY <1>3, <1>4, <1>5, <1>6, <1>7 DEF LayersOK

\* A step of client c's call of key k: the calls of the others stay, c's is over or
\* at another layer.
CallStep(c, k) ==
    /\ c \in Running(k)
    /\ \A d \in Clients : d # c => op'[d] = op[d]
    /\ \/ op'[c] = NoOp
       \/ /\ op'[c] # NoOp
          /\ op'[c].kind = op[c].kind /\ op'[c].key = op[c].key /\ op'[c].alone = op[c].alone

\* What such a step cannot break: a key is torn unless its writer was alone.
LEMMA CallKeeps ==
    ASSUME NEW c \in Clients, NEW k \in Keys, LayersOK(k), CallStep(c, k),
           k \notin torn' => k \notin torn \/ op[c].alone
    PROVE  /\ AloneOK(k)' /\ WritersOK(k)'
           /\ \A d \in Running(k)' : d \in Running(k) /\ d \in Clients
           /\ \A d \in Running(k) : op[d].alone => d = c
           /\ k \notin torn' /\ op[c].kind \in Writers => op[c].alone
           /\ op[c].alone => Running(k)' \subseteq {c}
           /\ k \notin torn /\ op[c].kind \notin Writers =>
                \A d \in Running(k) : op[d].kind \notin Writers
  <1>1. c \in Running(k) /\ op[c] # NoOp /\ op[c].key = k
    BY DEF CallStep, Running
  <1>2. \A d \in Running(k)' : d \in Running(k) /\ d \in Clients
    BY <1>1 DEF CallStep, Running
  <1>3. \A d \in Running(k) : op[d].alone => d = c
    BY <1>1 DEF LayersOK, AloneOK
  <1>4. \A d \in Running(k)' : op'[d].alone => d = c /\ op[c].alone
    BY <1>2, <1>3 DEF CallStep, Running
  <1>5. op[c].alone => Running(k) = {c}
    BY <1>1 DEF LayersOK, AloneOK
  <1>6. AloneOK(k)'
    BY <1>2, <1>4, <1>5 DEF AloneOK
  <1>7. k \notin torn' /\ op[c].kind \in Writers => op[c].alone
    BY <1>1 DEF LayersOK, WritersOK
  <1>8. WritersOK(k)'
    <2> SUFFICES ASSUME k \notin torn', NEW d \in Running(k)', op'[d].kind \in Writers
                 PROVE  op'[d].alone
      BY DEF WritersOK
    <2>1. CASE d = c
      BY <1>7, <2>1 DEF CallStep, Running
    <2>2. CASE d # c
      <3>1. op'[d] = op[d] /\ d \in Running(k) /\ ~op[c].alone
        BY <1>2, <1>5, <2>2 DEF CallStep
      <3> QED BY <3>1 DEF LayersOK, WritersOK
    <2> QED BY <2>1, <2>2
  <1>9. k \notin torn /\ op[c].kind \notin Writers => \A d \in Running(k) : op[d].kind \notin Writers
    BY <1>1, <1>3 DEF LayersOK, WritersOK
  <1> QED BY <1>2, <1>3, <1>5, <1>6, <1>7, <1>8, <1>9

\* Where the step of a call leads.
LEMMA GoesOn ==
    ASSUME TypeInv, NEW c \in Clients, NEW k \in Keys, NEW kind, NEW visit, NEW next \in Visits,
           At(c, kind, visit, k), Continue(c), After(kind, visit) = next
    PROVE  /\ CallStep(c, k)
           /\ op[c].kind = kind /\ op[c].at = visit /\ op[c].key = k
           /\ op'[c] # NoOp /\ op'[c].at = next /\ op'[c].kind = kind /\ op'[c].entry = op[c].entry
  <1>1. /\ op'[c] # NoOp /\ op'[c].kind = kind /\ op'[c].key = k /\ op'[c].at = next
        /\ op'[c].entry = op[c].entry /\ op'[c].alone = op[c].alone
        /\ op[c] # NoOp /\ op[c].kind = kind /\ op[c].key = k /\ op[c].at = visit
        /\ \A d \in Clients : d # c => op'[d] = op[d]
    BY ContinueGoes
  <1> QED BY <1>1 DEF CallStep, Running

LEMMA GoesBack ==
    ASSUME TypeInv, NEW c \in Clients, NEW k \in Keys, NEW kind, NEW visit,
           At(c, kind, visit, k),
           Return(c) \/ (Continue(c) /\ After(kind, visit) = "return")
    PROVE  /\ CallStep(c, k)
           /\ op[c].kind = kind /\ op[c].at = visit
           /\ op'[c] = NoOp
  <1>1. op'[c] = NoOp /\ \A d \in Clients : d # c => op'[d] = op[d]
    BY ContinueEnds DEF Return, TypeInv
  <1>2. op[c] # NoOp /\ op[c].key = k /\ op[c].kind = kind /\ op[c].at = visit
    BY DEF At
  <1> QED BY <1>1, <1>2 DEF CallStep, Running

LEMMA FindsEntry ==
    ASSUME TypeInv, NEW c \in Clients, NEW k \in Keys, NEW from, At(c, "get", from, k),
           NEW visit, NEW entry, Found(c, visit, entry)
    PROVE  /\ CallStep(c, k)
           /\ op[c].kind = "get"
           /\ op'[c].kind = "get" /\ op'[c].at = visit /\ op'[c].entry = entry
  <1>1. op[c] \in Ops /\ op[c].kind = "get" /\ op[c].key = k /\ op[c] # NoOp
    BY AtFacts DEF Active
  <1>2. op'[c] = [op[c] EXCEPT !.at = visit, !.entry = entry]
        /\ \A d \in Clients : d # c => op'[d] = op[d]
    BY DEF Found, TypeInv
  <1> DEFINE o == op[c]
             found == [o EXCEPT !.at = visit, !.entry = entry]
  <1>3. /\ found.kind = o.kind /\ found.key = o.key /\ found.at = visit
        /\ found.entry = entry /\ found.alone = o.alone
    BY <1>1, FoundShape
  <1>4. op'[c] # NoOp
    <2>1. op'[c].kind = "get"
      BY <1>1, <1>2, <1>3
    <2>2. NoOp.kind = "none"
      BY DEF NoOp
    <2> QED BY <2>1, <2>2
  <1> QED BY <1>1, <1>2, <1>3, <1>4 DEF CallStep, Running

\* A step of a call of a key leaves the other keys alone.
LEMMA OtherKeys ==
    ASSUME LayersInv, NEW c \in Clients, NEW k \in Keys, CallStep(c, k),
           \A l \in Keys : l # k => /\ memory'[l] = memory[l] /\ postgres'[l] = postgres[l]
                                    /\ l \in torn' <=> l \in torn,
           LayersOK(k)'
    PROVE  LayersInv'
  <1>1. ASSUME NEW l \in Keys, l # k
        PROVE  LayersOK(l)'
    <2>1. \A d \in Clients : op'[d] = op[d] \/ (d \notin Running(l) /\ d \notin Running(l)')
      BY <1>1 DEF CallStep, Running
    <2> QED BY <1>1, <2>1, LayersFrame DEF LayersInv
  <1> QED BY <1>1 DEF LayersInv

\* Get: what it finds, or percolates, agrees with the row as long as no writer is there.
LEMMA GetLayers ==
    ASSUME TypeInv, LayersInv, NEW c \in Clients, NEW k \in Keys,
           GetMemory(c, k) \/ GetBytes(c, k) \/ GetPostgres(c, k) \/ Percolate(c, k)
    PROVE  LayersInv'
  <1> USE DEF stores, buster, history
  <1>0. LayersOK(k)
    BY DEF LayersInv
  <1>1. /\ CallStep(c, k) /\ op[c].kind = "get" /\ UNCHANGED <<postgres, torn>>
        /\ op'[c] = NoOp \/ op'[c].kind = "get"
        /\ \/ /\ UNCHANGED memory
              /\ op'[c] = NoOp \/ op'[c].at # "fill"
                 \/ (op'[c].at = "fill" /\ op'[c].entry = postgres[k])
           \/ /\ memory' = [memory EXCEPT ![k] = op[c].entry]
              /\ op[c].at = "fill" /\ op'[c] = NoOp
    <2>1. CASE GetMemory(c, k)
      <3>1. At(c, "get", "memory", k) /\ UNCHANGED <<memory, postgres, torn>>
        BY <2>1 DEF GetMemory
      <3>2. CASE Continue(c)
        <4>1. "postgres" \in Visits /\ After("get", "memory") = "postgres"
          BY AfterFacts DEF Visits
        <4> QED BY <3>1, <3>2, <4>1, GoesOn
      <3>3. CASE Found(c, "bytes", memory[k])
        BY <3>1, <3>3, FindsEntry
      <3> QED BY <2>1, <3>2, <3>3 DEF GetMemory
    <2>2. CASE GetBytes(c, k)
      BY <2>2, GoesBack DEF GetBytes
    <2>3. CASE GetPostgres(c, k)
      <3>1. At(c, "get", "postgres", k) /\ UNCHANGED <<memory, postgres, torn>>
        BY <2>3 DEF GetPostgres
      <3>2. CASE Return(c)
        BY <3>1, <3>2, GoesBack
      <3>3. CASE Found(c, "fill", postgres[k])
        BY <3>1, <3>3, FindsEntry
      <3> QED BY <2>3, <3>2, <3>3 DEF GetPostgres
    <2>4. CASE Percolate(c, k)
      BY <2>4, GoesBack DEF Percolate
    <2> QED BY <2>1, <2>2, <2>3, <2>4
  <1>2. /\ AloneOK(k)' /\ WritersOK(k)'
        /\ \A d \in Running(k)' : d \in Running(k) /\ d \in Clients
        /\ \A d \in Running(k) : op[d].alone => d = c
        /\ k \notin torn => \A d \in Running(k) : op[d].kind \notin Writers
    BY <1>0, <1>1, CallKeeps DEF Writers
  <1>3. HalfOK(k)'
    <2> SUFFICES ASSUME NEW d \in Running(k)', op'[d].alone
                 PROVE  op'[d].kind = "get"
      BY DEF HalfOK
    <2>1. d = c
      BY <1>1, <1>2 DEF CallStep
    <2> QED BY <1>1, <2>1 DEF Running
  <1>4. AgreeOK(k)'
    <2> SUFFICES ASSUME k \notin torn'
                 PROVE  Consistent(postgres'[k], memory'[k])
      BY DEF AgreeOK
    <2>1. k \notin torn /\ \A d \in Running(k) : op[d].kind \notin Writers
      BY <1>1, <1>2
    <2>2. Consistent(postgres[k], memory[k])
      BY <1>0, <2>1 DEF LayersOK, AgreeOK, Halfway, Writers, Kinds
    <2>3. op[c].at = "fill" => Consistent(postgres[k], op[c].entry)
      BY <1>0, <1>1, <2>1 DEF LayersOK, FillsOK, CallStep
    <2> QED BY <1>1, <2>2, <2>3 DEF TypeInv, StoresInv
  <1>5. FillsOK(k)'
    <2> SUFFICES ASSUME k \notin torn', NEW d \in Running(k)', op'[d].at = "fill"
                 PROVE  Consistent(postgres'[k], op'[d].entry)
      BY DEF FillsOK
    <2>1. CASE d = c
      <3>1. op'[c] # NoOp
        BY <2>1 DEF Running
      <3> QED BY <1>1, <2>1, <3>1 DEF Consistent
    <2>2. CASE d # c
      BY <1>0, <1>1, <1>2, <2>2 DEF CallStep, LayersOK, FillsOK
    <2> QED BY <2>1, <2>2
  <1> QED
    <2>1. \A l \in Keys : l # k => memory'[l] = memory[l] /\ postgres'[l] = postgres[l]
      BY <1>1 DEF TypeInv, StoresInv
    <2>2. LayersOK(k)'
      BY <1>2, <1>3, <1>4, <1>5 DEF LayersOK
    <2> QED BY <1>1, <2>1, <2>2, OtherKeys

\* Set, Expire and Delete: a writer that was alone brings the layers together.
LEMMA WriteLayers ==
    ASSUME TypeInv, LayersInv, NEW c \in Clients, NEW k \in Keys, CallStep(c, k),
           op[c].kind \in Writers, op'[c] = NoOp \/ op'[c].at # "fill",
           k \notin torn' => k \notin torn \/ op[c].alone,
           \A l \in Keys : l # k => /\ memory'[l] = memory[l] /\ postgres'[l] = postgres[l]
                                    /\ l \in torn' <=> l \in torn,
           op'[c] # NoOp /\ op[c].alone /\ op'[c].at = "postgres" =>
               /\ op[c].kind = "set" => memory'[k] \in {NoEntry, op'[c].entry}
               /\ op[c].kind = "expire" => memory'[k] = NoEntry,
           op[c].alone /\ k \notin torn' => \/ Consistent(postgres'[k], memory'[k])
                                            \/ op'[c] # NoOp /\ Halfway(op'[c])
    PROVE  LayersInv'
  <1>0. LayersOK(k)
    BY DEF LayersInv
  <1>1. /\ AloneOK(k)' /\ WritersOK(k)'
        /\ \A d \in Running(k)' : d \in Running(k) /\ d \in Clients
        /\ \A d \in Running(k) : op[d].alone => d = c
        /\ k \notin torn' => op[c].alone
        /\ op[c].alone => Running(k)' \subseteq {c}
    BY <1>0, CallKeeps
  <1>2. HalfOK(k)'
    <2> SUFFICES ASSUME NEW d \in Running(k)', op'[d].alone, op'[d].at = "postgres"
                 PROVE  /\ op'[d].kind = "set" => memory'[k] \in {NoEntry, op'[d].entry}
                        /\ op'[d].kind = "expire" => memory'[k] = NoEntry
      BY DEF HalfOK
    <2>1. d = c
      BY <1>1 DEF CallStep
    <2> QED BY <2>1 DEF CallStep, Running
  <1>3. AgreeOK(k)'
    <2> SUFFICES ASSUME k \notin torn'
                 PROVE  Consistent(postgres'[k], memory'[k]) \/ \E d \in Running(k)' : Halfway(op'[d])
      BY DEF AgreeOK
    <2>1. CASE op'[c] # NoOp /\ Halfway(op'[c])
      <3>1. c \in Running(k)'
        BY <2>1 DEF CallStep, Running
      <3> QED BY <2>1, <3>1
    <2>2. CASE Consistent(postgres'[k], memory'[k])
      BY <2>2
    <2> QED BY <1>1, <2>1, <2>2
  <1>4. FillsOK(k)'
    <2> SUFFICES ASSUME k \notin torn', NEW d \in Running(k)', op'[d].at = "fill"
                 PROVE  FALSE
      BY DEF FillsOK
    <2>1. d = c
      BY <1>1
    <2> QED BY <2>1 DEF Running
  <1>5. LayersOK(k)'
    BY <1>1, <1>2, <1>3, <1>4 DEF LayersOK
  <1> QED BY <1>5, OtherKeys

LEMMA SetExpireDeleteLayers ==
    ASSUME TypeInv, LayersInv, NEW c \in Clients, NEW k \in Keys,
           \/ SetMemory(c, k) \/ SetPostgres(c, k)
           \/ ExpireMemory(c, k) \/ ExpirePostgres(c, k)
           \/ Purge(c, k)
           \/ DeletePostgres(c, k) \/ DeleteMemory(c, k)
    PROVE  LayersInv'
  <1> USE DEF stores, buster, history
  <1>1. LayersOK(k) /\ \A l \in Keys : l # k => k # l
    BY DEF LayersInv
  <1>2. memory \in [Keys -> Entries] /\ postgres \in [Keys -> Entries]
    BY DEF TypeInv, StoresInv
  <1>3. CASE SetMemory(c, k)
    <2>1. /\ At(c, "set", "memory", k) /\ Continue(c) /\ UNCHANGED <<postgres, torn>>
          /\ memory' = [memory EXCEPT ![k] = op[c].entry]
      BY <1>3 DEF SetMemory
    <2>2. "postgres" \in Visits /\ After("set", "memory") = "postgres"
      BY AfterFacts DEF Visits
    <2>3. /\ CallStep(c, k) /\ op[c].kind = "set"
          /\ op'[c] # NoOp /\ op'[c].at = "postgres" /\ op'[c].kind = "set" /\ op'[c].entry = op[c].entry
      BY <2>1, <2>2, GoesOn
    <2> QED BY <1>2, <2>1, <2>3, WriteLayers DEF Writers, Kinds, Halfway
  <1>4. CASE SetPostgres(c, k)
    <2>1. /\ At(c, "set", "postgres", k) /\ Continue(c) /\ UNCHANGED memory
          /\ \/ postgres' = [postgres EXCEPT ![k] = op[c].entry] /\ Mended(c, k)
             \/ UNCHANGED postgres /\ torn' = torn \union {k}
      BY <1>4 DEF SetPostgres
    <2>2. "cloudflare" \in Visits /\ After("set", "postgres") = "cloudflare"
      BY AfterFacts DEF Visits
    <2>3. /\ CallStep(c, k) /\ op[c].kind = "set" /\ op[c].at = "postgres"
          /\ op'[c] # NoOp /\ op'[c].at = "cloudflare"
      BY <2>1, <2>2, GoesOn
    <2>4. op[c].alone => memory[k] \in {NoEntry, op[c].entry}
      BY <1>1, <2>3 DEF LayersOK, HalfOK, CallStep
    <2>5. op[c].entry # NoEntry /\ op[c].entry.ttl = "fresh"
      BY <2>1, <2>3, AtFacts DEF TypeInv, OpInv
    <2>6. op[c].alone /\ k \notin torn' => Consistent(postgres'[k], memory'[k])
      BY <1>2, <2>1, <2>4, <2>5 DEF Consistent
    <2>7. /\ k \notin torn' => k \notin torn \/ op[c].alone
          /\ \A l \in Keys : l # k => /\ memory'[l] = memory[l] /\ postgres'[l] = postgres[l]
                                      /\ l \in torn' <=> l \in torn
      BY <1>2, <2>1 DEF Mended
    <2> QED BY <2>3, <2>6, <2>7, WriteLayers DEF Writers, Kinds
  <1>5. CASE ExpireMemory(c, k)
    <2>1. /\ At(c, "expire", "memory", k) /\ Continue(c) /\ UNCHANGED <<postgres, torn>>
          /\ memory' = [memory EXCEPT ![k] = NoEntry]
      BY <1>5 DEF ExpireMemory
    <2>2. "postgres" \in Visits /\ After("expire", "memory") = "postgres"
      BY AfterFacts DEF Visits
    <2>3. CallStep(c, k) /\ op[c].kind = "expire" /\ op'[c] # NoOp /\ op'[c].at = "postgres"
      BY <2>1, <2>2, GoesOn
    <2> QED BY <1>2, <2>1, <2>3, WriteLayers DEF Writers, Kinds, Consistent
  <1>6. CASE ExpirePostgres(c, k)
    <2>1. /\ At(c, "expire", "postgres", k) /\ Continue(c) /\ UNCHANGED memory /\ Mended(c, k)
          /\ \/ postgres[k] # NoEntry /\ postgres' = [postgres EXCEPT ![k].ttl = "expired"]
             \/ UNCHANGED postgres
      BY <1>6 DEF ExpirePostgres
    <2>2. "cloudflare" \in Visits /\ After("expire", "postgres") = "cloudflare"
      BY AfterFacts DEF Visits
    <2>3. /\ CallStep(c, k) /\ op[c].kind = "expire" /\ op[c].at = "postgres"
          /\ op'[c] # NoOp /\ op'[c].at = "cloudflare"
      BY <2>1, <2>2, GoesOn
    <2>4. op[c].alone => memory[k] = NoEntry
      BY <1>1, <2>3 DEF LayersOK, HalfOK, CallStep
    <2>5. op[c].alone => Consistent(postgres'[k], memory'[k])
      BY <2>1, <2>4 DEF Consistent
    <2>6. \A l \in Keys : l # k => postgres'[l] = postgres[l]
      BY <1>2, <2>1
    <2>7. /\ k \notin torn' => k \notin torn \/ op[c].alone
          /\ \A l \in Keys : l # k => memory'[l] = memory[l] /\ (l \in torn' <=> l \in torn)
      BY <2>1 DEF Mended
    <2> QED BY <2>3, <2>5, <2>6, <2>7, WriteLayers DEF Writers, Kinds
  <1>7. CASE Purge(c, k)
    <2>1. PICK kind \in {"set", "expire"}, visit \in {"cloudflare", "cloudflare again"} :
            At(c, kind, visit, k)
      BY <1>7 DEF Purge, AtCloudflare
    <2>2. Continue(c) /\ UNCHANGED <<memory, postgres, torn>>
      BY <1>7 DEF Purge
    <2>3. /\ CallStep(c, k) /\ op[c].kind = kind /\ op[c].at = visit
          /\ op'[c] = NoOp \/ op'[c].at = "cloudflare again"
      <3>1. CASE visit = "cloudflare"
        <4>1. "cloudflare again" \in Visits /\ After(kind, visit) = "cloudflare again"
          BY <3>1, AfterFacts DEF Visits
        <4> QED BY <2>1, <2>2, <4>1, GoesOn
      <3>2. CASE visit = "cloudflare again"
        <4>1. After(kind, visit) = "return"
          BY <3>2, AfterFacts
        <4> QED BY <2>1, <2>2, <4>1, GoesBack
      <3> QED BY <3>1, <3>2
    <2>4. op[c].alone /\ k \notin torn => Consistent(postgres[k], memory[k])
      <3>1. op[c].alone => Running(k) = {c}
        BY <1>1, <2>3 DEF LayersOK, AloneOK, CallStep
      <3>2. ~Halfway(op[c])
        BY <2>3 DEF Halfway
      <3> QED BY <1>1, <3>1, <3>2 DEF LayersOK, AgreeOK
    <2> QED BY <2>2, <2>3, <2>4, WriteLayers DEF Writers, Kinds
  <1>8. CASE DeletePostgres(c, k)
    <2>1. /\ At(c, "delete", "postgres", k) /\ Continue(c) /\ UNCHANGED <<memory, torn>>
          /\ postgres' = [postgres EXCEPT ![k] = NoEntry] \/ UNCHANGED postgres
      BY <1>8 DEF DeletePostgres
    <2>2. "memory" \in Visits /\ After("delete", "postgres") = "memory"
      BY AfterFacts DEF Visits
    <2>3. /\ CallStep(c, k) /\ op[c].kind = "delete"
          /\ op'[c] # NoOp /\ op'[c].at = "memory" /\ op'[c].kind = "delete"
      BY <2>1, <2>2, GoesOn
    <2>4. \A l \in Keys : l # k => postgres'[l] = postgres[l]
      BY <1>2, <2>1
    <2> QED BY <2>1, <2>3, <2>4, WriteLayers DEF Writers, Kinds, Halfway
  <1>9. CASE DeleteMemory(c, k)
    <2>1. /\ At(c, "delete", "memory", k) /\ Continue(c) /\ UNCHANGED postgres /\ Mended(c, k)
          /\ memory' = [memory EXCEPT ![k] = NoEntry]
      BY <1>9 DEF DeleteMemory
    <2>2. CallStep(c, k) /\ op[c].kind = "delete" /\ op'[c] = NoOp
      BY <2>1, AfterFacts, GoesBack
    <2>3. Consistent(postgres'[k], memory'[k])
      BY <1>2, <2>1 DEF Consistent
    <2>4. /\ k \notin torn' => k \notin torn \/ op[c].alone
          /\ \A l \in Keys : l # k => memory'[l] = memory[l] /\ (l \in torn' <=> l \in torn)
      BY <1>2, <2>1 DEF Mended
    <2> QED BY <2>1, <2>2, <2>3, <2>4, WriteLayers DEF Writers, Kinds
  <1> QED BY <1>3, <1>4, <1>5, <1>6, <1>7, <1>8, <1>9

\* A call that starts tears the key if it overlaps another and one of them writes.
LEMMA BeginLayers ==
    ASSUME TypeInv, LayersInv, NEW c \in Clients, NEW k \in Keys, NEW kind \in Kinds, Begin(c, kind, k)
    PROVE  LayersInv'
  <1> USE DEF stores
  <1>1. /\ op[c] = NoOp /\ UNCHANGED <<memory, postgres>>
        /\ torn' = IF (IF kind = "get" THEN Writing(k) ELSE Running(k)) # {}
                   THEN torn \union {k} ELSE torn
    BY DEF Begin
  <1>2. /\ op'[c].kind = kind /\ op'[c].key = k /\ op'[c].at = After(kind, "start")
        /\ op'[c].alone => Running(k) = {}
        /\ Running(k) = {} => op'[c].alone
        /\ op'[c] # NoOp
    <2>1. op'[c] = [kind |-> kind, key |-> k, at |-> After(kind, "start"),
                    entry |-> IF kind = "set" THEN Entry(version', "fresh") ELSE NoEntry,
                    alone |-> Running(k) = {}]
      BY BeginFacts
    <2> DEFINE entry == IF kind = "set" THEN Entry(version', "fresh") ELSE NoEntry
    <2> HIDE DEF entry
    <2>2. op'[c] = [kind |-> kind, key |-> k, at |-> After(kind, "start"), entry |-> entry,
                    alone |-> Running(k) = {}]
      BY <2>1, Zenon DEF entry
    <2>3. /\ op'[c].kind = kind /\ op'[c].key = k /\ op'[c].at = After(kind, "start")
          /\ op'[c].alone => Running(k) = {}
          /\ Running(k) = {} => op'[c].alone
      <3> DEFINE others == Running(k)
                 o == op'[c]
                 at == After(kind, "start")
      <3>1. o = [kind |-> kind, key |-> k, at |-> at, entry |-> entry, alone |-> others = {}]
        BY <2>2, Zenon
      <3> HIDE DEF o, others, at
      <3>2. /\ o.kind = kind /\ o.key = k /\ o.at = at
            /\ o.alone => others = {}
            /\ others = {} => o.alone
        BY <3>1
      <3> QED BY <3>2, Zenon DEF o, others, at
    <2>4. NoOp.kind = "none" /\ kind # "none"
      BY DEF NoOp, Kinds
    <2> QED BY <2>3, <2>4, Zenon
  <1>3. ASSUME NEW d \in Clients, op[d] # NoOp
        PROVE  /\ d # c /\ op'[d] # NoOp
               /\ op'[d].kind = op[d].kind /\ op'[d].key = op[d].key
               /\ op'[d].at = op[d].at /\ op'[d].entry = op[d].entry
               /\ op'[d].alone => op[d].alone /\ d \notin Running(k)
    BY <1>3, BeginKeeps
  <1>4. ASSUME NEW d \in Clients, d # c, d \notin Running(k)
        PROVE  op'[d] = op[d]
    BY <1>4 DEF Begin
  <1>5. ASSUME NEW l \in Keys, l # k
        PROVE  LayersOK(l)'
    <2>1. \A d \in Clients : op'[d] = op[d] \/ (d \notin Running(l) /\ d \notin Running(l)')
      <3> TAKE d \in Clients
      <3>1. CASE d = c
        BY <1>1, <1>2, <1>5, <3>1 DEF Running
      <3>2. CASE d \in Running(k)
        BY <1>3, <1>5, <3>2 DEF Running
      <3>3. CASE d # c /\ d \notin Running(k)
        BY <1>4, <3>3
      <3> QED BY <3>1, <3>2, <3>3
    <2>2. l \in torn' <=> l \in torn
      BY <1>1, <1>5
    <2> QED BY <1>1, <2>1, <2>2, LayersFrame DEF LayersInv
  <1>6. \A d \in Running(k)' : d \in Clients /\ (d = c \/ (d # c /\ d \in Running(k)))
    BY <1>4 DEF Running
  <1>7. \A d \in Running(k) : /\ d \in Clients /\ d \in Running(k)' /\ ~op'[d].alone
                              /\ op'[d].kind = op[d].kind /\ op'[d].at = op[d].at
                              /\ op'[d].entry = op[d].entry
    <2> TAKE d \in Running(k)
    <2>1. d \in Clients /\ op[d] # NoOp /\ op[d].key = k
      BY DEF Running
    <2>2. /\ op'[d] # NoOp
          /\ op'[d].kind = op[d].kind /\ op'[d].key = op[d].key
          /\ op'[d].at = op[d].at /\ op'[d].entry = op[d].entry
          /\ op'[d].alone => d \notin Running(k)
      BY <1>3, <2>1
    <2> QED BY <2>1, <2>2 DEF Running
  <1>8. c \in Running(k)'
    BY <1>2 DEF Running
  <1>9. AloneOK(k)'
    <2> SUFFICES ASSUME NEW d \in Running(k)', op'[d].alone
                 PROVE  Running(k)' = {d}
      BY DEF AloneOK
    <2>1. d = c /\ Running(k) = {}
      BY <1>2, <1>6, <1>7
    <2> QED BY <1>6, <1>8, <2>1
  <1>10. WritersOK(k)'
    <2> SUFFICES ASSUME k \notin torn', NEW d \in Running(k)', op'[d].kind \in Writers
                 PROVE  op'[d].alone
      BY DEF WritersOK
    <2>1. CASE kind = "get"
      <3>1. d # c
        BY <1>2, <2>1 DEF Writers
      <3>2. d \in Running(k) /\ op[d].kind \in Writers /\ Writing(k) = {}
        BY <1>1, <1>6, <1>7, <2>1, <3>1
      <3> QED BY <3>2 DEF Writing
    <2>2. CASE kind # "get"
      <3>1. Running(k) = {}
        BY <1>1, <2>2
      <3> QED BY <1>2, <1>6, <3>1
    <2> QED BY <2>1, <2>2
  <1>11. HalfOK(k)'
    <2> SUFFICES ASSUME NEW d \in Running(k)', op'[d].alone, op'[d].at = "postgres"
                 PROVE  op'[d].kind \notin {"set", "expire"}
      BY DEF HalfOK
    <2>1. d = c
      BY <1>6, <1>7
    <2> QED BY <1>2, <2>1, AfterFacts
  <1>12. k \notin torn' => k \notin torn
    BY <1>1
  <1>13. AgreeOK(k)'
    <2> SUFFICES ASSUME k \notin torn', ~Consistent(postgres[k], memory[k])
                 PROVE  \E d \in Running(k)' : Halfway(op'[d])
      BY <1>1 DEF AgreeOK
    <2>1. PICK d \in Running(k) : Halfway(op[d])
      BY <1>12 DEF LayersInv, LayersOK, AgreeOK
    <2>2. d \in Running(k)' /\ op'[d].kind = op[d].kind /\ op'[d].at = op[d].at
      BY <1>7
    <2> QED BY <2>1, <2>2 DEF Halfway
  <1>14. FillsOK(k)'
    <2> SUFFICES ASSUME k \notin torn', NEW d \in Running(k)', op'[d].at = "fill"
                 PROVE  Consistent(postgres[k], op'[d].entry)
      BY <1>1 DEF FillsOK
    <2>1. d # c
      BY <1>2, AfterFacts DEF Kinds
    <2>2. d \in Running(k) /\ op[d].at = "fill" /\ op'[d].entry = op[d].entry
      BY <1>6, <1>7, <2>1
    <2> QED BY <1>12, <2>2 DEF LayersInv, LayersOK, FillsOK
  <1>15. LayersOK(k)'
    BY <1>9, <1>10, <1>11, <1>13, <1>14 DEF LayersOK
  <1> QED BY <1>5, <1>15 DEF LayersInv

\* Evictions, lapses, purges and crashes.
LEMMA AroundLayers ==
    ASSUME TypeInv, LayersInv,
           \/ \E k \in Keys : Evict(k) \/ Lapse(k)
           \/ \E r \in Requests : Flush(r) \/ Purged(r) \/ PurgeFailed(r)
           \/ Crash
           \/ UNCHANGED vars
    PROVE  LayersInv'
  <1> USE DEF stores, buster, history
  <1>1. ASSUME UNCHANGED <<memory, postgres, op, torn>>
        PROVE  LayersInv'
    BY <1>1, LayersFrame DEF LayersInv
  <1>2. ASSUME op' = op, torn' = torn,
               \A l \in Keys : memory'[l] = memory[l] \/ memory'[l] = NoEntry,
               \A l \in Keys : \A e : Consistent(postgres[l], e) => Consistent(postgres'[l], e)
        PROVE  LayersInv'
    <2> SUFFICES ASSUME NEW l \in Keys
                 PROVE  LayersOK(l)'
      BY DEF LayersInv
    <2>1. LayersOK(l)
      BY DEF LayersInv
    <2>2. Running(l)' = Running(l)
      BY <1>2 DEF Running
    <2>3. AloneOK(l)' /\ WritersOK(l)'
      BY <1>2, <2>1, <2>2 DEF LayersOK, AloneOK, WritersOK
    <2>4. HalfOK(l)'
      BY <1>2, <2>1, <2>2 DEF LayersOK, HalfOK
    <2>5. Consistent(postgres[l], memory[l]) => Consistent(postgres'[l], memory'[l])
      <3>1. Consistent(postgres'[l], NoEntry)
        BY DEF Consistent
      <3> QED BY <1>2, <3>1
    <2>6. AgreeOK(l)'
      BY <1>2, <2>1, <2>2, <2>5 DEF LayersOK, AgreeOK
    <2>7. FillsOK(l)'
      BY <1>2, <2>1, <2>2 DEF LayersOK, FillsOK
    <2> QED BY <2>3, <2>4, <2>6, <2>7 DEF LayersOK
  <1>3. ASSUME NEW k \in Keys, Evict(k)
        PROVE  LayersInv'
    <2>1. memory' = [memory EXCEPT ![k] = NoEntry] /\ UNCHANGED <<postgres, op, torn>>
      BY <1>3 DEF Evict
    <2> QED BY <1>2, <2>1 DEF TypeInv, StoresInv
  <1>4. ASSUME NEW k \in Keys, Lapse(k)
        PROVE  LayersInv'
    <2>1. /\ postgres[k] # NoEntry /\ UNCHANGED <<memory, op, torn>>
          /\ postgres' = [postgres EXCEPT ![k].ttl = "lapsed"]
      BY <1>4 DEF Lapse
    <2>2. "lapsed" \in TTLs
      BY DEF TTLs
    <2>3. /\ postgres'[k] = Entry(postgres[k].val, "lapsed") /\ postgres'[k] # NoEntry
          /\ \A l \in Keys : l # k => postgres'[l] = postgres[l]
      <3>1. /\ postgres'[k] = Entry(postgres[k].val, "lapsed")
            /\ \A l \in Keys : l # k => postgres'[l] = postgres[l]
        BY <2>1, <2>2, TTLFacts DEF TypeInv, StoresInv
      <3>2. postgres[k].val \in Versions
        BY <2>1, EntryFacts DEF TypeInv, StoresInv
      <3> QED BY <2>2, <3>1, <3>2, EntryFacts
    <2>4. postgres'[k].val = postgres[k].val /\ postgres'[k].ttl = "lapsed"
      BY <2>3 DEF Entry
    <2>5. \A l \in Keys : \A e : Consistent(postgres[l], e) => Consistent(postgres'[l], e)
      BY <2>3, <2>4 DEF Consistent
    <2> QED BY <1>2, <2>1, <2>5
  <1>5. CASE Crash
    <2>1. /\ \A l \in Keys : memory'[l] = NoEntry
          /\ \A l \in Keys : Running(l)' = {}
      BY <1>5 DEF Crash, Running
    <2> QED BY <2>1
        DEF LayersInv, LayersOK, AloneOK, WritersOK, HalfOK, AgreeOK, FillsOK, Consistent
  <1>6. ASSUME NEW r \in Requests, Flush(r) \/ Purged(r) \/ PurgeFailed(r)
        PROVE  LayersInv'
    BY <1>1, <1>6 DEF Flush, Purged, PurgeFailed
  <1>7. CASE UNCHANGED vars
    BY <1>1, <1>7 DEF vars
  <1> QED BY <1>3, <1>4, <1>5, <1>6, <1>7

\* For any clients, keys and number of Sets: memory never holds what Postgres does not,
\* nor serves as fresh what was expired, unless a writer raced another call of the key,
\* or failed, since the last writer that had the key for itself.
THEOREM LayersCohere == Spec => []Coherent
  <1>1. Init => LayersInv
    <2> SUFFICES ASSUME Init PROVE LayersInv
      OBVIOUS
    <2>1. \A k \in Keys : Running(k) = {} /\ memory[k] = NoEntry
      BY DEF Init, Running
    <2> QED BY <2>1
        DEF LayersInv, LayersOK, AloneOK, WritersOK, HalfOK, AgreeOK, FillsOK, Consistent
  <1>2. TypeInv /\ LayersInv /\ [Next]_vars => LayersInv'
    BY GetLayers, SetExpireDeleteLayers, BeginLayers, AroundLayers DEF Next, Step
  <1>3. LayersInv => Coherent
    <2> SUFFICES ASSUME LayersInv, NEW k \in Keys, k \notin torn, Writing(k) = {}
                 PROVE  Consistent(postgres[k], memory[k])
      BY DEF Coherent, Consistent
    <2>1. \A c \in Running(k) : ~Halfway(op[c])
      BY DEF Writing, Writers, Kinds, Halfway
    <2> QED BY <2>1 DEF LayersInv, LayersOK, AgreeOK
  <1> QED BY <1>1, <1>2, <1>3, TypeInit, TypeStep, PTL DEF Spec
=============================================================================
