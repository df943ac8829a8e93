--------------------------- MODULE Catalog_proofs ---------------------------
(***************************************************************************)
(* Proofs about Catalog, for any editions and any number of requests and   *)
(* lapses: its type invariant, that an edition is never answered with the  *)
(* bytes of a 404, and that what an edge names is cached when the loop     *)
(* receives it.                                                            *)
(*                                                                         *)
(* Bytes are only ever replaced by bytes, so what was cached once stays    *)
(* cached, expired or not; every party that brings an edition to the loop  *)
(* saw it cached before, and the invariant says so of each place it waits  *)
(* in.  Between the two reads of an edition's flight nobody else writes a  *)
(* 404 under its key: getBook does at the end of the only flight, and the  *)
(* others write the edition.                                               *)
(***************************************************************************)
EXTENDS Catalog, TLAPS

Bytes == {Missing, NoEntry} \union SUBSET Books
Entry == [val : Bytes, fresh : BOOLEAN]
Call == [pc : {"idle", "read", "work", "ask", "book", "fetch", "seed", "ret"},
         read : Bytes, book : Books, got : Special \union SUBSET Books,
         fetched : BOOLEAN, seeds : BOOLEAN]

\* A flight of an edition looks that edition up, and has not found a 404 that is fresh.
FlightsOK ==
    \A b \in Books :
        /\ caller[b].pc \notin {"work", "ask"}
        /\ caller[b].pc \notin {"idle", "read"} =>
               caller[b].book = b /\ ~(cache[b].fresh /\ cache[b].val = Missing)
        /\ caller[b].got # Missing

\* What a getter returns, and starts a work from, is never nothing.
AnswersOK ==
    /\ \A k \in Keys : cache[k].fresh => cache[k].val # NoEntry
    /\ \A c \in Callers : /\ caller[c].pc = "ret" => caller[c].got # NoEntry
                          /\ caller[c].pc = "seed" => IsWork(caller[c].got)

\* Whatever is on its way to the loop, or there, is cached.
EditionsCached ==
    \A b \in Books :
        \/ b \in pending \/ b \in loop.todo \/ b \in save.saved \/ b \in refresh.kept
        \/ attach[b] # "idle"
        => cache[b].val # NoEntry

\* Until the work is cached nothing is on its way to it.
NothingUntilWork ==
    cache[Work].val = NoEntry =>
        /\ workQ = <<>> /\ refresh.pc = "idle"
        /\ \A b \in Books : attach[b] # "send"
        /\ getter = "gr" =>
               /\ save.todo = {} /\ save.saved = {} /\ pending = {} /\ loop.pc # "work"
               /\ \A c \in Callers : caller[c].pc = "seed" => caller[c].seeds

Inv == /\ TypeOK /\ FlightsOK /\ AnswersOK /\ EditionsCached /\ NothingUntilWork
       /\ BookServedIsBook

-----------------------------------------------------------------------------
(* What the values and the updates come down to.                            *)

\* Editions are no sentinel and no error, and the sentinels and the errors differ.
LEMMA Distinct ==
    /\ \A s \in SUBSET Books : s \notin Special /\ s # Missing /\ s # NoEntry
    /\ Missing # NoEntry /\ NotFound # Missing /\ NotFound # NoEntry /\ Failed # Missing
    /\ Failed # NoEntry /\ NotFound # Failed
    /\ Best \in Books /\ Work \in Keys /\ Work \notin Books /\ Loop \in Callers
    /\ Loop \notin Keys /\ Books \subseteq Keys /\ Keys \subseteq Callers
    /\ Keys = Books \union {Work} /\ Callers = Keys \union {Loop}
  BY ConstantsAssumption DEF Keys, Callers, Special, Errors

LEMMA Typed ==
    ASSUME TypeOK
    PROVE  /\ cache \in [Keys -> Entry]
           /\ caller \in [Callers -> Call]
           /\ \A k \in Keys : cache[k].val \in Bytes /\ cache[k].fresh \in BOOLEAN
           /\ \A c \in Callers : caller[c] \in Call
  BY DEF TypeOK, Entry, Call, Bytes

\* Editions of what is no error are a set of editions.
LEMMA EditionsType ==
    ASSUME NEW bytes \in Special \union SUBSET Books
    PROVE  /\ Editions(bytes) \in SUBSET Books
           /\ IsWork(bytes) <=> bytes \in SUBSET Books
           /\ bytes \notin Errors => bytes \in Bytes
  BY Distinct DEF Editions, IsWork, Special, Errors, Bytes

\* CacheSet replaces one entry and makes it fresh; CacheExpire keeps its bytes.
LEMMA CacheSetFacts ==
    ASSUME TypeOK, NEW k \in Keys, NEW bytes \in Bytes, CacheSet(k, bytes)
    PROVE  /\ cache' \in [Keys -> Entry]
           /\ cache'[k].val = bytes /\ cache'[k].fresh = TRUE
           /\ \A other \in Keys \ {k} : cache'[other] = cache[other]
  BY Typed DEF CacheSet, Entry

LEMMA CacheExpireFacts ==
    ASSUME TypeOK, NEW k \in Keys, CacheExpire(k)
    PROVE  /\ cache' \in [Keys -> Entry]
           /\ cache'[k].val = cache[k].val /\ cache'[k].fresh = FALSE
           /\ \A other \in Keys \ {k} : cache'[other] = cache[other]
  BY Typed DEF CacheExpire, Entry

\* The steps of a caller: to another place, to an edition, back with an answer, and out.
LEMMA GotoFacts ==
    ASSUME TypeOK, NEW c \in Callers, Goto(c, "read") \/ Goto(c, "work") \/ Goto(c, "ask")
               \/ Goto(c, "fetch") \/ Goto(c, "ret")
    PROVE  /\ caller' \in [Callers -> Call]
           /\ caller'[c].book = caller[c].book /\ caller'[c].got = caller[c].got
           /\ caller'[c].seeds = caller[c].seeds
           /\ Goto(c, "read") => caller'[c].pc = "read"
           /\ Goto(c, "work") => caller'[c].pc = "work"
           /\ Goto(c, "ask") => caller'[c].pc = "ask"
           /\ Goto(c, "fetch") => caller'[c].pc = "fetch"
           /\ Goto(c, "ret") => caller'[c].pc = "ret"
           /\ \A other \in Callers \ {c} : caller'[other] = caller[other]
  BY Typed DEF Goto, Call

LEMMA GotoBookFacts ==
    ASSUME TypeOK, NEW c \in Callers, NEW b \in Books, GotoBook(c, b)
    PROVE  /\ caller' \in [Callers -> Call]
           /\ caller'[c].pc = "book" /\ caller'[c].book = b /\ caller'[c].got = caller[c].got
           /\ \A other \in Callers \ {c} : caller'[other] = caller[other]
  BY Typed DEF GotoBook, Call

LEMMA ReturnFacts ==
    ASSUME TypeOK, NEW c \in Callers, NEW bytes \in Special \union SUBSET Books,
           Return(c, bytes)
    PROVE  /\ caller' \in [Callers -> Call]
           /\ caller'[c].pc = "ret" /\ caller'[c].got = bytes
           /\ caller'[c].book = caller[c].book
           /\ \A other \in Callers \ {c} : caller'[other] = caller[other]
  BY Typed DEF Return, Call

LEMMA EndFacts ==
    ASSUME TypeOK, NEW c \in Callers, caller' = [caller EXCEPT ![c] = NoCall]
    PROVE  /\ caller' \in [Callers -> Call]
           /\ caller'[c].pc = "idle" /\ caller'[c].got = NoEntry
           /\ \A other \in Callers \ {c} : caller'[other] = caller[other]
  BY Typed, Distinct DEF NoCall, Call, Special, Bytes

\* Joining a flight starts it if need be: afterwards there is one.
LEMMA JoinFacts ==
    ASSUME TypeOK, NEW k \in Keys, Join(k)
    PROVE  /\ caller' \in [Callers -> Call]
           /\ caller'[k].pc # "idle"
           /\ \A c \in Callers : /\ caller'[c].book = caller[c].book
                                 /\ caller'[c].got = caller[c].got
                                 /\ caller'[c].seeds = caller[c].seeds
                                 /\ \/ caller'[c].pc = caller[c].pc
                                    \/ /\ c = k /\ caller[c].pc = "idle"
                                       /\ caller'[c].pc = "read"
<1>1. k \in Callers
  BY Distinct
<1>2. CASE At(k, "idle")
  BY <1>1, <1>2, GotoFacts DEF Join, At
<1>3. CASE ~At(k, "idle")
  BY <1>1, <1>3, Typed DEF Join, At
<1> QED  BY <1>2, <1>3

-----------------------------------------------------------------------------
(* The getters.                                                             *)

\* What StartSave leaves: editions to save, and none saved.
LEMMA StartSaveFacts ==
    ASSUME StartSave
    PROVE  save' \in [todo : SUBSET Books, saved : SUBSET Books] /\ save'.saved = {}
  BY DEF StartSave

\* A caller that goes on in its getter and writes nothing.  An edition's flight stays with
\* its edition, and an answer is something.
LEMMA GetterMoves ==
    ASSUME Inv, NEW c \in Callers, caller' \in [Callers -> Call],
           \A other \in Callers \ {c} : caller'[other] = caller[other],
           caller[c].pc \notin {"idle", "read"}, caller'[c].pc \notin {"idle", "read"},
           c \in Books => /\ caller'[c].pc \notin {"work", "ask"}
                          /\ caller'[c].book = c /\ caller'[c].got # Missing,
           caller'[c].pc = "ret" => caller'[c].got # NoEntry,
           caller'[c].pc = "seed" => /\ IsWork(caller'[c].got)
                                     /\ caller'[c].seeds \/ cache[Work].val # NoEntry,
           save' = save \/ (StartSave /\ getter # "gr"),
           UNCHANGED <<getter, cache, attach, refresh, workQ, pending, loop, resp, events>>
    PROVE  Inv'
<1>1. save' \in [todo : SUBSET Books, saved : SUBSET Books] /\ (save' = save \/ save'.saved = {})
  BY StartSaveFacts DEF Inv, TypeOK
<1>2. TypeOK'
  BY <1>1 DEF Inv, TypeOK, Call, Bytes
<1>3. FlightsOK'
  BY Distinct DEF Inv, FlightsOK
<1>4. AnswersOK'
  BY DEF Inv, AnswersOK
<1>5. EditionsCached'
  BY <1>1 DEF Inv, EditionsCached
<1>6. NothingUntilWork'
  BY DEF Inv, NothingUntilWork
<1>7. BookServedIsBook'
  BY DEF Inv, BookServedIsBook
<1> QED  BY <1>2, <1>3, <1>4, <1>5, <1>6, <1>7 DEF Inv

LEMMA GetWorkStep == ASSUME Inv, NEW c \in Callers, GetWork(c) PROVE Inv'
<1>1. c \notin Books /\ caller[c].pc = "work" /\ TypeOK
  BY DEF GetWork, At, Inv, FlightsOK
<1>2. UNCHANGED <<getter, cache, attach, refresh, workQ, save, pending, loop, resp, events>>
  BY DEF GetWork
<1>3. CASE cache[Work].fresh /\ Return(c, cache[Work].val)
  <2>1. cache[Work].val \in Special \union SUBSET Books /\ cache[Work].val # NoEntry
    BY <1>1, <1>3, Distinct, Typed DEF Bytes, Special, Inv, AnswersOK
  <2>2. /\ caller' \in [Callers -> Call] /\ caller'[c].pc = "ret"
        /\ caller'[c].got = cache[Work].val
        /\ \A other \in Callers \ {c} : caller'[other] = caller[other]
    BY <1>1, <1>3, <2>1, ReturnFacts
  <2> QED  BY <1>1, <1>2, <2>1, <2>2, GetterMoves
<1>4. CASE GotoBook(c, Best)
  <2>1. /\ caller' \in [Callers -> Call] /\ caller'[c].pc = "book"
        /\ \A other \in Callers \ {c} : caller'[other] = caller[other]
    BY <1>1, <1>4, GotoBookFacts, Distinct
  <2> QED  BY <1>1, <1>2, <2>1, GetterMoves
<1>5. CASE Goto(c, "ask")
  <2>1. /\ caller' \in [Callers -> Call] /\ caller'[c].pc = "ask"
        /\ \A other \in Callers \ {c} : caller'[other] = caller[other]
    BY <1>1, <1>5, GotoFacts
  <2> QED  BY <1>1, <1>2, <2>1, GetterMoves
<1> QED  BY <1>3, <1>4, <1>5 DEF GetWork

LEMMA AskWorkStep == ASSUME Inv, NEW c \in Callers, AskWork(c) PROVE Inv'
<1>1. c \notin Books /\ caller[c].pc = "ask" /\ TypeOK
  BY DEF AskWork, At, Inv, FlightsOK
<1>2. /\ UNCHANGED <<getter, cache, attach, refresh, workQ, pending, loop, resp, events>>
      /\ save' = save \/ (StartSave /\ getter # "gr")
  BY DEF AskWork
<1>3. ASSUME NEW err \in Errors, Return(c, err)
      PROVE  Inv'
  <2>1. err \in Special \union SUBSET Books /\ err # NoEntry
    BY Distinct DEF Errors, Special
  <2>2. /\ caller' \in [Callers -> Call] /\ caller'[c].pc = "ret" /\ caller'[c].got = err
        /\ \A other \in Callers \ {c} : caller'[other] = caller[other]
    BY <1>1, <1>3, <2>1, ReturnFacts
  <2> QED  BY <1>1, <1>2, <2>1, <2>2, GetterMoves
<1>4. CASE GotoBook(c, Best)
  <2>1. /\ caller' \in [Callers -> Call] /\ caller'[c].pc = "book"
        /\ \A other \in Callers \ {c} : caller'[other] = caller[other]
    BY <1>1, <1>4, GotoBookFacts, Distinct
  <2> QED  BY <1>1, <1>2, <2>1, GetterMoves
<1> QED  BY <1>3, <1>4 DEF AskWork

LEMMA GetBookStep == ASSUME Inv, NEW c \in Callers, GetBook(c) PROVE Inv'
<1>1. /\ caller[c].pc = "book" /\ TypeOK /\ caller[c].book \in Books
      /\ c \in Books => /\ caller[c].book = c
                        /\ ~(cache[c].fresh /\ cache[c].val = Missing)
  BY Typed DEF GetBook, At, Inv, FlightsOK, Call
<1>2. UNCHANGED <<getter, cache, attach, refresh, workQ, save, pending, loop, resp, events>>
  BY DEF GetBook
<1>3. CASE cache[caller[c].book].fresh /\ Return(c, cache[caller[c].book].val)
  <2> DEFINE val == cache[caller[c].book].val
  <2>1. val \in Special \union SUBSET Books /\ val # NoEntry
    BY <1>1, <1>3, Distinct, Typed DEF Bytes, Special, Inv, AnswersOK
  <2>2. /\ caller' \in [Callers -> Call] /\ caller'[c].pc = "ret" /\ caller'[c].got = val
        /\ caller'[c].book = caller[c].book
        /\ \A other \in Callers \ {c} : caller'[other] = caller[other]
    BY <1>1, <1>3, <2>1, ReturnFacts
  <2>3. c \in Books => val # Missing
    BY <1>1, <1>3
  <2> HIDE DEF val
  <2> QED  BY <1>1, <1>2, <2>1, <2>2, <2>3, GetterMoves
<1>4. CASE Goto(c, "fetch")
  <2>1. /\ caller' \in [Callers -> Call] /\ caller'[c].pc = "fetch"
        /\ caller'[c].book = caller[c].book /\ caller'[c].got = caller[c].got
        /\ \A other \in Callers \ {c} : caller'[other] = caller[other]
    BY <1>1, <1>4, GotoFacts
  <2>2. c \in Books => caller[c].got # Missing
    BY DEF Inv, FlightsOK
  <2> QED  BY <1>1, <1>2, <2>1, <2>2, GetterMoves
<1> QED  BY <1>3, <1>4 DEF GetBook

LEMMA FetchBookStep == ASSUME Inv, NEW c \in Callers, FetchBook(c) PROVE Inv'
<1>1. /\ caller[c].pc = "fetch" /\ TypeOK /\ caller[c].book \in Books
      /\ c \in Books => caller[c].book = c
  BY Typed DEF FetchBook, At, Inv, FlightsOK, Call
<1>2. UNCHANGED <<getter, cache, attach, refresh, workQ, save, pending, loop, resp, events>>
  BY DEF FetchBook
<1>3. ASSUME NEW err \in Errors, Return(c, err)
      PROVE  Inv'
  <2>1. err \in Special \union SUBSET Books /\ err # NoEntry /\ err # Missing
    BY Distinct DEF Errors, Special
  <2>2. /\ caller' \in [Callers -> Call] /\ caller'[c].pc = "ret" /\ caller'[c].got = err
        /\ caller'[c].book = caller[c].book
        /\ \A other \in Callers \ {c} : caller'[other] = caller[other]
    BY <1>1, <1>3, <2>1, ReturnFacts
  <2> QED  BY <1>1, <1>2, <2>1, <2>2, GetterMoves
<1>4. ASSUME NEW best \in BOOLEAN,
             caller' = [caller EXCEPT ![c].pc = IF best THEN "seed" ELSE "ret",
                                      ![c].got = {caller[c].book},
                                      ![c].fetched = TRUE,
                                      ![c].seeds = best /\ cache[Work].val = NoEntry]
      PROVE  Inv'
  <2>1. {caller[c].book} \in SUBSET Books
    BY <1>1
  <2>2. {caller[c].book} # NoEntry /\ {caller[c].book} # Missing /\ IsWork({caller[c].book})
    BY <2>1, Distinct DEF IsWork
  <2> DEFINE pc == IF best THEN "seed" ELSE "ret"
             got == {caller[c].book}
             seeds == best /\ cache[Work].val = NoEntry
  <2>3. /\ pc \in {"seed", "ret"} /\ got \in Special \union SUBSET Books /\ seeds \in BOOLEAN
        /\ pc = "seed" => seeds \/ cache[Work].val # NoEntry
    BY <2>1
  <2>4. caller' = [caller EXCEPT ![c].pc = pc, ![c].got = got, ![c].fetched = TRUE,
                                 ![c].seeds = seeds]
    BY <1>4
  <2>5. got # NoEntry /\ got # Missing /\ IsWork(got)
    BY <2>2
  <2> HIDE DEF pc, got, seeds
  <2>6. /\ caller' \in [Callers -> Call]
        /\ caller'[c].pc = pc /\ caller'[c].got = got /\ caller'[c].seeds = seeds
        /\ caller'[c].book = caller[c].book
        /\ \A other \in Callers \ {c} : caller'[other] = caller[other]
    <3> DEFINE next == [caller[c] EXCEPT !.pc = pc, !.got = got, !.fetched = TRUE,
                                         !.seeds = seeds]
    <3>1. caller \in [Callers -> Call]
      BY <1>1, Typed
    <3>2. caller' = [caller EXCEPT ![c] = next]
      BY <2>4, <3>1
    <3>3. caller[c] \in Call
      BY <3>1
    <3>4. CASE seeds = TRUE
      <4>1. /\ next \in Call /\ next.pc = pc /\ next.got = got /\ next.seeds = TRUE
            /\ next.book = caller[c].book
        BY <2>3, <3>3, <3>4 DEF Call
      <4> HIDE DEF next
      <4> QED  BY <3>1, <3>2, <3>4, <4>1
    <3>5. CASE seeds = FALSE
      <4>1. /\ next \in Call /\ next.pc = pc /\ next.got = got /\ next.seeds = FALSE
            /\ next.book = caller[c].book
        BY <2>3, <3>3, <3>5 DEF Call
      <4> HIDE DEF next
      <4> QED  BY <3>1, <3>2, <3>5, <4>1
    <3> QED  BY <2>3, <3>4, <3>5
  <2>7. caller'[c].pc = "seed" => caller'[c].seeds \/ cache[Work].val # NoEntry
    BY <2>3, <2>6
  <2> QED  BY <1>1, <1>2, <2>3, <2>5, <2>6, <2>7, GetterMoves
<1> QED  BY <1>3, <1>4 DEF FetchBook

\* The work is started from its best edition, unless it is cached.
LEMMA SeedWorkStep == ASSUME Inv, NEW c \in Callers, SeedWork(c) PROVE Inv'
<1>1. /\ caller[c].pc = "seed" /\ TypeOK /\ caller[c].got \in SUBSET Books
      /\ caller[c].got \in Bytes /\ caller[c].got # NoEntry
  <2>1. caller[c].pc = "seed" /\ TypeOK /\ IsWork(caller[c].got)
    BY DEF SeedWork, At, Inv, AnswersOK
  <2>2. caller[c].got \in Special \union SUBSET Books
    BY <2>1, Typed DEF Call
  <2>3. caller[c].got \in SUBSET Books
    BY <2>1, <2>2 DEF IsWork
  <2> QED  BY <2>1, <2>3, Distinct DEF Bytes
<1>2. UNCHANGED <<getter, attach, refresh, workQ, pending, loop, resp, events>>
  BY DEF SeedWork
<1>3. /\ cache' \in [Keys -> Entry]
      /\ \A b \in Books : cache'[b] = cache[b]
      /\ cache' = cache \/ (cache'[Work].val # NoEntry)
      /\ ~caller[c].seeds => cache' = cache
      /\ caller[c].seeds => cache'[Work].val # NoEntry
  <2>1. CASE caller[c].seeds /\ CacheSet(Work, caller[c].got)
    <3>1. /\ cache' \in [Keys -> Entry] /\ cache'[Work].val = caller[c].got
          /\ \A other \in Keys \ {Work} : cache'[other] = cache[other]
      BY <1>1, <2>1, CacheSetFacts, Distinct
    <3> QED  BY <1>1, <2>1, <3>1, Distinct
  <2>2. CASE ~caller[c].seeds /\ UNCHANGED cache
    BY <1>1, <2>2, Typed
  <2> QED  BY <2>1, <2>2 DEF SeedWork
<1>4. getter = "gr" => cache'[Work].val # NoEntry
  <2>1. getter = "gr" /\ ~caller[c].seeds => cache[Work].val # NoEntry
    BY <1>1 DEF Inv, NothingUntilWork
  <2> QED  BY <1>3, <2>1
<1>5. /\ save' \in [todo : SUBSET Books, saved : SUBSET Books]
      /\ save' = save \/ save'.saved = {}
  BY StartSaveFacts DEF SeedWork, Inv, TypeOK
<1>6. /\ caller' \in [Callers -> Call] /\ caller'[c].pc = "ret"
      /\ caller'[c].book = caller[c].book /\ caller'[c].got = caller[c].got
      /\ \A other \in Callers \ {c} : caller'[other] = caller[other]
  BY <1>1, GotoFacts DEF SeedWork
<1>7. cache[Work].val # NoEntry => cache'[Work].val # NoEntry
  BY <1>3
<1>8. TypeOK'
  BY <1>2, <1>3, <1>5, <1>6 DEF Inv, TypeOK, Call, Entry, Bytes
<1>9. FlightsOK'
  BY <1>1, <1>3, <1>6, Distinct DEF Inv, FlightsOK
<1>10. AnswersOK'
  <2>1. ASSUME NEW k \in Keys, cache'[k].fresh
        PROVE  cache'[k].val # NoEntry
    BY <1>3, <2>1, Distinct DEF Inv, AnswersOK
  <2>2. ASSUME NEW d \in Callers
        PROVE  /\ caller'[d].pc = "ret" => caller'[d].got # NoEntry
               /\ caller'[d].pc = "seed" => IsWork(caller'[d].got)
    BY <1>1, <1>6 DEF Inv, AnswersOK
  <2> QED  BY <2>1, <2>2 DEF AnswersOK
<1>11. EditionsCached'
  BY <1>2, <1>3, <1>5 DEF Inv, EditionsCached
<1>12. NothingUntilWork'
  BY <1>2, <1>4, <1>7 DEF Inv, NothingUntilWork
<1>13. BookServedIsBook'
  BY <1>2 DEF Inv, BookServedIsBook
<1> QED  BY <1>8, <1>9, <1>10, <1>11, <1>12, <1>13 DEF Inv

-----------------------------------------------------------------------------
(* Flights.                                                                 *)

\* A flight is joined, or started: nothing else changes but where its caller waits.
LEMMA JoinStep ==
    ASSUME Inv, NEW k \in Keys,
           caller' \in [Callers -> Call], caller'[k].pc # "idle",
           \A c \in Callers : /\ caller'[c].book = caller[c].book
                              /\ caller'[c].got = caller[c].got
                              /\ caller'[c].seeds = caller[c].seeds
                              /\ \/ caller'[c].pc = caller[c].pc
                                 \/ /\ c = k /\ caller[c].pc = "idle"
                                    /\ caller'[c].pc = "read",
           attach' \in [Books -> {"idle", "get", "wait", "send"}],
           \/ attach' = attach
           \/ /\ k = Work
              /\ \A b \in Books : attach[b] = "idle" => attach'[b] = "idle"
              /\ \A b \in Books : attach'[b] = "send" => attach[b] = "send",
           refresh' \in [pc : {"idle", "next", "wait"}, todo : SUBSET Books,
                         kept : SUBSET Books, book : Books],
           \/ refresh' = refresh
           \/ /\ k \in Books /\ refresh.pc = "next" /\ refresh'.pc = "wait"
              /\ refresh'.kept = refresh.kept /\ refresh'.book = k,
           events' \in 0..MaxEvents,
           UNCHANGED <<getter, cache, workQ, save, pending, loop, resp>>
    PROVE  Inv'
<1>1. TypeOK'
  BY DEF Inv, TypeOK, Call, Bytes
<1>2. FlightsOK'
  BY Distinct DEF Inv, FlightsOK
<1>3. AnswersOK'
  BY DEF Inv, AnswersOK
<1>4. EditionsCached'
  BY DEF Inv, EditionsCached
<1>5. NothingUntilWork'
  BY DEF Inv, NothingUntilWork
<1>6. BookServedIsBook'
  BY DEF Inv, BookServedIsBook
<1> QED  BY <1>1, <1>2, <1>3, <1>4, <1>5, <1>6 DEF Inv

LEMMA RequestStep == ASSUME Inv, NEW k \in Keys, Request(k) PROVE Inv'
<1>1. events' \in 0..MaxEvents
  BY ConstantsAssumption DEF Request, Inv, TypeOK
<1>2. /\ attach' \in [Books -> {"idle", "get", "wait", "send"}]
      /\ refresh' \in [pc : {"idle", "next", "wait"}, todo : SUBSET Books,
                       kept : SUBSET Books, book : Books]
  BY DEF Request, Inv, TypeOK
<1>3. /\ attach' = attach /\ refresh' = refresh
      /\ UNCHANGED <<getter, cache, workQ, save, pending, loop, resp>>
  BY DEF Request
<1>4. /\ caller' \in [Callers -> Call] /\ caller'[k].pc # "idle"
      /\ \A c \in Callers : /\ caller'[c].book = caller[c].book
                            /\ caller'[c].got = caller[c].got
                            /\ caller'[c].seeds = caller[c].seeds
                            /\ \/ caller'[c].pc = caller[c].pc
                               \/ /\ c = k /\ caller[c].pc = "idle"
                                  /\ caller'[c].pc = "read"
  BY JoinFacts DEF Request, Inv
<1> QED  BY <1>1, <1>2, <1>3, <1>4, JoinStep

LEMMA AttachGetStep == ASSUME Inv, NEW b \in Books, AttachGet(b) PROVE Inv'
<1>1. /\ attach' \in [Books -> {"idle", "get", "wait", "send"}]
      /\ \A c \in Books : attach[c] = "idle" => attach'[c] = "idle"
      /\ \A c \in Books : attach'[c] = "send" => attach[c] = "send"
  BY DEF AttachGet, Inv, TypeOK
<1>2. /\ events' \in 0..MaxEvents
      /\ refresh' \in [pc : {"idle", "next", "wait"}, todo : SUBSET Books,
                       kept : SUBSET Books, book : Books]
  BY DEF AttachGet, Inv, TypeOK
<1>3. /\ refresh' = refresh
      /\ UNCHANGED <<getter, cache, workQ, save, pending, loop, resp>>
  BY DEF AttachGet
<1>4. /\ caller' \in [Callers -> Call] /\ caller'[Work].pc # "idle"
      /\ \A c \in Callers : /\ caller'[c].book = caller[c].book
                            /\ caller'[c].got = caller[c].got
                            /\ caller'[c].seeds = caller[c].seeds
                            /\ \/ caller'[c].pc = caller[c].pc
                               \/ /\ c = Work /\ caller[c].pc = "idle"
                                  /\ caller'[c].pc = "read"
  BY JoinFacts, Distinct DEF AttachGet, Inv
<1> QED  BY <1>1, <1>2, <1>3, <1>4, JoinStep, Distinct

LEMMA RefreshBookStep == ASSUME Inv, RefreshBook PROVE Inv'
<1>1. PICK b \in refresh.todo :
          /\ refresh' = [refresh EXCEPT !.pc = "wait", !.book = b, !.todo = @ \ {b}]
          /\ Join(b)
  BY DEF RefreshBook
<1>2. b \in Books /\ b \in Keys
  BY Distinct DEF Inv, TypeOK
<1>3. /\ refresh' \in [pc : {"idle", "next", "wait"}, todo : SUBSET Books,
                       kept : SUBSET Books, book : Books]
      /\ refresh'.pc = "wait" /\ refresh'.kept = refresh.kept /\ refresh'.book = b
  BY <1>1, <1>2 DEF Inv, TypeOK
<1>4. events' \in 0..MaxEvents /\ attach' \in [Books -> {"idle", "get", "wait", "send"}]
  BY DEF RefreshBook, Inv, TypeOK
<1>5. /\ attach' = attach /\ refresh.pc = "next"
      /\ UNCHANGED <<getter, cache, workQ, save, pending, loop, resp>>
  BY DEF RefreshBook
<1>6. /\ caller' \in [Callers -> Call] /\ caller'[b].pc # "idle"
      /\ \A c \in Callers : /\ caller'[c].book = caller[c].book
                            /\ caller'[c].got = caller[c].got
                            /\ caller'[c].seeds = caller[c].seeds
                            /\ \/ caller'[c].pc = caller[c].pc
                               \/ /\ c = b /\ caller[c].pc = "idle"
                                  /\ caller'[c].pc = "read"
  BY <1>1, <1>2, JoinFacts DEF Inv
<1> QED  BY <1>2, <1>3, <1>4, <1>5, <1>6, JoinStep

\* The end of a flight: its caller is idle, its answer is told, and the refresh goes on
\* if it waited for this one.
LEMMA AnswerFacts ==
    ASSUME TypeOK, NEW k \in Keys, NEW outcome \in Special \union SUBSET Books,
           Answer(k, outcome)
    PROVE  /\ caller' \in [Callers -> Call]
           /\ caller'[k].pc = "idle" /\ caller'[k].got = NoEntry
           /\ \A c \in Callers \ {k} : caller'[c] = caller[c]
           /\ resp' \in [Keys -> Special \union SUBSET Books]
           /\ resp'[k] = outcome
           /\ \A other \in Keys \ {k} : resp'[other] = resp[other]
           /\ refresh' \in [pc : {"idle", "next", "wait"}, todo : SUBSET Books,
                            kept : SUBSET Books, book : Books]
           /\ \/ refresh' = refresh /\ ~(refresh.pc = "wait" /\ refresh.book = k)
              \/ /\ refresh.pc = "wait" /\ k \in Books /\ refresh'.pc = "next"
                 /\ \A b \in refresh'.kept : b \in refresh.kept \/ (b = k /\ outcome \notin Errors)
<1>1. k \in Callers
  BY Distinct
<1>2. /\ caller' \in [Callers -> Call]
      /\ caller'[k].pc = "idle" /\ caller'[k].got = NoEntry
      /\ \A c \in Callers \ {k} : caller'[c] = caller[c]
  BY <1>1, EndFacts DEF Answer
<1>3. /\ resp' \in [Keys -> Special \union SUBSET Books] /\ resp'[k] = outcome
      /\ \A other \in Keys \ {k} : resp'[other] = resp[other]
  BY DEF Answer, TypeOK
<1>4. CASE refresh.pc = "wait" /\ refresh.book = k
  <2>1. k \in Books
    BY <1>4 DEF TypeOK
  <2>2. refresh' = [refresh EXCEPT !.pc = "next",
                        !.kept = IF outcome \in Errors THEN @ ELSE @ \union {k}]
    BY <1>4 DEF Answer
  <2> QED  BY <1>2, <1>3, <1>4, <2>1, <2>2 DEF TypeOK
<1>5. CASE ~(refresh.pc = "wait" /\ refresh.book = k)
  <2>1. refresh' = refresh
    BY <1>5 DEF Answer
  <2> QED  BY <1>2, <1>3, <1>5, <2>1 DEF TypeOK
<1> QED  BY <1>4, <1>5

\* What waits for the work is woken or gives up.
LEMMA WorkAnsweredFacts ==
    ASSUME TypeOK, NEW outcome, WorkAnswered(outcome)
    PROVE  /\ attach' \in [Books -> {"idle", "get", "wait", "send"}]
           /\ \A b \in Books : \/ attach'[b] = attach[b] /\ attach[b] # "wait"
                               \/ attach[b] = "wait" /\ attach'[b] = "idle"
                               \/ /\ attach[b] = "wait" /\ attach'[b] = "send"
                                  /\ outcome \notin Errors
  BY DEF WorkAnswered, TypeOK

\* A flight ends.  What it answers, unless that is an error, is cached under its key; an
\* edition that gets a goroutine is; and every waiter of the flight has been told.
LEMMA FlightEnds ==
    ASSUME Inv, NEW k \in Keys, NEW outcome \in Special \union SUBSET Books,
           k \in Books => outcome # Missing,
           Answer(k, outcome),
           attach' \in [Books -> {"idle", "get", "wait", "send"}],
           \/ k = Work /\ WorkAnswered(outcome)
           \/ /\ k \in Books
              /\ \A b \in Books : \/ attach'[b] = attach[b]
                                  \/ b = k /\ attach'[b] = "get" /\ cache'[b].val # NoEntry,
           outcome \notin Errors => cache'[k].val # NoEntry,
           cache' \in [Keys -> Entry],
           cache' = cache \/ cache'[k].val # NoEntry,
           \A other \in Keys \ {k} : cache'[other] = cache[other],
           workQ' \in Seq(SUBSET Books),
           workQ' = workQ \/ (k = Work /\ cache'[Work].val # NoEntry),
           UNCHANGED <<getter, save, pending, loop, events>>
    PROVE  Inv'
<1>1. TypeOK
  BY DEF Inv
<1>2. /\ caller' \in [Callers -> Call]
      /\ caller'[k].pc = "idle" /\ caller'[k].got = NoEntry
      /\ \A c \in Callers \ {k} : caller'[c] = caller[c]
      /\ resp' \in [Keys -> Special \union SUBSET Books]
      /\ resp'[k] = outcome
      /\ \A other \in Keys \ {k} : resp'[other] = resp[other]
      /\ refresh' \in [pc : {"idle", "next", "wait"}, todo : SUBSET Books,
                       kept : SUBSET Books, book : Books]
  BY <1>1, AnswerFacts
<1>3. \/ refresh' = refresh /\ ~(refresh.pc = "wait" /\ refresh.book = k)
      \/ /\ refresh.pc = "wait" /\ k \in Books /\ refresh'.pc = "next"
         /\ \A b \in refresh'.kept : b \in refresh.kept \/ (b = k /\ outcome \notin Errors)
  BY <1>1, AnswerFacts
<1>4. \A b \in Books :
          \/ attach'[b] = attach[b] /\ (k = Work => attach[b] # "wait")
          \/ b = k /\ attach'[b] = "get" /\ cache'[b].val # NoEntry
          \/ /\ k = Work /\ attach[b] = "wait"
             /\ attach'[b] = "idle" \/ (attach'[b] = "send" /\ outcome \notin Errors)
  BY <1>1, WorkAnsweredFacts, Distinct
<1>5. \A key \in Keys : cache[key].val # NoEntry => cache'[key].val # NoEntry
  OBVIOUS
<1>6. TypeOK'
  BY <1>2 DEF Inv, TypeOK, Call, Entry, Bytes
<1>7. FlightsOK'
  BY <1>2, Distinct DEF Inv, FlightsOK
<1>8. AnswersOK'
  <2>1. ASSUME NEW key \in Keys, cache'[key].fresh
        PROVE  cache'[key].val # NoEntry
    BY <2>1 DEF Inv, AnswersOK
  <2>2. ASSUME NEW c \in Callers
        PROVE  /\ caller'[c].pc = "ret" => caller'[c].got # NoEntry
               /\ caller'[c].pc = "seed" => IsWork(caller'[c].got)
    BY <1>2 DEF Inv, AnswersOK
  <2> QED  BY <2>1, <2>2 DEF AnswersOK
<1>9. EditionsCached'
  <2>1. ASSUME NEW b \in Books,
               \/ b \in pending \/ b \in loop.todo \/ b \in save.saved \/ b \in refresh.kept
               \/ attach[b] # "idle"
        PROVE  cache'[b].val # NoEntry
    BY <1>5, <2>1, Distinct DEF Inv, EditionsCached
  <2>2. ASSUME NEW b \in Books, b \in refresh'.kept
        PROVE  cache'[b].val # NoEntry
    BY <1>3, <2>1, <2>2
  <2>3. ASSUME NEW b \in Books, attach'[b] # "idle"
        PROVE  cache'[b].val # NoEntry
    BY <1>4, <2>1, <2>3
  <2> QED  BY <2>1, <2>2, <2>3 DEF EditionsCached
<1>10. NothingUntilWork'
  <2> SUFFICES ASSUME cache'[Work].val = NoEntry PROVE NothingUntilWork'
    BY DEF NothingUntilWork
  <2>1. /\ cache[Work].val = NoEntry /\ workQ' = workQ
        /\ k = Work => outcome \in Errors
    BY <1>5, Distinct
  <2>2. /\ workQ = <<>> /\ refresh.pc = "idle"
        /\ \A b \in Books : attach[b] # "send"
        /\ getter = "gr" =>
               /\ save.todo = {} /\ save.saved = {} /\ pending = {} /\ loop.pc # "work"
               /\ \A c \in Callers : caller[c].pc = "seed" => caller[c].seeds
    BY <2>1 DEF Inv, NothingUntilWork
  <2>3. refresh'.pc = "idle"
    BY <1>3, <2>2
  <2>4. \A b \in Books : attach'[b] # "send"
    BY <1>4, <2>1, <2>2
  <2>5. getter = "gr" => \A c \in Callers : caller'[c].pc = "seed" => caller'[c].seeds
    BY <1>2, <2>2
  <2> QED  BY <2>1, <2>2, <2>3, <2>4, <2>5 DEF NothingUntilWork
<1>11. BookServedIsBook'
  BY <1>2, Distinct DEF Inv, BookServedIsBook
<1> QED  BY <1>6, <1>7, <1>8, <1>9, <1>10, <1>11 DEF Inv

\* The first read of a flight: what is fresh is the answer, else the getter is called.
LEMMA ReadCacheStep == ASSUME Inv, NEW k \in Keys, ReadCache(k) PROVE Inv'
<1> DEFINE outcome == IF cache[k].val = Missing THEN NotFound ELSE cache[k].val
<1>1. /\ TypeOK /\ caller[k].pc = "read" /\ k \in Callers /\ cache[k].val \in Bytes
      /\ cache \in [Keys -> Entry]
  BY Typed, Distinct DEF ReadCache, At, Inv
<1>2. UNCHANGED <<getter, cache, workQ, save, pending, loop, events>>
  BY DEF ReadCache
<1>3. CASE /\ cache[k].fresh /\ Answer(k, outcome)
           /\ IF k = Work THEN WorkAnswered(outcome) ELSE UNCHANGED attach
  <2>1. outcome \in Special \union SUBSET Books /\ outcome # Missing
    BY <1>1, Distinct DEF Bytes, Special, Errors
  <2>2. cache[k].val # NoEntry
    BY <1>3 DEF Inv, AnswersOK
  <2>3. attach' \in [Books -> {"idle", "get", "wait", "send"}]
    BY <1>1, <1>3, WorkAnsweredFacts DEF TypeOK
  <2>4. workQ' \in Seq(SUBSET Books)
    BY <1>1, <1>2 DEF TypeOK
  <2>5. Answer(k, outcome) /\ (k = Work => WorkAnswered(outcome)) /\ (k # Work => attach' = attach)
    BY <1>3
  <2>6. k = Work \/ k \in Books
    BY Distinct
  <2> HIDE DEF outcome
  <2> QED  BY <1>1, <1>2, <2>1, <2>2, <2>3, <2>4, <2>5, <2>6, FlightEnds
<1>4. CASE /\ ~cache[k].fresh
           /\ caller' = [caller EXCEPT ![k].pc = IF k = Work THEN "work" ELSE "book",
                                       ![k].read = cache[k].val,
                                       ![k].book = IF k = Work THEN Best ELSE k]
           /\ UNCHANGED <<attach, refresh, resp>>
  <2>1. /\ caller' \in [Callers -> Call]
        /\ caller'[k].pc \in {"work", "book"} /\ caller'[k].got = caller[k].got
        /\ k \in Books => caller'[k].pc = "book" /\ caller'[k].book = k
        /\ \A other \in Callers \ {k} : caller'[other] = caller[other]
    BY <1>1, <1>4, Typed, Distinct DEF Call
  <2>2. TypeOK'
    BY <1>2, <1>4, <2>1 DEF Inv, TypeOK, Call, Bytes
  <2>3. FlightsOK'
    BY <1>2, <1>4, <2>1, Distinct DEF Inv, FlightsOK
  <2>4. AnswersOK'
    BY <1>2, <2>1 DEF Inv, AnswersOK
  <2>5. EditionsCached'
    BY <1>2, <1>4 DEF Inv, EditionsCached
  <2>6. NothingUntilWork'
    BY <1>2, <1>4, <2>1 DEF Inv, NothingUntilWork
  <2>7. BookServedIsBook'
    BY <1>4 DEF Inv, BookServedIsBook
  <2> QED  BY <2>2, <2>3, <2>4, <2>5, <2>6, <2>7 DEF Inv
<1> QED  BY <1>3, <1>4 DEF ReadCache

LEMMA FinishBookStep == ASSUME Inv, NEW b \in Books, FinishBook(b) PROVE Inv'
<1> DEFINE got == caller[b].got
<1>1. /\ TypeOK /\ caller[b].pc = "ret" /\ b \in Callers /\ b \in Keys /\ b # Work
      /\ got \in Special \union SUBSET Books /\ got # Missing /\ got # NoEntry
  BY Typed, Distinct DEF FinishBook, At, Inv, FlightsOK, AnswersOK, Call
<1>2. UNCHANGED <<getter, workQ, save, pending, loop, events>>
  BY DEF FinishBook
<1>3. Answer(b, got)
  BY DEF FinishBook
<1>4. /\ workQ' \in Seq(SUBSET Books) /\ cache \in [Keys -> Entry]
      /\ attach \in [Books -> {"idle", "get", "wait", "send"}]
  BY <1>1, <1>2, Typed DEF TypeOK
<1>5. CASE got = NotFound /\ CacheSet(b, Missing) /\ UNCHANGED attach
  <2>1. /\ cache' \in [Keys -> Entry] /\ cache'[b].val = Missing
        /\ \A other \in Keys \ {b} : cache'[other] = cache[other]
    BY <1>1, <1>5, CacheSetFacts DEF Bytes
  <2> QED  BY <1>1, <1>2, <1>3, <1>4, <1>5, <2>1, Distinct, FlightEnds
<1>6. CASE got = Failed /\ UNCHANGED <<cache, attach>>
  <2>1. got \in Errors
    BY <1>6 DEF Errors
  <2> QED  BY <1>1, <1>2, <1>3, <1>4, <1>6, <2>1, FlightEnds
<1>7. CASE /\ got # NotFound /\ got # Failed /\ CacheSet(b, got)
           /\ attach' = IF caller[b].fetched THEN [attach EXCEPT ![b] = "get"] ELSE attach
  <2>1. got \in Bytes
    BY <1>1, <1>7, EditionsType DEF Errors
  <2>2. /\ cache' \in [Keys -> Entry] /\ cache'[b].val = got
        /\ \A other \in Keys \ {b} : cache'[other] = cache[other]
    BY <1>1, <1>7, <2>1, CacheSetFacts
  <2>3. /\ attach' \in [Books -> {"idle", "get", "wait", "send"}]
        /\ \A c \in Books : attach'[c] = attach[c] \/ (c = b /\ attach'[c] = "get")
    BY <1>4, <1>7
  <2> HIDE DEF got
  <2> QED  BY <1>1, <1>2, <1>3, <1>4, <2>2, <2>3, FlightEnds
<1> QED  BY <1>5, <1>6, <1>7 DEF FinishBook

LEMMA FinishWorkStep == ASSUME Inv, FinishWork PROVE Inv'
<1> DEFINE got == caller[Work].got
           read == caller[Work].read
           outcome == IF got \in Errors \/ read = NoEntry THEN got ELSE read
<1>1. /\ TypeOK /\ caller[Work].pc = "ret" /\ Work \in Callers /\ Work \in Keys
      /\ got \in Special \union SUBSET Books /\ got # NoEntry
      /\ read \in Bytes /\ workQ \in Seq(SUBSET Books) /\ cache \in [Keys -> Entry]
  BY Typed, Distinct DEF FinishWork, At, Inv, AnswersOK, Call, TypeOK
<1>2. UNCHANGED <<getter, save, pending, loop, events>>
  BY DEF FinishWork
<1>3. outcome \in Special \union SUBSET Books /\ (got \in Errors => outcome \in Errors)
  BY <1>1 DEF Bytes, Special
<1>4. Answer(Work, outcome) /\ WorkAnswered(outcome)
  BY DEF FinishWork
<1>5. attach' \in [Books -> {"idle", "get", "wait", "send"}]
  BY <1>1, <1>4, WorkAnsweredFacts
<1>6. /\ cache' \in [Keys -> Entry]
      /\ \A other \in Keys \ {Work} : cache'[other] = cache[other]
      /\ outcome \notin Errors => cache'[Work].val # NoEntry
      /\ cache' = cache \/ cache'[Work].val # NoEntry
      /\ workQ' \in Seq(SUBSET Books)
      /\ workQ' = workQ \/ cache'[Work].val # NoEntry
  <2>1. CASE got = NotFound /\ CacheSet(Work, Missing) /\ UNCHANGED workQ
    <3>1. /\ cache' \in [Keys -> Entry] /\ cache'[Work].val = Missing
          /\ \A other \in Keys \ {Work} : cache'[other] = cache[other]
      BY <1>1, <2>1, CacheSetFacts DEF Bytes
    <3> QED  BY <1>1, <2>1, <3>1, Distinct
  <2>2. CASE got = Failed /\ UNCHANGED <<cache, workQ>>
    <3>1. outcome \in Errors
      BY <1>3, <2>2 DEF Errors
    <3> QED  BY <1>1, <2>2, <3>1
  <2>3. CASE /\ got # NotFound /\ got # Failed
             /\ CacheSet(Work, got) /\ workQ' = Append(workQ, Editions(read))
    <3>1. got \in Bytes
      BY <1>1, <2>3, EditionsType DEF Errors
    <3>2. /\ cache' \in [Keys -> Entry] /\ cache'[Work].val = got
          /\ \A other \in Keys \ {Work} : cache'[other] = cache[other]
      BY <1>1, <2>3, <3>1, CacheSetFacts
    <3>3. Editions(read) \in SUBSET Books
      BY <1>1, EditionsType DEF Bytes, Special
    <3>4. workQ' \in Seq(SUBSET Books)
      BY <1>1, <2>3, <3>3
    <3> QED  BY <1>1, <3>2, <3>4
  <2> QED  BY <2>1, <2>2, <2>3 DEF FinishWork
<1> HIDE DEF got, read, outcome
<1> QED  BY <1>1, <1>2, <1>3, <1>4, <1>5, <1>6, Distinct, FlightEnds
-----------------------------------------------------------------------------
(* The goroutines nobody waits for, and the loop.                           *)

\* An edition's goroutine gives it to the loop, or drops it.
LEMMA AttachSendStep == ASSUME Inv, NEW b \in Books, AttachSend(b) PROVE Inv'
<1>1. /\ attach[b] = "send" /\ b \in Keys
      /\ \A c \in Books : attach'[c] = attach[c] \/ attach'[c] = "idle"
      /\ attach' \in [Books -> {"idle", "get", "wait", "send"}]
      /\ pending' \in SUBSET Books /\ pending' \subseteq pending \union {b}
      /\ UNCHANGED <<getter, cache, caller, refresh, workQ, save, loop, resp, events>>
  BY Distinct DEF AttachSend, Inv, TypeOK
<1>2. TypeOK'
  BY <1>1 DEF Inv, TypeOK
<1>3. FlightsOK' /\ AnswersOK' /\ BookServedIsBook'
  BY <1>1 DEF Inv, FlightsOK, AnswersOK, BookServedIsBook
<1>4. EditionsCached'
  BY <1>1 DEF Inv, EditionsCached
<1>5. cache[Work].val # NoEntry
  BY <1>1 DEF Inv, NothingUntilWork
<1>6. NothingUntilWork'
  BY <1>1, <1>5 DEF NothingUntilWork
<1> QED  BY <1>2, <1>3, <1>4, <1>6 DEF Inv

LEMMA RefreshStartStep == ASSUME Inv, RefreshStart PROVE Inv'
<1>1. /\ refresh' \in [pc : {"next"}, todo : SUBSET Books, kept : {{}}, book : {Best}]
      /\ workQ' \in Seq(SUBSET Books)
  <2>1. Head(workQ) \in SUBSET Books /\ Tail(workQ) \in Seq(SUBSET Books)
    BY DEF RefreshStart, Inv, TypeOK
  <2> QED  BY <2>1 DEF RefreshStart, NoRefresh
<1>2. /\ cache[Work].val # NoEntry
      /\ UNCHANGED <<getter, cache, caller, attach, save, pending, loop, resp, events>>
  BY DEF RefreshStart, Inv, NothingUntilWork
<1>3. TypeOK'
  BY <1>1, <1>2, Distinct DEF Inv, TypeOK
<1>4. FlightsOK' /\ AnswersOK' /\ BookServedIsBook'
  BY <1>2 DEF Inv, FlightsOK, AnswersOK, BookServedIsBook
<1>5. EditionsCached'
  BY <1>1, <1>2 DEF Inv, EditionsCached
<1>6. NothingUntilWork'
  BY <1>2 DEF NothingUntilWork
<1> QED  BY <1>3, <1>4, <1>5, <1>6 DEF Inv

LEMMA RefreshSendStep == ASSUME Inv, RefreshSend PROVE Inv'
<1>1. /\ cache[Work].val # NoEntry
      /\ pending' = pending \union refresh.kept
      /\ refresh' \in [pc : {"idle"}, todo : {{}}, kept : {{}}, book : {Best}]
      /\ UNCHANGED <<getter, cache, caller, attach, workQ, save, loop, resp, events>>
  BY DEF RefreshSend, NoRefresh, Inv, NothingUntilWork
<1>2. TypeOK'
  BY <1>1, Distinct DEF Inv, TypeOK
<1>3. FlightsOK' /\ AnswersOK' /\ BookServedIsBook'
  BY <1>1 DEF Inv, FlightsOK, AnswersOK, BookServedIsBook
<1>4. EditionsCached'
  BY <1>1 DEF Inv, EditionsCached
<1>5. NothingUntilWork'
  BY <1>1 DEF NothingUntilWork
<1> QED  BY <1>2, <1>3, <1>4, <1>5 DEF Inv

\* An edition is saved, with bytes that are an edition, or skipped.
LEMMA SaveEditionStep == ASSUME Inv, SaveEdition PROVE Inv'
<1>1. PICK b \in save.todo :
          \/ /\ CacheSet(b, {b})
             /\ save' = [todo |-> save.todo \ {b}, saved |-> save.saved \union {b}]
          \/ /\ save' = [save EXCEPT !.todo = @ \ {b}]
             /\ UNCHANGED cache
  BY DEF SaveEdition
<1>2. /\ TypeOK /\ b \in Books /\ b \in Keys /\ b # Work /\ cache \in [Keys -> Entry]
      /\ {b} \in Bytes /\ {b} # Missing /\ {b} # NoEntry
  <2>1. TypeOK /\ b \in Books
    BY DEF Inv, TypeOK
  <2>2. {b} \in SUBSET Books
    BY <2>1
  <2> QED  BY <2>1, <2>2, Distinct, Typed DEF Bytes
<1>3. UNCHANGED <<getter, caller, attach, refresh, workQ, pending, loop, resp, events>>
  BY DEF SaveEdition
<1>4. /\ cache' \in [Keys -> Entry]
      /\ \A key \in Keys : cache'[key] = cache[key] \/ (key = b /\ cache'[key].val = {b})
      /\ cache' = cache \/ cache'[b].val = {b}
  BY <1>1, <1>2, CacheSetFacts
<1>5. /\ save' \in [todo : SUBSET Books, saved : SUBSET Books]
      /\ \A c \in save'.saved : c \in save.saved \/ (c = b /\ cache'[b].val = {b})
  <2>1. CASE /\ CacheSet(b, {b})
             /\ save' = [todo |-> save.todo \ {b}, saved |-> save.saved \union {b}]
    BY <1>2, <2>1, CacheSetFacts DEF TypeOK
  <2>2. CASE save' = [save EXCEPT !.todo = @ \ {b}]
    BY <1>2, <2>2 DEF TypeOK
  <2> QED  BY <1>1, <2>1, <2>2
<1>6. TypeOK'
  BY <1>3, <1>4, <1>5 DEF Inv, TypeOK, Entry, Bytes
<1>7. FlightsOK'
  BY <1>2, <1>3, <1>4, Distinct DEF Inv, FlightsOK
<1>8. AnswersOK'
  <2>1. \A k \in Keys : cache'[k].fresh => cache'[k].val # NoEntry
    BY <1>2, <1>4 DEF Inv, AnswersOK
  <2> QED  BY <1>3, <2>1 DEF Inv, AnswersOK
<1>9. EditionsCached'
  BY <1>2, <1>3, <1>4, <1>5, Distinct DEF Inv, EditionsCached
<1>10. NothingUntilWork'
  <2>1. cache'[Work] = cache[Work]
    BY <1>2, <1>4, Distinct
  <2>2. getter = "gr" => cache[Work].val # NoEntry
    BY DEF SaveEdition, Inv, NothingUntilWork
  <2> QED  BY <1>3, <2>1, <2>2 DEF Inv, NothingUntilWork
<1>11. BookServedIsBook'
  BY <1>3 DEF Inv, BookServedIsBook
<1> QED  BY <1>6, <1>7, <1>8, <1>9, <1>10, <1>11 DEF Inv

LEMMA SaveSendStep == ASSUME Inv, SaveSend PROVE Inv'
<1>1. /\ pending' = pending \union save.saved
      /\ save' \in [todo : {{}}, saved : {{}}]
      /\ save.saved # {}
      /\ UNCHANGED <<getter, cache, caller, attach, refresh, workQ, loop, resp, events>>
  BY DEF SaveSend, NoSave
<1>2. TypeOK'
  BY <1>1 DEF Inv, TypeOK
<1>3. FlightsOK' /\ AnswersOK' /\ BookServedIsBook'
  BY <1>1 DEF Inv, FlightsOK, AnswersOK, BookServedIsBook
<1>4. EditionsCached'
  BY <1>1 DEF Inv, EditionsCached
<1>5. NothingUntilWork'
  BY <1>1 DEF Inv, NothingUntilWork
<1> QED  BY <1>2, <1>3, <1>4, <1>5 DEF Inv

\* The loop takes the edge: with Goodreads' getter the work it asks for is cached.
LEMMA ReceiveStep == ASSUME Inv, Receive PROVE Inv'
<1>1. /\ pending # {} /\ pending' = {} /\ loop' \in [pc : {"work"}, todo : {pending},
                                                     loaded : {{}}, base : {{}}]
      /\ UNCHANGED <<getter, cache, attach, refresh, workQ, save, resp, events>>
      /\ TypeOK /\ Loop \in Callers /\ Goto(Loop, "work")
  BY Distinct DEF Receive, NoLoop, Inv
<1>2. /\ caller' \in [Callers -> Call] /\ caller'[Loop].pc = "work"
      /\ \A other \in Callers \ {Loop} : caller'[other] = caller[other]
  BY <1>1, GotoFacts
<1>3. TypeOK'
  BY <1>1, <1>2 DEF TypeOK, Call, Bytes
<1>4. FlightsOK' /\ BookServedIsBook'
  BY <1>1, <1>2, Distinct DEF Inv, FlightsOK, BookServedIsBook
<1>5. AnswersOK'
  BY <1>1, <1>2 DEF Inv, AnswersOK
<1>6. EditionsCached'
  BY <1>1 DEF Inv, EditionsCached
<1>7. NothingUntilWork'
  BY <1>1, <1>2 DEF Inv, NothingUntilWork
<1> QED  BY <1>3, <1>4, <1>5, <1>6, <1>7 DEF Inv

\* The rest of the loop and the lapse of an entry: bytes expire, or the work is written,
\* and no edition joins the edge in hand.
LEMMA LoopMoves ==
    ASSUME Inv, cache' \in [Keys -> Entry],
           \A k \in Keys : \/ cache'[k] = cache[k]
                           \/ cache'[k].val = cache[k].val /\ cache'[k].fresh = FALSE
                           \/ k = Work /\ cache'[k].val # NoEntry,
           caller' \in [Callers -> Call],
           \A c \in Keys : caller'[c] = caller[c],
           caller'[Loop] = caller[Loop] \/ caller'[Loop].pc \in {"idle", "book"},
           loop' \in [pc : {"idle", "work", "books"}, todo : SUBSET loop.todo,
                      loaded : SUBSET Books, base : SUBSET Books],
           loop'.pc = "work" => loop.pc = "work",
           events' \in 0..MaxEvents,
           UNCHANGED <<getter, attach, refresh, workQ, save, pending, resp>>
    PROVE  Inv'
<1>1. \A k \in Keys : cache[k].val # NoEntry => cache'[k].val # NoEntry
  OBVIOUS
<1>2. TypeOK'
  BY DEF Inv, TypeOK, Call, Entry, Bytes
<1>3. FlightsOK'
  BY Distinct DEF Inv, FlightsOK
<1>4. AnswersOK'
  <2>1. ASSUME NEW k \in Keys, cache'[k].fresh
        PROVE  cache'[k].val # NoEntry
    BY <2>1 DEF Inv, AnswersOK
  <2>2. ASSUME NEW c \in Callers
        PROVE  /\ caller'[c].pc = "ret" => caller'[c].got # NoEntry
               /\ caller'[c].pc = "seed" => IsWork(caller'[c].got)
    BY Distinct DEF Inv, AnswersOK
  <2> QED  BY <2>1, <2>2 DEF AnswersOK
<1>5. EditionsCached'
  BY <1>1, Distinct DEF Inv, EditionsCached
<1>6. NothingUntilWork'
  <2>1. cache'[Work].val = NoEntry => cache[Work].val = NoEntry
    BY <1>1, Distinct
  <2>2. \A c \in Callers : caller'[c].pc = "seed" => caller'[c] = caller[c]
    BY Distinct
  <2> QED  BY <2>1, <2>2 DEF Inv, NothingUntilWork
<1>7. BookServedIsBook'
  BY DEF Inv, BookServedIsBook
<1> QED  BY <1>2, <1>3, <1>4, <1>5, <1>6, <1>7 DEF Inv

\* The cache after CacheExpire, or as it was: what LoopMoves asks of it.
LEMMA ExpiredOrNot ==
    ASSUME TypeOK, NEW k \in Keys, CacheExpire(k) \/ UNCHANGED cache
    PROVE  /\ cache' \in [Keys -> Entry]
           /\ \A other \in Keys : \/ cache'[other] = cache[other]
                                  \/ /\ cache'[other].val = cache[other].val
                                     /\ cache'[other].fresh = FALSE
  BY Typed, CacheExpireFacts

LEMMA LapseStep == ASSUME Inv, NEW k \in Keys, Lapse(k) PROVE Inv'
<1>1. TypeOK /\ CacheExpire(k) /\ events' \in 0..MaxEvents
  BY ConstantsAssumption DEF Lapse, Inv, TypeOK
<1>2. UNCHANGED <<getter, caller, attach, refresh, workQ, save, pending, loop, resp>>
  BY DEF Lapse
<1>3. /\ caller' \in [Callers -> Call] /\ Keys \subseteq Callers
      /\ loop' \in [pc : {"idle", "work", "books"}, todo : SUBSET loop.todo,
                    loaded : SUBSET Books, base : SUBSET Books]
  BY <1>1, <1>2, Typed, Distinct DEF TypeOK
<1> QED  BY <1>1, <1>2, <1>3, ExpiredOrNot, LoopMoves

LEMMA LoadWorkStep == ASSUME Inv, LoadWork PROVE Inv'
<1>1. /\ TypeOK /\ Loop \in Callers /\ Work \in Keys /\ Keys = Callers \ {Loop}
      /\ caller[Loop].got \in Special \union SUBSET Books
  BY Typed, Distinct DEF Inv, Call
<1>2. /\ UNCHANGED <<getter, attach, refresh, workQ, save, pending, resp, events>>
      /\ caller' = [caller EXCEPT ![Loop] = NoCall]
      /\ CacheExpire(Work) \/ UNCHANGED cache
  BY DEF LoadWork
<1>3. /\ loop' \in [pc : {"idle", "work", "books"}, todo : SUBSET loop.todo,
                    loaded : SUBSET Books, base : SUBSET Books]
      /\ loop'.pc # "work"
  <2>1. CASE ~IsWork(caller[Loop].got)
    BY <2>1 DEF LoadWork, NoLoop
  <2>2. CASE IsWork(caller[Loop].got)
    <3>1. caller[Loop].got \in SUBSET Books
      BY <1>1, <2>2, EditionsType
    <3>2. loop' = [loop EXCEPT !.pc = "books", !.loaded = caller[Loop].got,
                               !.base = caller[Loop].got]
      BY <2>2 DEF LoadWork
    <3> QED  BY <1>1, <3>1, <3>2 DEF TypeOK
  <2> QED  BY <2>1, <2>2
<1>4. /\ caller' \in [Callers -> Call] /\ caller'[Loop].pc = "idle"
      /\ \A c \in Keys : caller'[c] = caller[c]
  BY <1>1, <1>2, EndFacts
<1>5. events' \in 0..MaxEvents
  BY <1>1, <1>2 DEF TypeOK
<1> QED  BY <1>1, <1>2, <1>3, <1>4, <1>5, ExpiredOrNot, LoopMoves

LEMMA NextBookStep == ASSUME Inv, NextBook PROVE Inv'
<1>1. PICK b \in loop.todo : loop' = [loop EXCEPT !.todo = @ \ {b}] /\ GotoBook(Loop, b)
  BY DEF NextBook
<1>2. /\ TypeOK /\ Loop \in Callers /\ Work \in Keys /\ Keys = Callers \ {Loop} /\ b \in Books
      /\ UNCHANGED <<getter, cache, attach, refresh, workQ, save, pending, resp, events>>
      /\ loop.pc = "books"
  BY Distinct DEF NextBook, Inv, TypeOK
<1>3. /\ loop' \in [pc : {"idle", "work", "books"}, todo : SUBSET loop.todo,
                    loaded : SUBSET Books, base : SUBSET Books]
      /\ loop'.pc # "work" /\ events' \in 0..MaxEvents
  BY <1>1, <1>2 DEF TypeOK
<1>4. /\ caller' \in [Callers -> Call] /\ caller'[Loop].pc = "book"
      /\ \A c \in Keys : caller'[c] = caller[c]
  BY <1>1, <1>2, GotoBookFacts
<1> QED  BY <1>2, <1>3, <1>4, ExpiredOrNot, LoopMoves

LEMMA MergeBookStep == ASSUME Inv, MergeBook PROVE Inv'
<1>1. /\ TypeOK /\ Loop \in Callers /\ Keys = Callers \ {Loop}
      /\ caller[Loop].got \in Special \union SUBSET Books
      /\ caller[Loop].book \in Keys
  BY Typed, Distinct DEF Inv, Call
<1>2. /\ UNCHANGED <<getter, attach, refresh, workQ, save, pending, resp, events>>
      /\ caller' = [caller EXCEPT ![Loop] = NoCall]
      /\ CacheExpire(caller[Loop].book) \/ UNCHANGED cache
      /\ loop.pc = "books"
      /\ loop' = [loop EXCEPT !.base = @ \union Editions(caller[Loop].got)]
  BY DEF MergeBook
<1>3. /\ loop' \in [pc : {"idle", "work", "books"}, todo : SUBSET loop.todo,
                    loaded : SUBSET Books, base : SUBSET Books]
      /\ loop'.pc # "work" /\ events' \in 0..MaxEvents
  <2>1. Editions(caller[Loop].got) \in SUBSET Books
    BY <1>1, EditionsType
  <2> QED  BY <1>1, <1>2, <2>1 DEF TypeOK
<1>4. /\ caller' \in [Callers -> Call] /\ caller'[Loop].pc = "idle"
      /\ \A c \in Keys : caller'[c] = caller[c]
  BY <1>1, <1>2, EndFacts
<1> QED  BY <1>1, <1>2, <1>3, <1>4, ExpiredOrNot, LoopMoves

LEMMA SaveWorkStep == ASSUME Inv, SaveWork PROVE Inv'
<1>1. /\ TypeOK /\ Work \in Keys /\ Keys \subseteq Callers
      /\ loop.base \in Bytes /\ loop.base # NoEntry
  BY Distinct DEF Inv, TypeOK, Bytes
<1>2. /\ UNCHANGED <<getter, caller, attach, refresh, workQ, save, pending, resp, events>>
      /\ CacheSet(Work, loop.base) \/ UNCHANGED cache
  BY DEF SaveWork
<1>3. /\ cache' \in [Keys -> Entry]
      /\ \A k \in Keys : cache'[k] = cache[k] \/ (k = Work /\ cache'[k].val # NoEntry)
  <2>1. CASE CacheSet(Work, loop.base)
    BY <1>1, <2>1, CacheSetFacts
  <2>2. CASE UNCHANGED cache
    BY <1>1, <2>2, Typed
  <2> QED  BY <1>2, <2>1, <2>2
<1>4. /\ loop' \in [pc : {"idle", "work", "books"}, todo : SUBSET loop.todo,
                    loaded : SUBSET Books, base : SUBSET Books]
      /\ loop'.pc # "work"
  BY DEF SaveWork, NoLoop
<1>5. caller' \in [Callers -> Call] /\ events' \in 0..MaxEvents
  BY <1>1, <1>2, Typed DEF TypeOK
<1> QED  BY <1>1, <1>2, <1>3, <1>4, <1>5, LoopMoves

-----------------------------------------------------------------------------
(* The invariant, and what it says.                                         *)

LEMMA InitInv == Init => Inv
<1> SUFFICES ASSUME Init PROVE Inv
  OBVIOUS
<1>1. /\ cache \in [Keys -> Entry]
      /\ \A k \in Keys : cache[k].fresh = FALSE
  <2>1. /\ Missing \in Bytes /\ NoEntry \in Bytes /\ Books \in Bytes
        /\ \A b \in Books : {b} \in Bytes
    BY DEF Bytes
  <2>2. CASE cache = [k \in Keys |-> Lapsed(NoEntry)]
    BY <2>1, <2>2 DEF Lapsed, Entry
  <2>3. CASE cache = [k \in Keys |-> Lapsed(IF k = Work THEN Missing ELSE NoEntry)]
    BY <2>1, <2>3 DEF Lapsed, Entry
  <2>4. CASE cache = [k \in Keys |-> Lapsed(IF k = Work THEN Books ELSE {k})]
    BY <2>1, <2>4, Distinct DEF Lapsed, Entry
  <2> QED  BY <2>2, <2>3, <2>4 DEF Init, Left
<1>2. /\ caller \in [Callers -> Call]
      /\ \A c \in Callers : caller[c].pc = "idle" /\ caller[c].got = NoEntry
  BY Distinct DEF Init, NoCall, Call, Bytes, Special
<1>3. TypeOK
  BY <1>1, <1>2, Distinct, ConstantsAssumption
     DEF Init, TypeOK, Entry, Call, Bytes, NoRefresh, NoSave, NoLoop, Special
<1>4. FlightsOK
  BY <1>2, Distinct DEF FlightsOK
<1>5. AnswersOK
  BY <1>1, <1>2 DEF AnswersOK
<1>6. EditionsCached
  BY DEF Init, EditionsCached, NoLoop, NoSave, NoRefresh
<1>7. NothingUntilWork
  BY <1>2 DEF Init, NothingUntilWork, NoLoop, NoSave, NoRefresh
<1>8. BookServedIsBook
  BY Distinct DEF Init, BookServedIsBook
<1> QED  BY <1>3, <1>4, <1>5, <1>6, <1>7, <1>8 DEF Inv

LEMMA StutterInv == ASSUME Inv, UNCHANGED vars PROVE Inv'
<1>1. TypeOK'
  BY DEF vars, Inv, TypeOK
<1>2. FlightsOK' /\ AnswersOK' /\ EditionsCached'
  BY DEF vars, Inv, FlightsOK, AnswersOK, EditionsCached
<1>3. NothingUntilWork' /\ BookServedIsBook'
  BY DEF vars, Inv, NothingUntilWork, BookServedIsBook
<1> QED  BY <1>1, <1>2, <1>3 DEF Inv

LEMMA NextInv == Inv /\ [Next]_vars => Inv'
<1> SUFFICES ASSUME Inv, [Next]_vars PROVE Inv'
  OBVIOUS
<1>1. ASSUME NEW c \in Callers, GetterStep(c) PROVE Inv'
  BY <1>1, GetWorkStep, AskWorkStep, GetBookStep, FetchBookStep, SeedWorkStep DEF GetterStep
<1>2. ASSUME NEW k \in Keys, FlightStep(k) \/ Request(k) \/ Lapse(k) PROVE Inv'
  BY <1>2, ReadCacheStep, FinishBookStep, FinishWorkStep, RequestStep, LapseStep DEF FlightStep
<1>3. ASSUME NEW b \in Books, AttachStep(b) PROVE Inv'
  BY <1>3, AttachGetStep, AttachSendStep DEF AttachStep
<1>4. CASE RefreshStep
  BY <1>4, RefreshStartStep, RefreshBookStep, RefreshSendStep DEF RefreshStep
<1>5. CASE SaveStep
  BY <1>5, SaveEditionStep, SaveSendStep DEF SaveStep
<1>6. CASE LoopStep
  BY <1>6, ReceiveStep, LoadWorkStep, NextBookStep, MergeBookStep, SaveWorkStep DEF LoopStep
<1>7. CASE UNCHANGED vars
  BY <1>7, StutterInv
<1> QED  BY <1>1, <1>2, <1>3, <1>4, <1>5, <1>6, <1>7 DEF Next

LEMMA Invariant == Spec => []Inv
  BY InitInv, NextInv, PTL DEF Spec

\* Every part of getBook's, getWork's and the loop's state has its type, at any number of
\* requests.
THEOREM TypeCorrect == Spec => []TypeOK
<1>1. Inv => TypeOK
  BY DEF Inv
<1> QED  BY <1>1, Invariant, PTL

\* getBook never answers with the sentinel of a 404, although the getter returns whatever
\* is fresh under the edition's key when it looks a second time.
THEOREM BooksAreBooks == Spec => []BookServedIsBook
<1>1. Inv => BookServedIsBook
  BY DEF Inv
<1> QED  BY <1>1, Invariant, PTL

\* An edge the loop is to handle names editions that are cached, and its work is cached
\* with Goodreads' getter.
THEOREM EdgesAreCached == Spec => []PendingIsFetched
<1>1. Inv => PendingIsFetched
  <2> SUFFICES ASSUME Inv PROVE PendingIsFetched
    OBVIOUS
  <2>1. \A b \in pending \union loop.todo : cache[b].val # NoEntry
    BY DEF Inv, TypeOK, EditionsCached
  <2>2. getter = "gr" /\ (pending # {} \/ loop.pc = "work") => cache[Work].val # NoEntry
    BY DEF Inv, NothingUntilWork
  <2> QED  BY <2>1, <2>2 DEF PendingIsFetched
<1> QED  BY <1>1, Invariant, PTL
=============================================================================
