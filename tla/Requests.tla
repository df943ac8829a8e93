------------------------------ MODULE Requests ------------------------------
(***************************************************************************)
(* The requests that fan out: internal/controller.go's Search, SearchBatch,*)
(* GetAuthorBatch, Recommendations and saveEditions, handler.go's bulkBook,*)
(* and the Search and Recommendations of either getter.                    *)
(*                                                                         *)
(* All have the same shape.  A request has a list of items, starts work on *)
(* each, mostly in a goroutine of its own, adds what each brings to its    *)
(* result in the order in which they end, waits for the rest, and answers. *)
(* What a request keeps for later ones is where an ASIN or ISBN leads.     *)
(*                                                                         *)
(* An item stands for a query, an author, a book, a work or an edition and *)
(* what is fetched for it; one that does not load is an error, undecodable *)
(* or malformed on the way.                                                *)
(***************************************************************************)
EXTENDS Naturals, Sequences, FiniteSets, SequencesExt

CONSTANTS
    Items,      \* records: see ItemFields
    Nobody,     \* no edition; a blank query, an invalid ID or an unknown author
    NoCode,     \* a text, which is neither an ASIN nor an ISBN
    MaxItems    \* bound: the items of a request

ItemFields == {"book", "work", "author", "contributor", "code", "rating", "series", "loads"}
Field(f) == {item[f] : item \in Items}
Codes == Field("code") \ {NoCode}

\* What the code justifies of the constants; Service assumes it.
RequestsAssumption ==
    /\ \A item \in Items : DOMAIN item = ItemFields /\ item.rating \in Nat
    /\ \A item \in Items : item.code # NoCode => item.book # Nobody
    /\ MaxItems \in Nat

VARIABLES
    request,    \* what is asked for, and what upstream would say to it
    running,    \* the items whose goroutine has not ended
    result,     \* what has been gathered, in the order in which it came
    answer,     \* what the request answered
    phase,      \* "new", "run", or how the request ended
    lookup      \* asinKey and isbnKey: the edition a code leads to

vars == <<request, running, result, answer, phase, lookup>>

Requested == [op : {"search", "searchBatch", "authorBatch", "bulk", "recommend", "save"},
              getter : {"gr", "hc"}, list : UNION {[1..n -> Items] : n \in 0..MaxItems},
              page : 0..2, code : Codes \union {NoCode}]

\* Only a search has a code, and only recommendations have pages.
Init ==
    /\ request \in Requested
    /\ request.op # "search" => request.code = NoCode
    /\ request.op # "recommend" => request.page = 1
    /\ running = {}
    /\ result = <<>>
    /\ answer = <<>>
    /\ phase = "new"
    /\ lookup \in [Codes -> {Nobody} \union Field("book")]
    /\ \A c \in Codes : lookup[c] # Nobody =>
           \E item \in Items : item.book = lookup[c] /\ item.code = c

Is(op) == request.op = op
Loaded == {i \in DOMAIN request.list : request.list[i].loads}

-----------------------------------------------------------------------------
(* The start.                                                               *)

\* searchASIN and searchISBN: a known code whose book loads is the answer.
FindCode ==
    /\ phase = "new" /\ Is("search") /\ request.code # NoCode
    /\ \E item \in Items :
           /\ item.code = request.code /\ item.book = lookup[request.code]
           /\ item.loads
           /\ answer' = <<item>>
    /\ phase' = "ok"
    /\ UNCHANGED <<request, running, result, lookup>>

\* What makes a handler or a getter refuse a request, or an upstream that fails it.
Refuse ==
    /\ phase = "new"
    /\ \/ Is("search")
       \/ Is("recommend")
       \/ Is("searchBatch") /\ request.list = <<>>
       \/ Is("bulk") /\ \/ request.list = <<>>
                        \/ \E i \in DOMAIN request.list : request.list[i].book = Nobody
    /\ phase' = "failed"
    /\ UNCHANGED <<request, running, result, answer, lookup>>

\* Goodreads has no more than one page of recommendations.
HasPage == request.getter = "hc" \/ request.page <= 1

\* Of recommendations, the handler refuses the page 0.
Start ==
    /\ phase = "new"
    /\ Is("searchBatch") \/ Is("bulk") => request.list # <<>>
    /\ Is("bulk") => \A i \in DOMAIN request.list : request.list[i].book # Nobody
    /\ Is("recommend") => request.page > 0
    /\ running' =
          IF Is("searchBatch") \/ Is("authorBatch")
          THEN {i \in DOMAIN request.list : request.list[i].author # Nobody}
          ELSE IF ~HasPage THEN {}
          ELSE DOMAIN request.list
    /\ phase' = "run"
    /\ UNCHANGED <<request, result, answer, lookup>>

-----------------------------------------------------------------------------
(* The items.                                                               *)

\* saveEditions goes through its editions one after the other, in the random order of the
\* map they come from: the author has to load, codes are taken of any edition, and only
\* those of the work's author, the contributor of its best book, are cached.
Attributed(item) == item.author = item.contributor

\* A search of Goodreads has its items in order; of Hardcover, GetWork runs for each.
InOrder == Is("search") /\ request.getter = "gr"

\* Leads from the code to the work.
BadSetCode(item) ==
    IF item.code = NoCode THEN lookup ELSE [lookup EXCEPT ![item.code] = item.work]

\* setASIN and setISBN
SetCode(item) ==
    IF item.code = NoCode THEN lookup ELSE [lookup EXCEPT ![item.code] = item.book]

ItemDone(i) ==
    /\ i \in running
    /\ InOrder => \A j \in running : i <= j
    /\ running' = running \ {i}
    /\ LET item == request.list[i] IN
       /\ result' = IF item.loads /\ (Is("save") => Attributed(item))
                    THEN Append(result, item) ELSE result
       /\ lookup' = IF Is("save") /\ item.loads THEN SetCode(item) ELSE lookup
    /\ UNCHANGED <<request, answer, phase>>

-----------------------------------------------------------------------------
(* The answer.                                                              *)

\* Compares the books only.
BadSeen(kept, item) == \E i \in DOMAIN kept : kept[i].book = item.book

Seen(kept, item) ==
    \E i \in DOMAIN kept : kept[i].book = item.book \/ kept[i].work = item.work

\* Search: a result whose book or work was seen is left out.
Dedupe(items) ==
    FoldLeft(LAMBDA kept, item : IF Seen(kept, item) THEN kept ELSE Append(kept, item),
             <<>>, items)

\* A batch is a map from query or author to what was found for it last.
ByKey(items) ==
    [key \in {items[i].author : i \in DOMAIN items} |->
        Last(SelectSeq(items, LAMBDA item : item.author = key))]

\* bulkBook: the authors as they came, without duplicates, with the series of the book
\* each came with; the works sorted by rating.  The sort is not stable.
FirstOfAuthor(items) ==
    FoldLeft(LAMBDA kept, item :
                 IF \E i \in DOMAIN kept : kept[i].author = item.author THEN kept
                 ELSE Append(kept, item),
             <<>>, items)

Descending(works) ==
    \A i, j \in DOMAIN works : i < j => works[i].rating >= works[j].rating

Bulk(items, order) ==
    LET first == FirstOfAuthor(items) IN
    [works |-> [i \in DOMAIN items |-> items[order[i]]],
     authors |-> [i \in DOMAIN first |-> first[i].author],
     series |-> UNION {first[i].series : i \in DOMAIN first}]

\* Answers while goroutines run.
BadWaited == TRUE

\* wg.Wait(), which Recommendations does not call.
Waited == running = {} \/ Is("recommend")

Respond ==
    /\ phase = "run"
    /\ Waited
    /\ \/ Is("search") /\ answer' = Dedupe(result)
       \/ /\ Is("searchBatch") \/ Is("authorBatch")
          /\ answer' = ByKey(result)
       \/ Is("bulk")
          /\ \E order \in Bijection(DOMAIN result, DOMAIN result) :
                /\ answer' = Bulk(result, order)
                /\ Descending(answer'.works)
       \/ /\ Is("recommend") \/ Is("save")
          /\ answer' = result
    /\ phase' = "ok"
    /\ UNCHANGED <<request, running, result, lookup>>

\* The goroutines that go on append to the very slice that is answered, without a common
\* lock: pointer and length may be read from different moments.
TornAnswer ==
    /\ phase = "run"
    /\ Is("recommend")
    /\ running # {}
    /\ phase' = "torn"
    /\ UNCHANGED <<request, running, result, answer, lookup>>

Next ==
    \/ FindCode \/ Refuse \/ Start
    \/ \E i \in 1..MaxItems : ItemDone(i)
    \/ Respond \/ TornAnswer

Spec == Init /\ [][Next]_vars

-----------------------------------------------------------------------------
(* Properties.                                                              *)

ItemSeqs == UNION {[1..n -> Items] : n \in 0..MaxItems}

TypeOK ==
    /\ request \in Requested
    /\ running \subseteq DOMAIN request.list
    /\ result \in ItemSeqs
    /\ phase \in {"new", "run", "ok", "failed", "torn"}
    /\ lookup \in [Codes -> {Nobody} \union Field("book")]
    /\ \A c \in Codes : lookup[c] # Nobody =>
           \E item \in Items : item.code = c /\ item.book = lookup[c]

\* A search answers with the edition its code leads to, or with every hit that loads: in
\* whatever order they come no book and no work is there twice, and only such are left out.
SearchDeduped ==
    Is("search") /\ phase = "ok" =>
        /\ \A i, j \in DOMAIN answer :
               i # j => answer[i].book # answer[j].book /\ answer[i].work # answer[j].work
        /\ \/ Len(answer) = 1 /\ answer[1].code = request.code /\ request.code # NoCode
           \/ \A i \in Loaded : \E k \in DOMAIN answer :
                  \/ answer[k].book = request.list[i].book
                  \/ answer[k].work = request.list[i].work

\* A batch answers after all of its goroutines: there is an answer for every query or
\* author that could be fetched, and every book of a bulk request that could is there
\* once, by rating, with its author once.
BatchComplete ==
    /\ (Is("searchBatch") \/ Is("authorBatch")) /\ phase = "ok" =>
           DOMAIN answer = {request.list[i].author : i \in Loaded} \ {Nobody}
    /\ Is("bulk") /\ phase = "ok" =>
           /\ Len(answer.works) = Cardinality(Loaded)
           /\ \A i \in Loaded : request.list[i] \in ToSet(answer.works)
           /\ Descending(answer.works)
           /\ ToSet(answer.authors) = {request.list[i].author : i \in Loaded}
           /\ IsInjective(answer.authors)

\* controller.go:364: "Try to fetch everything and return only the stuff that won't 404."
\* Every recommended work that loads is answered.
RecommendsAll ==
    Is("recommend") /\ phase = "ok" /\ HasPage =>
        {request.list[i] : i \in Loaded} \subseteq ToSet(answer)
=============================================================================
