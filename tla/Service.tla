------------------------------ MODULE Service ------------------------------
(***************************************************************************)
(* The parts of the service that keep nothing in common but the cache: the *)
(* content of denormalized parents, the getters' calls, and the requests   *)
(* that fan out.  None of them reads what another is in the middle of, so  *)
(* a behaviour is one of one part, chosen at the start, and the state of   *)
(* the others stays Unused.                                                *)
(***************************************************************************)
EXTENDS Naturals, Sequences, FiniteSets

CONSTANTS
    Children, Titles, NoFull, Series, MaxChanges,                   \* Denormalization
    Author, Nobody, Entries, Positions, PageSize, MaxPages, MaxAnswer, \* Getters
    Items, NoCode, MaxItems,                                        \* Requests
    Unused

VARIABLES
    part,       \* the part this behaviour is of
    kind, got, shelf, merge, settled, cached, changes,
    call, page, last, loaded, out, status,
    request, running, result, answer, phase, lookup

D == INSTANCE Denormalization
G == INSTANCE Getters
R == INSTANCE Requests

ASSUME ServiceAssumption ==
    D!DenormalizationAssumption /\ G!GettersAssumption /\ R!RequestsAssumption

contentVars == <<kind, got, shelf, merge, settled, cached, changes>>
callVars == <<call, page, last, loaded, out, status>>
requestVars == <<request, running, result, answer, phase, lookup>>
vars == <<part, contentVars, callVars, requestVars>>

NoContent == /\ kind = Unused /\ got = Unused /\ shelf = Unused
             /\ merge = Unused /\ settled = Unused
             /\ cached = Unused /\ changes = Unused
NoCall == /\ call = Unused /\ page = Unused /\ last = Unused
          /\ loaded = Unused /\ out = Unused /\ status = Unused
NoRequest == /\ request = Unused /\ running = Unused /\ result = Unused
             /\ answer = Unused /\ phase = Unused /\ lookup = Unused

Init ==
    \/ part = "content" /\ D!Init /\ NoCall /\ NoRequest
    \/ part = "getter" /\ G!Init /\ NoContent /\ NoRequest
    \/ part = "request" /\ R!Init /\ NoContent /\ NoCall

Content == part = "content" /\ UNCHANGED <<part, callVars, requestVars>>
Getter == part = "getter" /\ UNCHANGED <<part, contentVars, requestVars>>
Request == part = "request" /\ UNCHANGED <<part, contentVars, callVars>>

\* D!Next, G!Next or R!Next, with the state of the other parts left alone.
Next ==
    \/ \E c \in Children : Content /\ D!Change(c)
    \/ \E edge \in (SUBSET Children) \ {{}} : Content /\ D!Start(edge)
    \/ \E c \in Children : Content /\ D!MergeChild(c)
    \/ Content /\ D!Derive
    \/ \E s \in Series : Content /\ D!SeriesDone(s)
    \/ \E s \in Series : Content /\ D!RequestSeries(s)
    \/ \E s \in Series : Content /\ D!LapseSeries(s)
    \/ Content /\ D!Save
    \/ Getter /\ G!SeriesFails
    \/ Getter /\ G!GRSeriesPage
    \/ Getter /\ G!HCSeriesPage
    \/ Getter /\ G!GRBooksStart
    \/ Getter /\ G!BooksFail
    \/ Getter /\ G!GRBooksPage
    \/ Getter /\ G!HCBooksPage
    \/ Getter /\ G!AuthorStart
    \/ Getter /\ G!GRAuthorBook
    \/ Getter /\ G!HCAuthorBook
    \/ Request /\ R!FindCode
    \/ Request /\ R!Refuse
    \/ Request /\ R!Start
    \/ \E i \in 1..MaxItems : Request /\ R!ItemDone(i)
    \/ Request /\ R!Respond
    \/ Request /\ R!TornAnswer

Spec == Init /\ [][Next]_vars

-----------------------------------------------------------------------------
(* The properties of the parts.  Each is stated, and explained, in the      *)
(* module of its part.                                                      *)

\* The type invariant of the part that runs.
TypeOK ==
    /\ part \in {"content", "getter", "request"}
    /\ part = "content" => D!TypeOK
    /\ part = "getter" => G!TypeOK
    /\ part = "request" => R!TypeOK

\* Works, editions and series stay in strictly ascending order, which the binary searches
\* of denormalizeWorks and denormalizeEditions rely on.
ShelfSorted == part = "content" => D!ShelfSorted

\* Works of an author that share a title, or are in a series, are shown in full.
TitlesTold == part = "content" => D!TitlesTold

\* Merging the same children again changes nothing, so the ETag comparison ends it.
MergeIsStable == [][part = "content" => D!MergeIsStableStep]_vars

\* GetSeries numbers works through, or takes one per position, across pages.
SeriesPositions == part = "getter" => G!SeriesPositions

\* GetAuthorBooks yields a prefix of the author's books, and all unless it was cut short.
AuthorBooksComplete == part = "getter" => G!AuthorBooksComplete

\* Goodreads' GetAuthor answers with a record of the author's, or with 404 if none that
\* loads is theirs.
AuthorAnswer == part = "getter" => G!AuthorAnswer

\* A search leaves out nothing but a book or work that is there already.
SearchDeduped == part = "request" => R!SearchDeduped

\* A batch or a bulk request answers with everything that could be fetched.
BatchComplete == part = "request" => R!BatchComplete

\* controller.go:364 "Try to fetch everything and return only the stuff that won't 404."
RecommendsAll == part = "request" => R!RecommendsAll
=============================================================================
