------------------------------ MODULE Getters ------------------------------
(***************************************************************************)
(* internal/gr.go and internal/hardcover.go: how either getter makes one   *)
(* answer out of what upstream says page by page and book by book.         *)
(*                                                                         *)
(* The operations that go through the cache, GetWork and GetBook, are in   *)
(* Catalog.  The three here keep no state between calls: GetSeries, which  *)
(* numbers the works of a series, GetAuthorBooks, an iterator over the     *)
(* books of an author, and GetAuthor, which loads books until one is the   *)
(* author's.  A call starts with the whole of what upstream has and then   *)
(* takes it in pages, each of which can fail.                              *)
(***************************************************************************)
EXTENDS Naturals, Sequences, SequencesExt

CONSTANTS
    Author,     \* the author that is asked for
    Nobody,     \* an edition that does not exist, and the author of one
    Entries,    \* the books upstream may list for it
    Positions,  \* positions of books in a series, besides 0
    PageSize,   \* 100 works, 1000 positions, 20 and 100 books
    MaxPages,   \* 15 pages of a series, or 3
    MaxAnswer   \* bound: the length of what upstream lists

\* A book: the role of its contributor the list is for, its contributors in order, and
\* who its default editions are by.
Contributor(author) == [author : author, role : {"author", "translator"}]
Book(authors) == [own : {"author", "translator"}, contributors : Seq(Contributor(authors)),
                  cover : authors, ebook : authors, physical : authors, fallback : 0..2]

\* What the code justifies of the constants; Service assumes it.
GettersAssumption ==
    /\ Author # Nobody
    /\ \A e \in Entries : DOMAIN e = {"own", "contributors", "cover", "ebook",
                                      "physical", "fallback"}
    /\ \A e \in Entries : Len(e.contributors) > 0
    /\ Positions \subseteq Nat \ {0}
    /\ PageSize \in Nat \ {0} /\ MaxPages \in Nat \ {0} /\ MaxAnswer \in Nat

VARIABLES
    call,       \* getter, operation, and what upstream has to say
    page,       \* the page or the book that is next; 0 before the first
    last,       \* lastPosition of Hardcover's GetSeries
    loaded,     \* history: the books GetAuthor has loaded, and who their records are by
    out,        \* what the call has gathered
    status      \* "run", or how the call ended

vars == <<call, page, last, loaded, out, status>>

SeqUpTo(S, n) == UNION {[1..k -> S] : k \in 0..n}

\* Hardcover sorts a series by position; books without one come last, and as 0 too.
Sorted(s) == \E n \in 0..Len(s) : /\ \A i, j \in 1..n : i < j => s[i] <= s[j]
                                  /\ \A j \in (n + 1)..Len(s) : s[j] = 0

SeriesCall == [op : {"series"}, getter : {"gr", "hc"}, zero : BOOLEAN,
               list : {s \in SeqUpTo(Positions \union {0}, MaxAnswer) : Sorted(s)},
               count : 0..MaxAnswer]
AuthorCall == [op : {"author", "authorBooks"}, getter : {"gr", "hc"}, zero : BOOLEAN,
               list : SeqUpTo(Entries, MaxAnswer), gone : BOOLEAN]

Init ==
    /\ call \in SeriesCall \union AuthorCall
    /\ page = 0
    /\ last = 0
    /\ loaded = {}
    /\ out = <<>>
    /\ status = "run"

Running(op, getter) == status = "run" /\ call.op = op /\ call.getter = getter
End(how) == status' = how

PageOf(n) == SubSeq([i \in DOMAIN call.list |-> i], PageSize * n + 1,
                    IF PageSize * (n + 1) < Len(call.list) THEN PageSize * (n + 1)
                                                           ELSE Len(call.list))

-----------------------------------------------------------------------------
(* GetSeries.                                                               *)

\* Any error, and the series ID 0 Goodreads' books have, fail the whole call.
SeriesFails ==
    /\ status = "run" /\ call.op = "series"
    /\ End(IF call.zero /\ call.getter = "gr" THEN "notFound" ELSE "failed")
    /\ UNCHANGED <<call, page, last, loaded, out>>

\* Goodreads: works are numbered through, and a page that is not full is the last.
GRSeriesPage ==
    /\ Running("series", "gr")
    /\ ~call.zero
    /\ LET works == PageOf(page) IN
       /\ out' = out \o [i \in DOMAIN works |->
                            [entry |-> works[i], position |-> PageSize * page + i]]
       /\ End(IF Len(works) < PageSize \/ page + 1 = MaxPages THEN "ok" ELSE "run")
    /\ page' = page + 1
    /\ UNCHANGED <<call, last, loaded>>

\* Of the books with the same position the first, the most popular one, is taken.
TakePosition(taken, i) ==
    IF taken.last > 0 /\ call.list[i] = taken.last THEN taken
    ELSE [last |-> call.list[i],
          out |-> Append(taken.out, [entry |-> i, position |-> call.list[i]])]

\* Forgets the last position between pages.
BadTakePage(works) == FoldLeft(TakePosition, [last |-> 0, out |-> out], works)

TakePage(works) == FoldLeft(TakePosition, [last |-> last, out |-> out], works)

HCSeriesPage ==
    /\ Running("series", "hc")
    /\ LET taken == TakePage(PageOf(page)) IN
       /\ out' = taken.out
       /\ last' = taken.last
       /\ End(IF \/ PageOf(page) = <<>>
                 \/ Len(taken.out) >= call.count
                 \/ page + 1 = MaxPages
              THEN "ok" ELSE "run")
    /\ page' = page + 1
    /\ UNCHANGED <<call, loaded>>

-----------------------------------------------------------------------------
(* Whose book it is.                                                        *)

\* bestAuthor: the first contributor with the role of an author.
BestAuthor(contributors) ==
    LET authors == SelectSeq(contributors, LAMBDA c : c.role = "author")
    IN  IF authors = <<>> THEN Nobody ELSE authors[1].author

\* bestHardcoverEdition.  The third look, meant for the audio edition, is at the cover.
HasEdition(book) ==
    /\ BestAuthor(book.contributors) = Author
    /\ \/ Author \in {book.cover, book.ebook, book.physical}
       \/ book.fallback = 1

\* What GetAuthorBooks keeps: for Goodreads the primary contributor counts.
Keeps(i) ==
    LET book == call.list[i] IN
    IF call.getter = "gr"
    THEN book.contributors[1] = [author |-> Author, role |-> "author"]
    ELSE HasEdition(book)

-----------------------------------------------------------------------------
(* GetAuthorBooks.  An error ends the iterator, and nobody is told.          *)

\* Goodreads needs GetAuthor first, for the author's KCA.
GRBooksStart ==
    /\ Running("authorBooks", "gr")
    /\ page = 0
    /\ \/ End("cut") /\ page' = page
       \/ End("run") /\ page' = 1
    /\ UNCHANGED <<call, last, loaded, out>>

BooksFail ==
    /\ status = "run" /\ call.op = "authorBooks"
    /\ End("cut")
    /\ UNCHANGED <<call, page, last, loaded, out>>

\* Of some books the author's, as they come.
Kept(works) ==
    FoldLeft(LAMBDA kept, i : IF Keeps(i) THEN Append(kept, i) ELSE kept, <<>>, works)

\* The caller may stop after any book.
Yield(works, end) ==
    LET kept == Kept(works) IN
    \/ out' = out \o kept /\ End(end)
    \/ \E n \in 1..Len(kept) : out' = out \o SubSeq(kept, 1, n) /\ End("cut")

\* The token of the next page is not passed on.
BadGRBooksPage ==
    /\ Running("authorBooks", "gr")
    /\ page > 0
    /\ Yield(PageOf(page - 1), IF PageSize * page < Len(call.list) THEN "run" ELSE "ok")
    /\ UNCHANGED <<call, page, last, loaded>>

\* GetAuthorWorks says whether there is another page, and its token.
GRBooksPage ==
    /\ Running("authorBooks", "gr")
    /\ page > 0
    /\ Yield(PageOf(page - 1), IF PageSize * page < Len(call.list) THEN "run" ELSE "ok")
    /\ page' = page + 1
    /\ UNCHANGED <<call, last, loaded>>

\* Hardcover asks until a page is empty.
HCBooksPage ==
    /\ Running("authorBooks", "hc")
    /\ Yield(PageOf(page), IF PageOf(page) = <<>> THEN "ok" ELSE "run")
    /\ page' = page + 1
    /\ UNCHANGED <<call, last, loaded>>

-----------------------------------------------------------------------------
(* GetAuthor looks through the books of the first page.                     *)

\* Goodreads: the author's KCA has to be resolved, and upstream may know neither it nor its
\* works, with a 404 or without; an author without works is no errNotFound.  Hardcover: ID 0
\* is a bad request; an author who is gone, merged into another or not one of the authors of
\* any book, is not found.
AuthorStart ==
    /\ status = "run" /\ call.op = "author" /\ page = 0
    /\ \/ End("failed") /\ page' = 0
       \/ call.getter = "gr" /\ End("notFound") /\ page' = 0
       \/ /\ call.getter = "gr" /\ call.list # <<>>
          /\ End("run") /\ page' = 1
       \/ /\ call.getter = "hc" /\ ~call.zero
          /\ LET own == [i \in DOMAIN PageOf(0) |->
                            [author |-> Author, role |-> call.list[i].own]] IN
             IF call.gone \/ BestAuthor(own) = Nobody
             THEN End("notFound") /\ page' = 0
             ELSE End("run") /\ page' = 1
    /\ UNCHANGED <<call, last, loaded, out>>

\* GetBook answers with the record in the cache while it is fresh: it is by whoever upstream
\* said when it was fetched, which is not what the list of the author's books says now.
Authors == {Author} \union UNION {{c.author : c \in ToSet(e.contributors)} : e \in Entries}

\* Takes the first book that can be loaded.
BadByAuthor(author) == TRUE

\* What Goodreads' GetAuthor compares of a record with what it was asked for.
ByAuthor(author) == author = Author

Load(author) == loaded' = loaded \union {[entry |-> page, by |-> author]}

\* Goodreads: a book that cannot be loaded or decoded, or is somebody else's, is passed.
GRAuthorBook ==
    /\ Running("author", "gr")
    /\ page > 0
    /\ \/ /\ page > Len(PageOf(0))
          /\ End("notFound")
          /\ UNCHANGED <<page, loaded, out>>
       \/ /\ page <= Len(PageOf(0))
          /\ page' = page + 1
          /\ UNCHANGED <<loaded, out, status>>
       \/ /\ page <= Len(PageOf(0))
          /\ page' = page + 1
          /\ \E author \in Authors :
                 /\ Load(author)
                 /\ IF ByAuthor(author) THEN out' = <<page>> /\ End("ok")
                    ELSE UNCHANGED <<out, status>>
    /\ UNCHANGED <<call, last>>

\* Hardcover: the first book the list has an edition of the author's for decides, and the
\* first author of its record is the answer, whoever that is.
HCAuthorBook ==
    /\ Running("author", "hc")
    /\ page > 0
    /\ IF page > Len(PageOf(0)) THEN End("notFound") /\ UNCHANGED <<page, loaded, out>>
       ELSE IF ~HasEdition(call.list[page])
       THEN page' = page + 1 /\ UNCHANGED <<loaded, out, status>>
       ELSE /\ UNCHANGED page
            /\ \/ \E author \in Authors : Load(author) /\ End("ok") /\ out' = <<page>>
               \/ \E error \in {"failed", "notFound"} :
                      End(error) /\ UNCHANGED <<loaded, out>>
    /\ UNCHANGED <<call, last>>

Next ==
    \/ SeriesFails \/ GRSeriesPage \/ HCSeriesPage
    \/ GRBooksStart \/ BooksFail \/ GRBooksPage \/ HCBooksPage
    \/ AuthorStart \/ GRAuthorBook \/ HCAuthorBook

Spec == Init /\ [][Next]_vars

-----------------------------------------------------------------------------
(* Properties.                                                              *)

TypeOK ==
    /\ call \in SeriesCall \union AuthorCall
    /\ page \in 0..(MaxAnswer + 2)
    /\ last \in Positions \union {0}
    /\ loaded \subseteq [entry : DOMAIN call.list, by : Authors]
    /\ IF call.op = "series"
       THEN out \in Seq([entry : 1..MaxAnswer, position : 0..(PageSize * MaxPages)
                                                          \union Positions])
       ELSE out \in Seq(1..MaxAnswer)
    /\ status \in {"run", "ok", "cut", "notFound", "failed"}

\* Across pages, Goodreads' works are numbered through from 1, none missing and none
\* twice.  Of Hardcover's, one is taken per position, the most popular, and every one
\* without a position.  A call that ends well short of its last page has all of them,
\* or as many as the series counts.
SeriesPositions ==
    call.op = "series" =>
        /\ call.getter = "gr" =>
               /\ \A i \in DOMAIN out : out[i] = [entry |-> i, position |-> i]
               /\ status = "ok" => Len(out) = Len(call.list) \/ page = MaxPages
        /\ call.getter = "hc" =>
               /\ \A i, j \in DOMAIN out :
                      i < j => /\ out[i].entry < out[j].entry
                               /\ out[i].position # out[j].position \/ out[j].position = 0
               /\ \A i \in DOMAIN out : \A k \in 1..(out[i].entry - 1) :
                      call.list[k] = 0 \/ call.list[k] # out[i].position
               /\ status = "ok" /\ page < MaxPages /\ Len(out) < call.count =>
                      \A k \in DOMAIN call.list :
                          \E i \in DOMAIN out : /\ out[i].position = call.list[k]
                                               /\ call.list[k] = 0 => out[i].entry = k

\* The iterator has yielded, in order and once each, the first so many of the author's
\* books over all pages; when it was not cut short, all of them.
AuthorBooksComplete ==
    LET all == Kept([i \in DOMAIN call.list |-> i])
    IN  call.op = "authorBooks" => /\ IsPrefix(out, all)
                                   /\ status = "ok" => out = all

\* Whatever is in the cache, Goodreads' GetAuthor answers with the first record it could load
\* that is by the author it was asked for, and that the author is not found, once it has
\* begun to load, only if none of those it could load is.
AuthorAnswer ==
    call.op = "author" /\ call.getter = "gr" =>
        /\ status = "ok" =>
               /\ [entry |-> out[1], by |-> Author] \in loaded
               /\ \A r \in loaded : r.by = Author => r.entry >= out[1]
        /\ status = "notFound" => \A r \in loaded : r.by # Author
=============================================================================
