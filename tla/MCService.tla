----------------------------- MODULE MCService -----------------------------
(***************************************************************************)
(* An instance of Service for TLC.                                         *)
(***************************************************************************)
EXTENDS Service

\* Books by the asked author A and by another, B: plainly A's; translated by A; A's after
\* a translator, with another's cover; of both, with no edition to choose.
ABook(own, contributors, cover, physical, fallback) ==
    [own |-> own, contributors |-> contributors, cover |-> cover, ebook |-> "nobody",
     physical |-> physical, fallback |-> fallback]
By(author, role) == [author |-> author, role |-> role]

MCEntries ==
    {ABook("author", <<By("A", "author")>>, "A", "A", 0),
     ABook("translator", <<By("A", "translator"), By("B", "author")>>, "B", "nobody", 1),
     ABook("author", <<By("B", "translator"), By("A", "author")>>, "B", "A", 0),
     ABook("author", <<By("A", "author"), By("B", "author")>>, "B", "nobody", 2)}

\* Editions of two works, two with one ISBN, one in another's name, one that does not
\* load, and one without an ID and an author.
Item(book, work, author, contributor, code, rating, series, loads) ==
    [book |-> book, work |-> work, author |-> author, contributor |-> contributor,
     code |-> code, rating |-> rating, series |-> series, loads |-> loads]

MCItems ==
    {Item("b1", "w1", "A", "A", "isbn", 1, {"s1"}, TRUE),
     Item("b2", "w1", "A", "A", "isbn", 2, {"s2"}, TRUE),
     Item("b2", "w2", "B", "A", "text", 2, {}, TRUE),
     Item("b3", "w2", "B", "B", "text", 1, {"s1"}, TRUE),
     Item("b3", "w2", "A", "A", "text", 0, {}, FALSE),
     Item("nobody", "w3", "nobody", "B", "text", 0, {}, TRUE)}
=============================================================================
