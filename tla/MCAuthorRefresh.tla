--------------------------- MODULE MCAuthorRefresh ---------------------------
(***************************************************************************)
(* Instances of AuthorRefresh for TLC.                                     *)
(***************************************************************************)
EXTENDS AuthorRefresh

CONSTANTS a1, a2, w1, w2, s1

OneAuthor == {a1}
TwoAuthors == {a1, a2}
OneWork == {w1}
TwoWorks == {w1, w2}
OneSlot == {s1}
=============================================================================
