---------------------------- MODULE MCQueryBatch ----------------------------
(***************************************************************************)
(* Instances of QueryBatch for TLC.                                        *)
(***************************************************************************)
EXTENDS QueryBatch

CONSTANTS q1, q2, q3

ThreeQueries == {q1, q2, q3}
MCBatchSizes == {1, 2}

\* Two lookups of works, which share a field, a variable and a fragment, and a search.
MCDocument ==
    [q \in ThreeQueries |->
        IF q = q3 THEN [field |-> "search", vars |-> [query |-> "text"], fragments |-> {}]
        ELSE [field |-> "books_by_pk", vars |-> [bookID |-> IF q = q1 THEN "one" ELSE "two"],
              fragments |-> {"WorkInfo"}]]
=============================================================================
