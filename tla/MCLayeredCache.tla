--------------------------- MODULE MCLayeredCache ---------------------------
(* Instances of LayeredCache for TLC. *)
EXTENDS LayeredCache, TLC
CONSTANTS c1, c2, k1, u1, r1, r2

\* The URL of every key.
Url == [k \in Keys |-> u1]
Symmetry == Permutations(Clients) \union Permutations(Requests)

=============================================================================
