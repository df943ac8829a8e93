---------------------------- MODULE MCEdgeBuffer ----------------------------
(***************************************************************************)
(* Instances of EdgeBuffer for TLC.                                        *)
(***************************************************************************)
EXTENDS EdgeBuffer

CONSTANTS p1, c1, c2, a1, a2, a3

OneParent == {p1}
MCChildren == {c1, c2}
MCAddr == {a1, a2, a3}
=============================================================================
