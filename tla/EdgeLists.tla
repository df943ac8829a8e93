----------------------------- MODULE EdgeLists -----------------------------
(***************************************************************************)
(* internal/buffer.go: what edgebuf.push makes of a list of edges, whoever *)
(* keeps it and wherever.                                                  *)
(***************************************************************************)
EXTENDS Sequences

IsFence(e) == e.kind = "refreshDone"

SameKey(e, f) == e.kind = f.kind /\ e.parentID = f.parentID

\* A list with one more edge: merged into the one of its key, or behind the others.
Accepted(edges, e) ==
    IF ~IsFence(e) /\ \E i \in DOMAIN edges : SameKey(edges[i], e)
    THEN [i \in DOMAIN edges |->
            IF SameKey(edges[i], e) THEN [edges[i] EXCEPT !.childIDs = @ \union e.childIDs]
                                    ELSE edges[i]]
    ELSE Append(edges, e)
=============================================================================
