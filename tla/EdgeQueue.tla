----------------------------- MODULE EdgeQueue -----------------------------
(***************************************************************************)
(* The buffer between the producers of edges and the denormalization loop, *)
(* as a queue that takes an edge and gives one in a single step: what the  *)
(* rest of the controller may take internal/buffer.go for.  An edge joins  *)
(* the queued one of its kind and parent where that one is; the loop gets  *)
(* them in order, the next when it is done with the last.                  *)
(***************************************************************************)
EXTENDS EdgeLists

CONSTANTS
    Parents,    \* author and work IDs that own children
    Children,   \* work and edition IDs
    NoEdge      \* the loop is handling nothing

VARIABLES
    edges,      \* what the loop has not received, oldest first
    handling,   \* the edge the loop is handling, or NoEdge
    closed      \* the buffer stopped

vars == <<edges, handling, closed>>

Edge == [kind : {"authorEdge", "workEdge", "refreshDone"},
         parentID : Parents, childIDs : SUBSET Children]

Init ==
    /\ edges = <<>>
    /\ handling = NoEdge
    /\ closed = FALSE

Accept(e) ==
    /\ ~closed
    /\ IsFence(e) => e.childIDs = {}
    /\ edges' = Accepted(edges, e)
    /\ UNCHANGED <<handling, closed>>

Deliver ==
    /\ ~closed
    /\ handling = NoEdge
    /\ edges # <<>>
    /\ handling' = Head(edges)
    /\ edges' = Tail(edges)
    /\ UNCHANGED closed

Handled ==
    /\ handling # NoEdge
    /\ handling' = NoEdge
    /\ UNCHANGED <<edges, closed>>

Close ==
    /\ ~closed
    /\ closed' = TRUE
    /\ edges' = <<>>
    /\ UNCHANGED handling

Next ==
    \/ \E e \in Edge : Accept(e)
    \/ Deliver
    \/ Handled
    \/ Close

Spec == Init /\ [][Next]_vars
=============================================================================
