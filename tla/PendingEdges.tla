---------------------------- MODULE PendingEdges ----------------------------
(***************************************************************************)
(* What the controller is promised by the buffer between the goroutines    *)
(* that discover parent/child relationships and the one denormalization    *)
(* loop (internal/buffer.go, "collects and merges denormalization steps    *)
(* while still maintaining serializability"), without saying how:          *)
(*                                                                         *)
(*  - every child accepted for a parent stays pending until one edge       *)
(*    carries all the pending children of that parent to the loop;         *)
(*  - a refreshDone mark of an author is a fence: it reaches the loop only *)
(*    after every edge that was pending when the mark was accepted, and    *)
(*    marks keep their order;                                              *)
(*  - closing the producer drops whatever is still pending.                *)
(***************************************************************************)
EXTENDS Naturals, Sequences

CONSTANTS
    Parents,    \* author and work IDs that own children
    Children,   \* work and edition IDs
    NoEdge      \* the loop is handling nothing

VARIABLES
    pending,    \* <<kind, parent>> :> children, for the pending keys
    fences,     \* the pending refreshDone marks, oldest first
    handling,   \* the edge the loop is handling, or NoEdge
    closed      \* the buffer stopped

vars == <<pending, fences, handling, closed>>

Kinds == {"authorEdge", "workEdge", "refreshDone"}
Edge == [kind : Kinds, parentID : Parents, childIDs : SUBSET Children]

Key(e) == <<e.kind, e.parentID>>
IsFence(e) == e.kind = "refreshDone"

ChildrenOf(key) == IF key \in DOMAIN pending THEN pending[key] ELSE {}

Init ==
    /\ pending = <<>>
    /\ fences = <<>>
    /\ handling = NoEdge
    /\ closed = FALSE

\* The buffer takes a relationship; it joins the pending ones of its parent.
AcceptEdge(e) ==
    /\ ~closed
    /\ ~IsFence(e)
    /\ pending' = [key \in DOMAIN pending \union {Key(e)} |->
                     ChildrenOf(key) \union (IF key = Key(e) THEN e.childIDs ELSE {})]
    /\ UNCHANGED <<fences, handling, closed>>

\* The buffer takes a refreshDone mark, which waits for all that is pending.
AcceptFence(e) ==
    /\ ~closed
    /\ IsFence(e)
    /\ fences' = Append(fences, [parentID |-> e.parentID, before |-> DOMAIN pending])
    /\ UNCHANGED <<pending, handling, closed>>

\* The loop receives one parent's edge, with all its pending children.
DeliverEdge(key) ==
    /\ ~closed
    /\ handling = NoEdge
    /\ handling' = [kind |-> key[1], parentID |-> key[2], childIDs |-> pending[key]]
    /\ pending' = [k \in DOMAIN pending \ {key} |-> pending[k]]
    /\ fences' = [i \in DOMAIN fences |-> [fences[i] EXCEPT !.before = @ \ {key}]]
    /\ UNCHANGED closed

\* The loop receives the oldest refreshDone mark, once nothing precedes it.
DeliverFence ==
    /\ ~closed
    /\ handling = NoEdge
    /\ fences # <<>>
    /\ Head(fences).before = {}
    /\ handling' = [kind |-> "refreshDone", parentID |-> Head(fences).parentID,
                    childIDs |-> {}]
    /\ fences' = Tail(fences)
    /\ UNCHANGED <<pending, closed>>

\* The loop is done with the edge it received.
Handled ==
    /\ handling # NoEdge
    /\ handling' = NoEdge
    /\ UNCHANGED <<pending, fences, closed>>

Close ==
    /\ ~closed
    /\ closed' = TRUE
    /\ pending' = <<>>
    /\ fences' = <<>>
    /\ UNCHANGED handling

Next ==
    \/ \E e \in Edge : AcceptEdge(e) \/ AcceptFence(e)
    \/ \E key \in DOMAIN pending : DeliverEdge(key)
    \/ DeliverFence
    \/ Handled
    \/ Close

Spec == Init /\ [][Next]_vars
=============================================================================
