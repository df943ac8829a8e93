-------------------------- MODULE Denormalization --------------------------
(***************************************************************************)
(* internal/controller.go: the content of an author or of a work that the  *)
(* denormalization loop merges children into.  AuthorRefresh and Catalog   *)
(* say when a merge runs and which cached state it starts from; here is    *)
(* what one merge computes, and what a series of merges leaves behind.     *)
(*                                                                         *)
(* A parent is an author with works (denormalizeWorks) or a work with      *)
(* editions (denormalizeEditions).  Both look a child up by binary search  *)
(* and replace or insert it.  denormalizeWorks then derives the author's   *)
(* series, one goroutine per series of a work, and the titles: a short     *)
(* title that several works share, or a work that is in a series, is shown *)
(* in full.  Ratings and the other fields are left out.                    *)
(***************************************************************************)
EXTENDS Naturals, Sequences, FiniteSets

CONSTANTS
    Children,   \* IDs of the works or editions, numbers
    Titles,     \* short titles, in upper case
    NoFull,     \* the titles of works without a FullTitle
    Series,     \* IDs of series, numbers
    MaxChanges  \* bound: the changes upstream, and requests and lapses of series

\* What the code justifies of the constants; Service assumes it.  IDs are int64s.
DenormalizationAssumption ==
    /\ Children \subseteq Nat
    /\ Children # {} /\ IsFiniteSet(Children)
    /\ Series \subseteq Nat
    /\ NoFull \subseteq Titles
    /\ MaxChanges \in Nat

VARIABLES
    kind,       \* the parent's kind of edge: "authorEdge" or "workEdge"
    got,        \* per requested ID, the child that GetWork or GetBook returns
    shelf,      \* the parent as the cache has it
    merge,      \* the merge of one edge
    settled,    \* history: the IDs the last merge took over, unless one changed since
    cached,     \* the series that are cached, and fresh
    changes     \* how often a child or what is cached of a series changed

vars == <<kind, got, shelf, merge, settled, cached, changes>>

\* What GetWork returns for an ID, under the ID of what is returned.
Child == [id : Children, short : Titles, series : SUBSET Series]
Shown == [id : Children, short : Titles, series : SUBSET Series, full : BOOLEAN]

Show(child) == [id |-> child.id, short |-> child.short, series |-> child.series,
                full |-> FALSE]

NoMerge == [pc |-> "idle", todo |-> {}, taken |-> {}, works |-> <<>>, series |-> <<>>,
            fetching |-> [s \in Series |-> 0]]

\* The parent starts as the getter returns it: with one child, and nothing derived.  The
\* children start with the same title, and that one in all the series.
Init ==
    /\ kind \in {"authorEdge", "workEdge"}
    /\ \E t \in Titles, b \in Children :
           /\ got = [c \in Children |-> [id |-> c, short |-> t,
                                         series |-> IF c = b THEN Series ELSE {}]]
           /\ shelf = [works |-> <<Show(got[b])>>, series |-> <<>>, derived |-> FALSE]
    /\ merge = NoMerge
    /\ settled = {}
    /\ cached = {}
    /\ changes = 0

\* Upstream, a child is renamed, joins or leaves series, or is merged into another, which
\* is then what is returned for it.
Change(c) ==
    /\ merge.pc = "idle"
    /\ changes < MaxChanges
    /\ \/ \E t \in Titles : got' = [got EXCEPT ![c].short = t]
       \/ \E in \in SUBSET Series : got' = [got EXCEPT ![c].series = in]
       \/ \E other \in Children : got' = [got EXCEPT ![c] = got[other]]
    /\ changes' = changes + 1
    /\ settled' = {}
    /\ UNCHANGED <<kind, shelf, merge, cached>>

Start(edge) ==
    /\ merge.pc = "idle"
    /\ merge' = [NoMerge EXCEPT !.pc = "children", !.todo = edge, !.works = shelf.works]
    /\ UNCHANGED <<kind, got, shelf, settled, cached, changes>>

-----------------------------------------------------------------------------
(* The merge.                                                               *)

\* slices.BinarySearchFunc: the first place whose ID is not smaller, and whether it is
\* the one that was looked for.
Place(ids, id) ==
    CHOOSE i \in 1..(Len(ids) + 1) :
        /\ \A j \in 1..(i - 1) : ids[j] < id
        /\ \A j \in i..Len(ids) : ids[j] >= id
Found(ids, id) == Place(ids, id) <= Len(ids) /\ ids[Place(ids, id)] = id

InsertPlace(s, i, e) == [j \in 1..(Len(s) + 1) |-> IF j < i THEN s[j]
                                                   ELSE IF j = i THEN e ELSE s[j - 1]]
Ids(works) == [i \in 1..Len(works) |-> works[i].id]

\* Probes with the ID that was asked for, as the code did before works were merged.
BadTake(works, c, child) ==
    IF Found(Ids(works), c)
    THEN [works EXCEPT ![Place(Ids(works), c)] = child]
    ELSE InsertPlace(works, Place(Ids(works), c), child)

\* Replace or insert: the place is probed for by the ID of what was returned.
Take(works, c, child) ==
    IF Found(Ids(works), child.id)
    THEN [works EXCEPT ![Place(Ids(works), child.id)] = child]
    ELSE InsertPlace(works, Place(Ids(works), child.id), child)

\* The IDs of an edge come out of a set, in any order.  One whose fetch fails, that
\* cannot be decoded, or that has no editions is passed over.
MergeChild(c) ==
    /\ merge.pc = "children"
    /\ c \in merge.todo
    /\ \/ merge' = [merge EXCEPT !.todo = @ \ {c}, !.taken = @ \union {c},
                                 !.works = Take(@, c, Show(got[c]))]
       \/ merge' = [merge EXCEPT !.todo = @ \ {c}]
    /\ UNCHANGED <<kind, got, shelf, settled, cached, changes>>

\* Counts the titles as they are shown instead of the short ones.
BadShared(works, i) ==
    \E j \in 1..Len(works) \ {i} :
        /\ works[j].short = works[i].short
        /\ works[j].full = works[i].full

\* titles[strings.ToUpper(shortTitle)] > 1
Shared(works, i) ==
    \E j \in 1..Len(works) \ {i} : works[j].short = works[i].short

NeedsFull(works, i) ==
    /\ works[i].series # {} \/ Shared(works, i)
    /\ works[i].short \notin NoFull

\* A title that was shown in full by an earlier merge stays so.
Disambiguate(works) ==
    [i \in 1..Len(works) |-> [works[i] EXCEPT !.full = @ \/ NeedsFull(works, i)]]

\* A goroutine is started for every series of every work: fetching counts those of a series.
Derive ==
    /\ merge.pc = "children"
    /\ merge.todo = {}
    /\ kind = "authorEdge"
    /\ merge' = [merge EXCEPT
           !.pc = "series",
           !.works = Disambiguate(@),
           !.fetching = [s \in Series |->
               Cardinality({i \in 1..Len(merge.works) : s \in merge.works[i].series})]]
    /\ UNCHANGED <<kind, got, shelf, settled, cached, changes>>

\* In the order in which they come.
BadAddSeries(series, s) == Append(series, s)

\* A series another work brought is there already.
AddSeries(series, s) ==
    IF Found(series, s) THEN series ELSE InsertPlace(series, Place(series, s), s)

\* getSeries: a series that is cached and fresh, or one that is fetched and cached.  An
\* error is cached by nobody, and adds nothing.  The goroutines end in any order.
SeriesDone(s) ==
    /\ merge.pc = "series"
    /\ merge.fetching[s] > 0
    /\ \/ /\ merge' = [merge EXCEPT !.fetching[s] = @ - 1, !.series = AddSeries(@, s)]
          /\ cached' = cached \union {s}
       \/ /\ s \notin cached
          /\ merge' = [merge EXCEPT !.fetching[s] = @ - 1]
          /\ UNCHANGED cached
    /\ UNCHANGED <<kind, got, shelf, settled, changes>>

\* A client's GET of a series.
RequestSeries(s) ==
    /\ changes < MaxChanges
    /\ s \notin cached
    /\ cached' = cached \union {s}
    /\ changes' = changes + 1
    /\ UNCHANGED <<kind, got, shelf, merge, settled>>

\* _seriesTTL runs out, or a DELETE of the series expires it.
LapseSeries(s) ==
    /\ changes < MaxChanges
    /\ s \in cached
    /\ cached' = cached \ {s}
    /\ changes' = changes + 1
    /\ UNCHANGED <<kind, got, shelf, merge, settled>>

\* Set, or nothing when the ETag is the same: either way the cache has the merged parent.
Save ==
    /\ \/ merge.pc = "series" /\ \A s \in Series : merge.fetching[s] = 0
       \/ merge.pc = "children" /\ merge.todo = {} /\ kind = "workEdge"
    /\ shelf' = [works |-> merge.works, series |-> merge.series, derived |-> TRUE]
    /\ settled' = merge.taken
    /\ merge' = NoMerge
    /\ UNCHANGED <<kind, got, cached, changes>>

Next ==
    \/ \E c \in Children : Change(c)
    \/ \E edge \in (SUBSET Children) \ {{}} : Start(edge)
    \/ \E c \in Children : MergeChild(c)
    \/ Derive
    \/ \E s \in Series : SeriesDone(s)
    \/ \E s \in Series : RequestSeries(s) \/ LapseSeries(s)
    \/ Save

Spec == Init /\ [][Next]_vars

-----------------------------------------------------------------------------
(* Properties.                                                              *)

TypeOK ==
    /\ kind \in {"authorEdge", "workEdge"}
    /\ got \in [Children -> Child]
    /\ shelf \in [works : Seq(Shown), series : Seq(Series), derived : BOOLEAN]
    /\ merge \in [pc : {"idle", "children", "series"}, todo : SUBSET Children,
                  taken : SUBSET Children, works : Seq(Shown), series : Seq(Series),
                  fetching : [Series -> 0..Cardinality(Children)]]
    /\ settled \in SUBSET Children
    /\ cached \in SUBSET Series
    /\ changes \in 0..MaxChanges

Ascending(ids) == \A i \in 1..Len(ids) : \A j \in 1..Len(ids) : i < j => ids[i] < ids[j]

\* The children and the series of a parent are in strictly ascending order, whatever was
\* merged upstream and in whatever order children and series arrive: the binary searches
\* of this merge and of all later ones need it, and no work is there twice.
ShelfSorted ==
    /\ Ascending(Ids(shelf.works))
    /\ Ascending(shelf.series)
    /\ Ascending(Ids(merge.works))
    /\ Ascending(merge.series)

\* On a derived author no two works show the same title, in any case, unless one of them
\* has no full title: both are shown in full.  A work in a series is shown in full too.
TitlesTold ==
    kind = "authorEdge" /\ shelf.derived =>
        \A i \in 1..Len(shelf.works) :
            LET work == shelf.works[i] IN
            /\ \/ \E j \in 1..Len(shelf.works) \ {i} :
                      shelf.works[j].short = work.short
               \/ work.series # {}
            /\ work.short \notin NoFull
            => work.full

\* Merging again what is there already, with nothing changed upstream and the same series
\* found, leaves the parent as it is, in whatever order the goroutines end: it is what the
\* ETag comparison relies on to stop an author and its works from being written for ever.
SameAgain ==
    /\ merge.pc # "idle" /\ merge'.pc = "idle"
    /\ shelf.derived
    /\ merge.taken \subseteq settled
    /\ \A b, c \in settled : got[b].id = got[c].id => b = c
    /\ {merge.series[i] : i \in 1..Len(merge.series)}
       = {shelf.series[i] : i \in 1..Len(shelf.series)}
MergeIsStableStep ==
    SameAgain => shelf'.works = shelf.works /\ shelf'.series = shelf.series
MergeIsStable == [][MergeIsStableStep]_vars
=============================================================================
