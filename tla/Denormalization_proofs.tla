----------------------- MODULE Denormalization_proofs -----------------------
(***************************************************************************)
(* Proofs about Denormalization, for any children, titles and series.      *)
(*                                                                         *)
(* denormalizeWorks and denormalizeEditions look every child and series up *)
(* by binary search in lists they find in the cache, so a list that is not *)
(* sorted once is never sorted again.  ShelfSorted is inductive with the   *)
(* types of the lists: in an ascending list there is a place before which  *)
(* everything is smaller and from which nothing is, so an insertion there  *)
(* keeps the list ascending, unless what is inserted is there already, and *)
(* then it is replaced.  The second half is about titles, and about what a *)
(* merge of the same children does: nothing.                               *)
(***************************************************************************)
EXTENDS Denormalization, WellFoundedInduction, FiniteSetTheorems, TLAPS

\* A set of natural numbers has a least one.
LEMMA LeastNumber ==
    ASSUME NEW T \in SUBSET Nat, T # {}
    PROVE  \E x \in T : \A y \in T : x <= y
<1> DEFINE Less == {ss \in Nat \X Nat : ss[1] < ss[2]}
<1>1. IsWellFoundedOn(Less, Nat)
  BY NatLessThanWellFounded DEF OpToRel
<1>2. \E x \in T : \A y \in T : ~(<<y, x>> \in Less)
  <2> HIDE DEF Less
  <2> QED  BY <1>1, WFMin
<1>3. PICK x \in T : \A y \in T : ~(<<y, x>> \in Less)
  BY <1>2
<1>4. ASSUME NEW y \in T
      PROVE  x <= y
  <2>1. x \in Nat /\ y \in Nat
    OBVIOUS
  <2>2. <<y, x>> \in Nat \X Nat /\ <<y, x>>[1] = y /\ <<y, x>>[2] = x
    BY <2>1
  <2>3. ~(y < x)
    BY <1>3, <2>2
  <2> QED  BY <2>1, <2>3
<1> QED  BY <1>4

\* The binary search of an ascending list finds the place (controller.go, slices.BinarySearchFunc).
LEMMA PlaceFacts ==
    ASSUME NEW ids \in Seq(Nat), Ascending(ids), NEW id \in Nat
    PROVE  /\ Place(ids, id) \in 1..(Len(ids) + 1)
           /\ \A j \in 1..(Place(ids, id) - 1) : ids[j] < id
           /\ \A j \in Place(ids, id)..Len(ids) : ids[j] >= id
<1> DEFINE T == {i \in 1..(Len(ids) + 1) : \A j \in i..Len(ids) : ids[j] >= id}
<1>1. Len(ids) \in Nat /\ \A j \in 1..Len(ids) : ids[j] \in Nat
  OBVIOUS
<1>2. T \in SUBSET Nat /\ Len(ids) + 1 \in T
  BY <1>1
<1>3. PICK x \in T : \A y \in T : x <= y
  BY <1>2, LeastNumber
<1>4. ASSUME NEW j \in 1..(x - 1)
      PROVE  ids[j] < id
  <2>1. j \in 1..Len(ids) /\ j \notin T
    BY <1>1, <1>3
  <2>2. PICK k \in j..Len(ids) : ~(ids[k] >= id)
    BY <1>1, <2>1
  <2>3. ids[j] <= ids[k]
    BY <1>1, <2>1, <2>2 DEF Ascending
  <2> QED  BY <1>1, <2>1, <2>2, <2>3
<1>5. \E i \in 1..(Len(ids) + 1) : /\ \A j \in 1..(i - 1) : ids[j] < id
                                   /\ \A j \in i..Len(ids) : ids[j] >= id
  BY <1>3, <1>4
<1> QED  BY <1>5 DEF Place

\* slices.Insert
LEMMA InsertFacts ==
    ASSUME NEW S, NEW s \in Seq(S), NEW i \in 1..(Len(s) + 1), NEW e \in S
    PROVE  /\ InsertPlace(s, i, e) \in Seq(S)
           /\ Len(InsertPlace(s, i, e)) = Len(s) + 1
<1>1. Len(s) \in Nat /\ Len(s) + 1 \in Nat /\ i \in Nat
  OBVIOUS
<1>2. InsertPlace(s, i, e) \in [1..(Len(s) + 1) -> S]
  <2>1. \A j \in 1..(Len(s) + 1) :
          (IF j < i THEN s[j] ELSE IF j = i THEN e ELSE s[j - 1]) \in S
    BY <1>1
  <2> QED  BY <2>1 DEF InsertPlace
<1> QED  BY <1>1, <1>2

\* What is inserted at its place keeps a list ascending, if it is not there.
LEMMA InsertAscends ==
    ASSUME NEW ids \in Seq(Nat), Ascending(ids), NEW id \in Nat, ~Found(ids, id)
    PROVE  Ascending(InsertPlace(ids, Place(ids, id), id))
<1> DEFINE p == Place(ids, id)
           longer == InsertPlace(ids, p, id)
<1>1. Len(ids) \in Nat /\ \A j \in 1..Len(ids) : ids[j] \in Nat
  OBVIOUS
<1>2. /\ p \in 1..(Len(ids) + 1)
      /\ \A j \in 1..(p - 1) : ids[j] < id
      /\ \A j \in p..Len(ids) : ids[j] >= id
  BY PlaceFacts
<1>3. p <= Len(ids) => ids[p] # id
  BY DEF Found
<1>4. \A j \in p..Len(ids) : ids[j] > id
  BY <1>1, <1>2, <1>3 DEF Ascending
<1>5. /\ Len(longer) = Len(ids) + 1
      /\ \A j \in 1..(Len(ids) + 1) :
           longer[j] = IF j < p THEN ids[j] ELSE IF j = p THEN id ELSE ids[j - 1]
  <2> HIDE DEF p
  <2>1. Len(longer) = Len(ids) + 1
    BY <1>2, InsertFacts
  <2>2. \A j \in 1..(Len(ids) + 1) :
          longer[j] = IF j < p THEN ids[j] ELSE IF j = p THEN id ELSE ids[j - 1]
    BY DEF InsertPlace
  <2> QED  BY <2>1, <2>2
<1> HIDE DEF p, longer
<1>6. ASSUME NEW i \in 1..(Len(ids) + 1), NEW j \in 1..(Len(ids) + 1), i < j
      PROVE  longer[i] < longer[j]
  <2>1. CASE j < p
    <3>1. i < p /\ longer[i] = ids[i] /\ longer[j] = ids[j]
      BY <1>2, <1>5, <1>6, <2>1
    <3>2. i \in 1..Len(ids) /\ j \in 1..Len(ids)
      BY <1>1, <1>2, <2>1, <3>1
    <3> QED  BY <1>6, <3>1, <3>2 DEF Ascending
  <2>2. CASE j = p
    BY <1>1, <1>2, <1>5, <1>6, <2>2
  <2>3. CASE j > p
    <3>1. longer[j] = ids[j - 1] /\ j - 1 \in p..Len(ids)
      BY <1>1, <1>2, <1>5, <2>3
    <3>2. CASE i < p
      <4>1. longer[i] = ids[i] /\ ids[i] < id
        BY <1>1, <1>2, <1>5, <3>2
      <4>2. ids[j - 1] >= id
        BY <1>2, <3>1
      <4>3. ids[i] \in Nat /\ ids[j - 1] \in Nat
        BY <1>1, <1>2, <3>1, <3>2
      <4> QED  BY <3>1, <4>1, <4>2, <4>3
    <3>3. CASE i = p
      BY <1>1, <1>4, <1>5, <3>1, <3>3
    <3>4. CASE i > p
      <4>1. longer[i] = ids[i - 1] /\ i - 1 \in 1..Len(ids) /\ i - 1 < j - 1
        BY <1>1, <1>2, <1>5, <1>6, <3>4
      <4> QED  BY <1>1, <1>2, <3>1, <4>1 DEF Ascending
    <3> QED  BY <1>2, <3>2, <3>3, <3>4
  <2> QED  BY <1>2, <2>1, <2>2, <2>3
<1> QED  BY <1>5, <1>6 DEF Ascending, longer, p

\* The IDs of a list of children.
LEMMA IdsFacts ==
    ASSUME DenormalizationAssumption, NEW works \in Seq(Shown)
    PROVE  /\ Ids(works) \in Seq(Nat)
           /\ Len(Ids(works)) = Len(works)
           /\ \A i \in 1..Len(works) : works[i] \in Shown /\ Ids(works)[i] = works[i].id
<1>1. Len(works) \in Nat /\ \A i \in 1..Len(works) : works[i] \in Shown
  OBVIOUS
<1>2. \A i \in 1..Len(works) : works[i].id \in Nat
  BY <1>1 DEF Shown, DenormalizationAssumption
<1>3. Ids(works) \in [1..Len(works) -> Nat]
  BY <1>2 DEF Ids
<1> QED  BY <1>1, <1>3 DEF Ids

\* Replacing or inserting a child keeps the children ascending and each there once, under
\* the ID it is returned with, whatever ID it was asked for with (denormalizeWorks).
LEMMA TakeAscends ==
    ASSUME DenormalizationAssumption, NEW works \in Seq(Shown), Ascending(Ids(works)),
           NEW c, NEW child \in Shown
    PROVE  Take(works, c, child) \in Seq(Shown) /\ Ascending(Ids(Take(works, c, child)))
<1> DEFINE p == Place(Ids(works), child.id)
<1>1. /\ Ids(works) \in Seq(Nat) /\ Len(Ids(works)) = Len(works) /\ Len(works) \in Nat
      /\ \A i \in 1..Len(works) : works[i] \in Shown /\ Ids(works)[i] = works[i].id
  BY IdsFacts
<1>2. child.id \in Nat
  BY DEF Shown, DenormalizationAssumption
<1>3. p \in 1..(Len(works) + 1)
  BY <1>1, <1>2, PlaceFacts
<1>4. CASE Found(Ids(works), child.id)
  <2> DEFINE new == [works EXCEPT ![p] = child]
  <2>1. p \in 1..Len(works) /\ Ids(works)[p] = child.id
    BY <1>1, <1>3, <1>4 DEF Found
  <2>2. /\ new \in Seq(Shown) /\ Len(new) = Len(works)
        /\ \A i \in 1..Len(works) : new[i] = IF i = p THEN child ELSE works[i]
    <3> HIDE DEF p
    <3> QED  BY <2>1
  <2>3. Ids(new) = Ids(works)
    <3>1. \A i \in 1..Len(works) : new[i].id = works[i].id
      BY <1>1, <2>1, <2>2
    <3> HIDE DEF new
    <3> QED  BY <2>2, <3>1 DEF Ids
  <2>4. Take(works, c, child) = new
    BY <1>4 DEF Take
  <2> HIDE DEF new
  <2> QED  BY <2>2, <2>3, <2>4
<1>5. CASE ~Found(Ids(works), child.id)
  <2> DEFINE new == InsertPlace(works, p, child)
             ids == InsertPlace(Ids(works), p, child.id)
  <2>1. /\ new \in Seq(Shown) /\ Len(new) = Len(works) + 1
        /\ \A j \in 1..(Len(works) + 1) :
             new[j] = IF j < p THEN works[j] ELSE IF j = p THEN child ELSE works[j - 1]
    <3> HIDE DEF p
    <3>1. new \in Seq(Shown) /\ Len(new) = Len(works) + 1
      BY <1>3, InsertFacts
    <3>2. \A j \in 1..(Len(works) + 1) :
            new[j] = IF j < p THEN works[j] ELSE IF j = p THEN child ELSE works[j - 1]
      BY DEF InsertPlace
    <3> QED  BY <3>1, <3>2
  <2>2. /\ ids \in Seq(Nat) /\ Len(ids) = Len(works) + 1
        /\ \A j \in 1..(Len(works) + 1) :
             ids[j] = IF j < p THEN Ids(works)[j] ELSE IF j = p THEN child.id
                      ELSE Ids(works)[j - 1]
    <3> HIDE DEF p
    <3>1. ids \in Seq(Nat) /\ Len(ids) = Len(works) + 1
      BY <1>1, <1>2, <1>3, InsertFacts
    <3>2. \A j \in 1..(Len(Ids(works)) + 1) :
            ids[j] = IF j < p THEN Ids(works)[j] ELSE IF j = p THEN child.id
                     ELSE Ids(works)[j - 1]
      BY DEF InsertPlace
    <3> QED  BY <1>1, <3>1, <3>2
  <2>3. Ascending(ids)
    BY <1>1, <1>2, <1>5, InsertAscends
  <2>4. Take(works, c, child) = new
    BY <1>5 DEF Take
  <2> HIDE DEF new, ids, p
  <2>5. \A j \in 1..(Len(works) + 1) : new[j].id = ids[j]
    <3>1. ASSUME NEW j \in 1..(Len(works) + 1)
          PROVE  new[j].id = ids[j]
      <4>1. CASE j < p
        <5>1. j \in 1..Len(works)
          BY <1>1, <1>3, <4>1
        <5> QED  BY <1>1, <2>1, <2>2, <4>1, <5>1
      <4>2. CASE j = p
        BY <2>1, <2>2, <4>2
      <4>3. CASE j > p
        <5>1. j - 1 \in 1..Len(works) /\ ~(j < p) /\ j # p
          BY <1>1, <1>3, <4>3
        <5>2. new[j] = works[j - 1] /\ ids[j] = Ids(works)[j - 1]
          BY <2>1, <2>2, <5>1
        <5> QED  BY <1>1, <5>1, <5>2
      <4> QED  BY <1>3, <4>1, <4>2, <4>3
    <3> QED  BY <3>1
  <2>6. Ids(new) \in Seq(Nat) /\ Len(Ids(new)) = Len(ids)
        /\ \A j \in 1..Len(ids) : Ids(new)[j] = ids[j]
    BY <2>1, <2>2, <2>5, IdsFacts
  <2>7. Ascending(Ids(new))
    BY <2>3, <2>6 DEF Ascending
  <2> QED  BY <2>1, <2>4, <2>7
<1> QED  BY <1>4, <1>5

(***************************************************************************)
(* The invariant.                                                          *)
(***************************************************************************)
MergeRec == [pc : {"idle", "children", "series"}, todo : SUBSET Children,
             taken : SUBSET Children, works : Seq(Shown), series : Seq(Series),
             fetching : [Series -> Int]]
ShelfRec == [works : Seq(Shown), series : Seq(Series), derived : BOOLEAN]

ListsOK == /\ got \in [Children -> Child]
           /\ shelf \in ShelfRec
           /\ merge \in MergeRec
           /\ ShelfSorted

\* A child as it is shown has the ID, the title and the series it was returned with.
LEMMA ShowType == \A child \in Child : Show(child) \in Shown
  BY DEF Child, Shown, Show

\* A series that is found by another work is left where it is (denormalizeWorks).
LEMMA AddSeriesAscends ==
    ASSUME DenormalizationAssumption, NEW series \in Seq(Series), Ascending(series),
           NEW s \in Series
    PROVE  AddSeries(series, s) \in Seq(Series) /\ Ascending(AddSeries(series, s))
<1>1. series \in Seq(Nat) /\ s \in Nat
  <2>1. /\ Len(series) \in Nat /\ series \in [1..Len(series) -> Series]
        /\ \A x \in Series : x \in Nat
    BY DEF DenormalizationAssumption
  <2>2. series \in [1..Len(series) -> Nat]
    BY <2>1
  <2> QED  BY <2>1, <2>2
<1>2. Place(series, s) \in 1..(Len(series) + 1)
  BY <1>1, PlaceFacts
<1>3. InsertPlace(series, Place(series, s), s) \in Seq(Series)
  BY <1>2, InsertFacts
<1> QED  BY <1>1, <1>3, InsertAscends DEF AddSeries

\* Showing titles in full moves no work (denormalizeWorks).
LEMMA DisambiguateIds ==
    ASSUME NEW works \in Seq(Shown)
    PROVE  Disambiguate(works) \in Seq(Shown) /\ Ids(Disambiguate(works)) = Ids(works)
<1> DEFINE told == Disambiguate(works)
<1>1. Len(works) \in Nat /\ \A i \in 1..Len(works) : works[i] \in Shown
  OBVIOUS
<1>2. \A i \in 1..Len(works) : (works[i].full \/ NeedsFull(works, i)) \in BOOLEAN
  BY <1>1 DEF Shown
<1>3. \A i \in 1..Len(works) :
        told[i] = [works[i] EXCEPT !.full = works[i].full \/ NeedsFull(works, i)]
  BY DEF Disambiguate
<1>4. \A i \in 1..Len(works) : told[i] \in Shown /\ told[i].id = works[i].id
  BY <1>1, <1>2, <1>3 DEF Shown
<1>5. told \in [1..Len(works) -> Shown]
  <2>1. DOMAIN told = 1..Len(works) /\ told = [i \in 1..Len(works) |-> told[i]]
    BY DEF Disambiguate
  <2> HIDE DEF told
  <2> QED  BY <1>4, <2>1
<1>6. told \in Seq(Shown) /\ Len(told) = Len(works)
  <2> HIDE DEF told
  <2> QED  BY <1>1, <1>5
<1> HIDE DEF told
<1>7. Ids(told) = Ids(works)
  BY <1>4, <1>6 DEF Ids
<1> QED  BY <1>6, <1>7 DEF told

\* The lists of a step that changes no list.
LEMMA ListsFrame ==
    ASSUME ListsOK, got' \in [Children -> Child], shelf' = shelf,
           merge' \in MergeRec, merge'.works = merge.works, merge'.series = merge.series
    PROVE  ListsOK'
  BY DEF ListsOK, ShelfSorted

LEMMA InitLists == DenormalizationAssumption /\ Init => ListsOK
<1> SUFFICES ASSUME DenormalizationAssumption, Init
             PROVE  ListsOK
  OBVIOUS
<1>1. PICK t \in Titles, b \in Children :
        /\ got = [c \in Children |-> [id |-> c, short |-> t,
                                      series |-> IF c = b THEN Series ELSE {}]]
        /\ shelf = [works |-> <<Show(got[b])>>, series |-> <<>>, derived |-> FALSE]
  BY DEF Init
<1>2. got \in [Children -> Child]
  BY <1>1 DEF Child
<1>3. Show(got[b]) \in Shown
  BY <1>2, ShowType
<1>4. shelf \in ShelfRec
  BY <1>1, <1>3 DEF ShelfRec
<1>5. merge \in MergeRec /\ merge.works = <<>> /\ merge.series = <<>>
  BY DEF Init, NoMerge, MergeRec
<1>6. Len(Ids(shelf.works)) = 1 /\ Len(shelf.series) = 0
  BY <1>1, <1>3 DEF Ids
<1>7. Len(Ids(merge.works)) = 0 /\ Len(merge.series) = 0
  BY <1>5 DEF Ids
<1> QED  BY <1>2, <1>4, <1>5, <1>6, <1>7 DEF ListsOK, ShelfSorted, Ascending

\* Every step of a merge keeps the lists sorted, and so does what happens upstream.
LEMMA NextLists == DenormalizationAssumption /\ ListsOK /\ [Next]_vars => ListsOK'
<1> SUFFICES ASSUME DenormalizationAssumption, ListsOK, [Next]_vars
             PROVE  ListsOK'
  OBVIOUS
<1>1. /\ got \in [Children -> Child] /\ shelf \in ShelfRec /\ merge \in MergeRec
      /\ merge.works \in Seq(Shown) /\ merge.series \in Seq(Series)
      /\ ShelfSorted
  BY DEF ListsOK, MergeRec
<1>2. CASE UNCHANGED vars
  BY <1>1, <1>2, ListsFrame DEF vars
<1>3. ASSUME NEW c \in Children, Change(c)
      PROVE  ListsOK'
  <2>1. got[c] \in Child /\ \A other \in Children : got[other] \in Child
    BY <1>1
  <2>2. got' \in [Children -> Child]
    BY <1>1, <1>3, <2>1 DEF Change, Child
  <2> QED  BY <1>1, <1>3, <2>2, ListsFrame DEF Change
<1>4. ASSUME NEW edge \in SUBSET Children, Start(edge)
      PROVE  ListsOK'
  <2>1. merge' = [NoMerge EXCEPT !.pc = "children", !.todo = edge, !.works = shelf.works]
    BY <1>4 DEF Start
  <2>2. NoMerge \in MergeRec /\ NoMerge.series = <<>> /\ shelf.works \in Seq(Shown)
    BY <1>1 DEF NoMerge, MergeRec, ShelfRec
  <2>3. /\ merge' \in MergeRec
        /\ merge'.works = shelf.works /\ merge'.series = <<>>
    BY <2>1, <2>2 DEF MergeRec
  <2>4. Ascending(merge'.series)
    BY <2>3 DEF Ascending
  <2> QED  BY <1>1, <1>4, <2>3, <2>4 DEF Start, ListsOK, ShelfSorted
<1>5. ASSUME NEW c \in Children, MergeChild(c)
      PROVE  ListsOK'
  <2>1. CASE merge' = [merge EXCEPT !.todo = @ \ {c}]
    <3>1. merge' \in MergeRec /\ merge'.works = merge.works /\ merge'.series = merge.series
      BY <1>1, <2>1 DEF MergeRec
    <3> QED  BY <1>1, <1>5, <3>1, ListsFrame DEF MergeChild
  <2>2. CASE merge' = [merge EXCEPT !.todo = @ \ {c}, !.taken = @ \union {c},
                                    !.works = Take(@, c, Show(got[c]))]
    <3>1. Show(got[c]) \in Shown /\ Ascending(Ids(merge.works))
      BY <1>1, ShowType DEF ShelfSorted
    <3>2. /\ Take(merge.works, c, Show(got[c])) \in Seq(Shown)
          /\ Ascending(Ids(Take(merge.works, c, Show(got[c]))))
      BY <1>1, <3>1, TakeAscends
    <3>3. /\ merge' \in MergeRec /\ merge'.series = merge.series
          /\ merge'.works = Take(merge.works, c, Show(got[c]))
      BY <1>1, <2>2, <3>2 DEF MergeRec
    <3> QED  BY <1>1, <1>5, <3>2, <3>3 DEF MergeChild, ListsOK, ShelfSorted
  <2> QED  BY <1>5, <2>1, <2>2 DEF MergeChild
<1>6. CASE Derive
  <2> DEFINE count == [s \in Series |->
               Cardinality({i \in 1..Len(merge.works) : s \in merge.works[i].series})]
  <2>1. merge' = [merge EXCEPT !.pc = "series", !.works = Disambiguate(@),
                               !.fetching = count]
    BY <1>6 DEF Derive
  <2>2. count \in [Series -> Int]
    <3>1. ASSUME NEW s \in Series
          PROVE  Cardinality({i \in 1..Len(merge.works) : s \in merge.works[i].series}) \in Nat
      <4>1. Len(merge.works) \in Nat
        BY <1>1
      <4>2. IsFiniteSet(1..Len(merge.works))
        BY <4>1, FS_Interval
      <4>3. IsFiniteSet({i \in 1..Len(merge.works) : s \in merge.works[i].series})
        BY <4>2, FS_Subset
      <4> QED  BY <4>3, FS_CardinalityType
    <3> QED  BY <3>1
  <2>3. /\ Disambiguate(merge.works) \in Seq(Shown)
        /\ Ids(Disambiguate(merge.works)) = Ids(merge.works)
    BY <1>1, DisambiguateIds
  <2> HIDE DEF count
  <2>4. /\ merge' \in MergeRec /\ merge'.series = merge.series
        /\ merge'.works = Disambiguate(merge.works)
    BY <1>1, <2>1, <2>2, <2>3 DEF MergeRec
  <2> QED  BY <1>1, <1>6, <2>3, <2>4 DEF Derive, ListsOK, ShelfSorted
<1>7. ASSUME NEW s \in Series, SeriesDone(s)
      PROVE  ListsOK'
  <2>1. merge.fetching[s] - 1 \in Int /\ merge.fetching \in [Series -> Int]
    BY <1>1 DEF MergeRec
  <2>2. CASE merge' = [merge EXCEPT !.fetching[s] = @ - 1]
    <3>1. merge' \in MergeRec /\ merge'.works = merge.works /\ merge'.series = merge.series
      BY <1>1, <2>1, <2>2 DEF MergeRec
    <3> QED  BY <1>1, <1>7, <3>1, ListsFrame DEF SeriesDone
  <2>3. CASE merge' = [merge EXCEPT !.fetching[s] = @ - 1, !.series = AddSeries(@, s)]
    <3>1. AddSeries(merge.series, s) \in Seq(Series) /\ Ascending(AddSeries(merge.series, s))
      BY <1>1, AddSeriesAscends DEF ShelfSorted
    <3>2. /\ merge' \in MergeRec /\ merge'.works = merge.works
          /\ merge'.series = AddSeries(merge.series, s)
      BY <1>1, <2>1, <2>3, <3>1 DEF MergeRec
    <3> QED  BY <1>1, <1>7, <3>1, <3>2 DEF SeriesDone, ListsOK, ShelfSorted
  <2> QED  BY <1>7, <2>2, <2>3 DEF SeriesDone
<1>8. CASE \E s \in Series : RequestSeries(s) \/ LapseSeries(s)
  BY <1>1, <1>8, ListsFrame DEF RequestSeries, LapseSeries
<1>9. CASE Save
  <2>1. shelf' = [works |-> merge.works, series |-> merge.series, derived |-> TRUE]
        /\ merge' = NoMerge /\ got' = got
    BY <1>9 DEF Save
  <2>2. shelf' \in ShelfRec /\ shelf'.works = merge.works /\ shelf'.series = merge.series
    BY <1>1, <2>1 DEF ShelfRec
  <2>3. merge' \in MergeRec /\ merge'.works = <<>> /\ merge'.series = <<>>
    BY <2>1 DEF NoMerge, MergeRec
  <2>4. Ascending(Ids(merge'.works)) /\ Ascending(merge'.series)
    BY <2>3 DEF Ids, Ascending
  <2> QED  BY <1>1, <2>1, <2>2, <2>3, <2>4 DEF ListsOK, ShelfSorted
<1> QED  BY <1>2, <1>3, <1>4, <1>5, <1>6, <1>7, <1>8, <1>9 DEF Next

\* For any children, titles, series and changes upstream: the works, editions and series
\* of a parent are strictly ascending, in the cache and at every step of every merge, so
\* the binary searches find what is there and nothing is there twice.
THEOREM Sorted ==
    ASSUME DenormalizationAssumption
    PROVE  Spec => []ShelfSorted
<1>1. Init => ListsOK
  BY InitLists
<1>2. ListsOK /\ [Next]_vars => ListsOK'
  BY NextLists
<1>3. ListsOK => ShelfSorted
  BY DEF ListsOK
<1> QED  BY <1>1, <1>2, <1>3, PTL DEF Spec
-----------------------------------------------------------------------------
(***************************************************************************)
(* The type invariant.  It needs the lists: the goroutines of a series are *)
(* as many as works are in it, and no more than there are children, since  *)
(* no child is in an ascending list twice.                                 *)
(***************************************************************************)
\* Works of an ascending list, one for each child at most.
LEMMA OneWorkEach ==
    ASSUME DenormalizationAssumption, NEW works \in Seq(Shown), Ascending(Ids(works)),
           NEW some \in SUBSET (1..Len(works))
    PROVE  Cardinality(some) \in 0..Cardinality(Children)
<1> DEFINE f == [i \in some |-> works[i].id]
<1>1. /\ Len(works) \in Nat /\ \A i \in 1..Len(works) : works[i].id \in Children
      /\ IsFiniteSet(Children) /\ \A c \in Children : c \in Nat
  <2>1. Len(works) \in Nat /\ \A i \in 1..Len(works) : works[i] \in Shown
    OBVIOUS
  <2>2. \A work \in Shown : work.id \in Children
    BY DEF Shown
  <2>3. IsFiniteSet(Children) /\ \A c \in Children : c \in Nat
    BY DEF DenormalizationAssumption
  <2> QED  BY <2>1, <2>2, <2>3
<1>2. \A i, j \in 1..Len(works) : i < j => works[i].id < works[j].id
  <2>1. Len(Ids(works)) = Len(works) /\ \A i \in 1..Len(works) : Ids(works)[i] = works[i].id
    BY <1>1, IdsFacts
  <2> QED  BY <2>1 DEF Ascending
<1>3. ASSUME NEW i \in some, NEW j \in some, works[i].id = works[j].id
      PROVE  i = j
  <2>1. i \in 1..Len(works) /\ j \in 1..Len(works)
    OBVIOUS
  <2>2. ~(works[i].id < works[j].id) /\ ~(works[j].id < works[i].id)
    BY <1>1, <1>3, <2>1
  <2> QED  BY <1>1, <1>2, <2>1, <2>2
<1>4. f \in Injection(some, Children)
  BY <1>1, <1>3 DEF Injection, IsInjective
<1> HIDE DEF f
<1>5. IsFiniteSet(some) /\ Cardinality(some) <= Cardinality(Children)
  BY <1>1, <1>4, FS_Injection
<1>6. Cardinality(some) \in Nat /\ Cardinality(Children) \in Nat
  BY <1>1, <1>5, FS_CardinalityType
<1> QED  BY <1>5, <1>6

CountsOK == merge.fetching \in [Series -> 0..Cardinality(Children)]

\* No series has more goroutines than the works in it, and each ends once.
LEMMA NextCounts ==
    ASSUME DenormalizationAssumption, ListsOK, CountsOK, [Next]_vars
    PROVE  CountsOK'
<1>1. merge \in MergeRec /\ merge.works \in Seq(Shown) /\ Ascending(Ids(merge.works))
  BY DEF ListsOK, MergeRec, ShelfSorted
<1>2. Cardinality(Children) \in Nat
  BY FS_CardinalityType DEF DenormalizationAssumption
<1>3. NoMerge.fetching \in [Series -> 0..Cardinality(Children)]
  BY <1>2 DEF NoMerge
<1>4. CASE merge'.fetching = merge.fetching \/ merge'.fetching = NoMerge.fetching
  BY <1>3, <1>4 DEF CountsOK
<1>5. CASE Derive
  <2> DEFINE in(s) == {i \in 1..Len(merge.works) : s \in merge.works[i].series}
             count == [s \in Series |-> Cardinality(in(s))]
  <2>1. merge'.fetching = count
    BY <1>1, <1>5 DEF Derive, MergeRec
  <2>2. ASSUME NEW s \in Series
        PROVE  Cardinality(in(s)) \in 0..Cardinality(Children)
    <3>1. in(s) \in SUBSET (1..Len(merge.works))
      OBVIOUS
    <3> HIDE DEF in
    <3> QED  BY <1>1, <3>1, OneWorkEach
  <2>3. count \in [Series -> 0..Cardinality(Children)]
    <3> HIDE DEF in
    <3> QED  BY <2>2
  <2> QED  BY <2>1, <2>3 DEF CountsOK
<1>6. ASSUME NEW s \in Series, SeriesDone(s)
      PROVE  CountsOK'
  <2>1. merge.fetching[s] > 0 /\ merge.fetching[s] \in 0..Cardinality(Children)
    BY <1>6 DEF SeriesDone, CountsOK
  <2>2. merge'.fetching = [merge.fetching EXCEPT ![s] = @ - 1]
    BY <1>1, <1>6 DEF SeriesDone, MergeRec
  <2>3. merge.fetching[s] - 1 \in 0..Cardinality(Children)
    BY <1>2, <2>1
  <2> QED  BY <2>2, <2>3 DEF CountsOK
<1>7. ASSUME NEW c \in Children, Change(c) \/ MergeChild(c)
      PROVE  merge'.fetching = merge.fetching
  BY <1>1, <1>7 DEF Change, MergeChild, MergeRec
<1>8. ASSUME NEW edge, Start(edge)
      PROVE  merge'.fetching = NoMerge.fetching
  BY <1>8 DEF Start, NoMerge
<1>9. ASSUME UNCHANGED vars \/ \E s \in Series : RequestSeries(s) \/ LapseSeries(s)
      PROVE  merge'.fetching = merge.fetching
  BY <1>9 DEF vars, RequestSeries, LapseSeries
<1>10. CASE Save
  BY <1>4, <1>10 DEF Save
<1> QED  BY <1>4, <1>5, <1>6, <1>7, <1>8, <1>9, <1>10 DEF Next

\* What is not of the lists.
RestOK == /\ kind \in {"authorEdge", "workEdge"}
          /\ settled \in SUBSET Children
          /\ cached \in SUBSET Series
          /\ changes \in 0..MaxChanges
TypeInv == ListsOK /\ CountsOK /\ RestOK

LEMMA NextRest ==
    ASSUME DenormalizationAssumption, ListsOK, RestOK, [Next]_vars
    PROVE  RestOK'
<1>1. merge \in MergeRec /\ MaxChanges \in Nat
  BY DEF ListsOK, DenormalizationAssumption
<1>2. CASE UNCHANGED vars
  BY <1>2 DEF vars, RestOK
<1>3. CASE \E c \in Children : Change(c) \/ MergeChild(c)
  BY <1>1, <1>3 DEF Change, MergeChild, RestOK
<1>4. CASE Derive \/ \E edge \in SUBSET Children : Start(edge)
  BY <1>4 DEF Derive, Start, RestOK
<1>5. CASE \E s \in Series : SeriesDone(s) \/ RequestSeries(s) \/ LapseSeries(s)
  BY <1>1, <1>5 DEF SeriesDone, RequestSeries, LapseSeries, RestOK
<1>6. CASE Save
  BY <1>1, <1>6 DEF Save, RestOK, MergeRec
<1> QED  BY <1>2, <1>3, <1>4, <1>5, <1>6 DEF Next

LEMMA InitTypes == DenormalizationAssumption /\ Init => TypeInv
<1> SUFFICES ASSUME DenormalizationAssumption, Init PROVE TypeInv
  OBVIOUS
<1>1. Cardinality(Children) \in Nat
  BY FS_CardinalityType DEF DenormalizationAssumption
<1>2. CountsOK
  BY <1>1 DEF Init, NoMerge, CountsOK
<1>3. RestOK
  BY DEF Init, RestOK, DenormalizationAssumption
<1> QED  BY <1>2, <1>3, InitLists DEF TypeInv

LEMMA NextTypes == DenormalizationAssumption /\ TypeInv /\ [Next]_vars => TypeInv'
  BY NextLists, NextCounts, NextRest DEF TypeInv

LEMMA TypesHold == TypeInv => TypeOK
  BY DEF TypeInv, ListsOK, CountsOK, RestOK, MergeRec, ShelfRec, TypeOK

\* For any children, titles and series: the variables of denormalizeWorks and
\* denormalizeEditions have their types; no series has more goroutines that fetch it than
\* there are children, although one is started for every work in it.
THEOREM TypeCorrect ==
    ASSUME DenormalizationAssumption
    PROVE  Spec => []TypeOK
<1>1. Init => TypeInv
  BY InitTypes
<1>2. TypeInv /\ [Next]_vars => TypeInv'
  BY NextTypes
<1> QED  BY <1>1, <1>2, TypesHold, PTL DEF Spec
-----------------------------------------------------------------------------
(***************************************************************************)
(* Titles, and merging again.  What a merge makes of a list is what the    *)
(* last merge made of it, if it takes the same children: as long as one is *)
(* taken its full title is gone, and Disambiguate then gives it back to    *)
(* those that had it, because it looks at the same IDs and short titles.   *)
(***************************************************************************)
\* No two of these are returned under one ID.
OneEach(set, children) == \A b, c \in set : children[b].id = children[c].id => b = c

AllTold(works) == \A i \in 1..Len(works) : NeedsFull(works, i) => works[i].full

\* A child as it was returned; in full exactly if told and needed.
InList(works, child, told) ==
    \E i \in 1..Len(works) :
        /\ works[i].id = child.id
        /\ works[i].short = child.short
        /\ works[i].series = child.series
        /\ works[i].full <=> told /\ NeedsFull(works, i)

\* The same children, but for the titles.
Alike(works, old) ==
    /\ Len(works) = Len(old)
    /\ \A i \in 1..Len(works) : /\ works[i].id = old[i].id
                                /\ works[i].short = old[i].short
                                /\ works[i].series = old[i].series

TitlesInv ==
    /\ kind = "authorEdge" /\ shelf.derived => AllTold(shelf.works)
    /\ merge.pc = "series" => kind = "authorEdge" /\ AllTold(merge.works)

\* What the last merge took is in the parent, and what this one took is in the merge.
SettledInv ==
    OneEach(settled, got) =>
        \A c \in settled : InList(shelf.works, got[c], kind = "authorEdge")
TakenInv ==
    merge.pc # "idle" /\ OneEach(merge.taken, got) =>
        \A c \in merge.taken : InList(merge.works, got[c], merge.pc = "series")

\* A merge of what was settled has changed nothing yet but titles it will restore.
AgainInv ==
    /\ merge.pc # "idle" /\ shelf.derived
    /\ merge.taken \subseteq settled /\ OneEach(settled, got)
    => /\ Alike(merge.works, shelf.works)
       /\ \A i \in 1..Len(shelf.works) :
              merge.works[i].full <=>
                  /\ shelf.works[i].full
                  /\ merge.pc = "children" =>
                         \A c \in merge.taken : got[c].id # shelf.works[i].id

ContentInv == ListsOK /\ TitlesInv /\ SettledInv /\ TakenInv /\ AgainInv

\* In an ascending list an ID is in one place.
LEMMA OnePlaceEach ==
    ASSUME DenormalizationAssumption, NEW works \in Seq(Shown), Ascending(Ids(works)),
           NEW i \in 1..Len(works), NEW j \in 1..Len(works), works[i].id = works[j].id
    PROVE  i = j
<1>1. /\ Ids(works) \in Seq(Nat) /\ Len(Ids(works)) = Len(works)
      /\ Ids(works)[i] = works[i].id /\ Ids(works)[j] = works[j].id
  BY IdsFacts
<1>2. works[i].id \in Nat /\ i \in Nat /\ j \in Nat
  BY <1>1
<1>3. ~(i < j) /\ ~(j < i)
  BY <1>1, <1>2 DEF Ascending
<1> QED  BY <1>2, <1>3

\* What replacing or inserting a child leaves where (denormalizeWorks).
LEMMA TakeFacts ==
    ASSUME DenormalizationAssumption, NEW works \in Seq(Shown), Ascending(Ids(works)),
           NEW c, NEW child \in Shown, NEW new, new = Take(works, c, child)
    PROVE  /\ \E i \in 1..Len(new) : new[i] = child
           /\ \A i \in 1..Len(works) :
                works[i].id # child.id => \E j \in 1..Len(new) : new[j] = works[i]
           /\ (\E i \in 1..Len(works) : works[i].id = child.id) =>
                /\ Len(new) = Len(works)
                /\ \A i \in 1..Len(works) :
                     new[i] = IF works[i].id = child.id THEN child ELSE works[i]
<1> DEFINE p == Place(Ids(works), child.id)
<1>1. /\ Ids(works) \in Seq(Nat) /\ Len(Ids(works)) = Len(works) /\ Len(works) \in Nat
      /\ \A i \in 1..Len(works) : works[i] \in Shown /\ Ids(works)[i] = works[i].id
  BY IdsFacts
<1>2. child.id \in Nat
  BY DEF Shown, DenormalizationAssumption
<1>3. /\ p \in 1..(Len(works) + 1)
      /\ \A j \in 1..(p - 1) : Ids(works)[j] < child.id
      /\ \A j \in p..Len(works) : Ids(works)[j] >= child.id
  BY <1>1, <1>2, PlaceFacts
<1>4. CASE Found(Ids(works), child.id)
  <2>1. p \in 1..Len(works) /\ works[p].id = child.id
    BY <1>1, <1>3, <1>4 DEF Found
  <2>2. new = [works EXCEPT ![p] = child]
    BY <1>4 DEF Take
  <2> HIDE DEF p
  <2>3. /\ Len(new) = Len(works)
        /\ \A i \in 1..Len(works) : new[i] = IF i = p THEN child ELSE works[i]
    BY <2>1, <2>2
  <2>4. \A i \in 1..Len(works) : works[i].id = child.id <=> i = p
    BY <2>1, OnePlaceEach
  <2> QED  BY <2>1, <2>3, <2>4
<1>5. CASE ~Found(Ids(works), child.id)
  <2>1. \A i \in 1..Len(works) : works[i].id # child.id
    <3> SUFFICES ASSUME NEW i \in 1..Len(works), works[i].id = child.id PROVE FALSE
      OBVIOUS
    <3>1. ~(i \in 1..(p - 1))
      BY <1>1, <1>2, <1>3
    <3>2. p <= i /\ p \in 1..Len(works)
      BY <1>1, <1>3, <3>1
    <3>3. Ids(works)[p] <= Ids(works)[i]
      BY <1>1, <3>2 DEF Ascending
    <3>4. Ids(works)[p] >= child.id /\ Ids(works)[p] \in Nat
      BY <1>1, <1>3, <3>2
    <3>5. Ids(works)[p] = child.id
      BY <1>1, <1>2, <3>3, <3>4
    <3> QED  BY <1>1, <1>5, <3>2, <3>5 DEF Found
  <2>2. new = InsertPlace(works, p, child)
    BY <1>5 DEF Take
  <2> HIDE DEF p
  <2>3. Len(new) = Len(works) + 1
    BY <1>3, <2>2, InsertFacts
  <2>4. \A j \in 1..(Len(works) + 1) :
          new[j] = IF j < p THEN works[j] ELSE IF j = p THEN child ELSE works[j - 1]
    BY <2>2 DEF InsertPlace
  <2>5. p \in 1..Len(new) /\ new[p] = child
    BY <1>1, <1>3, <2>3, <2>4
  <2>6. ASSUME NEW i \in 1..Len(works)
        PROVE  \E j \in 1..Len(new) : new[j] = works[i]
    <3>1. CASE i < p
      BY <1>1, <2>3, <2>4, <3>1
    <3>2. CASE ~(i < p)
      <4>1. i + 1 \in 1..(Len(works) + 1) /\ ~(i + 1 < p) /\ i + 1 # p /\ (i + 1) - 1 = i
        BY <1>1, <1>3, <3>2
      <4> QED  BY <2>3, <2>4, <4>1
    <3> QED  BY <3>1, <3>2
  <2> QED  BY <2>1, <2>5, <2>6
<1> QED  BY <1>4, <1>5

\* Which titles are shared does not depend on what is shown in full.
LEMMA AlikeNeeds ==
    ASSUME NEW works, NEW old, Alike(works, old), NEW i \in 1..Len(works)
    PROVE  NeedsFull(works, i) <=> NeedsFull(old, i)
<1>1. Len(works) = Len(old) /\ i \in 1..Len(old)
  BY DEF Alike
<1>2. Shared(works, i) <=> Shared(old, i)
  BY <1>1 DEF Shared, Alike
<1> QED  BY <1>1, <1>2 DEF NeedsFull, Alike

\* What is shown in full afterwards: what was before, and what needs to be.
LEMMA DisambiguateFacts ==
    ASSUME NEW works \in Seq(Shown), NEW new, new = Disambiguate(works)
    PROVE  /\ Alike(new, works)
           /\ \A i \in 1..Len(works) :
                /\ new[i].full <=> works[i].full \/ NeedsFull(works, i)
                /\ NeedsFull(new, i) <=> NeedsFull(works, i)
           /\ AllTold(new)
<1>1. Len(works) \in Nat /\ \A i \in 1..Len(works) : works[i] \in Shown
  OBVIOUS
<1>2. new \in Seq(Shown) /\ Len(new) = Len(works)
  <2>1. new \in Seq(Shown)
    BY DisambiguateIds
  <2>2. DOMAIN new = 1..Len(works)
    BY DEF Disambiguate
  <2> QED  BY <1>1, <2>1, <2>2
<1>3. ASSUME NEW i \in 1..Len(works)
      PROVE  /\ new[i].id = works[i].id /\ new[i].short = works[i].short
             /\ new[i].series = works[i].series
             /\ new[i].full <=> works[i].full \/ NeedsFull(works, i)
  <2> DEFINE full == works[i].full \/ NeedsFull(works, i)
             work == works[i]
  <2>1. new[i] = [work EXCEPT !.full = full]
    BY DEF Disambiguate
  <2>2. work \in Shown
    BY <1>1
  <2> HIDE DEF work
  <2>3. CASE full
    <3>1. full = TRUE
      BY <2>3
    <3>2. new[i] = [work EXCEPT !.full = TRUE]
      BY <2>1, <3>1
    <3> HIDE DEF full
    <3>3. /\ new[i].id = work.id /\ new[i].short = work.short /\ new[i].series = work.series
          /\ new[i].full = TRUE
      BY <2>2, <3>2 DEF Shown
    <3> QED  BY <2>3, <3>3 DEF work, full
  <2>4. CASE ~full
    <3>1. full = FALSE
      BY <2>4
    <3>2. new[i] = [work EXCEPT !.full = FALSE]
      BY <2>1, <3>1
    <3> HIDE DEF full
    <3>3. /\ new[i].id = work.id /\ new[i].short = work.short /\ new[i].series = work.series
          /\ new[i].full = FALSE
      BY <2>2, <3>2 DEF Shown
    <3> QED  BY <2>4, <3>3 DEF work, full
  <2> QED  BY <2>3, <2>4
<1>4. Alike(new, works)
  BY <1>2, <1>3 DEF Alike
<1>5. \A i \in 1..Len(works) : NeedsFull(new, i) <=> NeedsFull(works, i)
  BY <1>2, <1>4, AlikeNeeds
<1>6. AllTold(new)
  BY <1>2, <1>3, <1>5 DEF AllTold
<1> QED  BY <1>3, <1>4, <1>5, <1>6

\* A series that has what another has is the other, if both are ascending.
LEMMA SameUpTo ==
    ASSUME NEW s \in Seq(Nat), NEW t \in Seq(Nat), Ascending(s), Ascending(t),
           \A i \in 1..Len(s) : \E j \in 1..Len(t) : t[j] = s[i],
           NEW k \in 1..Len(s), \A j \in 1..(k - 1) : j \in 1..Len(t) /\ s[j] = t[j]
    PROVE  k \in 1..Len(t) /\ t[k] <= s[k]
<1>1. PICK j \in 1..Len(t) : t[j] = s[k]
  OBVIOUS
<1>2. ~(j < k)
  <2> SUFFICES ASSUME j < k PROVE FALSE
    OBVIOUS
  <2>1. j \in 1..(k - 1) /\ s[j] = t[j] /\ j \in 1..Len(s)
    OBVIOUS
  <2>2. s[j] < s[k]
    BY <2>1 DEF Ascending
  <2> QED  BY <1>1, <2>1, <2>2
<1>3. k \in 1..Len(t) /\ (k = j \/ k < j)
  BY <1>2
<1>4. t[k] \in Nat /\ t[j] \in Nat
  BY <1>3
<1> QED  BY <1>1, <1>3, <1>4 DEF Ascending

LEMMA SameElements ==
    ASSUME NEW s \in Seq(Nat), NEW t \in Seq(Nat), Ascending(s), Ascending(t),
           {s[i] : i \in 1..Len(s)} = {t[i] : i \in 1..Len(t)}
    PROVE  s = t
<1>1. /\ Len(s) \in Nat /\ \A i \in 1..Len(s) : s[i] \in Nat
      /\ Len(t) \in Nat /\ \A i \in 1..Len(t) : t[i] \in Nat
  OBVIOUS
<1>2. /\ \A i \in 1..Len(s) : \E j \in 1..Len(t) : t[j] = s[i]
      /\ \A i \in 1..Len(t) : \E j \in 1..Len(s) : s[j] = t[i]
  <2>1. ASSUME NEW i \in 1..Len(s)
        PROVE  \E j \in 1..Len(t) : t[j] = s[i]
    <3>1. s[i] \in {s[l] : l \in 1..Len(s)}
      OBVIOUS
    <3> QED  BY <3>1
  <2>2. ASSUME NEW i \in 1..Len(t)
        PROVE  \E j \in 1..Len(s) : s[j] = t[i]
    <3>1. t[i] \in {t[l] : l \in 1..Len(t)}
      OBVIOUS
    <3> QED  BY <3>1
  <2> QED  BY <2>1, <2>2
<1> DEFINE Differ == {i \in 1..Len(s) : ~(i \in 1..Len(t) /\ s[i] = t[i])}
<1>3. Differ = {}
  <2> SUFFICES ASSUME Differ # {} PROVE FALSE
    OBVIOUS
  <2>1. Differ \in SUBSET Nat
    OBVIOUS
  <2>2. PICK k \in Differ : \A i \in Differ : k <= i
    BY <2>1, LeastNumber
  <2>3. k \in 1..Len(s) /\ \A j \in 1..(k - 1) : j \in 1..Len(t) /\ s[j] = t[j] /\ j \in 1..Len(s)
    BY <1>1, <2>2
  <2>4. k \in 1..Len(t) /\ t[k] <= s[k]
    BY <1>2, <2>3, SameUpTo
  <2>5. s[k] <= t[k]
    BY <1>2, <2>3, <2>4, SameUpTo
  <2> QED  BY <1>1, <2>2, <2>3, <2>4, <2>5
<1>4. \A i \in 1..Len(s) : i \in 1..Len(t) /\ s[i] = t[i]
  BY <1>3
<1>5. ~(Len(s) < Len(t))
  <2> SUFFICES ASSUME Len(s) < Len(t) PROVE FALSE
    OBVIOUS
  <2>1. /\ Len(s) + 1 \in 1..Len(t)
        /\ \A j \in 1..((Len(s) + 1) - 1) : j \in 1..Len(s) /\ t[j] = s[j]
    BY <1>1, <1>4
  <2>2. Len(s) + 1 \in 1..Len(s)
    BY <1>2, <2>1, SameUpTo
  <2> QED  BY <1>1, <2>2
<1>6. Len(s) = Len(t)
  <2>1. CASE Len(s) = 0
    BY <1>1, <1>5, <2>1
  <2>2. CASE Len(s) # 0
    <3>1. Len(s) \in 1..Len(s)
      BY <1>1, <2>2
    <3>2. Len(s) \in 1..Len(t)
      BY <1>4, <3>1
    <3> QED  BY <1>1, <1>5, <3>2
  <2> QED  BY <2>1, <2>2
<1> QED  BY <1>4, <1>6

LEMMA SameSeries ==
    ASSUME DenormalizationAssumption, NEW s \in Seq(Series), NEW t \in Seq(Series),
           Ascending(s), Ascending(t),
           {s[i] : i \in 1..Len(s)} = {t[i] : i \in 1..Len(t)}
    PROVE  s = t
<1>1. ASSUME NEW u \in Seq(Series)
      PROVE  u \in Seq(Nat)
  <2>1. /\ Len(u) \in Nat /\ u \in [1..Len(u) -> Series]
        /\ \A x \in Series : x \in Nat
    BY DEF DenormalizationAssumption
  <2>2. u \in [1..Len(u) -> Nat]
    BY <2>1
  <2> QED  BY <2>1, <2>2
<1>2. s \in Seq(Nat) /\ t \in Seq(Nat)
  BY <1>1
<1> QED  BY <1>2, SameElements

\* The steps that change neither the children of the merge nor those of the parent.
LEMMA ContentFrame ==
    ASSUME ContentInv, ListsOK', kind' = kind, got' = got, shelf' = shelf, settled' = settled,
           merge'.pc = merge.pc, merge'.taken = merge.taken, merge'.works = merge.works
    PROVE  ContentInv'
  BY DEF ContentInv, TitlesInv, SettledInv, TakenInv, AgainInv

\* Outside of merges only what was settled matters.
LEMMA ChangeContent ==
    ASSUME ContentInv, ListsOK', NEW c \in Children, Change(c)
    PROVE  ContentInv'
<1>1. settled' = {} /\ merge' = merge /\ merge.pc = "idle" /\ shelf' = shelf /\ kind' = kind
  BY DEF Change
<1> QED  BY <1>1 DEF ContentInv, TitlesInv, SettledInv, TakenInv, AgainInv

LEMMA StartContent ==
    ASSUME ContentInv, ListsOK', NEW edge \in SUBSET Children, Start(edge)
    PROVE  ContentInv'
<1>1. /\ merge' = [NoMerge EXCEPT !.pc = "children", !.todo = edge, !.works = shelf.works]
      /\ kind' = kind /\ got' = got /\ shelf' = shelf /\ settled' = settled
  BY DEF Start
<1>2. merge'.pc = "children" /\ merge'.taken = {} /\ merge'.works = shelf.works
  BY <1>1 DEF NoMerge
<1>3. Alike(shelf.works, shelf.works)
  BY DEF Alike
<1>4. TitlesInv' /\ SettledInv' /\ TakenInv'
  BY <1>1, <1>2 DEF ContentInv, TitlesInv, SettledInv, TakenInv
<1>5. AgainInv'
  BY <1>1, <1>2, <1>3 DEF AgainInv
<1> QED  BY <1>4, <1>5 DEF ContentInv

\* What a child is where it was taken is what upstream returned, not shown in full.
LEMMA ShowFacts ==
    ASSUME NEW child
    PROVE  /\ Show(child).id = child.id /\ Show(child).short = child.short
           /\ Show(child).series = child.series /\ Show(child).full = FALSE
  BY DEF Show

LEMMA MergeChildContent ==
    ASSUME DenormalizationAssumption, ContentInv, ListsOK', NEW c \in Children, MergeChild(c)
    PROVE  ContentInv'
<1>1. /\ merge.pc = "children"
      /\ kind' = kind /\ got' = got /\ shelf' = shelf /\ settled' = settled
      /\ merge \in MergeRec /\ merge.works \in Seq(Shown) /\ Ascending(Ids(merge.works))
      /\ got \in [Children -> Child] /\ shelf.works \in Seq(Shown)
      /\ Ascending(Ids(shelf.works))
  BY DEF MergeChild, ContentInv, ListsOK, MergeRec, ShelfRec, ShelfSorted
<1>2. CASE merge' = [merge EXCEPT !.todo = @ \ {c}]
  <2>1. /\ merge'.pc = merge.pc /\ merge'.taken = merge.taken /\ merge'.works = merge.works
    BY <1>1, <1>2 DEF MergeRec
  <2> QED  BY <1>1, <2>1, ContentFrame
<1>3. CASE merge' = [merge EXCEPT !.todo = @ \ {c}, !.taken = @ \union {c},
                                  !.works = Take(@, c, Show(got[c]))]
  <2> DEFINE child == Show(got[c])
             works == merge.works
             new == Take(works, c, child)
  <2>1. merge'.pc = "children" /\ merge'.taken = merge.taken \union {c} /\ merge'.works = new
    BY <1>1, <1>3 DEF MergeRec
  <2>2. child \in Shown
    BY <1>1, ShowType
  <2>3. /\ child.id = got[c].id /\ child.short = got[c].short
        /\ child.series = got[c].series /\ child.full = FALSE
    BY ShowFacts
  <2>4. /\ \E i \in 1..Len(new) : new[i] = child
        /\ \A i \in 1..Len(works) :
             works[i].id # child.id => \E j \in 1..Len(new) : new[j] = works[i]
        /\ (\E i \in 1..Len(works) : works[i].id = child.id) =>
             /\ Len(new) = Len(works)
             /\ \A i \in 1..Len(works) :
                  new[i] = IF works[i].id = child.id THEN child ELSE works[i]
    <3> HIDE DEF child, works
    <3>1. works \in Seq(Shown) /\ Ascending(Ids(works))
      BY <1>1 DEF works
    <3> QED  BY <2>2, <3>1, TakeFacts
  <2> HIDE DEF child, new
  <2>5. TakenInv'
    <3> SUFFICES ASSUME OneEach(merge.taken \union {c}, got), NEW b \in merge.taken \union {c}
                 PROVE  InList(new, got[b], FALSE)
      BY <1>1, <2>1 DEF TakenInv
    <3>1. CASE b = c
      BY <2>3, <2>4, <3>1 DEF InList
    <3>2. CASE b # c
      <4>1. b \in merge.taken /\ OneEach(merge.taken, got) /\ got[b].id # got[c].id
        BY <3>2 DEF OneEach
      <4>2. InList(works, got[b], FALSE)
        BY <1>1, <4>1 DEF ContentInv, TakenInv
      <4>3. PICK i \in 1..Len(works) :
              /\ works[i].id = got[b].id /\ works[i].short = got[b].short
              /\ works[i].series = got[b].series /\ ~works[i].full
        BY <4>2 DEF InList
      <4>4. PICK j \in 1..Len(new) : new[j] = works[i]
        BY <2>3, <2>4, <4>1, <4>3
      <4> QED  BY <4>3, <4>4 DEF InList
    <3> QED  BY <3>1, <3>2
  <2>6. AgainInv'
    <3> DEFINE old == shelf.works
    <3> SUFFICES ASSUME shelf.derived, merge.taken \union {c} \subseteq settled,
                        OneEach(settled, got)
                 PROVE  /\ Alike(new, old)
                        /\ \A i \in 1..Len(old) :
                             new[i].full <=> /\ old[i].full
                                             /\ \A b \in merge.taken \union {c} :
                                                  got[b].id # old[i].id
      BY <1>1, <2>1 DEF AgainInv
    <3>1. /\ Alike(works, old)
          /\ \A i \in 1..Len(old) :
               works[i].full <=> /\ old[i].full
                                 /\ \A b \in merge.taken : got[b].id # old[i].id
      BY <1>1 DEF ContentInv, AgainInv
    <3>2. PICK k \in 1..Len(old) :
            old[k].id = got[c].id /\ old[k].short = got[c].short /\ old[k].series = got[c].series
      BY DEF ContentInv, SettledInv, InList
    <3>3. \A i \in 1..Len(old) : old[i].id = got[c].id => i = k
      BY <1>1, <3>2, OnePlaceEach
    <3>4. /\ Len(new) = Len(old)
          /\ \A i \in 1..Len(old) : new[i] = IF works[i].id = child.id THEN child ELSE works[i]
      BY <2>3, <2>4, <3>1, <3>2 DEF Alike
    <3>5. Len(works) = Len(old)
      BY <3>1 DEF Alike
    <3>6. ASSUME NEW i \in 1..Len(old)
          PROVE  /\ new[i].id = old[i].id /\ new[i].short = old[i].short
                 /\ new[i].series = old[i].series
                 /\ new[i].full <=> /\ old[i].full
                                    /\ \A b \in merge.taken \union {c} : got[b].id # old[i].id
      <4>1. works[i].id = old[i].id /\ works[i].short = old[i].short /\ works[i].series = old[i].series
        BY <3>1, <3>5 DEF Alike
      <4>2. CASE old[i].id = got[c].id
        <5>1. i = k /\ new[i] = child
          BY <2>3, <3>3, <3>4, <4>1, <4>2
        <5> QED  BY <2>3, <3>2, <4>2, <5>1
      <4>3. CASE old[i].id # got[c].id
        <5>1. new[i] = works[i]
          BY <2>3, <3>4, <4>1, <4>3
        <5> QED  BY <3>1, <4>1, <4>3, <5>1
      <4> QED  BY <4>2, <4>3
    <3> QED  BY <3>4, <3>6 DEF Alike
  <2>7. TitlesInv' /\ SettledInv'
    BY <1>1, <2>1 DEF ContentInv, TitlesInv, SettledInv
  <2> QED  BY <2>5, <2>6, <2>7 DEF ContentInv
<1> QED  BY <1>2, <1>3 DEF MergeChild

LEMMA DeriveContent ==
    ASSUME DenormalizationAssumption, ContentInv, ListsOK', Derive
    PROVE  ContentInv'
<1> DEFINE old == shelf.works
           works == merge.works
           new == Disambiguate(works)
<1>1. /\ merge.pc = "children" /\ kind = "authorEdge"
      /\ kind' = kind /\ got' = got /\ shelf' = shelf /\ settled' = settled
      /\ merge \in MergeRec /\ works \in Seq(Shown) /\ Ascending(Ids(works))
      /\ got \in [Children -> Child] /\ old \in Seq(Shown) /\ Ascending(Ids(old))
  BY DEF Derive, ContentInv, ListsOK, MergeRec, ShelfRec, ShelfSorted
<1>2. merge'.pc = "series" /\ merge'.taken = merge.taken /\ merge'.works = new
  BY <1>1 DEF Derive, MergeRec
<1>3. /\ Alike(new, works)
      /\ \A i \in 1..Len(works) : /\ new[i].full <=> works[i].full \/ NeedsFull(works, i)
                                  /\ NeedsFull(new, i) <=> NeedsFull(works, i)
      /\ AllTold(new)
  <2> HIDE DEF works
  <2> QED  BY <1>1, DisambiguateFacts
<1> HIDE DEF new
<1>4. TitlesInv' /\ SettledInv'
  BY <1>1, <1>2, <1>3 DEF ContentInv, TitlesInv, SettledInv
<1>5. TakenInv'
  <2> SUFFICES ASSUME OneEach(merge.taken, got), NEW c \in merge.taken
               PROVE  InList(new, got[c], TRUE)
    BY <1>1, <1>2 DEF TakenInv
  <2>1. InList(works, got[c], FALSE)
    BY <1>1 DEF ContentInv, TakenInv
  <2>2. PICK i \in 1..Len(works) :
          /\ works[i].id = got[c].id /\ works[i].short = got[c].short
          /\ works[i].series = got[c].series /\ ~works[i].full
    BY <2>1 DEF InList
  <2>3. /\ i \in 1..Len(new) /\ new[i].id = got[c].id /\ new[i].short = got[c].short
        /\ new[i].series = got[c].series /\ (new[i].full <=> NeedsFull(new, i))
    BY <1>3, <2>2 DEF Alike
  <2> QED  BY <2>3 DEF InList
<1>6. AgainInv'
  <2> SUFFICES ASSUME shelf.derived, merge.taken \subseteq settled, OneEach(settled, got)
               PROVE  /\ Alike(new, old)
                      /\ \A i \in 1..Len(old) : new[i].full <=> old[i].full
    BY <1>1, <1>2 DEF AgainInv
  <2>1. /\ Alike(works, old)
        /\ \A i \in 1..Len(old) :
             works[i].full <=> old[i].full /\ \A c \in merge.taken : got[c].id # old[i].id
    BY <1>1 DEF ContentInv, AgainInv
  <2>2. Len(works) = Len(old)
    BY <2>1 DEF Alike
  <2>3. AllTold(old)
    BY <1>1 DEF ContentInv, TitlesInv
  <2>4. ASSUME NEW i \in 1..Len(old)
        PROVE  new[i].full <=> old[i].full
    <3>1. NeedsFull(works, i) <=> NeedsFull(old, i)
      BY <2>1, <2>2, AlikeNeeds
    <3>2. CASE \A c \in merge.taken : got[c].id # old[i].id
      BY <1>3, <2>1, <2>2, <2>3, <3>1, <3>2 DEF AllTold
    <3>3. CASE \E c \in merge.taken : got[c].id = old[i].id
      <4>1. PICK c \in merge.taken : got[c].id = old[i].id
        BY <3>3
      <4>2. InList(old, got[c], TRUE)
        BY <1>1 DEF ContentInv, SettledInv
      <4>3. PICK k \in 1..Len(old) : old[k].id = got[c].id /\ (old[k].full <=> NeedsFull(old, k))
        BY <4>2 DEF InList
      <4>4. k = i
        BY <1>1, <4>1, <4>3, OnePlaceEach
      <4> QED  BY <1>3, <2>1, <2>2, <3>1, <3>3, <4>3, <4>4
    <3> QED  BY <3>2, <3>3
  <2>5. Alike(new, old)
    BY <1>3, <2>1 DEF Alike
  <2> QED  BY <2>4, <2>5
<1> QED  BY <1>4, <1>5, <1>6 DEF ContentInv

LEMMA SaveContent ==
    ASSUME ContentInv, ListsOK', Save
    PROVE  ContentInv'
<1>1. /\ shelf' = [works |-> merge.works, series |-> merge.series, derived |-> TRUE]
      /\ settled' = merge.taken /\ merge' = NoMerge /\ kind' = kind /\ got' = got
      /\ merge.pc \in {"children", "series"}
      /\ merge.pc = "children" => kind = "workEdge"
  BY DEF Save
<1>2. shelf'.works = merge.works /\ merge'.pc = "idle"
  BY <1>1 DEF NoMerge
<1>3. merge.pc = "series" <=> kind = "authorEdge"
  BY <1>1 DEF ContentInv, TitlesInv
<1>4. TitlesInv'
  BY <1>1, <1>2, <1>3 DEF ContentInv, TitlesInv
<1>5. SettledInv'
  <2>1. CASE kind = "authorEdge"
    BY <1>1, <1>2, <1>3, <2>1 DEF ContentInv, TakenInv, SettledInv
  <2>2. CASE kind # "authorEdge"
    <3>1. merge.pc = "children"
      BY <1>1, <1>3, <2>2
    <3>2. OneEach(merge.taken, got) => \A c \in merge.taken : InList(merge.works, got[c], FALSE)
      BY <3>1 DEF ContentInv, TakenInv
    <3> QED  BY <1>1, <1>2, <2>2, <3>2 DEF SettledInv
  <2> QED  BY <2>1, <2>2
<1>6. TakenInv' /\ AgainInv'
  BY <1>2 DEF TakenInv, AgainInv
<1> QED  BY <1>4, <1>5, <1>6 DEF ContentInv

LEMMA InitContent == DenormalizationAssumption /\ Init => ContentInv
<1> SUFFICES ASSUME DenormalizationAssumption, Init
             PROVE  ContentInv
  OBVIOUS
<1>1. ListsOK
  BY InitLists
<1>2. merge.pc = "idle" /\ settled = {}
  BY DEF Init, NoMerge
<1>3. ~shelf.derived
  BY DEF Init
<1> QED  BY <1>1, <1>2, <1>3 DEF ContentInv, TitlesInv, SettledInv, TakenInv, AgainInv

LEMMA NextContent == DenormalizationAssumption /\ ContentInv /\ [Next]_vars => ContentInv'
<1> SUFFICES ASSUME DenormalizationAssumption, ContentInv, [Next]_vars
             PROVE  ContentInv'
  OBVIOUS
<1>1. ListsOK' /\ merge \in MergeRec
  BY NextLists DEF ContentInv, ListsOK
<1>2. CASE UNCHANGED vars
  BY <1>1, <1>2, ContentFrame DEF vars
<1>3. ASSUME NEW s \in Series, SeriesDone(s)
      PROVE  ContentInv'
  <2>1. /\ kind' = kind /\ got' = got /\ shelf' = shelf /\ settled' = settled
        /\ merge'.pc = merge.pc /\ merge'.taken = merge.taken /\ merge'.works = merge.works
    BY <1>1, <1>3 DEF SeriesDone, MergeRec
  <2> QED  BY <1>1, <2>1, ContentFrame
<1>4. CASE \E s \in Series : RequestSeries(s) \/ LapseSeries(s)
  BY <1>1, <1>4, ContentFrame DEF RequestSeries, LapseSeries
<1> QED  BY <1>1, <1>2, <1>3, <1>4, ChangeContent, StartContent, MergeChildContent,
            DeriveContent, SaveContent DEF Next

\* For any children, titles and series: after every merge of an author, a work that shares
\* its short title with another, or is in a series, is shown in full.
THEOREM Told ==
    ASSUME DenormalizationAssumption
    PROVE  Spec => []TitlesTold
<1>1. Init => ContentInv
  BY InitContent
<1>2. ContentInv /\ [Next]_vars => ContentInv'
  BY NextContent
<1>3. ContentInv => TitlesTold
  BY DEF ContentInv, TitlesInv, AllTold, TitlesTold, NeedsFull, Shared
<1> QED  BY <1>1, <1>2, <1>3, PTL DEF Spec

\* A merge ends with a Save, and what it saves of what was settled is what was there.
LEMMA SaveAgain ==
    ASSUME DenormalizationAssumption, ContentInv, Save, SameAgain
    PROVE  shelf'.works = shelf.works /\ shelf'.series = shelf.series
<1> DEFINE old == shelf.works
           works == merge.works
<1>1. /\ shelf'.works = works /\ shelf'.series = merge.series
      /\ merge.pc \in {"children", "series"}
      /\ merge.pc = "children" => kind = "workEdge"
  BY DEF Save
<1>2. /\ works \in Seq(Shown) /\ merge.series \in Seq(Series)
      /\ old \in Seq(Shown) /\ shelf.series \in Seq(Series) /\ Ascending(Ids(old))
      /\ Ascending(merge.series) /\ Ascending(shelf.series)
  BY DEF ContentInv, ListsOK, MergeRec, ShelfRec, ShelfSorted
<1>3. shelf.series = merge.series
  BY <1>2, SameSeries DEF SameAgain
<1>4. shelf.derived /\ merge.taken \subseteq settled /\ OneEach(settled, got)
  BY DEF SameAgain, OneEach
<1>5. /\ Alike(works, old)
      /\ \A i \in 1..Len(old) :
           works[i].full <=> /\ old[i].full
                             /\ merge.pc = "children" =>
                                  \A c \in merge.taken : got[c].id # old[i].id
  BY <1>1, <1>4 DEF ContentInv, AgainInv
<1>6. Len(works) = Len(old)
  BY <1>5 DEF Alike
<1>7. ASSUME NEW i \in 1..Len(old)
      PROVE  works[i] = old[i]
  <2>1. works[i].full <=> old[i].full
    <3>1. CASE merge.pc = "series"
      BY <1>5, <3>1
    <3>2. CASE merge.pc = "children" /\ \E c \in merge.taken : got[c].id = old[i].id
      <4>1. PICK c \in merge.taken : got[c].id = old[i].id
        BY <3>2
      <4>2. InList(old, got[c], FALSE)
        BY <1>1, <1>4, <3>2 DEF ContentInv, SettledInv
      <4>3. PICK k \in 1..Len(old) : old[k].id = got[c].id /\ ~old[k].full
        BY <4>2 DEF InList
      <4>4. k = i
        BY <1>2, <4>1, <4>3, OnePlaceEach
      <4> QED  BY <1>5, <3>2, <4>3, <4>4
    <3>3. CASE merge.pc = "children" /\ ~\E c \in merge.taken : got[c].id = old[i].id
      BY <1>5, <3>3
    <3> QED  BY <1>1, <3>1, <3>2, <3>3
  <2>2. /\ works[i].id = old[i].id /\ works[i].short = old[i].short
        /\ works[i].series = old[i].series /\ works[i] \in Shown /\ old[i] \in Shown
    BY <1>2, <1>5, <1>6 DEF Alike
  <2> DEFINE new == works[i]
             was == old[i]
  <2>3. /\ new \in Shown /\ was \in Shown /\ (new.full <=> was.full)
        /\ new.id = was.id /\ new.short = was.short /\ new.series = was.series
    BY <2>1, <2>2
  <2> HIDE DEF new, was
  <2>4. new = was
    BY <2>3 DEF Shown
  <2> QED  BY <2>4 DEF new, was
<1>8. works = old
  BY <1>2, <1>6, <1>7
<1> QED  BY <1>1, <1>3, <1>8

LEMMA AgainStep ==
    ASSUME DenormalizationAssumption, ContentInv, [Next]_vars
    PROVE  MergeIsStableStep
<1> SUFFICES ASSUME SameAgain
             PROVE  shelf'.works = shelf.works /\ shelf'.series = shelf.series
  BY DEF MergeIsStableStep
<1>1. CASE Save
  BY <1>1, SaveAgain
<1>2. CASE ~Save
  <2>1. ASSUME NEW c \in Children, Change(c) \/ MergeChild(c)
        PROVE  shelf' = shelf
    BY <2>1 DEF Change, MergeChild
  <2>2. ASSUME NEW s \in Series, SeriesDone(s) \/ RequestSeries(s) \/ LapseSeries(s)
        PROVE  shelf' = shelf
    BY <2>2 DEF SeriesDone, RequestSeries, LapseSeries
  <2>3. ASSUME NEW edge \in SUBSET Children, Start(edge)
        PROVE  shelf' = shelf
    BY <2>3 DEF Start
  <2>4. Derive \/ UNCHANGED vars => shelf' = shelf
    BY DEF Derive, vars
  <2>5. shelf' = shelf
    BY <1>2, <2>1, <2>2, <2>3, <2>4 DEF Next
  <2> QED  BY <2>5
<1> QED  BY <1>1, <1>2

\* For any children, titles and series, and in whatever order goroutines end: a merge of
\* children that were merged last, unchanged upstream, leaves the parent as it is, so that
\* the ETag comparison ends what would otherwise be written for ever.
THEOREM Stable ==
    ASSUME DenormalizationAssumption
    PROVE  Spec => MergeIsStable
<1>1. Init => ContentInv
  BY InitContent
<1>2. ContentInv /\ [Next]_vars => ContentInv'
  BY NextContent
<1>3. ContentInv /\ [Next]_vars => [MergeIsStableStep]_vars
  BY AgainStep
<1> QED  BY <1>1, <1>2, <1>3, PTL DEF Spec, MergeIsStable
=============================================================================
