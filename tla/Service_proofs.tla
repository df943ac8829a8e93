--------------------------- MODULE Service_proofs ---------------------------
(***************************************************************************)
(* What is proved of the parts, as theorems of the service they make up.   *)
(*                                                                         *)
(* Service and Denormalization_proofs each have an instance of the same    *)
(* module, with the same constants and variables.  The first lemmas say    *)
(* that what the two call by the same name is the same, operator by        *)
(* operator and action by action.  A step of the service is then one of    *)
(* Denormalization, or leaves its state alone, and the invariants proved   *)
(* there carry over.                                                       *)
(*                                                                         *)
(* The getters and the requests are proved about here.  What they gather   *)
(* is a fold over a list of any length, so the lemmas on folds come before *)
(* the proofs that need them.                                              *)
(***************************************************************************)
EXTENDS Service, SequenceTheorems, FiniteSetTheorems, TLAPS

DP == INSTANCE Denormalization_proofs

\* The initial states, the operators and the actions of the two instances are the same.
LEMMA SameInit == D!Init => DP!Init
  BY DEF D!Init, DP!Init, D!Show, DP!Show, D!NoMerge, DP!NoMerge

LEMMA SameIds ==
    ASSUME NEW w
    PROVE  D!Ids(w) = DP!Ids(w)
  BY DEF D!Ids, DP!Ids

LEMMA SamePlace ==
    ASSUME NEW w, NEW x
    PROVE  D!Place(w, x) = DP!Place(w, x)
  BY Zenon DEF D!Place, DP!Place

LEMMA SameFound ==
    ASSUME NEW w, NEW x
    PROVE  D!Found(w, x) = DP!Found(w, x)
  BY SamePlace, Zenon DEF D!Found, DP!Found

LEMMA SameInsert ==
    ASSUME NEW w, NEW i, NEW x
    PROVE  D!InsertPlace(w, i, x) = DP!InsertPlace(w, i, x)
  BY Zenon DEF D!InsertPlace, DP!InsertPlace

LEMMA SameTake ==
    ASSUME NEW w, NEW c, NEW x
    PROVE  D!Take(w, c, x) = DP!Take(w, c, x)
  BY SameIds, SamePlace, SameFound, SameInsert, Zenon DEF D!Take, DP!Take

LEMMA SameShow ==
    ASSUME NEW x
    PROVE  D!Show(x) = DP!Show(x)
  BY Zenon DEF D!Show, DP!Show

LEMMA SameNoMerge == D!NoMerge = DP!NoMerge
  BY Zenon DEF D!NoMerge, DP!NoMerge

LEMMA SameAdd ==
    ASSUME NEW w, NEW x
    PROVE  D!AddSeries(w, x) = DP!AddSeries(w, x)
  BY SamePlace, SameFound, SameInsert, Zenon DEF D!AddSeries, DP!AddSeries

LEMMA SameTitles ==
    ASSUME NEW w
    PROVE  D!Disambiguate(w) = DP!Disambiguate(w)
  BY Zenon DEF D!Disambiguate, DP!Disambiguate, D!NeedsFull, DP!NeedsFull,
               D!Shared, DP!Shared

LEMMA SameChange ==
    ASSUME NEW c \in Children, D!Change(c)
    PROVE  DP!Change(c)
  BY Zenon DEF D!Change, DP!Change

LEMMA SameStart ==
    ASSUME NEW e, D!Start(e)
    PROVE  DP!Start(e)
  BY SameNoMerge, Zenon DEF D!Start, DP!Start

LEMMA SameMergeChild ==
    ASSUME NEW c \in Children, D!MergeChild(c)
    PROVE  DP!MergeChild(c)
  BY SameTake, SameShow, Zenon DEF D!MergeChild, DP!MergeChild

LEMMA SameCardinality ==
    ASSUME NEW S
    PROVE  D!Cardinality(S) = DP!Cardinality(S)
  BY SMTT(30) DEF D!Cardinality, DP!Cardinality

LEMMA SameDerive == D!Derive => DP!Derive
<1>1. D!Disambiguate(merge.works) = DP!Disambiguate(merge.works)
  BY SameTitles
<1> QED  BY <1>1, SameCardinality, Zenon DEF D!Derive, DP!Derive

LEMMA SameSeriesDone ==
    ASSUME NEW c \in Series, D!SeriesDone(c)
    PROVE  DP!SeriesDone(c)
  BY SameAdd, Zenon DEF D!SeriesDone, DP!SeriesDone

LEMMA SameRequestSeries ==
    ASSUME NEW c \in Series, D!RequestSeries(c)
    PROVE  DP!RequestSeries(c)
  BY Zenon DEF D!RequestSeries, DP!RequestSeries

LEMMA SameLapseSeries ==
    ASSUME NEW c \in Series, D!LapseSeries(c)
    PROVE  DP!LapseSeries(c)
  BY Zenon DEF D!LapseSeries, DP!LapseSeries

LEMMA SameSave == D!Save => DP!Save
  BY SameNoMerge, Zenon DEF D!Save, DP!Save

\* A step of the service is one of Denormalization, or leaves its state alone.
LEMMA ContentIsNext ==
    ASSUME part = "content", Next
    PROVE  part' = part /\ DP!Next
<1>1. part' = part
  BY Zenon DEF Next, Content, Getter, Request
<1>2. ~Getter /\ ~Request
  BY DEF Getter, Request
<1>3. \/ \E c \in Children : D!Change(c) \/ D!MergeChild(c)
      \/ \E edge \in (SUBSET Children) \ {{}} : D!Start(edge)
      \/ D!Derive \/ D!Save
      \/ \E s \in Series : D!SeriesDone(s) \/ D!RequestSeries(s) \/ D!LapseSeries(s)
  BY <1>2, Zenon DEF Next
<1> QED  BY <1>1, <1>3, SameChange, SameStart, SameMergeChild, SameDerive, SameSeriesDone,
     SameRequestSeries, SameLapseSeries, SameSave, Zenon DEF DP!Next

ContentInv == part = "content" => DP!ContentInv

LEMMA SameAssumption == DP!DenormalizationAssumption
  BY ServiceAssumption
     DEF ServiceAssumption, D!DenormalizationAssumption, DP!DenormalizationAssumption,
         D!IsFiniteSet, DP!IsFiniteSet

LEMMA ContentInit == Init => ContentInv
<1>1. D!Init => DP!ContentInv
  BY SameAssumption, SameInit, DP!InitContent
<1> QED  BY <1>1 DEF Init, ContentInv

\* Every step of the service keeps what holds of every merge and every parent.
LEMMA ContentStep == ContentInv /\ [Next]_vars => ContentInv'
<1> SUFFICES ASSUME ContentInv, [Next]_vars PROVE ContentInv'
  OBVIOUS
<1>1. ASSUME part = "content", part' = part, DP!Next \/ UNCHANGED contentVars
      PROVE  DP!ContentInv'
  <2>1. [DP!Next]_DP!vars
    BY <1>1 DEF contentVars, DP!vars
  <2> QED  BY <1>1, <2>1, SameAssumption, DP!NextContent DEF ContentInv
<1>2. CASE UNCHANGED vars
  BY <1>1, <1>2 DEF vars, ContentInv
<1>3. CASE part # "content"
  BY <1>3 DEF Next, vars, Content, Getter, Request, ContentInv
<1>4. CASE part = "content" /\ Next
  BY <1>1, <1>4, ContentIsNext DEF ContentInv
<1> QED  BY <1>2, <1>3, <1>4

\* In the service, for any children, titles and series: what denormalizeWorks and
\* denormalizeEditions search by halving is strictly ascending, in the cache and at every
\* step of every merge.
THEOREM ShelvesSorted == Spec => []ShelfSorted
<1>1. ContentInv => ShelfSorted
  BY SameIds DEF ContentInv, ShelfSorted, DP!ContentInv, DP!ListsOK, D!ShelfSorted,
                 DP!ShelfSorted, D!Ascending, DP!Ascending
<1> QED  BY <1>1, ContentInit, ContentStep, PTL DEF Spec

LEMMA SameTitlesTold == DP!TitlesTold => D!TitlesTold
  BY Zenon DEF D!TitlesTold, DP!TitlesTold

\* In the service, for any children, titles and series: works of an author that share a
\* short title, or are in a series, are shown in full.
THEOREM TitlesAreTold == Spec => []TitlesTold
<1>1. DP!ContentInv => DP!TitlesTold
  BY DEF DP!ContentInv, DP!TitlesInv, DP!AllTold, DP!TitlesTold, DP!NeedsFull, DP!Shared
<1>2. ContentInv => TitlesTold
  BY <1>1, SameTitlesTold, Zenon DEF ContentInv, TitlesTold
<1> QED  BY <1>2, ContentInit, ContentStep, PTL DEF Spec

LEMMA SameStable == DP!MergeIsStableStep => D!MergeIsStableStep
  BY Zenon DEF D!MergeIsStableStep, DP!MergeIsStableStep, D!SameAgain, DP!SameAgain

\* In the service, for any children, titles and series: a merge of what the last merge took,
\* unchanged upstream, changes nothing, in whatever order its goroutines end.
THEOREM MergesAreStable == Spec => MergeIsStable
<1>1. ContentInv /\ Next => (part = "content" => D!MergeIsStableStep)
  <2> SUFFICES ASSUME ContentInv, Next, part = "content" PROVE D!MergeIsStableStep
    OBVIOUS
  <2>1. [DP!Next]_DP!vars
    BY ContentIsNext
  <2>2. DP!MergeIsStableStep
    BY <2>1, SameAssumption, DP!AgainStep DEF ContentInv
  <2> QED  BY <2>2, SameStable
<1>2. ContentInv /\ [Next]_vars => [part = "content" => D!MergeIsStableStep]_vars
  BY <1>1
<1> QED  BY <1>2, ContentInit, ContentStep, PTL DEF Spec, MergeIsStable
-----------------------------------------------------------------------------
(* Goodreads' GetAuthor.  AuthorAnswer is inductive with what is known       *)
(* while the call runs: of the records it has loaded none is the author's,  *)
(* and all are of books before the one that is next.                        *)

Passing == call.op = "author" /\ call.getter = "gr" /\ status = "run"

NoneYet == Passing => /\ page \in Nat
                      /\ \A r \in loaded : r.by # Author

AuthorInv == part = "getter" => NoneYet /\ G!AuthorAnswer

\* The calls that are not of Goodreads' GetAuthor are others, and stay so.
LEMMA OtherCall ==
    ASSUME ~(call.op = "author" /\ call.getter = "gr"), call' = call
    PROVE  NoneYet' /\ G!AuthorAnswer'
  BY DEF NoneYet, Passing, G!AuthorAnswer

LEMMA AuthorStartStep ==
    ASSUME NoneYet, call.getter = "gr", G!AuthorStart
    PROVE  NoneYet' /\ G!AuthorAnswer'
<1>1. /\ Passing /\ call' = call /\ loaded' = loaded
      /\ \/ status' \in {"failed", "notFound"}
         \/ status' = "run" /\ page' = 1
  <2>1. Passing /\ call' = call /\ loaded' = loaded
    BY DEF G!AuthorStart, Passing
  <2>2. "gr" # "hc"
    OBVIOUS
  <2>3. \/ status' = "failed" \/ status' = "notFound"
        \/ status' = "run" /\ page' = 1
    BY <2>2, Zenon DEF G!AuthorStart, G!End
  <2> QED  BY <2>1, <2>3
<1>2. \A r \in loaded : r.by # Author
  BY <1>1 DEF NoneYet
<1> QED  BY <1>1, <1>2 DEF NoneYet, Passing, G!AuthorAnswer

LEMMA GRAuthorBookStep ==
    ASSUME NoneYet, G!GRAuthorBook
    PROVE  NoneYet' /\ G!AuthorAnswer'
<1>1. Passing /\ call' = call
  BY DEF G!GRAuthorBook, G!Running, Passing
<1>2. page \in Nat /\ \A r \in loaded : r.by # Author
  BY <1>1 DEF NoneYet
<1>3. CASE status' = "notFound" /\ loaded' = loaded
  BY <1>1, <1>2, <1>3 DEF NoneYet, Passing, G!AuthorAnswer
<1>4. CASE status' = status /\ page' = page + 1 /\ loaded' = loaded
  BY <1>1, <1>2, <1>4 DEF NoneYet, Passing, G!AuthorAnswer
<1>5. ASSUME NEW author \in G!Authors, G!Load(author), page' = page + 1,
             IF G!ByAuthor(author) THEN out' = <<page>> /\ G!End("ok")
             ELSE UNCHANGED <<out, status>>
      PROVE  NoneYet' /\ G!AuthorAnswer'
  <2>1. loaded' = loaded \union {[entry |-> page, by |-> author]}
    BY <1>5 DEF G!Load
  <2>2. CASE author # Author
    <3>1. status' = status /\ \A r \in loaded' : r.by # Author
      BY <1>2, <1>5, <2>1, <2>2 DEF G!ByAuthor
    <3> QED  BY <1>1, <1>2, <1>5, <3>1 DEF NoneYet, Passing, G!AuthorAnswer
  <2>3. CASE author = Author
    <3>1. out'[1] = page /\ status' = "ok" /\ page >= page
      BY <1>2, <1>5, <2>3 DEF G!ByAuthor, G!End
    <3>2. \A r \in loaded' : r.by = Author => r.entry = page
      BY <1>2, <2>1
    <3>3. [entry |-> page, by |-> Author] \in loaded'
      BY <2>1, <2>3
    <3> QED  BY <1>1, <3>1, <3>2, <3>3 DEF NoneYet, Passing, G!AuthorAnswer
  <2> QED  BY <2>2, <2>3
<1> QED  BY <1>3, <1>4, <1>5 DEF G!GRAuthorBook, G!End

\* Of a getter's steps only two are of Goodreads' GetAuthor.
LEMMA GetterStepKeeps ==
    ASSUME NoneYet, G!Next
    PROVE  NoneYet' /\ G!AuthorAnswer'
<1>1. CASE \/ G!SeriesFails \/ G!GRSeriesPage \/ G!HCSeriesPage
           \/ G!GRBooksStart \/ G!BooksFail \/ G!GRBooksPage \/ G!HCBooksPage
           \/ G!HCAuthorBook
  <2>1. ~(call.op = "author" /\ call.getter = "gr") /\ call' = call
    BY <1>1 DEF G!SeriesFails, G!GRSeriesPage, G!HCSeriesPage, G!GRBooksStart, G!BooksFail,
                G!GRBooksPage, G!HCBooksPage, G!HCAuthorBook, G!Running
  <2> QED  BY <2>1, OtherCall
<1>2. CASE G!AuthorStart /\ call.getter # "gr"
  BY <1>2, OtherCall DEF G!AuthorStart
<1>3. CASE G!AuthorStart /\ call.getter = "gr"
  BY <1>3, AuthorStartStep
<1> QED  BY <1>1, <1>2, <1>3, GRAuthorBookStep DEF G!Next

LEMMA AuthorInvStep == AuthorInv /\ [Next]_vars => AuthorInv'
<1> SUFFICES ASSUME AuthorInv, [Next]_vars PROVE AuthorInv'
  OBVIOUS
<1>1. CASE part # "getter"
  BY <1>1 DEF Next, vars, Content, Getter, Request, AuthorInv
<1>2. CASE UNCHANGED vars
  BY <1>2 DEF vars, callVars, AuthorInv, NoneYet, Passing, G!AuthorAnswer
<1>3. CASE part = "getter" /\ Next
  <2>1. ~Content /\ ~Request
    BY <1>3 DEF Content, Request
  <2>2. G!Next
    BY <1>3, <2>1, Zenon DEF Next, G!Next
  <2> QED  BY <1>3, <2>2, GetterStepKeeps DEF AuthorInv
<1> QED  BY <1>1, <1>2, <1>3

\* In the service, for any books upstream lists and whatever records are in the cache:
\* Goodreads' GetAuthor answers with the first record it loads that is by the author it was
\* asked for, and once it has begun to load says there is no such author only when no
\* record it could load is theirs.
THEOREM AuthorsAnswered == Spec => []AuthorAnswer
<1>1. Init => AuthorInv
  BY DEF Init, G!Init, AuthorInv, NoneYet, Passing, G!AuthorAnswer
<1>2. AuthorInv => AuthorAnswer
  BY DEF AuthorInv, AuthorAnswer
<1> QED  BY <1>1, <1>2, AuthorInvStep, PTL DEF Spec
-----------------------------------------------------------------------------
(* Folds.  What FoldLeft computes is a function on the sets of places that  *)
(* recurs to the set without its greatest place; that there is one is       *)
(* shown for the places up to 0, 1, 2, ... in turn.                         *)

Greatest(s) == CHOOSE x \in s : \A y \in s : x >= y

LEMMA GreatestFacts ==
    ASSUME NEW n \in Nat, NEW s \in SUBSET (1..n), s # {}
    PROVE  Greatest(s) \in s /\ \A y \in s : Greatest(s) >= y
<1> DEFINE T == {k \in 0..n : \A y \in s : y <= k}
<1>1. T \in SUBSET Nat /\ n \in T
  OBVIOUS
<1>2. PICK x \in T : \A k \in T : x <= k
  BY <1>1, DP!LeastNumber
<1>3. x \in s
  <2> SUFFICES ASSUME x \notin s PROVE FALSE
    OBVIOUS
  <2>1. PICK y \in s : TRUE
    OBVIOUS
  <2>2. x - 1 \in 0..n /\ \A z \in s : z <= x - 1
    BY <1>2, <2>1
  <2> QED  BY <1>2, <2>2
<1>4. \E y \in s : \A z \in s : y >= z
  BY <1>2, <1>3
<1> QED  BY <1>4 DEF Greatest

\* What holds at 0, and at every next number with the one before, holds at the last.
LEMMA UpTo ==
    ASSUME NEW n \in Nat, NEW Good \in SUBSET (0..n), 0 \in Good,
           \A k \in 1..n : k - 1 \in Good => k \in Good
    PROVE  n \in Good
<1> DEFINE Missed == (0..n) \ Good
<1> SUFFICES ASSUME Missed # {} PROVE FALSE
  OBVIOUS
<1>1. PICK k \in Missed : \A j \in Missed : k <= j
  <2>1. Missed \in SUBSET Nat
    OBVIOUS
  <2> HIDE DEF Missed
  <2> QED  BY <2>1, DP!LeastNumber
<1>2. k \in 1..n /\ k - 1 \in 0..n /\ k - 1 \notin Missed
  BY <1>1
<1> QED  BY <1>1, <1>2

Recurs(iter, base, f, places) ==
    \A s \in SUBSET places :
        iter[s] = IF s = {} THEN base ELSE f[<<iter[s \ {Greatest(s)}], Greatest(s)>>]

\* One place more.
LEMMA OneMorePlace ==
    ASSUME NEW n \in Nat, NEW A, NEW base \in A, NEW f \in [A \X (1..n) -> A],
           NEW k \in 1..n, NEW iter \in [SUBSET (1..n) -> A], Recurs(iter, base, f, 1..(k - 1))
    PROVE  \E longer \in [SUBSET (1..n) -> A] : Recurs(longer, base, f, 1..k)
<1> DEFINE next(s) == f[<<iter[s \ {Greatest(s)}], Greatest(s)>>]
           longer == [s \in SUBSET (1..n) |->
                        IF s \subseteq 1..(k - 1) THEN iter[s] ELSE next(s)]
<1>1. ASSUME NEW s \in SUBSET (1..n), s # {}
      PROVE  next(s) \in A
  <2>1. Greatest(s) \in 1..n /\ s \ {Greatest(s)} \in SUBSET (1..n)
    BY <1>1, GreatestFacts
  <2> HIDE DEF Greatest
  <2>2. <<iter[s \ {Greatest(s)}], Greatest(s)>> \in A \X (1..n)
    BY <2>1
  <2> QED  BY <2>2
<1>2. longer \in [SUBSET (1..n) -> A]
  <2>1. ASSUME NEW s \in SUBSET (1..n)
        PROVE  (IF s \subseteq 1..(k - 1) THEN iter[s] ELSE next(s)) \in A
    BY <1>1
  <2> HIDE DEF next
  <2> QED  BY <2>1
<1>3. ASSUME NEW s \in SUBSET (1..k)
      PROVE  longer[s] = IF s = {} THEN base
                         ELSE f[<<longer[s \ {Greatest(s)}], Greatest(s)>>]
  <2>1. s \in SUBSET (1..n)
    OBVIOUS
  <2>2. CASE s = {}
    <3>1. {} \in SUBSET (1..n) /\ {} \in SUBSET (1..(k - 1))
      OBVIOUS
    <3>2. iter[{}] = base
      BY <3>1 DEF Recurs
    <3> QED  BY <2>2, <3>1, <3>2
  <2>3. CASE s # {}
    <3>1. Greatest(s) \in s /\ \A y \in s : Greatest(s) >= y
      BY <2>1, <2>3, GreatestFacts
    <3>2. ASSUME NEW y \in s \ {Greatest(s)}
          PROVE  y \in 1..(k - 1)
      <4>1. y \in 1..k /\ Greatest(s) \in 1..k /\ Greatest(s) >= y /\ y # Greatest(s)
        BY <3>1
      <4> HIDE DEF longer
      <4> QED  BY <4>1
    <3> DEFINE rest == s \ {Greatest(s)}
    <3>3. rest \in SUBSET (1..n) /\ rest \in SUBSET (1..(k - 1))
      BY <2>1, <3>2
    <3>4. longer[rest] = iter[rest]
      <4> HIDE DEF rest, next
      <4> QED  BY <3>3
    <3>5. longer[s] = f[<<iter[rest], Greatest(s)>>]
      <4>1. CASE s \subseteq 1..(k - 1)
        <5>1. longer[s] = iter[s]
          BY <2>1, <4>1
        <5>2. iter[s] = f[<<iter[s \ {Greatest(s)}], Greatest(s)>>]
          BY <2>3, <4>1 DEF Recurs
        <5> QED  BY <5>1, <5>2
      <4>2. CASE ~(s \subseteq 1..(k - 1))
        BY <2>1, <4>2
      <4> QED  BY <4>1, <4>2
    <3> HIDE DEF longer
    <3> QED  BY <2>3, <3>4, <3>5
  <2> QED  BY <2>2, <2>3
<1> HIDE DEF longer
<1> QED  BY <1>2, <1>3 DEF Recurs

LEMMA FoldExists ==
    ASSUME NEW n \in Nat, NEW A, NEW base \in A, NEW f \in [A \X (1..n) -> A]
    PROVE  \E iter \in [SUBSET (1..n) -> A] : Recurs(iter, base, f, 1..n)
<1> DEFINE Exists(k) == \E iter \in [SUBSET (1..n) -> A] : Recurs(iter, base, f, 1..k)
           Good == {k \in 0..n : Exists(k)}
<1>1. Exists(0)
  <2> DEFINE iter == [s \in SUBSET (1..n) |-> base]
  <2>1. iter \in [SUBSET (1..n) -> A]
    OBVIOUS
  <2>2. \A s \in SUBSET (1..0) : s = {}
    OBVIOUS
  <2>3. Recurs(iter, base, f, 1..0)
    <3>1. iter[{}] = base
      OBVIOUS
    <3> HIDE DEF iter
    <3> QED  BY <2>2, <3>1 DEF Recurs
  <2> HIDE DEF iter
  <2> QED  BY <2>1, <2>3
<1>2. ASSUME NEW k \in 1..n, Exists(k - 1)
      PROVE  Exists(k)
  BY <1>2, OneMorePlace
<1>3. 0 \in Good /\ \A k \in 1..n : k - 1 \in Good => k \in Good
  <2> HIDE DEF Exists
  <2> QED  BY <1>1, <1>2
<1>4. n \in Good
  <2>1. Good \in SUBSET (0..n)
    OBVIOUS
  <2> HIDE DEF Good
  <2> QED  BY <1>3, <2>1, UpTo
<1> QED  BY <1>4

\* Of the first numbers the greatest is the last.
LEMMA GreatestOfAll ==
    ASSUME NEW k \in Nat \ {0}
    PROVE  Greatest(1..k) = k /\ (1..k) \ {k} = 1..(k - 1)
<1>1. 1..k \in SUBSET (1..k) /\ k \in 1..k
  OBVIOUS
<1>2. Greatest(1..k) \in 1..k /\ \A y \in 1..k : Greatest(1..k) >= y
  BY <1>1, GreatestFacts
<1> HIDE DEF Greatest
<1>3. Greatest(1..k) = k
  BY <1>1, <1>2
<1>4. ASSUME NEW y
      PROVE  y \in (1..k) \ {k} <=> y \in 1..(k - 1)
  OBVIOUS
<1> QED  BY <1>3, <1>4

\* The same on the places of a sequence.
Steps(A, S) == [A \X S -> A]
IsFold(iter, base, f, items) ==
    \A s \in SUBSET DOMAIN items :
        iter[s] = IF s = {} THEN base
                  ELSE f[<<iter[s \ {Greatest(s)}], items[Greatest(s)]>>]

LEMMA FoldSolved ==
    ASSUME NEW S, NEW A, NEW base \in A, NEW f \in Steps(A, S), NEW items \in Seq(S)
    PROVE  \E iter \in [SUBSET DOMAIN items -> A] : IsFold(iter, base, f, items)
<1> DEFINE n == Len(items)
           g == [p \in A \X (1..n) |-> f[<<p[1], items[p[2]]>>]]
<1>1. n \in Nat /\ DOMAIN items = 1..n /\ \A k \in 1..n : items[k] \in S
  OBVIOUS
<1>2. g \in [A \X (1..n) -> A]
  <2>1. ASSUME NEW p \in A \X (1..n)
        PROVE  f[<<p[1], items[p[2]]>>] \in A
    <3>1. p[1] \in A /\ items[p[2]] \in S
      BY <1>1
    <3> QED  BY <3>1 DEF Steps
  <2> QED  BY <2>1
<1> HIDE DEF n
<1>3. PICK iter \in [SUBSET (1..n) -> A] : Recurs(iter, base, g, 1..n)
  <2> HIDE DEF g
  <2> QED  BY <1>1, <1>2, FoldExists
<1>4. ASSUME NEW s \in SUBSET (1..n)
      PROVE  iter[s] = IF s = {} THEN base
                       ELSE f[<<iter[s \ {Greatest(s)}], items[Greatest(s)]>>]
  <2>1. CASE s = {}
    BY <1>3, <2>1 DEF Recurs
  <2>2. CASE s # {}
    <3> DEFINE m == Greatest(s)
               rest == s \ {m}
    <3>1. m \in s
      BY <1>1, <2>2, GreatestFacts
    <3> HIDE DEF m
    <3>2. m \in 1..n /\ rest \in SUBSET (1..n)
      BY <3>1
    <3>3. iter[s] = g[<<iter[rest], m>>]
      BY <1>3, <2>2 DEF Recurs, m
    <3> HIDE DEF rest
    <3>4. <<iter[rest], m>> \in A \X (1..n)
      BY <3>2
    <3>5. g[<<iter[rest], m>>] = f[<<iter[rest], items[m]>>]
      BY <3>4
    <3> QED  BY <2>2, <3>3, <3>5 DEF m, rest
  <2> QED  BY <2>1, <2>2
<1> QED  BY <1>1, <1>3, <1>4 DEF IsFold

\* What recurs so goes through the sequence step by step.
Folds(fold, A, base, f, items) ==
    /\ fold[{}] = base
    /\ \A s \in SUBSET DOMAIN items :
           s # {} /\ fold[s \ {Greatest(s)}] \in A =>
               fold[s] = f[<<fold[s \ {Greatest(s)}], items[Greatest(s)]>>]
GoesThrough(steps, base, f, items) ==
    /\ steps[0] = base
    /\ \A k \in 1..Len(items) : steps[k] = f[<<steps[k - 1], items[k]>>]

LEMMA FoldSteps ==
    ASSUME NEW S, NEW A, NEW base \in A, NEW f \in Steps(A, S), NEW items \in Seq(S),
           NEW fold, Folds(fold, A, base, f, items)
    PROVE  \E steps \in [0..Len(items) -> A] :
               GoesThrough(steps, base, f, items) /\ steps[Len(items)] = fold[DOMAIN items]
<1> DEFINE n == Len(items)
           steps == [k \in 0..n |-> fold[1..k]]
<1>1. n \in Nat /\ DOMAIN items = 1..n /\ \A k \in 1..n : items[k] \in S
  OBVIOUS
<1> HIDE DEF n
<1>2. 1..0 = {} /\ fold[1..0] = base
  BY DEF Folds
<1>3. ASSUME NEW k \in 1..n, fold[1..(k - 1)] \in A
      PROVE  fold[1..k] = f[<<fold[1..(k - 1)], items[k]>>] /\ fold[1..k] \in A
  <2>1. k \in Nat \ {0} /\ k \in 1..k
    BY <1>1
  <2>2. 1..k \in SUBSET DOMAIN items /\ 1..k # {}
    <3>1. 1..k \in SUBSET (1..n)
      BY <1>1
    <3> QED  BY <1>1, <2>1, <3>1
  <2>3. Greatest(1..k) = k /\ (1..k) \ {k} = 1..(k - 1)
    BY <2>1, GreatestOfAll
  <2>4. fold[1..k] = f[<<fold[1..(k - 1)], items[k]>>]
    BY <1>3, <2>2, <2>3 DEF Folds
  <2> QED  BY <1>1, <1>3, <2>4 DEF Steps
<1>4. ASSUME NEW k \in 0..n
      PROVE  fold[1..k] \in A
  <2> DEFINE Upto == {j \in 0..k : fold[1..j] \in A}
  <2>1. Upto \in SUBSET (0..k)
    OBVIOUS
  <2>2. 0 \in Upto
    BY <1>1, <1>2
  <2>3. ASSUME NEW j \in 1..k, j - 1 \in Upto
        PROVE  j \in Upto
    <3>1. j \in 1..n /\ j \in 0..k /\ fold[1..(j - 1)] \in A
      BY <1>1, <2>3
    <3>2. fold[1..j] \in A
      BY <1>3, <3>1
    <3> QED  BY <3>1, <3>2
  <2>4. k \in Nat
    BY <1>1
  <2>5. k \in Upto
    <3> HIDE DEF Upto
    <3> QED  BY <2>1, <2>2, <2>3, <2>4, UpTo
  <2> QED  BY <2>5
<1>5. steps \in [0..n -> A]
  BY <1>4
<1>6. ASSUME NEW k \in 1..n
      PROVE  steps[k] = f[<<steps[k - 1], items[k]>>]
  <2>1. k \in 0..n /\ k - 1 \in 0..n
    BY <1>1
  <2> QED  BY <1>3, <1>4, <2>1
<1>7. steps[0] = base /\ steps[n] = fold[DOMAIN items]
  BY <1>1, <1>2
<1> HIDE DEF steps
<1> QED  BY <1>5, <1>6, <1>7 DEF n, GoesThrough

-----------------------------------------------------------------------------
(* What Search and bulkBook keep of what they gathered.                     *)

Keep(kept, item) == IF R!Seen(kept, item) THEN kept ELSE Append(kept, item)

\* Search goes through the results one by one (controller.go:298).
LEMMA DedupeSteps ==
    ASSUME NEW items \in Seq(Items)
    PROVE  \E steps : /\ steps[0] = <<>>
                      /\ \A k \in 1..Len(items) : steps[k] = Keep(steps[k - 1], items[k])
                      /\ steps[Len(items)] = R!Dedupe(items)
<1> DEFINE A == Seq(Items)
           f == [p \in A \X Items |-> Keep(p[1], p[2])]
           Solves(it) == it = [s \in SUBSET DOMAIN items |->
                                 IF s = {} THEN <<>>
                                 ELSE Keep(it[s \ {R!Max(s)}], items[R!Max(s)])]
           fold == CHOOSE it : Solves(it)
<1>1. <<>> \in A /\ f \in Steps(A, Items)
  <2>1. \A kept \in A, item \in Items : Keep(kept, item) \in A
    BY DEF Keep
  <2>2. ASSUME NEW p \in A \X Items
        PROVE  Keep(p[1], p[2]) \in A
    BY <2>1
  <2> QED  BY <2>2 DEF Steps
<1>2. ASSUME NEW s \in SUBSET DOMAIN items, s # {}
      PROVE  R!Max(s) = Greatest(s) /\ items[Greatest(s)] \in Items
  <2>1. R!Max(s) = Greatest(s)
    BY DEF R!Max, Greatest
  <2>2. Len(items) \in Nat /\ s \in SUBSET (1..Len(items))
    OBVIOUS
  <2>3. Greatest(s) \in s
    BY <1>2, <2>2, GreatestFacts
  <2> HIDE DEF Greatest
  <2> QED  BY <2>1, <2>3
<1>3. ASSUME NEW kept \in A, NEW item \in Items
      PROVE  f[<<kept, item>>] = Keep(kept, item)
  OBVIOUS
<1> HIDE DEF A, f, Solves, fold
<1>4. PICK iter \in [SUBSET DOMAIN items -> A] : IsFold(iter, <<>>, f, items)
  BY <1>1, FoldSolved, Zenon
<1>5. Solves(iter)
  BY <1>2, <1>3, <1>4 DEF Solves, IsFold
<1>6. Solves(fold)
  BY <1>5 DEF fold
<1>7. R!Dedupe(items) = fold[DOMAIN items]
  BY DEF R!Dedupe, R!FoldLeft, R!MapThenFoldSet, Keep, Solves, fold
<1>8. fold[{}] = <<>>
  BY <1>6 DEF Solves
<1>9. Folds(fold, A, <<>>, f, items)
  <2>1. ASSUME NEW s \in SUBSET DOMAIN items, s # {}, fold[s \ {Greatest(s)}] \in A
        PROVE  fold[s] = f[<<fold[s \ {Greatest(s)}], items[Greatest(s)]>>]
    <3>1. fold[s] = Keep(fold[s \ {Greatest(s)}], items[Greatest(s)])
      BY <1>2, <1>6, <2>1 DEF Solves
    <3> QED  BY <1>2, <1>3, <2>1, <3>1
  <2> QED  BY <1>8, <2>1 DEF Folds
<1>10. PICK steps \in [0..Len(items) -> A] :
           GoesThrough(steps, <<>>, f, items) /\ steps[Len(items)] = fold[DOMAIN items]
  BY <1>1, <1>9, FoldSteps
<1>11. ASSUME NEW k \in 1..Len(items)
       PROVE  steps[k] = Keep(steps[k - 1], items[k])
  <2>1. k - 1 \in 0..Len(items) /\ items[k] \in Items
    OBVIOUS
  <2> QED  BY <1>3, <1>10, <2>1 DEF GoesThrough
<1> QED  BY <1>7, <1>10, <1>11 DEF GoesThrough

KeepFirst(kept, item) ==
    IF \E i \in DOMAIN kept : kept[i].author = item.author THEN kept ELSE Append(kept, item)

\* So does bulkBook, for the authors.
LEMMA FirstSteps ==
    ASSUME NEW items \in Seq(Items)
    PROVE  \E steps : /\ steps[0] = <<>>
                      /\ \A k \in 1..Len(items) :
                            steps[k] = KeepFirst(steps[k - 1], items[k])
                      /\ steps[Len(items)] = R!FirstOfAuthor(items)
<1> DEFINE A == Seq(Items)
           f == [p \in A \X Items |-> KeepFirst(p[1], p[2])]
           Solves(it) == it = [s \in SUBSET DOMAIN items |->
                                 IF s = {} THEN <<>>
                                 ELSE KeepFirst(it[s \ {R!Max(s)}], items[R!Max(s)])]
           fold == CHOOSE it : Solves(it)
<1>1. <<>> \in A /\ f \in Steps(A, Items)
  <2>1. \A kept \in A, item \in Items : KeepFirst(kept, item) \in A
    BY DEF KeepFirst
  <2>2. ASSUME NEW p \in A \X Items
        PROVE  KeepFirst(p[1], p[2]) \in A
    BY <2>1
  <2> QED  BY <2>2 DEF Steps
<1>2. ASSUME NEW s \in SUBSET DOMAIN items, s # {}
      PROVE  R!Max(s) = Greatest(s) /\ items[Greatest(s)] \in Items
  <2>1. R!Max(s) = Greatest(s)
    BY DEF R!Max, Greatest
  <2>2. Len(items) \in Nat /\ s \in SUBSET (1..Len(items))
    OBVIOUS
  <2>3. Greatest(s) \in s
    BY <1>2, <2>2, GreatestFacts
  <2> HIDE DEF Greatest
  <2> QED  BY <2>1, <2>3
<1>3. ASSUME NEW kept \in A, NEW item \in Items
      PROVE  f[<<kept, item>>] = KeepFirst(kept, item)
  OBVIOUS
<1> HIDE DEF A, f, Solves, fold
<1>4. PICK iter \in [SUBSET DOMAIN items -> A] : IsFold(iter, <<>>, f, items)
  BY <1>1, FoldSolved, Zenon
<1>5. Solves(iter)
  BY <1>2, <1>3, <1>4 DEF Solves, IsFold
<1>6. Solves(fold)
  BY <1>5 DEF fold
<1>7. R!FirstOfAuthor(items) = fold[DOMAIN items]
  BY DEF R!FirstOfAuthor, R!FoldLeft, R!MapThenFoldSet, KeepFirst, Solves, fold
<1>8. fold[{}] = <<>>
  BY <1>6 DEF Solves
<1>9. Folds(fold, A, <<>>, f, items)
  <2>1. ASSUME NEW s \in SUBSET DOMAIN items, s # {}, fold[s \ {Greatest(s)}] \in A
        PROVE  fold[s] = f[<<fold[s \ {Greatest(s)}], items[Greatest(s)]>>]
    <3>1. fold[s] = KeepFirst(fold[s \ {Greatest(s)}], items[Greatest(s)])
      BY <1>2, <1>6, <2>1 DEF Solves
    <3> QED  BY <1>2, <1>3, <2>1, <3>1
  <2> QED  BY <1>8, <2>1 DEF Folds
<1>10. PICK steps \in [0..Len(items) -> A] :
           GoesThrough(steps, <<>>, f, items) /\ steps[Len(items)] = fold[DOMAIN items]
  BY <1>1, <1>9, FoldSteps
<1>11. ASSUME NEW k \in 1..Len(items)
       PROVE  steps[k] = KeepFirst(steps[k - 1], items[k])
  <2>1. k - 1 \in 0..Len(items) /\ items[k] \in Items
    OBVIOUS
  <2> QED  BY <1>3, <1>10, <2>1 DEF GoesThrough
<1> QED  BY <1>7, <1>10, <1>11 DEF GoesThrough

NoRepeat(kept) ==
    \A i, j \in DOMAIN kept :
        i # j => kept[i].book # kept[j].book /\ kept[i].work # kept[j].work
OncePerAuthor(kept) ==
    \A i, j \in DOMAIN kept : kept[i].author = kept[j].author => i = j
Authors(items) == {items[i].author : i \in DOMAIN items}

\* Of what Search gathered no book and no work stays twice, and only such are left out.
LEMMA DedupeFacts ==
    ASSUME NEW items \in Seq(Items)
    PROVE  /\ R!Dedupe(items) \in Seq(Items)
           /\ NoRepeat(R!Dedupe(items))
           /\ \A i \in DOMAIN items : R!Seen(R!Dedupe(items), items[i])
<1> DEFINE n == Len(items)
<1>1. PICK steps : /\ steps[0] = <<>>
                   /\ \A k \in 1..n : steps[k] = Keep(steps[k - 1], items[k])
                   /\ steps[n] = R!Dedupe(items)
  BY DedupeSteps
<1> DEFINE Kept(k) == /\ steps[k] \in Seq(Items) /\ NoRepeat(steps[k])
                      /\ \A i \in 1..k : R!Seen(steps[k], items[i])
           Good == {k \in 0..n : Kept(k)}
<1>2. n \in Nat /\ DOMAIN items = 1..n /\ \A k \in 1..n : items[k] \in Items
  OBVIOUS
<1> HIDE DEF n
<1>3. Kept(0)
  BY <1>1 DEF NoRepeat
<1>4. ASSUME NEW k \in 1..n, Kept(k - 1)
      PROVE  Kept(k)
  <2> DEFINE kept == steps[k - 1]
             item == items[k]
  <2>1. /\ kept \in Seq(Items) /\ item \in Items /\ steps[k] = Keep(kept, item)
        /\ NoRepeat(kept) /\ \A i \in 1..(k - 1) : R!Seen(kept, items[i])
    BY <1>1, <1>2, <1>4
  <2>2. \A i \in 1..k : i = k \/ i \in 1..(k - 1)
    BY <1>2
  <2> HIDE DEF kept
  <2>3. CASE R!Seen(kept, item)
    <3>1. steps[k] = kept
      BY <2>1, <2>3 DEF Keep
    <3> QED  BY <2>1, <2>2, <2>3, <3>1
  <2>4. CASE ~R!Seen(kept, item)
    <3> DEFINE longer == Append(kept, item)
    <3>1. steps[k] = longer
      BY <2>1, <2>4 DEF Keep
    <3>2. /\ longer \in Seq(Items) /\ DOMAIN longer = DOMAIN kept \union {Len(kept) + 1}
          /\ longer[Len(kept) + 1] = item /\ \A i \in DOMAIN kept : longer[i] = kept[i]
      <4> HIDE DEF item
      <4> QED  BY <2>1
    <3> HIDE DEF longer, item
    <3>3. NoRepeat(longer)
      BY <2>1, <2>4, <3>2 DEF NoRepeat, R!Seen
    <3>4. R!Seen(longer, item) /\ \A i \in 1..(k - 1) : R!Seen(longer, items[i])
      BY <2>1, <3>2 DEF R!Seen
    <3> QED  BY <2>2, <3>1, <3>2, <3>3, <3>4 DEF item
  <2> QED  BY <2>3, <2>4
<1>5. 0 \in Good /\ \A k \in 1..n : k - 1 \in Good => k \in Good
  <2> HIDE DEF Kept
  <2> QED  BY <1>2, <1>3, <1>4
<1>6. n \in Good
  <2>1. Good \in SUBSET (0..n)
    OBVIOUS
  <2> HIDE DEF Good
  <2> QED  BY <1>2, <1>5, <2>1, UpTo
<1> QED  BY <1>1, <1>2, <1>6

\* Of the authors bulkBook met each is there once.
LEMMA FirstFacts ==
    ASSUME NEW items \in Seq(Items)
    PROVE  /\ R!FirstOfAuthor(items) \in Seq(Items)
           /\ OncePerAuthor(R!FirstOfAuthor(items))
           /\ Authors(R!FirstOfAuthor(items)) = Authors(items)
<1> DEFINE n == Len(items)
           some(k) == {items[i].author : i \in 1..k}
<1>1. PICK steps : /\ steps[0] = <<>>
                   /\ \A k \in 1..n : steps[k] = KeepFirst(steps[k - 1], items[k])
                   /\ steps[n] = R!FirstOfAuthor(items)
  BY FirstSteps
<1> DEFINE Kept(k) == /\ steps[k] \in Seq(Items) /\ OncePerAuthor(steps[k])
                      /\ Authors(steps[k]) = some(k)
           Good == {k \in 0..n : Kept(k)}
<1>2. n \in Nat /\ DOMAIN items = 1..n /\ \A k \in 1..n : items[k] \in Items
  OBVIOUS
<1> HIDE DEF n
<1>3. Kept(0)
  BY <1>1 DEF OncePerAuthor, Authors
<1>4. ASSUME NEW k \in 1..n, Kept(k - 1)
      PROVE  Kept(k)
  <2> DEFINE kept == steps[k - 1]
             item == items[k]
  <2>1. /\ kept \in Seq(Items) /\ item \in Items /\ steps[k] = KeepFirst(kept, item)
        /\ OncePerAuthor(kept) /\ Authors(kept) = some(k - 1)
    BY <1>1, <1>2, <1>4
  <2>2. some(k) = some(k - 1) \union {item.author}
    <3>1. k \in 1..k /\ \A i : i \in 1..k <=> i = k \/ i \in 1..(k - 1)
      BY <1>2
    <3> QED  BY <3>1
  <2> HIDE DEF kept, some
  <2>3. CASE \E i \in DOMAIN kept : kept[i].author = item.author
    <3>1. steps[k] = kept
      BY <2>1, <2>3 DEF KeepFirst
    <3>2. item.author \in Authors(kept)
      BY <2>3 DEF Authors
    <3> QED  BY <2>1, <2>2, <3>1, <3>2
  <2>4. CASE ~\E i \in DOMAIN kept : kept[i].author = item.author
    <3> DEFINE longer == Append(kept, item)
    <3>1. steps[k] = longer
      BY <2>1, <2>4 DEF KeepFirst
    <3>2. /\ longer \in Seq(Items) /\ DOMAIN longer = DOMAIN kept \union {Len(kept) + 1}
          /\ longer[Len(kept) + 1] = item /\ \A i \in DOMAIN kept : longer[i] = kept[i]
      <4> HIDE DEF item
      <4> QED  BY <2>1
    <3> HIDE DEF longer, item
    <3>3. OncePerAuthor(longer)
      BY <2>1, <2>4, <3>2 DEF OncePerAuthor
    <3>4. Authors(longer) = Authors(kept) \union {item.author}
      BY <3>2 DEF Authors
    <3> QED  BY <2>1, <2>2, <3>1, <3>2, <3>3, <3>4
  <2> QED  BY <2>3, <2>4
<1>5. 0 \in Good /\ \A k \in 1..n : k - 1 \in Good => k \in Good
  <2> HIDE DEF Kept
  <2> QED  BY <1>2, <1>3, <1>4
<1>6. n \in Good
  <2>1. Good \in SUBSET (0..n)
    OBVIOUS
  <2> HIDE DEF Good
  <2> QED  BY <1>2, <1>5, <2>1, UpTo
<1> QED  BY <1>1, <1>2, <1>6 DEF Authors

-----------------------------------------------------------------------------
(* The requests.  SearchDeduped and BatchComplete are inductive with what   *)
(* is known while a request runs: what was gathered is what was fetched     *)
(* for the items whose goroutine has ended, one result for each.            *)

IsBatch == request.op \in {"searchBatch", "authorBatch"}
Waits == request.op \in {"search", "searchBatch", "authorBatch", "bulk"}

\* The items that load and are done.  A batch starts none for what has no author.
Ended == {i \in R!Loaded \ running : IsBatch => request.list[i].author # Nobody}

RequestTyped == /\ request.list \in Seq(Items)
                /\ request.op # "recommend" => request.page = 1
                /\ running \in SUBSET DOMAIN request.list
                /\ result \in Seq(Items)
NotBegun == phase = "new" => running = {} /\ result = <<>>
Gathered == phase = "run" /\ Waits =>
                /\ {result[k] : k \in DOMAIN result} = {request.list[i] : i \in Ended}
                /\ Len(result) = Cardinality(Ended)
                /\ IsBatch => \A i \in running : request.list[i].author # Nobody
Answered == phase = "ok" /\ Waits =>
                running = {} /\ R!SearchDeduped /\ R!BatchComplete

RequestInv == RequestTyped /\ NotBegun /\ Gathered /\ Answered

LEMMA RequestInit == R!Init => RequestInv
<1> SUFFICES ASSUME R!Init PROVE RequestInv
  OBVIOUS
<1>1. request \in R!Requested
  BY DEF R!Init
<1>2. \E n \in 0..MaxItems : request.list \in [1..n -> Items]
  BY <1>1 DEF R!Requested
<1>3. request.list \in Seq(Items)
  <2>1. PICK n \in 0..MaxItems : request.list \in [1..n -> Items]
    BY <1>2
  <2> DEFINE list == request.list
  <2> HIDE DEF list
  <2>2. n \in Nat /\ list \in [1..n -> Items]
    BY <2>1, ServiceAssumption DEF ServiceAssumption, R!RequestsAssumption, list
  <2>3. list \in Seq(Items)
    BY <2>2
  <2> QED  BY <2>3 DEF list
<1>4. <<>> \in Seq(Items)
  OBVIOUS
<1> QED  BY <1>3, <1>4
     DEF R!Init, RequestInv, RequestTyped, NotBegun, Gathered, Answered

\* A code that leads to an edition is answered with that alone.
LEMMA FindCodeStep ==
    ASSUME RequestInv, R!FindCode
    PROVE  RequestInv'
<1>1. /\ phase = "new" /\ request.op = "search" /\ request.code # NoCode /\ phase' = "ok"
      /\ UNCHANGED <<request, running, result, lookup>>
  BY DEF R!FindCode, R!Is
<1>2. PICK item \in Items : answer' = <<item>> /\ item.code = request.code
  BY DEF R!FindCode
<1>3. running' = {} /\ RequestTyped'
  BY <1>1 DEF RequestInv, RequestTyped, NotBegun
<1>4. Len(answer') = 1 /\ DOMAIN answer' = {1} /\ answer'[1].code = request.code
  BY <1>2
<1>5. R!SearchDeduped' /\ R!BatchComplete'
  BY <1>1, <1>4 DEF R!SearchDeduped, R!BatchComplete, R!Is
<1> QED  BY <1>1, <1>3, <1>5 DEF RequestInv, NotBegun, Gathered, Answered

LEMMA RefuseStep ==
    ASSUME RequestInv, R!Refuse
    PROVE  RequestInv'
  BY DEF R!Refuse, RequestInv, RequestTyped, NotBegun, Gathered, Answered

\* At the start nothing has ended: a batch leaves out what has no author.
LEMMA RequestStartStep ==
    ASSUME RequestInv, R!Start
    PROVE  RequestInv'
<1>1. /\ phase = "new" /\ phase' = "run" /\ running = {} /\ result = <<>>
      /\ UNCHANGED <<request, result, answer, lookup>>
  BY DEF R!Start, RequestInv, NotBegun
<1>2. /\ request.op # "recommend" => R!HasPage
      /\ running' \in SUBSET DOMAIN request.list
      /\ IsBatch => running' = {i \in DOMAIN request.list : request.list[i].author # Nobody}
      /\ request.op # "recommend" /\ ~IsBatch => running' = DOMAIN request.list
  BY DEF R!Start, R!Is, R!HasPage, IsBatch, RequestInv, RequestTyped
<1>3. Waits => Ended' = {}
  BY <1>1, <1>2 DEF Waits, Ended, IsBatch, R!Loaded
<1>4. IsBatch' = IsBatch /\ Waits' = Waits
  BY <1>1 DEF IsBatch, Waits
<1>5. Gathered'
  <2> SUFFICES ASSUME Waits PROVE Gathered'
    BY <1>4 DEF Gathered
  <2>1. result' = <<>> /\ Ended' = {} /\ request' = request
    BY <1>1, <1>3
  <2>2. /\ {result'[k] : k \in DOMAIN result'} = {}
        /\ {request'.list[i] : i \in Ended'} = {}
        /\ Len(result') = 0 /\ Cardinality(Ended') = 0
    BY <2>1, FS_EmptySet
  <2>3. IsBatch => \A i \in running' : request.list[i].author # Nobody
    BY <1>2
  <2> QED  BY <1>1, <1>4, <2>2, <2>3 DEF Gathered
<1> QED  BY <1>1, <1>2, <1>5 DEF RequestInv, RequestTyped, NotBegun, Answered

\* What an item brings is added to what those before it brought.
LEMMA ItemDoneStep ==
    ASSUME RequestInv, NEW i \in 1..MaxItems, R!ItemDone(i)
    PROVE  RequestInv'
<1> DEFINE item == request.list[i]
<1>1. /\ i \in running /\ running' = running \ {i}
      /\ UNCHANGED <<request, answer, phase>>
      /\ Waits => result' = IF item.loads THEN Append(result, item) ELSE result
      /\ result' \in {result, Append(result, item)}
  BY DEF R!ItemDone, R!Is, Waits
<1>2. i \in DOMAIN request.list /\ item \in Items
  BY <1>1 DEF RequestInv, RequestTyped
<1>3. RequestTyped'
  <2>1. result \in Seq(Items)
    BY DEF RequestInv, RequestTyped
  <2>2. Append(result, item) \in Seq(Items)
    BY <1>2, <2>1
  <2> QED  BY <1>1, <2>1, <2>2 DEF RequestInv, RequestTyped
<1>4. phase # "new" /\ ~(phase = "ok" /\ Waits)
  BY <1>1 DEF RequestInv, NotBegun, Answered
<1>5. IsBatch' = IsBatch /\ Waits' = Waits
  BY <1>1 DEF IsBatch, Waits
<1>6. Gathered'
  <2> SUFFICES ASSUME phase = "run", Waits PROVE Gathered'
    BY <1>1, <1>5 DEF Gathered
  <2>1. /\ {result[k] : k \in DOMAIN result} = {request.list[j] : j \in Ended}
        /\ Len(result) = Cardinality(Ended) /\ result \in Seq(Items)
        /\ IsBatch => \A j \in running : request.list[j].author # Nobody
    BY DEF RequestInv, RequestTyped, Gathered
  <2>2. i \notin Ended
    BY <1>1 DEF Ended
  <2>3. IsFiniteSet(Ended)
    <3>1. DOMAIN request.list = 1..Len(request.list) /\ Len(request.list) \in Nat
      BY DEF RequestInv, RequestTyped
    <3>2. Ended \in SUBSET (1..Len(request.list))
      BY <3>1 DEF Ended, R!Loaded
    <3>3. IsFiniteSet(1..Len(request.list))
      BY <3>1, FS_Interval
    <3> QED  BY <3>2, <3>3, FS_Subset
  <2>4. CASE item.loads
    <3>1. Ended' = Ended \union {i}
      BY <1>1, <1>2, <1>5, <2>1, <2>4 DEF Ended, R!Loaded
    <3>2. Cardinality(Ended') = Len(result) + 1
      BY <2>1, <2>2, <2>3, <3>1, FS_AddElement
    <3> DEFINE longer == Append(result, item)
    <3>3. result' = longer
      BY <1>1, <2>4
    <3>4. /\ Len(longer) = Len(result) + 1
          /\ DOMAIN longer = DOMAIN result \union {Len(result) + 1}
          /\ longer[Len(result) + 1] = item /\ \A k \in DOMAIN result : longer[k] = result[k]
      <4> HIDE DEF item
      <4> QED  BY <1>2, <2>1
    <3> HIDE DEF longer
    <3>5. {longer[k] : k \in DOMAIN longer}
              = {result[k] : k \in DOMAIN result} \union {item}
      <4> HIDE DEF item
      <4> QED  BY <3>4
    <3>6. {request'.list[j] : j \in Ended'} = {request.list[j] : j \in Ended} \union {item}
      BY <1>1, <3>1
    <3>7. {result'[k] : k \in DOMAIN result'} = {request'.list[j] : j \in Ended'}
      <4>1. {result'[k] : k \in DOMAIN result'} = {longer[k] : k \in DOMAIN longer}
        BY <3>3
      <4> HIDE DEF item
      <4> QED  BY <2>1, <3>5, <3>6, <4>1
    <3>8. Len(result') = Cardinality(Ended')
      BY <3>2, <3>3, <3>4
    <3> QED  BY <1>1, <1>5, <2>1, <3>7, <3>8 DEF Gathered
  <2>5. CASE ~item.loads
    <3>1. Ended' = Ended
      BY <1>1, <1>5, <2>5 DEF Ended, R!Loaded
    <3>2. result' = result
      BY <1>1, <2>5
    <3> QED  BY <1>1, <1>5, <2>1, <3>1, <3>2 DEF Gathered
  <2> QED  BY <2>4, <2>5
<1> QED  BY <1>1, <1>3, <1>4, <1>5, <1>6 DEF RequestInv, NotBegun, Answered

\* What Search answers has no book and no work twice, and leaves out nothing else.
LEMMA SearchResponds ==
    ASSUME RequestInv, R!Respond, request.op = "search"
    PROVE  R!SearchDeduped'
<1>1. /\ phase = "run" /\ running = {} /\ answer' = R!Dedupe(result) /\ request' = request
      /\ result \in Seq(Items)
  BY DEF R!Respond, R!Waited, R!Is, RequestInv, RequestTyped
<1>2. NoRepeat(answer') /\ \A k \in DOMAIN result : R!Seen(answer', result[k])
  BY <1>1, DedupeFacts
<1>3. {result[k] : k \in DOMAIN result} = {request.list[i] : i \in R!Loaded}
  <2>1. Ended = R!Loaded
    BY <1>1 DEF Ended, IsBatch
  <2> QED  BY <1>1, <2>1 DEF RequestInv, Gathered, Waits
<1>4. ASSUME NEW i \in R!Loaded
      PROVE  \E k \in DOMAIN answer' : \/ answer'[k].book = request.list[i].book
                                       \/ answer'[k].work = request.list[i].work
  <2>1. PICK k \in DOMAIN result : result[k] = request.list[i]
    BY <1>3
  <2> QED  BY <1>2, <2>1 DEF R!Seen
<1>5. R!Loaded' = R!Loaded
  BY <1>1 DEF R!Loaded
<1> QED  BY <1>1, <1>2, <1>4, <1>5 DEF R!SearchDeduped, NoRepeat

\* A batch has an answer for every query or author that was fetched.
LEMMA BatchResponds ==
    ASSUME RequestInv, R!Respond, IsBatch
    PROVE  DOMAIN answer' = {request.list[i].author : i \in R!Loaded} \ {Nobody}
<1>1. phase = "run" /\ running = {} /\ Waits /\ answer' = R!ByKey(result)
  BY DEF R!Respond, R!Waited, R!Is, IsBatch, Waits
<1>2. {result[k] : k \in DOMAIN result} = {request.list[i] : i \in Ended}
  BY <1>1 DEF RequestInv, Gathered
<1>3. {result[k].author : k \in DOMAIN result} = {request.list[i].author : i \in Ended}
  <2>1. ASSUME NEW a
        PROVE  a \in {result[k].author : k \in DOMAIN result}
                   <=> a \in {request.list[i].author : i \in Ended}
    <3>1. ASSUME NEW k \in DOMAIN result, a = result[k].author
          PROVE  \E i \in Ended : a = request.list[i].author
      BY <1>2, <3>1
    <3>2. ASSUME NEW i \in Ended, a = request.list[i].author
          PROVE  \E k \in DOMAIN result : a = result[k].author
      <4>1. PICK k \in DOMAIN result : result[k] = request.list[i]
        BY <1>2
      <4> QED  BY <3>2, <4>1
    <3> QED  BY <3>1, <3>2
  <2> QED  BY <2>1
<1>4. {request.list[i].author : i \in Ended}
          = {request.list[i].author : i \in R!Loaded} \ {Nobody}
  BY <1>1 DEF Ended
<1>5. DOMAIN answer' = {result[k].author : k \in DOMAIN result}
  BY <1>1 DEF R!ByKey
<1> QED  BY <1>3, <1>4, <1>5

\* A bulk request answers with the works in the order of their ratings, and the authors.
LEMMA BulkResponds ==
    ASSUME RequestInv, R!Respond, request.op = "bulk"
    PROVE  /\ Len(answer'.works) = Cardinality(R!Loaded)
           /\ \A i \in R!Loaded : request.list[i] \in R!ToSet(answer'.works)
           /\ R!Descending(answer'.works)
           /\ R!ToSet(answer'.authors) = {request.list[i].author : i \in R!Loaded}
           /\ R!IsInjective(answer'.authors)
<1>1. /\ phase = "run" /\ running = {} /\ Waits /\ ~IsBatch /\ result \in Seq(Items)
  BY DEF R!Respond, R!Waited, R!Is, IsBatch, Waits, RequestInv, RequestTyped
<1>2. PICK order \in R!Bijection(DOMAIN result, DOMAIN result) :
          answer' = R!Bulk(result, order) /\ R!Descending(answer'.works)
  BY DEF R!Respond, R!Is
<1>3. /\ {result[k] : k \in DOMAIN result} = {request.list[i] : i \in R!Loaded}
      /\ Len(result) = Cardinality(R!Loaded)
  <2>1. Ended = R!Loaded
    BY <1>1 DEF Ended
  <2> QED  BY <1>1, <2>1 DEF RequestInv, Gathered
<1> DEFINE works == [i \in DOMAIN result |-> result[order[i]]]
           first == R!FirstOfAuthor(result)
           authors == [i \in DOMAIN first |-> first[i].author]
<1>4. answer'.works = works /\ answer'.authors = authors
  BY <1>2 DEF R!Bulk
<1>5. /\ order \in [DOMAIN result -> DOMAIN result]
      /\ \A k \in DOMAIN result : \E i \in DOMAIN result : order[i] = k
  BY DEF R!Bijection, R!Injection, R!Surjection
<1>6. DOMAIN works = DOMAIN result /\ Len(works) = Len(result)
  BY <1>1
<1>7. ASSUME NEW i \in R!Loaded
      PROVE  request.list[i] \in R!ToSet(works)
  <2>1. PICK k \in DOMAIN result : result[k] = request.list[i]
    BY <1>3
  <2>2. PICK j \in DOMAIN result : order[j] = k
    BY <1>5
  <2>3. works[j] = request.list[i]
    BY <2>1, <2>2
  <2> HIDE DEF works
  <2> QED  BY <1>6, <2>3 DEF R!ToSet
<1>8. OncePerAuthor(first) /\ Authors(first) = Authors(result)
  <2> HIDE DEF first
  <2> QED  BY <1>1, FirstFacts DEF first
<1>9. Authors(result) = {request.list[i].author : i \in R!Loaded}
  <2>1. ASSUME NEW a
        PROVE  a \in {result[k].author : k \in DOMAIN result}
                   <=> a \in {request.list[i].author : i \in R!Loaded}
    <3>1. ASSUME NEW k \in DOMAIN result, a = result[k].author
          PROVE  \E i \in R!Loaded : a = request.list[i].author
      BY <1>3, <3>1
    <3>2. ASSUME NEW i \in R!Loaded, a = request.list[i].author
          PROVE  \E k \in DOMAIN result : a = result[k].author
      <4>1. PICK k \in DOMAIN result : result[k] = request.list[i]
        BY <1>3
      <4> QED  BY <3>2, <4>1
    <3> QED  BY <3>1, <3>2
  <2> QED  BY <2>1 DEF Authors
<1>10. R!ToSet(authors) = Authors(first)
  <2> HIDE DEF first
  <2> QED  BY DEF R!ToSet, Authors
<1>11. R!IsInjective(authors)
  <2> HIDE DEF first
  <2> QED  BY <1>8 DEF R!IsInjective, OncePerAuthor
<1> HIDE DEF works, first, authors
<1> QED  BY <1>2, <1>3, <1>4, <1>6, <1>7, <1>8, <1>9, <1>10, <1>11

LEMMA RespondStep ==
    ASSUME RequestInv, R!Respond
    PROVE  RequestInv'
<1>1. /\ phase = "run" /\ phase' = "ok" /\ R!Waited
      /\ UNCHANGED <<request, running, result, lookup>>
  BY DEF R!Respond
<1>2. Waits => running' = {}
  BY <1>1 DEF R!Waited, R!Is, Waits
<1>3. Waits => R!SearchDeduped'
  BY <1>1, SearchResponds DEF R!SearchDeduped, R!Is
<1>4. Waits => R!BatchComplete'
  <2>1. R!Loaded' = R!Loaded
    BY <1>1 DEF R!Loaded
  <2>2. IsBatch => DOMAIN answer' = {request'.list[i].author : i \in R!Loaded'} \ {Nobody}
    BY <1>1, <2>1, BatchResponds
  <2>3. CASE request.op = "bulk"
    <3>1. /\ Len(answer'.works) = R!Cardinality(R!Loaded')
          /\ \A i \in R!Loaded' : request'.list[i] \in R!ToSet(answer'.works)
          /\ R!Descending(answer'.works)
          /\ R!ToSet(answer'.authors) = {request'.list[i].author : i \in R!Loaded'}
          /\ R!IsInjective(answer'.authors)
      <4>1. R!Cardinality(R!Loaded) = Cardinality(R!Loaded)
        BY SMTT(30) DEF R!Cardinality, Cardinality
      <4> QED  BY <1>1, <2>1, <2>3, <4>1, BulkResponds
    <3> QED  BY <1>1, <2>3, <3>1 DEF R!BatchComplete, R!Is
  <2>4. CASE request.op # "bulk"
    BY <1>1, <2>2, <2>4 DEF R!BatchComplete, R!Is, IsBatch
  <2> QED  BY <2>3, <2>4
<1> QED  BY <1>1, <1>2, <1>3, <1>4
     DEF RequestInv, RequestTyped, NotBegun, Gathered, Answered, Waits

\* Only recommendations are answered while their goroutines go on.
LEMMA TornStep ==
    ASSUME RequestInv, R!TornAnswer
    PROVE  RequestInv'
  BY DEF R!TornAnswer, R!Is, RequestInv, RequestTyped, NotBegun, Gathered, Answered, Waits

\* The invariant speaks of the requests' variables only.
LEMMA RequestUnchanged ==
    ASSUME RequestInv, UNCHANGED requestVars
    PROVE  RequestInv'
<1>1. R!Loaded' = R!Loaded /\ IsBatch' = IsBatch /\ Waits' = Waits
  BY DEF requestVars, R!Loaded, IsBatch, Waits
<1>2. Ended' = Ended
  BY <1>1 DEF requestVars, Ended
<1>3. RequestTyped' /\ NotBegun'
  BY DEF RequestInv, RequestTyped, NotBegun, requestVars
<1>4. Gathered'
  BY <1>1, <1>2 DEF RequestInv, Gathered, requestVars
<1>5. R!SearchDeduped' = R!SearchDeduped /\ R!BatchComplete' = R!BatchComplete
  BY <1>1 DEF R!SearchDeduped, R!BatchComplete, R!Is, requestVars
<1>6. Answered'
  BY <1>1, <1>5 DEF RequestInv, Answered, requestVars
<1> QED  BY <1>3, <1>4, <1>6 DEF RequestInv

LEMMA RequestsStep ==
    (part = "request" => RequestInv) /\ [Next]_vars => (part = "request" => RequestInv)'
<1> SUFFICES ASSUME part = "request" => RequestInv, [Next]_vars, part' = "request"
             PROVE  RequestInv'
  OBVIOUS
<1>1. part = "request"
  BY DEF Next, vars, Content, Getter, Request
<1>2. RequestInv
  BY <1>1
<1>3. CASE UNCHANGED vars
  BY <1>2, <1>3, RequestUnchanged DEF vars
<1>4. CASE Next
  <2>1. ~Content /\ ~Getter
    BY <1>1 DEF Content, Getter
  <2>2. \/ R!FindCode \/ R!Refuse \/ R!Start \/ R!Respond \/ R!TornAnswer
        \/ \E i \in 1..MaxItems : R!ItemDone(i)
    BY <1>4, <2>1, Zenon DEF Next
  <2> QED  BY <1>2, <2>2, FindCodeStep, RefuseStep, RequestStartStep, RespondStep, TornStep,
           ItemDoneStep
<1> QED  BY <1>3, <1>4

LEMMA RequestsInit == Init => (part = "request" => RequestInv)
  BY RequestInit DEF Init

LEMMA RequestsAnswer ==
    (part = "request" => RequestInv) => SearchDeduped /\ BatchComplete
<1> SUFFICES ASSUME part = "request", RequestInv
             PROVE  R!SearchDeduped /\ R!BatchComplete
  BY DEF SearchDeduped, BatchComplete
<1>1. CASE phase = "ok" /\ Waits
  BY <1>1 DEF RequestInv, Answered
<1>2. CASE ~(phase = "ok" /\ Waits)
  BY <1>2 DEF R!SearchDeduped, R!BatchComplete, R!Is, Waits
<1> QED  BY <1>1, <1>2

\* In the service, for any results upstream lists and in whatever order their goroutines
\* end: a search answers with the edition its code leads to, or with no book and no work
\* twice, having left out nothing that loads but such repeats.
THEOREM SearchesDeduped == Spec => []SearchDeduped
  BY RequestsInit, RequestsStep, RequestsAnswer, PTL DEF Spec

\* In the service: a batch answers for every query or author that was fetched, a bulk
\* request with every book that was, by rating, and each of their authors once.
THEOREM BatchesComplete == Spec => []BatchComplete
  BY RequestsInit, RequestsStep, RequestsAnswer, PTL DEF Spec
-----------------------------------------------------------------------------
(* GetSeries.  SeriesPositions is inductive with how far the pages have     *)
(* come, and with what has been taken of that part of the list.             *)

\* The books of the first pages.
Passed(n) == IF PageSize * n < Len(call.list) THEN PageSize * n ELSE Len(call.list)

\* A page goes on where the one before it ended, and one that is not full is the last.
LEMMA PageFacts ==
    ASSUME NEW T, call.list \in Seq(T), NEW n \in Nat
    PROVE  /\ G!PageOf(n) \in Seq(DOMAIN call.list)
           /\ Passed(n) \in Nat /\ Passed(n) <= Len(call.list)
           /\ \A j \in DOMAIN G!PageOf(n) : /\ G!PageOf(n)[j] = PageSize * n + j
                                            /\ Passed(n) = PageSize * n
           /\ Passed(n + 1) = Passed(n) + Len(G!PageOf(n))
           /\ Len(G!PageOf(n)) < PageSize => Passed(n + 1) = Len(call.list)
<1> DEFINE from == PageSize * n
           len == Len(call.list)
           all == [i \in DOMAIN call.list |-> i]
           to == IF from + PageSize < len THEN from + PageSize ELSE len
<1>1. PageSize \in Nat \ {0}
  BY ServiceAssumption DEF ServiceAssumption, G!GettersAssumption
<1>2. from \in Nat /\ PageSize * (n + 1) = from + PageSize
  BY <1>1
<1>3. len \in Nat /\ DOMAIN call.list = 1..len
  OBVIOUS
<1> HIDE DEF from, len
<1>4. all \in Seq(1..len) /\ Len(all) = len /\ \A i \in 1..len : all[i] = i
  BY <1>3
<1>5. G!PageOf(n) = SubSeq(all, from + 1, to)
  BY <1>2 DEF G!PageOf, from, len
<1>6. Passed(n) = (IF from < len THEN from ELSE len) /\ Passed(n + 1) = to
  BY <1>2 DEF Passed, from, len
<1> HIDE DEF all
<1>7. to \in Nat /\ to <= len
  BY <1>1, <1>2, <1>3
<1>8. CASE from < len
  <2>1. from + 1 \in 1..len /\ to \in from + 1..len
    BY <1>1, <1>2, <1>3, <1>8
  <2> HIDE DEF to
  <2>2. /\ SubSeq(all, from + 1, to) \in Seq(1..len)
        /\ Len(SubSeq(all, from + 1, to)) = to - from
        /\ \A j \in 1..(to - from) : SubSeq(all, from + 1, to)[j] = from + j
    <3>1. \A i \in (from + 1)..to : i \in 1..len
      BY <1>2, <1>3, <1>7
    <3>2. \A i \in (from + 1)..to : all[i] \in 1..len
      BY <1>4, <3>1
    <3>3. from + 1 \in Int /\ to \in Int /\ from + 1 <= to
      BY <1>2, <1>3, <1>7, <2>1
    <3> DEFINE here == SubSeq(all, from + 1, to)
    <3>4. /\ here \in Seq(1..len)
          /\ Len(here) = IF from + 1 <= to THEN to - (from + 1) + 1 ELSE 0
          /\ \A i \in 1..(to - (from + 1) + 1) : here[i] = all[from + 1 + i - 1]
      BY <3>2, <3>3, SubSeqProperties
    <3> HIDE DEF here
    <3>5. Len(here) = to - from /\ to - (from + 1) + 1 = to - from
      BY <1>2, <1>7, <3>3, <3>4
    <3>6. ASSUME NEW j \in 1..(to - from)
          PROVE  here[j] = from + j
      <4>1. from + 1 + j - 1 = from + j /\ from + j \in 1..len
        BY <1>2, <1>3, <1>7
      <4> QED  BY <1>4, <3>4, <3>5, <4>1
    <3> QED  BY <3>4, <3>5, <3>6 DEF here
  <2>3. DOMAIN G!PageOf(n) = 1..(to - from)
    BY <1>5, <2>2
  <2>4. G!PageOf(n) \in Seq(DOMAIN call.list) /\ Len(G!PageOf(n)) = to - from
    BY <1>3, <1>5, <2>2
  <2>5. \A j \in DOMAIN G!PageOf(n) : G!PageOf(n)[j] = from + j
    BY <1>5, <2>2, <2>3
  <2>6. Passed(n) = from /\ Passed(n + 1) = to
    BY <1>6, <1>8
  <2>7. Passed(n) \in Nat /\ Passed(n) <= len /\ Passed(n + 1) = Passed(n) + (to - from)
    BY <1>2, <1>3, <1>7, <1>8, <2>6
  <2>8. to - from < PageSize => to = len
    BY <1>1, <1>2, <1>3, <1>8 DEF to
  <2> QED  BY <2>4, <2>5, <2>6, <2>7, <2>8 DEF from, len
<1>9. CASE ~(from < len)
  <2>1. from + 1 > to /\ to = len
    BY <1>1, <1>2, <1>3, <1>7, <1>9
  <2> HIDE DEF to
  <2>2. SubSeq(all, from + 1, to) = <<>>
    <3>1. from + 1 \in Int /\ to \in Int /\ to < from + 1
      BY <1>2, <1>7, <2>1
    <3> QED  BY <3>1, SubSeqEmpty
  <2>3. G!PageOf(n) = <<>>
    BY <1>5, <2>2
  <2>4. /\ G!PageOf(n) \in Seq(DOMAIN call.list)
        /\ DOMAIN G!PageOf(n) = {} /\ Len(G!PageOf(n)) = 0
    <3> HIDE DEF G!PageOf
    <3> QED  BY <2>3
  <2>5. Passed(n) = len /\ Passed(n + 1) = len
    BY <1>6, <1>9, <2>1
  <2>6. Passed(n) \in Nat /\ Passed(n) <= len /\ Passed(n + 1) = Passed(n) + 0
    BY <1>3, <2>5
  <2> QED  BY <2>4, <2>5, <2>6 DEF from, len
<1> QED  BY <1>8, <1>9

\* What Hardcover's GetSeries has taken of the first n books.
Places == [entry : Nat, position : Nat]
Taken(taken, n) ==
    /\ taken \in [last : Nat, out : Seq(Places)]
    /\ \A i \in DOMAIN taken.out : /\ taken.out[i].entry \in 1..n
                                   /\ taken.out[i].position = call.list[taken.out[i].entry]
    /\ \A i, j \in DOMAIN taken.out :
           i < j => /\ taken.out[i].entry < taken.out[j].entry
                    /\ \/ taken.out[i].position # taken.out[j].position
                       \/ taken.out[j].position = 0
    /\ \A i \in DOMAIN taken.out : \A k \in 1..(taken.out[i].entry - 1) :
           call.list[k] = 0 \/ call.list[k] # taken.out[i].position
    /\ \A k \in 1..n : \E i \in DOMAIN taken.out :
           /\ taken.out[i].position = call.list[k]
           /\ call.list[k] = 0 => taken.out[i].entry = k
    /\ taken.last = IF n = 0 THEN 0 ELSE call.list[n]

\* In a list sorted by position, one that differs from the last was not seen before.
LEMMA SortedFacts ==
    ASSUME call.list \in Seq(Nat), G!Sorted(call.list), NEW n \in Nat \ {0},
           n < Len(call.list), call.list[n + 1] # 0, call.list[n] # call.list[n + 1]
    PROVE  \A k \in 1..n : call.list[k] # call.list[n + 1]
<1> DEFINE list == call.list
           len == Len(call.list)
<1>1. PICK m \in 0..len : /\ \A i, j \in 1..m : i < j => list[i] <= list[j]
                          /\ \A j \in (m + 1)..len : list[j] = 0
  BY DEF G!Sorted
<1>2. len \in Nat /\ \A i \in 1..len : list[i] \in Nat
  OBVIOUS
<1>3. list[n + 1] # 0 /\ list[n] # list[n + 1] /\ n < len
  OBVIOUS
<1> HIDE DEF list, len
<1>4. n + 1 <= m
  <2> SUFFICES ASSUME n + 1 > m PROVE FALSE
    BY <1>1
  <2>1. n + 1 \in (m + 1)..len
    BY <1>1, <1>2, <1>3
  <2> QED  BY <1>1, <1>3, <2>1
<1>5. ASSUME NEW k \in 1..n
      PROVE  list[k] # list[n + 1]
  <2>1. k \in 1..m /\ n \in 1..m /\ n + 1 \in 1..m /\ k \in 1..len /\ n \in 1..len
        /\ n + 1 \in 1..len
    BY <1>1, <1>2, <1>4
  <2>2. list[k] <= list[n] /\ list[n] <= list[n + 1]
    <3>1. list[n] <= list[n + 1]
      BY <1>1, <2>1
    <3>2. k = n \/ list[k] <= list[n]
      BY <1>1, <2>1
    <3> QED  BY <1>2, <2>1, <3>1, <3>2
  <2>3. list[k] \in Nat /\ list[n] \in Nat /\ list[n + 1] \in Nat
    BY <1>2, <2>1
  <2> QED  BY <1>3, <2>2, <2>3
<1> QED  BY <1>5 DEF list

LEMMA TakeOne ==
    ASSUME call.list \in Seq(Nat), G!Sorted(call.list), NEW n \in Nat, n < Len(call.list),
           NEW taken, Taken(taken, n)
    PROVE  Taken(G!TakePosition(taken, n + 1), n + 1)
<1> DEFINE list == call.list
           out1 == taken.out
           next == list[n + 1]
<1>1. /\ taken \in [last : Nat, out : Seq(Places)] /\ out1 \in Seq(Places)
      /\ next \in Nat /\ \A k \in 1..n : list[k] \in Nat
      /\ taken.last = IF n = 0 THEN 0 ELSE list[n]
  <2>1. taken \in [last : Nat, out : Seq(Places)] /\ taken.last = IF n = 0 THEN 0 ELSE list[n]
    BY DEF Taken
  <2>2. out1 \in Seq(Places)
    BY <2>1
  <2>3. /\ DOMAIN list = 1..Len(list) /\ Len(list) \in Nat
        /\ \A k \in 1..Len(list) : list[k] \in Nat
    OBVIOUS
  <2>4. n + 1 \in 1..Len(list) /\ \A k \in 1..n : k \in 1..Len(list)
    BY <2>3
  <2> QED  BY <2>1, <2>2, <2>3, <2>4
<1>2. \A k \in 1..(n + 1) : k = n + 1 \/ k \in 1..n
  OBVIOUS
<1>3. \A i \in DOMAIN out1 : out1[i].entry \in 1..n /\ out1[i].position = list[out1[i].entry]
  BY DEF Taken
<1>4. \A i, j \in DOMAIN out1 :
          i < j => /\ out1[i].entry < out1[j].entry
                   /\ out1[i].position # out1[j].position \/ out1[j].position = 0
  BY DEF Taken
<1>5. \A i \in DOMAIN out1 : \A k \in 1..(out1[i].entry - 1) :
          list[k] = 0 \/ list[k] # out1[i].position
  BY DEF Taken
<1>6. \A k \in 1..n : \E i \in DOMAIN out1 :
          out1[i].position = list[k] /\ (list[k] = 0 => out1[i].entry = k)
  BY DEF Taken
<1>7. CASE taken.last > 0 /\ next = taken.last
  <2>1. G!TakePosition(taken, n + 1) = taken
    BY <1>7 DEF G!TakePosition
  <2>2. n \in 1..n /\ list[n] = next /\ next # 0
    BY <1>1, <1>7
  <2> HIDE DEF list, next, out1
  <2>3. \A i \in DOMAIN out1 : out1[i].entry \in 1..(n + 1)
    BY <1>3
  <2>4. \A k \in 1..(n + 1) : \E i \in DOMAIN out1 :
            out1[i].position = list[k] /\ (list[k] = 0 => out1[i].entry = k)
    BY <1>2, <1>6, <2>2 DEF next
  <2>5. taken.last = IF n + 1 = 0 THEN 0 ELSE list[n + 1]
    BY <1>7 DEF next
  <2>6. taken \in [last : Nat, out : Seq(Places)]
    BY <1>1
  <2>7. Taken(taken, n + 1)
    BY <1>3, <1>4, <1>5, <2>3, <2>4, <2>5, <2>6, Zenon DEF Taken, list, out1
  <2> QED  BY <2>1, <2>7
<1>8. CASE ~(taken.last > 0 /\ next = taken.last)
  <2> DEFINE new == [entry |-> n + 1, position |-> next]
             longer == Append(out1, new)
  <2>1. G!TakePosition(taken, n + 1) = [last |-> next, out |-> longer]
    BY <1>8 DEF G!TakePosition
  <2>2. new \in Places /\ new.entry = n + 1 /\ new.position = next
    BY <1>1 DEF Places
  <2>3. next = 0 \/ \A k \in 1..n : list[k] # next
    <3> SUFFICES ASSUME next # 0, NEW k \in 1..n PROVE list[k] # next
      OBVIOUS
    <3>1. n \in Nat \ {0} /\ taken.last = list[n]
      BY <1>1
    <3>2. list[n] # next
      BY <1>1, <1>8, <3>1
    <3> QED  BY <3>1, <3>2, SortedFacts
  <2> HIDE DEF new, list, next, out1
  <2> DEFINE l == Len(out1) + 1
  <2>4. /\ longer \in Seq(Places) /\ DOMAIN longer = DOMAIN out1 \union {l}
        /\ longer[l] = new /\ \A i \in DOMAIN out1 : longer[i] = out1[i] /\ i < l
        /\ l \in Nat /\ DOMAIN out1 \in SUBSET Nat /\ l \notin DOMAIN out1
    BY <1>1, <2>2
  <2> HIDE DEF longer, l
  <2>5. \A i \in DOMAIN longer : /\ longer[i].entry \in 1..(n + 1)
                                 /\ longer[i].position = list[longer[i].entry]
    <3>1. next = list[n + 1] /\ n + 1 \in 1..(n + 1) /\ \A k \in 1..n : k \in 1..(n + 1)
      BY DEF next
    <3> QED  BY <1>3, <2>2, <2>4, <3>1
  <2>6. ASSUME NEW i \in DOMAIN longer, NEW j \in DOMAIN longer, i < j
        PROVE  /\ longer[i].entry < longer[j].entry
               /\ longer[i].position # longer[j].position \/ longer[j].position = 0
    <3>1. CASE j \in DOMAIN out1
      <4>1. i \in DOMAIN out1
        BY <2>4, <2>6, <3>1
      <4> QED  BY <1>4, <2>4, <2>6, <3>1, <4>1
    <3>2. CASE j = l
      <4>1. i \in DOMAIN out1 /\ longer[i] = out1[i] /\ longer[j] = new
        BY <2>4, <2>6, <3>2
      <4>2. out1[i].entry \in 1..n /\ out1[i].position = list[out1[i].entry]
        BY <1>3, <4>1
      <4> QED  BY <2>2, <2>3, <4>1, <4>2
    <3> QED  BY <2>4, <3>1, <3>2
  <2>7. ASSUME NEW i \in DOMAIN longer, NEW k \in 1..(longer[i].entry - 1)
        PROVE  list[k] = 0 \/ list[k] # longer[i].position
    <3>1. CASE i \in DOMAIN out1
      BY <1>5, <2>4, <2>7, <3>1
    <3>2. CASE i = l
      <4>1. longer[i] = new /\ k \in 1..n
        BY <2>2, <2>4, <2>7, <3>2
      <4> QED  BY <2>2, <2>3, <4>1
    <3> QED  BY <2>4, <3>1, <3>2
  <2>8. ASSUME NEW k \in 1..(n + 1)
        PROVE  \E i \in DOMAIN longer :
                   /\ longer[i].position = list[k]
                   /\ list[k] = 0 => longer[i].entry = k
    <3>1. CASE k \in 1..n
      <4>1. PICK i \in DOMAIN out1 :
                out1[i].position = list[k] /\ (list[k] = 0 => out1[i].entry = k)
        BY <1>6, <3>1
      <4> QED  BY <2>4, <4>1
    <3>2. CASE k = n + 1
      <4>1. l \in DOMAIN longer /\ longer[l].position = list[k] /\ longer[l].entry = k
        BY <2>2, <2>4, <3>2 DEF next
      <4> QED  BY <4>1
    <3> QED  BY <1>2, <3>1, <3>2
  <2>9. next = IF n + 1 = 0 THEN 0 ELSE list[n + 1]
    BY DEF next
  <2> DEFINE after == [last |-> next, out |-> longer]
  <2>10. /\ after \in [last : Nat, out : Seq(Places)] /\ after.out = longer
         /\ after.last = next
    BY <1>1, <2>4
  <2> HIDE DEF after
  <2>11. Taken(after, n + 1)
    BY <2>5, <2>6, <2>7, <2>8, <2>9, <2>10 DEF Taken, list
  <2> QED  BY <2>1, <2>11 DEF after
<1> QED  BY <1>7, <1>8

\* A page is taken book by book.
LEMMA TakePageFacts ==
    ASSUME call.list \in Seq(Nat), G!Sorted(call.list), page \in Nat,
           Taken([last |-> last, out |-> out], Passed(page))
    PROVE  Taken(G!TakePage(G!PageOf(page)), Passed(page + 1))
<1> DEFINE works == G!PageOf(page)
           base == [last |-> last, out |-> out]
           A == [last : Nat, out : Seq(Places)]
           S == DOMAIN call.list
           f == [p \in A \X S |-> G!TakePosition(p[1], p[2])]
           Solves(it) == it = [s \in SUBSET DOMAIN works |->
                                 IF s = {} THEN base
                                 ELSE G!TakePosition(it[s \ {G!Max(s)}], works[G!Max(s)])]
           fold == CHOOSE it : Solves(it)
<1>1. /\ works \in Seq(S) /\ Passed(page) \in Nat
      /\ \A j \in DOMAIN works : works[j] = Passed(page) + j
      /\ Passed(page + 1) = Passed(page) + Len(works)
  BY PageFacts
<1>2. base \in A /\ f \in Steps(A, S)
  <2>1. base \in A
    BY DEF Taken
  <2>2. ASSUME NEW taken \in A, NEW i \in S
        PROVE  G!TakePosition(taken, i) \in A
    <3>1. call.list[i] \in Nat /\ i \in Nat /\ taken.out \in Seq(Places)
      OBVIOUS
    <3> DEFINE new == [entry |-> i, position |-> call.list[i]]
    <3>2. new \in Places
      BY <3>1 DEF Places
    <3> HIDE DEF new
    <3>3. Append(taken.out, new) \in Seq(Places)
      BY <3>1, <3>2
    <3> QED  BY <3>1, <3>3 DEF G!TakePosition, new
  <2>3. ASSUME NEW p \in A \X S
        PROVE  G!TakePosition(p[1], p[2]) \in A
    BY <2>2
  <2> QED  BY <2>1, <2>3 DEF Steps
<1>3. ASSUME NEW s \in SUBSET DOMAIN works, s # {}
      PROVE  G!Max(s) = Greatest(s) /\ works[Greatest(s)] \in S
  <2>1. G!Max(s) = Greatest(s)
    BY DEF G!Max, Greatest
  <2> HIDE DEF works
  <2>2. Len(works) \in Nat /\ s \in SUBSET (1..Len(works))
    BY <1>1
  <2>3. Greatest(s) \in s
    BY <1>3, <2>2, GreatestFacts
  <2> HIDE DEF S
  <2> QED  BY <1>1, <2>1, <2>3
<1>4. ASSUME NEW taken \in A, NEW i \in S
      PROVE  f[<<taken, i>>] = G!TakePosition(taken, i)
  OBVIOUS
<1>5. G!TakePage(works) = fold[DOMAIN works]
  BY DEF G!TakePage, G!FoldLeft, G!MapThenFoldSet
<1> HIDE DEF works, base, A, S, f, Solves, fold
<1>6. PICK iter \in [SUBSET DOMAIN works -> A] : IsFold(iter, base, f, works)
  BY <1>1, <1>2, FoldSolved, Zenon
<1>7. Solves(iter)
  BY <1>3, <1>4, <1>6 DEF Solves, IsFold
<1>8. Solves(fold)
  BY <1>7 DEF fold
<1>9. Folds(fold, A, base, f, works)
  <2>1. ASSUME NEW s \in SUBSET DOMAIN works, s # {}, fold[s \ {Greatest(s)}] \in A
        PROVE  fold[s] = f[<<fold[s \ {Greatest(s)}], works[Greatest(s)]>>]
    <3>1. fold[s] = G!TakePosition(fold[s \ {Greatest(s)}], works[Greatest(s)])
      BY <1>3, <1>8, <2>1 DEF Solves
    <3> QED  BY <1>3, <1>4, <2>1, <3>1
  <2>2. fold[{}] = base
    BY <1>8 DEF Solves
  <2> QED  BY <2>1, <2>2 DEF Folds
<1>10. PICK steps \in [0..Len(works) -> A] :
           GoesThrough(steps, base, f, works) /\ steps[Len(works)] = fold[DOMAIN works]
  BY <1>1, <1>2, <1>9, FoldSteps
<1> DEFINE Good == {k \in 0..Len(works) : Taken(steps[k], Passed(page) + k)}
<1>11. Len(works) \in Nat /\ DOMAIN works = 1..Len(works)
  BY <1>1
<1>12. 0 \in Good
  BY <1>1, <1>10, <1>11 DEF GoesThrough, base
<1>13. ASSUME NEW k \in 1..Len(works), k - 1 \in Good
       PROVE  k \in Good
  <2> DEFINE n == Passed(page) + (k - 1)
  <2>1. n \in Nat /\ works[k] = n + 1 /\ n + 1 = Passed(page) + k /\ k - 1 \in 0..Len(works)
    BY <1>1, <1>11
  <2>2. n + 1 \in S
    BY <1>1, <1>11, <2>1
  <2>3. n < Len(call.list)
    BY <2>1, <2>2 DEF S
  <2>4. steps[k] = G!TakePosition(steps[k - 1], n + 1)
    <3>1. steps[k] = f[<<steps[k - 1], works[k]>>]
      BY <1>10 DEF GoesThrough
    <3> QED  BY <1>4, <1>10, <2>1, <2>2, <3>1
  <2>5. Taken(steps[k - 1], n)
    BY <1>13
  <2> HIDE DEF n
  <2>6. Taken(steps[k], n + 1)
    BY <2>1, <2>3, <2>4, <2>5, TakeOne
  <2> QED  BY <1>11, <2>1, <2>6
<1>14. Good \in SUBSET (0..Len(works))
  OBVIOUS
<1>15. Len(works) \in Good
  <2> HIDE DEF Good
  <2> QED  BY <1>11, <1>12, <1>13, <1>14, UpTo
<1> QED  BY <1>1, <1>5, <1>10, <1>15 DEF works

-----------------------------------------------------------------------------
(* A call of GetSeries as it goes on.                                       *)

SeriesTyped ==
    /\ call.getter \in {"gr", "hc"} /\ call.count \in Nat
    /\ call.list \in Seq(Nat) /\ G!Sorted(call.list)
    /\ page \in Nat
NumberedThrough == call.getter = "gr" =>
    /\ out \in Seq(Places) /\ Len(out) = Passed(page)
    /\ \A i \in DOMAIN out : out[i] = [entry |-> i, position |-> i]
    /\ status = "run" => Passed(page) = PageSize * page
    /\ status = "ok" => Passed(page) = Len(call.list) \/ page = MaxPages
TakenSoFar == call.getter = "hc" =>
    /\ Taken([last |-> last, out |-> out], Passed(page))
    /\ status = "ok" => \/ Passed(page) = Len(call.list) \/ page = MaxPages
                        \/ Len(out) >= call.count
SeriesInv == call.op = "series" => SeriesTyped /\ NumberedThrough /\ TakenSoFar

LEMMA SeriesPages == MaxPages \in Nat /\ PageSize \in Nat \ {0}
  BY ServiceAssumption DEF ServiceAssumption, G!GettersAssumption

LEMMA SeriesInit == G!Init => SeriesInv
<1> SUFFICES ASSUME G!Init, call.op = "series"
             PROVE  SeriesTyped /\ NumberedThrough /\ TakenSoFar
  BY DEF SeriesInv
<1>1. call \in G!SeriesCall /\ page = 0 /\ last = 0 /\ out = <<>> /\ status = "run"
  BY DEF G!Init, G!AuthorCall
<1>2. call.getter \in {"gr", "hc"} /\ G!Sorted(call.list) /\ call.count \in Nat
  BY <1>1 DEF G!SeriesCall
<1>3. \E n \in 0..MaxAnswer : call.list \in [1..n -> Positions \union {0}]
  BY <1>1 DEF G!SeriesCall, G!SeqUpTo
<1>4. call.list \in Seq(Nat)
  <2>1. PICK n \in 0..MaxAnswer : call.list \in [1..n -> Positions \union {0}]
    BY <1>3
  <2> DEFINE list == call.list
  <2> HIDE DEF list
  <2>2. n \in Nat /\ list \in [1..n -> Nat]
    BY <2>1, ServiceAssumption DEF ServiceAssumption, G!GettersAssumption, list
  <2>3. list \in Seq(Nat)
    BY <2>2
  <2> QED  BY <2>3 DEF list
<1>5. PageSize * page = 0 /\ Passed(page) = 0
  BY <1>1, <1>4, SeriesPages DEF Passed
<1> DEFINE base == [last |-> last, out |-> out]
<1>6. out \in Seq(Places) /\ Len(out) = 0 /\ DOMAIN out = {}
  BY <1>1
<1>7. Taken(base, 0)
  <2>1. base \in [last : Nat, out : Seq(Places)] /\ base.out = out /\ base.last = 0
    BY <1>1, <1>6
  <2> HIDE DEF base
  <2> QED  BY <1>6, <2>1 DEF Taken
<1> QED  BY <1>1, <1>2, <1>4, <1>5, <1>6, <1>7 DEF SeriesTyped, NumberedThrough, TakenSoFar

LEMMA SameCall ==
    ASSUME call' = call, page' = page + 1, SeriesTyped
    PROVE  SeriesTyped'
<1>1. G!Sorted(call.list)' = G!Sorted(call.list)
  BY DEF G!Sorted
<1> QED  BY <1>1 DEF SeriesTyped

\* Goodreads' works are numbered from where the page before ended.
LEMMA GRSeriesStep ==
    ASSUME call.op = "series", SeriesTyped, NumberedThrough, G!GRSeriesPage
    PROVE  SeriesTyped' /\ NumberedThrough' /\ TakenSoFar'
<1> DEFINE works == G!PageOf(page)
           numbered == [i \in DOMAIN works |->
                           [entry |-> works[i], position |-> PageSize * page + i]]
<1>1. /\ call.getter = "gr" /\ status = "run" /\ call' = call /\ page' = page + 1
      /\ out' = out \o numbered
      /\ status' = IF Len(works) < PageSize \/ page + 1 = MaxPages THEN "ok" ELSE "run"
  BY DEF G!GRSeriesPage, G!Running, G!End
<1>2. /\ call.list \in Seq(Nat) /\ page \in Nat /\ out \in Seq(Places)
      /\ Len(out) = Passed(page) /\ Passed(page) = PageSize * page
      /\ \A i \in DOMAIN out : out[i] = [entry |-> i, position |-> i]
  BY <1>1 DEF SeriesTyped, NumberedThrough
<1>3. /\ works \in Seq(DOMAIN call.list)
      /\ \A j \in DOMAIN works : works[j] = Len(out) + j
      /\ Passed(page + 1) = Len(out) + Len(works)
      /\ Len(works) < PageSize => Passed(page + 1) = Len(call.list)
      /\ Passed(page + 1) \in Nat /\ Passed(page + 1) <= Len(call.list)
  <2>1. page + 1 \in Nat
    BY <1>2
  <2>2. Passed(page + 1) \in Nat /\ Passed(page + 1) <= Len(call.list)
    BY <1>2, <2>1, PageFacts
  <2>3. /\ works \in Seq(DOMAIN call.list)
        /\ \A j \in DOMAIN works : works[j] = PageSize * page + j
        /\ Passed(page + 1) = Passed(page) + Len(works)
        /\ Len(works) < PageSize => Passed(page + 1) = Len(call.list)
    BY <1>2, PageFacts
  <2> HIDE DEF works
  <2> QED  BY <1>2, <2>2, <2>3
<1>4. numbered \in Seq(Places) /\ Len(numbered) = Len(works)
      /\ \A j \in DOMAIN works :
             numbered[j] = [entry |-> Len(out) + j, position |-> Len(out) + j]
  <2> HIDE DEF works
  <2>1. Len(works) \in Nat /\ DOMAIN works = 1..Len(works) /\ Len(out) \in Nat
    BY <1>2, <1>3
  <2>2. ASSUME NEW j \in DOMAIN works
        PROVE  /\ [entry |-> works[j], position |-> PageSize * page + j]
                      = [entry |-> Len(out) + j, position |-> Len(out) + j]
               /\ [entry |-> Len(out) + j, position |-> Len(out) + j] \in Places
    <3>1. works[j] = Len(out) + j /\ PageSize * page + j = Len(out) + j /\ Len(out) + j \in Nat
      BY <1>2, <1>3, <2>1
    <3> QED  BY <3>1 DEF Places
  <2>3. numbered \in [1..Len(works) -> Places]
    BY <2>1, <2>2
  <2> QED  BY <2>1, <2>2, <2>3
<1> HIDE DEF works, numbered
<1>5. out' \in Seq(Places) /\ Len(out') = Passed(page + 1)
  BY <1>1, <1>2, <1>3, <1>4
<1>6. ASSUME NEW i \in DOMAIN out'
      PROVE  out'[i] = [entry |-> i, position |-> i]
  <2>1. /\ DOMAIN out' = 1..(Len(out) + Len(works)) /\ DOMAIN works = 1..Len(works)
        /\ Len(out) \in Nat /\ Len(works) \in Nat /\ DOMAIN out = 1..Len(out)
    BY <1>1, <1>2, <1>3, <1>4, <1>5
  <2>2. CASE i \in DOMAIN out
    BY <1>1, <1>2, <1>4, <2>1, <2>2
  <2>3. CASE i \notin DOMAIN out
    <3>1. i - Len(out) \in DOMAIN works /\ Len(out) + (i - Len(out)) = i
      BY <2>1, <2>3
    <3>2. out'[i] = numbered[i - Len(out)]
      BY <1>1, <1>2, <1>4, <2>1, <2>3
    <3> QED  BY <1>4, <3>1, <3>2
  <2> QED  BY <2>2, <2>3
<1>7. status' = "run" => Passed(page + 1) = PageSize * (page + 1)
  <2> SUFFICES ASSUME ~(Len(works) < PageSize) PROVE Passed(page + 1) = PageSize * (page + 1)
    BY <1>1
  <2>1. PageSize * (page + 1) = Len(out) + PageSize
    BY <1>2, SeriesPages
  <2>2. Passed(page + 1) >= PageSize * (page + 1)
    BY <1>2, <1>3, <2>1, SeriesPages
  <2>3. PageSize * (page + 1) \in Nat /\ Passed(page + 1) <= PageSize * (page + 1)
    BY <1>2, <2>1, SeriesPages DEF Passed
  <2> QED  BY <1>3, <2>2, <2>3
<1>8. Passed(page)' = Passed(page + 1)
  BY <1>1 DEF Passed
<1>9. SeriesTyped'
  BY <1>1, SameCall
<1>10. NumberedThrough'
  BY <1>1, <1>3, <1>5, <1>6, <1>7, <1>8 DEF NumberedThrough
<1>11. TakenSoFar'
  BY <1>1 DEF TakenSoFar
<1> QED  BY <1>9, <1>10, <1>11

\* An error ends the call with what it has.
LEMMA SeriesEnds ==
    ASSUME SeriesInv, UNCHANGED <<call, page, last, out>>,
           status' = status \/ status' \notin {"run", "ok"}
    PROVE  SeriesInv'
<1> SUFFICES ASSUME call.op = "series" PROVE SeriesInv'
  BY DEF SeriesInv
<1>1. SeriesTyped /\ NumberedThrough /\ TakenSoFar
  BY DEF SeriesInv
<1>2. Passed(page)' = Passed(page)
  BY DEF Passed
<1>3. SeriesTyped'
  <2>1. G!Sorted(call.list)' = G!Sorted(call.list)
    BY DEF G!Sorted
  <2> QED  BY <1>1, <2>1 DEF SeriesTyped
<1>4. NumberedThrough'
  BY <1>1, <1>2 DEF NumberedThrough
<1>5. TakenSoFar'
  <2> DEFINE base == [last |-> last, out |-> out]
  <2>1. base' = base
    OBVIOUS
  <2>2. Taken(base, Passed(page))' <=> Taken(base, Passed(page))
    <3> HIDE DEF base
    <3> QED  BY <1>2, <2>1 DEF Taken
  <2> QED  BY <1>1, <1>2, <2>2 DEF TakenSoFar
<1> QED  BY <1>3, <1>4, <1>5 DEF SeriesInv

\* A page of Hardcover's is taken whole, and an empty one was the end of the list.
LEMMA HCSeriesStep ==
    ASSUME call.op = "series", SeriesTyped, TakenSoFar, G!HCSeriesPage
    PROVE  SeriesTyped' /\ NumberedThrough' /\ TakenSoFar'
<1> DEFINE works == G!PageOf(page)
           taken == G!TakePage(works)
<1>1. /\ call.getter = "hc" /\ call' = call /\ page' = page + 1
      /\ out' = taken.out /\ last' = taken.last
      /\ status' = IF works = <<>> \/ Len(taken.out) >= call.count \/ page + 1 = MaxPages
                   THEN "ok" ELSE "run"
  BY DEF G!HCSeriesPage, G!Running, G!End
<1>2. call.list \in Seq(Nat) /\ G!Sorted(call.list) /\ page \in Nat
  BY DEF SeriesTyped
<1>3. Taken(taken, Passed(page + 1))
  BY <1>1, <1>2, TakePageFacts DEF TakenSoFar
<1>4. works = <<>> => Passed(page + 1) = Len(call.list)
  <2>1. Len(<<>>) = 0 /\ 0 < PageSize
    BY SeriesPages
  <2>2. Len(works) < PageSize => Passed(page + 1) = Len(call.list)
    BY <1>2, PageFacts
  <2> HIDE DEF works
  <2> QED  BY <2>1, <2>2
<1> HIDE DEF taken, works
<1>5. [last |-> last', out |-> out'] = taken
  <2>1. taken \in [last : Nat, out : Seq(Places)]
    BY <1>3 DEF Taken
  <2> QED  BY <1>1, <2>1
<1>6. Taken([last |-> last, out |-> out], Passed(page))'
  <2>1. Passed(page)' = Passed(page + 1)
    BY <1>1 DEF Passed
  <2>2. Taken([last |-> last', out |-> out'], Passed(page + 1))
    BY <1>3, <1>5
  <2> DEFINE base == [last |-> last', out |-> out']
  <2>3. Taken(base, Passed(page + 1))
    BY <2>2
  <2> HIDE DEF base
  <2> QED  BY <1>1, <2>1, <2>3 DEF Taken, base
<1>7. status' = "ok" => \/ Passed(page)' = Len(call'.list) \/ page' = MaxPages
                        \/ Len(out') >= call'.count
  <2>1. Passed(page)' = Passed(page + 1)
    BY <1>1 DEF Passed
  <2> QED  BY <1>1, <1>4, <2>1
<1>8. SeriesTyped' /\ NumberedThrough'
  BY <1>1, SameCall DEF NumberedThrough
<1> QED  BY <1>1, <1>6, <1>7, <1>8 DEF TakenSoFar

\* The other steps of a getter leave a call of GetSeries alone, or end it.
LEMMA SeriesStep ==
    ASSUME SeriesInv, G!Next
    PROVE  SeriesInv'
<1> SUFFICES ASSUME call'.op = "series" PROVE SeriesInv'
  BY DEF SeriesInv
<1>1. call' = call
  BY DEF G!Next, G!SeriesFails, G!GRSeriesPage, G!HCSeriesPage, G!GRBooksStart, G!BooksFail,
         G!GRBooksPage, G!HCBooksPage, G!AuthorStart, G!GRAuthorBook, G!HCAuthorBook
<1>2. SeriesTyped /\ NumberedThrough /\ TakenSoFar
  BY <1>1 DEF SeriesInv
<1>3. G!SeriesFails \/ G!GRSeriesPage \/ G!HCSeriesPage
  BY <1>1 DEF G!Next, G!GRBooksStart, G!BooksFail, G!GRBooksPage, G!HCBooksPage,
              G!AuthorStart, G!GRAuthorBook, G!HCAuthorBook, G!Running
<1>4. CASE G!SeriesFails
  <2>1. UNCHANGED <<call, page, last, out>> /\ status' \notin {"run", "ok"}
    BY <1>4 DEF G!SeriesFails, G!End
  <2> QED  BY <1>2, <2>1, SeriesEnds
<1>5. CASE G!GRSeriesPage
  BY <1>1, <1>2, <1>5, GRSeriesStep DEF SeriesInv
<1>6. CASE G!HCSeriesPage
  BY <1>1, <1>2, <1>6, HCSeriesStep DEF SeriesInv
<1> QED  BY <1>3, <1>4, <1>5, <1>6

LEMMA SeriesInvStep ==
    (part = "getter" => SeriesInv) /\ [Next]_vars => (part = "getter" => SeriesInv)'
<1> SUFFICES ASSUME part = "getter" => SeriesInv, [Next]_vars, part' = "getter"
             PROVE  SeriesInv'
  OBVIOUS
<1>1. part = "getter" /\ SeriesInv
  BY DEF Next, vars, Content, Getter, Request
<1>2. CASE UNCHANGED vars
  BY <1>1, <1>2, SeriesEnds DEF vars, callVars
<1>3. CASE Next
  <2>1. ~Content /\ ~Request
    BY <1>1 DEF Content, Request
  <2>2. G!Next
    BY <1>3, <2>1, Zenon DEF Next, G!Next
  <2> QED  BY <1>1, <2>2, SeriesStep
<1> QED  BY <1>2, <1>3

\* What the invariant says of a call of GetSeries at any time.
LEMMA SeriesHolds == SeriesInv => G!SeriesPositions
<1> SUFFICES ASSUME call.op = "series", SeriesTyped, NumberedThrough, TakenSoFar
             PROVE  G!SeriesPositions
  BY DEF SeriesInv, G!SeriesPositions
<1> DEFINE base == [last |-> last, out |-> out]
<1>1. CASE call.getter = "gr"
  <2>1. /\ \A i \in DOMAIN out : out[i] = [entry |-> i, position |-> i]
        /\ status = "ok" => Len(out) = Len(call.list) \/ page = MaxPages
    BY <1>1 DEF NumberedThrough
  <2> QED  BY <1>1, <2>1 DEF G!SeriesPositions
<1>2. CASE call.getter = "hc"
  <2>1. Taken(base, Passed(page)) /\ base.out = out
    BY <1>2 DEF TakenSoFar
  <2> HIDE DEF base
  <2>2. \A i, j \in DOMAIN out :
            i < j => /\ out[i].entry < out[j].entry
                     /\ out[i].position # out[j].position \/ out[j].position = 0
    BY <2>1 DEF Taken
  <2>3. \A i \in DOMAIN out : \A k \in 1..(out[i].entry - 1) :
            call.list[k] = 0 \/ call.list[k] # out[i].position
    BY <2>1 DEF Taken
  <2>4. \A k \in 1..Passed(page) : \E i \in DOMAIN out :
            out[i].position = call.list[k] /\ (call.list[k] = 0 => out[i].entry = k)
    BY <2>1 DEF Taken
  <2>5. ASSUME status = "ok", page < MaxPages, Len(out) < call.count
        PROVE  Passed(page) = Len(call.list)
    <3>1. page # MaxPages
      BY <2>5, SeriesPages DEF SeriesTyped
    <3>2. ~(Len(out) >= call.count)
      <4>1. out \in Seq(Places) /\ call.count \in Nat
        BY <2>1 DEF Taken, SeriesTyped
      <4> QED  BY <2>5, <4>1
    <3> QED  BY <1>2, <2>5, <3>1, <3>2 DEF TakenSoFar
  <2>6. DOMAIN call.list = 1..Len(call.list)
    BY DEF SeriesTyped
  <2> QED  BY <1>2, <2>2, <2>3, <2>4, <2>5, <2>6 DEF G!SeriesPositions
<1> QED  BY <1>1, <1>2 DEF SeriesTyped

\* In the service, for any list upstream pages through: Goodreads' series numbers its works
\* from 1 across pages, and Hardcover's takes one book per position, the first, all books
\* without one, and leaves out none that it came to.
THEOREM SeriesNumbered == Spec => []SeriesPositions
<1>1. Init => (part = "getter" => SeriesInv)
  BY SeriesInit DEF Init
<1>2. (part = "getter" => SeriesInv) => SeriesPositions
  BY SeriesHolds DEF SeriesPositions
<1> QED  BY <1>1, <1>2, SeriesInvStep, PTL DEF Spec
-----------------------------------------------------------------------------
(* GetAuthorBooks.  What it keeps of two pages is what it keeps of either;  *)
(* AuthorBooksComplete is inductive with how many books have been gone      *)
(* through while the iterator runs.                                         *)

AddKept(kept, i) == IF G!Keeps(i) THEN Append(kept, i) ELSE kept

\* A page is gone through book by book (gr.go:562, hardcover.go:396).
LEMMA KeptSteps ==
    ASSUME NEW works \in Seq(Nat)
    PROVE  \E steps \in [0..Len(works) -> Seq(Nat)] :
               /\ steps[0] = <<>>
               /\ \A k \in 1..Len(works) : steps[k] = AddKept(steps[k - 1], works[k])
               /\ steps[Len(works)] = G!Kept(works)
<1> DEFINE A == Seq(Nat)
           f == [p \in A \X Nat |-> AddKept(p[1], p[2])]
           Solves(it) == it = [s \in SUBSET DOMAIN works |->
                                 IF s = {} THEN <<>>
                                 ELSE AddKept(it[s \ {G!Max(s)}], works[G!Max(s)])]
           fold == CHOOSE it : Solves(it)
<1>1. <<>> \in A /\ f \in Steps(A, Nat)
  <2>1. \A kept \in A, i \in Nat : AddKept(kept, i) \in A
    BY DEF AddKept
  <2>2. ASSUME NEW p \in A \X Nat
        PROVE  AddKept(p[1], p[2]) \in A
    BY <2>1
  <2> QED  BY <2>2 DEF Steps
<1>2. ASSUME NEW s \in SUBSET DOMAIN works, s # {}
      PROVE  G!Max(s) = Greatest(s) /\ works[Greatest(s)] \in Nat
  <2>1. G!Max(s) = Greatest(s)
    BY DEF G!Max, Greatest
  <2>2. Len(works) \in Nat /\ s \in SUBSET (1..Len(works))
    OBVIOUS
  <2>3. Greatest(s) \in s
    BY <1>2, <2>2, GreatestFacts
  <2> QED  BY <2>1, <2>3
<1>3. ASSUME NEW kept \in A, NEW i \in Nat
      PROVE  f[<<kept, i>>] = AddKept(kept, i)
  OBVIOUS
<1>4. G!Kept(works) = fold[DOMAIN works]
  BY DEF G!Kept, G!FoldLeft, G!MapThenFoldSet, AddKept
<1> HIDE DEF A, f, Solves, fold
<1>5. PICK iter \in [SUBSET DOMAIN works -> A] : IsFold(iter, <<>>, f, works)
  BY <1>1, FoldSolved, Zenon
<1>6. Solves(iter)
  BY <1>2, <1>3, <1>5 DEF Solves, IsFold
<1>7. Solves(fold)
  BY <1>6 DEF fold
<1>8. Folds(fold, A, <<>>, f, works)
  <2>1. ASSUME NEW s \in SUBSET DOMAIN works, s # {}, fold[s \ {Greatest(s)}] \in A
        PROVE  fold[s] = f[<<fold[s \ {Greatest(s)}], works[Greatest(s)]>>]
    <3>1. fold[s] = AddKept(fold[s \ {Greatest(s)}], works[Greatest(s)])
      BY <1>2, <1>7, <2>1 DEF Solves
    <3> QED  BY <1>2, <1>3, <2>1, <3>1
  <2>2. fold[{}] = <<>>
    BY <1>7 DEF Solves
  <2> QED  BY <2>1, <2>2 DEF Folds
<1>9. PICK steps \in [0..Len(works) -> A] :
          GoesThrough(steps, <<>>, f, works) /\ steps[Len(works)] = fold[DOMAIN works]
  BY <1>1, <1>8, FoldSteps
<1>10. ASSUME NEW k \in 1..Len(works)
       PROVE  steps[k] = AddKept(steps[k - 1], works[k])
  <2>1. k - 1 \in 0..Len(works) /\ works[k] \in Nat
    OBVIOUS
  <2> QED  BY <1>3, <1>9, <2>1 DEF GoesThrough
<1> QED  BY <1>4, <1>9, <1>10 DEF GoesThrough, A

LEMMA ConcatAppend ==
    ASSUME NEW s \in Seq(Nat), NEW t \in Seq(Nat), NEW i \in Nat
    PROVE  Append(s \o t, i) = s \o Append(t, i)
<1> DEFINE one == Append(s \o t, i)
           other == s \o Append(t, i)
           n == Len(s) + Len(t) + 1
<1>1. /\ one \in Seq(Nat) /\ other \in Seq(Nat) /\ n \in Nat
      /\ Len(one) = n /\ Len(other) = n
  OBVIOUS
<1>2. ASSUME NEW k \in 1..n
      PROVE  one[k] = other[k]
  <2>1. CASE k <= Len(s)
    BY <2>1
  <2>2. CASE k > Len(s)
    BY <2>2
  <2> QED  BY <2>1, <2>2
<1> HIDE DEF one, other, n
<1>3. one = other
  BY <1>1, <1>2, SeqEqual
<1> QED  BY <1>3 DEF one, other

LEMMA KeptSplit ==
    ASSUME NEW before \in Seq(Nat), NEW works \in Seq(Nat)
    PROVE  /\ G!Kept(before) \in Seq(Nat) /\ G!Kept(works) \in Seq(Nat)
           /\ G!Kept(before \o works) = G!Kept(before) \o G!Kept(works)
<1> DEFINE all == before \o works
           a == Len(before)
           b == Len(works)
<1>1. /\ a \in Nat /\ b \in Nat /\ all \in Seq(Nat) /\ Len(all) = a + b
      /\ \A i \in 1..a : all[i] = before[i] /\ before[i] \in Nat
      /\ \A i \in 1..b : all[a + i] = works[i] /\ works[i] \in Nat
  OBVIOUS
<1>2. PICK u \in [0..Len(all) -> Seq(Nat)] :
          /\ u[0] = <<>> /\ \A k \in 1..Len(all) : u[k] = AddKept(u[k - 1], all[k])
          /\ u[Len(all)] = G!Kept(all)
  <2> HIDE DEF all
  <2> QED  BY <1>1, KeptSteps
<1>3. PICK v \in [0..a -> Seq(Nat)] :
          /\ v[0] = <<>> /\ \A k \in 1..a : v[k] = AddKept(v[k - 1], before[k])
          /\ v[a] = G!Kept(before)
  BY KeptSteps
<1>4. PICK w \in [0..b -> Seq(Nat)] :
          /\ w[0] = <<>> /\ \A k \in 1..b : w[k] = AddKept(w[k - 1], works[k])
          /\ w[b] = G!Kept(works)
  BY KeptSteps
<1> HIDE DEF all, a, b
<1>5. u[a] = v[a]
  <2> DEFINE Good == {k \in 0..a : u[k] = v[k]}
  <2>1. 0 \in Good
    BY <1>1, <1>2, <1>3
  <2>2. ASSUME NEW k \in 1..a, k - 1 \in Good
        PROVE  k \in Good
    <3>1. k \in 1..Len(all)
      BY <1>1
    <3> QED  BY <1>1, <1>2, <1>3, <2>2, <3>1
  <2>3. Good \in SUBSET (0..a)
    OBVIOUS
  <2>4. a \in Good
    <3> HIDE DEF Good
    <3> QED  BY <1>1, <2>1, <2>2, <2>3, UpTo
  <2> QED  BY <2>4
<1>6. v[a] \in Seq(Nat) /\ w[b] \in Seq(Nat)
  BY <1>1, <1>3, <1>4
<1>7. u[a + b] = v[a] \o w[b]
  <2> DEFINE Good == {k \in 0..b : u[a + k] = v[a] \o w[k]}
  <2>1. 0 \in Good
    <3>1. v[a] \o <<>> = v[a] /\ a + 0 = a
      BY <1>1, <1>6
    <3>2. u[a + 0] = v[a] \o w[0]
      BY <1>4, <1>5, <3>1
    <3> QED  BY <1>1, <3>2
  <2>2. ASSUME NEW k \in 1..b, k - 1 \in Good
        PROVE  k \in Good
    <3>1. a + k \in 1..Len(all) /\ (a + k) - 1 = a + (k - 1) /\ k - 1 \in 0..b
      BY <1>1
    <3>2. w[k - 1] \in Seq(Nat) /\ works[k] \in Nat
      BY <1>1, <1>4, <3>1
    <3>3. u[a + k] = AddKept(v[a] \o w[k - 1], works[k])
      BY <1>1, <1>2, <2>2, <3>1
    <3>4. w[k] = AddKept(w[k - 1], works[k])
      BY <1>4
    <3>5. ASSUME NEW s \in Seq(Nat), NEW t \in Seq(Nat), NEW i \in Nat
          PROVE  AddKept(s \o t, i) = s \o AddKept(t, i)
      <4>1. CASE G!Keeps(i)
        BY <4>1, ConcatAppend DEF AddKept
      <4>2. CASE ~G!Keeps(i)
        BY <4>2 DEF AddKept
      <4> QED  BY <4>1, <4>2
    <3>6. AddKept(v[a] \o w[k - 1], works[k]) = v[a] \o AddKept(w[k - 1], works[k])
      <4> DEFINE s == v[a]
                 t == w[k - 1]
                 i == works[k]
      <4>1. s \in Seq(Nat) /\ t \in Seq(Nat) /\ i \in Nat
        BY <1>6, <3>2
      <4> HIDE DEF s, t, i
      <4>2. AddKept(s \o t, i) = s \o AddKept(t, i)
        BY <3>5, <4>1
      <4> QED  BY <4>2 DEF s, t, i
    <3>7. u[a + k] = v[a] \o w[k]
      BY <3>3, <3>4, <3>6
    <3>8. k \in 0..b
      BY <1>1
    <3> QED  BY <3>7, <3>8
  <2>3. Good \in SUBSET (0..b)
    OBVIOUS
  <2>4. b \in Good
    <3> HIDE DEF Good
    <3> QED  BY <1>1, <2>1, <2>2, <2>3, UpTo
  <2> QED  BY <2>4
<1> QED  BY <1>1, <1>2, <1>3, <1>4, <1>6, <1>7 DEF all, a, b

\* What is kept of the first k books.
UpToBook(k) == G!Kept([i \in 1..k |-> i])

LEMMA KeptUpTo ==
    ASSUME NEW a \in Nat, NEW works \in Seq(Nat), \A j \in DOMAIN works : works[j] = a + j
    PROVE  /\ UpToBook(a) \in Seq(Nat) /\ G!Kept(works) \in Seq(Nat)
           /\ UpToBook(a + Len(works)) = UpToBook(a) \o G!Kept(works)
<1> DEFINE before == [i \in 1..a |-> i]
           all == [i \in 1..(a + Len(works)) |-> i]
<1>1. /\ before \in Seq(Nat) /\ Len(before) = a /\ \A i \in 1..a : before[i] = i
      /\ all \in Seq(Nat) /\ Len(all) = a + Len(works) /\ Len(works) \in Nat
      /\ \A i \in 1..(a + Len(works)) : all[i] = i
  OBVIOUS
<1> HIDE DEF before, all
<1>2. before \o works \in Seq(Nat) /\ Len(before \o works) = a + Len(works)
  BY <1>1
<1>3. ASSUME NEW i \in 1..(a + Len(works))
      PROVE  (before \o works)[i] = i
  <2>1. CASE i <= a
    BY <1>1, <2>1
  <2>2. CASE i > a
    <3>1. DOMAIN works = 1..Len(works)
      OBVIOUS
    <3>2. i - a \in 1..Len(works) /\ a + (i - a) = i
      BY <1>1, <2>2
    <3>3. (before \o works)[i] = works[i - a]
      <4>1. ASSUME NEW s \in Seq(Nat), NEW t \in Seq(Nat), NEW k \in 1..Len(t)
            PROVE  (s \o t)[Len(s) + k] = t[k]
        OBVIOUS
      <4>2. (before \o works)[Len(before) + (i - a)] = works[i - a]
        BY <1>1, <3>2, <4>1
      <4> QED  BY <1>1, <3>2, <4>2
    <3>4. works[i - a] = a + (i - a)
      BY <3>1, <3>2
    <3> QED  BY <3>2, <3>3, <3>4
  <2> QED  BY <1>1, <2>1, <2>2
<1>4. all = before \o works
  <2> DEFINE both == before \o works
  <2>1. \A i \in 1..Len(all) : all[i] = both[i]
    BY <1>1, <1>3
  <2>2. both \in Seq(Nat) /\ Len(all) = Len(both)
    BY <1>1, <1>2
  <2> HIDE DEF both
  <2>3. all = both
    BY <1>1, <2>1, <2>2, SeqEqual
  <2> QED  BY <2>3 DEF both
<1>5. G!Kept(before) \in Seq(Nat) /\ G!Kept(works) \in Seq(Nat)
      /\ G!Kept(before \o works) = G!Kept(before) \o G!Kept(works)
  BY <1>1, KeptSplit
<1> QED  BY <1>4, <1>5 DEF UpToBook, before, all

LEMMA PrefixFacts ==
    ASSUME NEW s \in Seq(Nat), NEW t \in Seq(Nat)
    PROVE  /\ G!IsPrefix(s, s \o t) /\ G!IsPrefix(s, s)
           /\ \A n \in 1..Len(t) : G!IsPrefix(s \o SubSeq(t, 1, n), s \o t)
<1>1. ASSUME NEW one \in Seq(Nat), NEW other \in Seq(Nat), Len(one) <= Len(other),
             \A i \in 1..Len(one) : one[i] = other[i]
      PROVE  G!IsPrefix(one, other)
  <2> DEFINE n == Len(one)
  <2>1. /\ n \in Nat /\ SubSeq(one, 1, n) \in Seq(Nat) /\ SubSeq(other, 1, n) \in Seq(Nat)
        /\ Len(SubSeq(one, 1, n)) = n /\ Len(SubSeq(other, 1, n)) = n
        /\ \A i \in 1..n : SubSeq(one, 1, n)[i] = one[i] /\ SubSeq(other, 1, n)[i] = other[i]
    BY <1>1
  <2> DEFINE p == SubSeq(one, 1, n)
             q == SubSeq(other, 1, n)
  <2>2. p = q
    <3>1. /\ p \in Seq(Nat) /\ q \in Seq(Nat) /\ Len(p) = Len(q)
          /\ \A i \in 1..Len(p) : p[i] = q[i]
      BY <1>1, <2>1
    <3> HIDE DEF p, q
    <3> QED  BY <3>1, SeqEqual
  <2> QED  BY <1>1, <2>2 DEF G!IsPrefix
<1>2. /\ Len(s) \in Nat /\ Len(t) \in Nat
      /\ s \o t \in Seq(Nat) /\ Len(s \o t) = Len(s) + Len(t)
      /\ \A i \in 1..Len(s) : (s \o t)[i] = s[i]
      /\ \A i \in 1..Len(t) : (s \o t)[Len(s) + i] = t[i]
  OBVIOUS
<1>3. G!IsPrefix(s, s \o t) /\ G!IsPrefix(s, s)
  <2> DEFINE st == s \o t
  <2>1. st \in Seq(Nat) /\ Len(s) <= Len(st) /\ \A i \in 1..Len(s) : s[i] = st[i]
    BY <1>2
  <2> HIDE DEF st
  <2>2. G!IsPrefix(s, st) /\ G!IsPrefix(s, s)
    BY <1>1, <1>2, <2>1
  <2> QED  BY <2>2 DEF st
<1>4. ASSUME NEW n \in 1..Len(t)
      PROVE  G!IsPrefix(s \o SubSeq(t, 1, n), s \o t)
  <2> DEFINE r == SubSeq(t, 1, n)
             sr == s \o r
             st == s \o t
  <2>1. r \in Seq(Nat) /\ Len(r) = n /\ \A i \in 1..n : r[i] = t[i]
    OBVIOUS
  <2> HIDE DEF r
  <2>2. /\ sr \in Seq(Nat) /\ Len(sr) = Len(s) + n
        /\ \A i \in 1..Len(s) : sr[i] = s[i]
        /\ \A i \in 1..n : sr[Len(s) + i] = r[i]
    <3>1. /\ sr \in Seq(Nat) /\ Len(sr) = Len(s) + Len(r)
          /\ \A i \in 1..(Len(s) + Len(r)) :
                 sr[i] = IF i <= Len(s) THEN s[i] ELSE r[i - Len(s)]
      BY <2>1, ConcatProperties
    <3> HIDE DEF sr
    <3>2. Len(s) \in Nat /\ n \in Nat /\ Len(r) = n
      BY <1>2, <2>1
    <3>3. \A i \in 1..Len(s) : i \in 1..(Len(s) + Len(r)) /\ i <= Len(s)
      BY <3>2
    <3>4. ASSUME NEW i \in 1..n
          PROVE  sr[Len(s) + i] = r[i]
      <4>1. /\ Len(s) + i \in 1..(Len(s) + Len(r)) /\ ~(Len(s) + i <= Len(s))
            /\ (Len(s) + i) - Len(s) = i
        BY <3>2
      <4> QED  BY <3>1, <4>1
    <3> QED  BY <3>1, <3>2, <3>3, <3>4
  <2>3. ASSUME NEW i \in 1..Len(sr)
        PROVE  sr[i] = st[i]
    <3>1. CASE i \in 1..Len(s)
      BY <1>2, <2>2, <3>1
    <3>2. CASE i \notin 1..Len(s)
      <4> DEFINE j == i - Len(s)
      <4>1. j \in 1..n /\ j \in 1..Len(t) /\ Len(s) + j = i
        BY <1>2, <2>2, <3>2
      <4> HIDE DEF j, sr
      <4>2. sr[Len(s) + j] = r[j] /\ (s \o t)[Len(s) + j] = t[j]
        BY <1>2, <2>2, <4>1
      <4> QED  BY <2>1, <4>1, <4>2
    <3> QED  BY <3>1, <3>2
  <2>4. st \in Seq(Nat) /\ Len(sr) <= Len(st)
    BY <1>2, <2>2
  <2> HIDE DEF sr, st
  <2>5. G!IsPrefix(sr, st)
    BY <1>1, <2>2, <2>3, <2>4
  <2> QED  BY <2>5 DEF sr, st, r
<1> QED  BY <1>3, <1>4

\* What is kept depends on the call alone.
LEMMA SameKeeps ==
    ASSUME call' = call, NEW i
    PROVE  G!Keeps(i)' <=> G!Keeps(i)
  BY DEF G!Keeps, G!HasEdition

LEMMA SameKept ==
    ASSUME call' = call, NEW works
    PROVE  G!Kept(works)' = G!Kept(works)
  BY SameKeeps DEF G!Kept, G!FoldLeft, G!MapThenFoldSet

\* A prefix of a prefix is one.
LEMMA PrefixTrans ==
    ASSUME NEW s \in Seq(Nat), NEW t \in Seq(Nat), NEW u \in Seq(Nat),
           G!IsPrefix(s, t), G!IsPrefix(t, u)
    PROVE  G!IsPrefix(s, u)
<1> DEFINE n == Len(s)
           m == Len(t)
<1>1. /\ n \in Nat /\ m \in Nat /\ n <= m /\ m <= Len(u) /\ Len(u) \in Nat
      /\ SubSeq(s, 1, n) = SubSeq(t, 1, n) /\ SubSeq(t, 1, m) = SubSeq(u, 1, m)
  BY DEF G!IsPrefix
<1> HIDE DEF n, m
<1>2. ASSUME NEW i \in 1..n
      PROVE  t[i] = u[i]
  <2>1. i \in 1..m
    BY <1>1
  <2>2. SubSeq(t, 1, m)[i] = t[i] /\ SubSeq(u, 1, m)[i] = u[i]
    BY <1>1, <2>1 DEF m
  <2> QED  BY <1>1, <2>2
<1> DEFINE p == SubSeq(t, 1, n)
           q == SubSeq(u, 1, n)
<1>3. /\ p \in Seq(Nat) /\ q \in Seq(Nat) /\ Len(p) = n /\ Len(q) = n
      /\ \A i \in 1..n : p[i] = t[i] /\ q[i] = u[i]
  BY <1>1 DEF m
<1> HIDE DEF p, q
<1>4. p = q
  BY <1>2, <1>3, SeqEqual
<1> QED  BY <1>1, <1>4 DEF G!IsPrefix, n, p, q

BooksTyped == /\ call.getter \in {"gr", "hc"} /\ call.list \in Seq(Entries)
              /\ page \in Nat
\* The pages the iterator is through with.  Goodreads' come after GetAuthor.
Turned == IF call.getter = "gr" /\ page > 0 THEN page - 1 ELSE page
GoneThrough == status = "run" => out = UpToBook(Passed(Turned))
BooksInv == call.op = "authorBooks" => BooksTyped /\ GoneThrough /\ G!AuthorBooksComplete

LEMMA BooksFacts ==
    ASSUME BooksTyped, NEW n \in Nat
    PROVE  /\ UpToBook(Passed(n)) \in Seq(Nat) /\ G!Kept(G!PageOf(n)) \in Seq(Nat)
           /\ UpToBook(Passed(n + 1)) = UpToBook(Passed(n)) \o G!Kept(G!PageOf(n))
           /\ UpToBook(Len(call.list)) \in Seq(Nat)
           /\ G!IsPrefix(UpToBook(Passed(n)), UpToBook(Len(call.list)))
<1> DEFINE len == Len(call.list)
           works == G!PageOf(n)
           a == Passed(n)
           rest == [j \in 1..(len - a) |-> a + j]
<1>1. len \in Nat /\ DOMAIN call.list = 1..len /\ call.list \in Seq(Entries)
  BY DEF BooksTyped
<1>2. /\ works \in Seq(DOMAIN call.list) /\ a \in Nat /\ a <= len
      /\ \A j \in DOMAIN works : works[j] = a + j
      /\ Passed(n + 1) = a + Len(works)
  BY <1>1, PageFacts
<1> HIDE DEF works, a, len
<1>3. works \in Seq(Nat)
  BY <1>1, <1>2
<1>4. /\ UpToBook(a) \in Seq(Nat) /\ G!Kept(works) \in Seq(Nat)
      /\ UpToBook(a + Len(works)) = UpToBook(a) \o G!Kept(works)
  BY <1>2, <1>3, KeptUpTo
<1>5. rest \in Seq(Nat) /\ Len(rest) = len - a /\ a + (len - a) = len
      /\ \A j \in DOMAIN rest : rest[j] = a + j
  BY <1>1, <1>2
<1> HIDE DEF rest
<1>6. G!Kept(rest) \in Seq(Nat) /\ UpToBook(len) = UpToBook(a) \o G!Kept(rest)
  BY <1>2, <1>5, KeptUpTo
<1>7. UpToBook(len) \in Seq(Nat) /\ G!IsPrefix(UpToBook(a), UpToBook(len))
  BY <1>4, <1>6, PrefixFacts
<1> QED  BY <1>2, <1>4, <1>7 DEF works, a, len

\* What is yielded of a page goes on from what was yielded before.
LEMMA YieldStep ==
    ASSUME BooksTyped, call' = call, NEW n \in Nat, out = UpToBook(Passed(n)), NEW end,
           G!Yield(G!PageOf(n), end), end # "cut",
           end = "ok" => Passed(n + 1) = Len(call.list)
    PROVE  /\ G!AuthorBooksComplete'
           /\ status' = "run" => out' = UpToBook(Passed(n + 1))
<1> DEFINE all == UpToBook(Len(call.list))
           kept == G!Kept(G!PageOf(n))
           next == UpToBook(Passed(n + 1))
<1>1. /\ out \in Seq(Nat) /\ kept \in Seq(Nat) /\ next = out \o kept
      /\ all \in Seq(Nat)
  BY BooksFacts
<1>2. next \in Seq(Nat) /\ G!IsPrefix(next, all)
  <2>1. n + 1 \in Nat
    OBVIOUS
  <2> QED  BY <2>1, BooksFacts
<1>3. /\ G!IsPrefix(out', all)
      /\ status' = "ok" => out' = all
      /\ status' = "run" => out' = next
  <2>1. CASE out' = out \o kept /\ status' = end
    BY <1>1, <1>2, <2>1
  <2>2. CASE \E m \in 1..Len(kept) : out' = out \o SubSeq(kept, 1, m) /\ status' = "cut"
    <3>1. PICK m \in 1..Len(kept) : out' = out \o SubSeq(kept, 1, m) /\ status' = "cut"
      BY <2>2
    <3> HIDE DEF kept, all, next
    <3>2. out' \in Seq(Nat)
      BY <1>1, <3>1
    <3>3. G!IsPrefix(out', next)
      BY <1>1, <3>1, PrefixFacts
    <3> QED  BY <1>1, <1>2, <3>1, <3>2, <3>3, PrefixTrans
  <2> QED  BY <2>1, <2>2 DEF G!Yield, G!End
<1>4. G!Kept([i \in DOMAIN call.list |-> i])' = all
  <2>1. DOMAIN call.list = 1..Len(call.list)
    BY DEF BooksTyped
  <2>2. G!Kept([i \in DOMAIN call.list |-> i]) = all
    BY <2>1 DEF UpToBook
  <2>3. PICK books : books = [i \in DOMAIN call.list |-> i]
    OBVIOUS
  <2>4. G!Kept(books)' = G!Kept(books)
    BY SameKept
  <2>5. [i \in DOMAIN call'.list |-> i] = books
    BY <2>3
  <2> QED  BY <2>2, <2>3, <2>4, <2>5
<1> HIDE DEF all, kept, next
<1>5. G!AuthorBooksComplete'
  BY <1>3, <1>4 DEF G!AuthorBooksComplete
<1> QED  BY <1>3, <1>5 DEF next

LEMMA NothingKept == UpToBook(0) = <<>>
<1> DEFINE none == [i \in 1..0 |-> i]
<1>1. none \in Seq(Nat) /\ Len(none) = 0
  OBVIOUS
<1> HIDE DEF none
<1>2. G!Kept(none) = <<>>
  BY <1>1, KeptSteps
<1> QED  BY <1>2 DEF UpToBook, none

LEMMA BooksInit == G!Init => BooksInv
<1> SUFFICES ASSUME G!Init, call.op = "authorBooks"
             PROVE  BooksTyped /\ GoneThrough /\ G!AuthorBooksComplete
  BY DEF BooksInv
<1>1. call \in G!AuthorCall /\ page = 0 /\ out = <<>> /\ status = "run"
  BY DEF G!Init, G!SeriesCall
<1>2. \E n \in 0..MaxAnswer : call.list \in [1..n -> Entries]
  BY <1>1 DEF G!AuthorCall, G!SeqUpTo
<1>3. call.list \in Seq(Entries)
  <2>1. PICK n \in 0..MaxAnswer : call.list \in [1..n -> Entries]
    BY <1>2
  <2> DEFINE list == call.list
  <2> HIDE DEF list
  <2>2. n \in Nat /\ list \in [1..n -> Entries]
    BY <2>1, ServiceAssumption DEF ServiceAssumption, G!GettersAssumption, list
  <2>3. list \in Seq(Entries)
    BY <2>2
  <2> QED  BY <2>3 DEF list
<1>4. BooksTyped
  BY <1>1, <1>3 DEF BooksTyped, G!AuthorCall
<1>5. Passed(0) = 0
  <2>1. PageSize * 0 = 0 /\ Len(call.list) \in Nat
    BY <1>3, SeriesPages
  <2> QED  BY <2>1 DEF Passed
<1>6. GoneThrough
  BY <1>1, <1>5, NothingKept DEF GoneThrough, Turned
<1>7. G!IsPrefix(out, UpToBook(Len(call.list)))
  BY <1>1, <1>4, <1>5, BooksFacts, NothingKept
<1>8. DOMAIN call.list = 1..Len(call.list)
  BY <1>3
<1>9. G!AuthorBooksComplete
  BY <1>1, <1>7, <1>8 DEF G!AuthorBooksComplete, UpToBook
<1> QED  BY <1>4, <1>6, <1>9

\* While nothing is yielded what was stays right.
LEMMA BooksStay ==
    ASSUME BooksInv, UNCHANGED <<call, out>>, page' \in Nat,
           status' = "run" => status = "run" /\ Turned' = Turned,
           status' = "ok" => status = "ok"
    PROVE  BooksInv'
<1> SUFFICES ASSUME call.op = "authorBooks"
             PROVE  BooksTyped' /\ GoneThrough' /\ G!AuthorBooksComplete'
  BY DEF BooksInv
<1>1. BooksTyped /\ GoneThrough /\ G!AuthorBooksComplete
  BY DEF BooksInv
<1>2. PICK books : books = [i \in DOMAIN call.list |-> i]
  OBVIOUS
<1>3. G!Kept(books)' = G!Kept(books)
  BY SameKept
<1>4. [i \in DOMAIN call'.list |-> i] = books
  BY <1>2
<1>5. G!AuthorBooksComplete'
  BY <1>1, <1>2, <1>3, <1>4 DEF G!AuthorBooksComplete
<1>6. GoneThrough'
  <2> SUFFICES ASSUME status' = "run" PROVE (out = UpToBook(Passed(Turned)))'
    BY DEF GoneThrough
  <2>1. out = UpToBook(Passed(Turned))
    BY <1>1 DEF GoneThrough
  <2>2. PICK n : n = Passed(Turned)
    OBVIOUS
  <2>3. Passed(Turned)' = n
    BY <2>2 DEF Passed
  <2>4. PICK some : some = [i \in 1..n |-> i]
    OBVIOUS
  <2>5. G!Kept(some)' = G!Kept(some)
    BY SameKept
  <2>6. UpToBook(Passed(Turned))' = UpToBook(Passed(Turned))
    BY <2>2, <2>3, <2>4, <2>5 DEF UpToBook
  <2> QED  BY <2>1, <2>6
<1>7. BooksTyped'
  BY <1>1 DEF BooksTyped
<1> QED  BY <1>5, <1>6, <1>7

\* Either getter turns a page.
LEMMA BooksPage ==
    ASSUME BooksInv, G!GRBooksPage \/ G!HCBooksPage
    PROVE  BooksInv'
<1> DEFINE n == Turned
<1>1. /\ call.op = "authorBooks" /\ status = "run" /\ call' = call /\ page' = page + 1
  BY DEF G!GRBooksPage, G!HCBooksPage, G!Running
<1>2. BooksTyped /\ out = UpToBook(Passed(n))
  BY <1>1 DEF BooksInv, GoneThrough
<1>3. n \in Nat /\ call.list \in Seq(Entries) /\ page \in Nat /\ Len(call.list) \in Nat
  BY <1>2 DEF BooksTyped, Turned
<1>4. Turned' = n + 1
  BY <1>1, <1>3 DEF Turned, G!GRBooksPage, G!HCBooksPage, G!Running
<1>5. \E end \in {"run", "ok"} :
          /\ G!Yield(G!PageOf(n), end)
          /\ end = "ok" => Passed(n + 1) = Len(call.list)
  <2>1. CASE G!GRBooksPage
    <3>1. /\ n = page - 1 /\ n + 1 = page
          /\ G!Yield(G!PageOf(n), IF PageSize * page < Len(call.list) THEN "run" ELSE "ok")
      BY <1>3, <2>1 DEF G!GRBooksPage, G!Running, Turned
    <3>2. CASE PageSize * page < Len(call.list)
      BY <3>1, <3>2
    <3>3. CASE ~(PageSize * page < Len(call.list))
      BY <3>1, <3>3 DEF Passed
    <3> QED  BY <3>2, <3>3
  <2>2. CASE G!HCBooksPage
    <3>1. /\ n = page
          /\ G!Yield(G!PageOf(n), IF G!PageOf(n) = <<>> THEN "ok" ELSE "run")
      BY <2>2 DEF G!HCBooksPage, G!Running, Turned
    <3>2. G!PageOf(n) = <<>> => Passed(n + 1) = Len(call.list)
      <4>1. Len(<<>>) = 0 /\ 0 < PageSize
        BY SeriesPages
      <4>2. Len(G!PageOf(n)) < PageSize => Passed(n + 1) = Len(call.list)
        BY <1>3, PageFacts
      <4> HIDE DEF n
      <4> QED  BY <4>1, <4>2
    <3> QED  BY <3>1, <3>2
  <2> QED  BY <2>1, <2>2
<1> HIDE DEF n
<1>6. PICK end \in {"run", "ok"} : /\ G!Yield(G!PageOf(n), end)
                                   /\ end = "ok" => Passed(n + 1) = Len(call.list)
  BY <1>5
<1>7. G!AuthorBooksComplete' /\ (status' = "run" => out' = UpToBook(Passed(n + 1)))
  BY <1>1, <1>2, <1>3, <1>6, YieldStep
<1>8. BooksTyped'
  BY <1>1, <1>2 DEF BooksTyped
<1>9. GoneThrough'
  <2>1. PICK k : k = Passed(n + 1)
    OBVIOUS
  <2>2. Passed(Turned)' = k
    BY <1>1, <1>4, <2>1 DEF Passed
  <2>3. PICK some : some = [i \in 1..k |-> i]
    OBVIOUS
  <2>4. G!Kept(some)' = G!Kept(some)
    BY <1>1, SameKept
  <2>5. UpToBook(Passed(Turned))' = UpToBook(Passed(n + 1))
    BY <2>1, <2>2, <2>3, <2>4 DEF UpToBook
  <2> QED  BY <1>7, <2>5 DEF GoneThrough
<1> QED  BY <1>7, <1>8, <1>9 DEF BooksInv

LEMMA BooksStep ==
    ASSUME BooksInv, G!Next
    PROVE  BooksInv'
<1> SUFFICES ASSUME call'.op = "authorBooks" PROVE BooksInv'
  BY DEF BooksInv
<1>1. call' = call
  BY DEF G!Next, G!SeriesFails, G!GRSeriesPage, G!HCSeriesPage, G!GRBooksStart, G!BooksFail,
         G!GRBooksPage, G!HCBooksPage, G!AuthorStart, G!GRAuthorBook, G!HCAuthorBook
<1>2. BooksTyped
  BY <1>1 DEF BooksInv
<1>3. G!GRBooksStart \/ G!BooksFail \/ G!GRBooksPage \/ G!HCBooksPage
  BY <1>1 DEF G!Next, G!SeriesFails, G!GRSeriesPage, G!HCSeriesPage,
              G!AuthorStart, G!GRAuthorBook, G!HCAuthorBook, G!Running
<1>4. CASE G!GRBooksStart
  <2>1. /\ UNCHANGED <<call, out>> /\ status = "run" /\ page = 0
        /\ \/ status' = "cut" /\ page' = page
           \/ status' = "run" /\ page' = 1
        /\ call.getter = "gr"
    BY <1>4 DEF G!GRBooksStart, G!Running, G!End
  <2>2. page' \in Nat /\ Turned' = Turned
    BY <2>1 DEF Turned
  <2> QED  BY <2>1, <2>2, BooksStay
<1>5. CASE G!BooksFail
  <2>1. UNCHANGED <<call, out, page>> /\ status' = "cut" /\ page \in Nat
    BY <1>2, <1>5 DEF G!BooksFail, G!End, BooksTyped
  <2> QED  BY <2>1, BooksStay
<1>6. CASE G!GRBooksPage \/ G!HCBooksPage
  BY <1>6, BooksPage
<1> QED  BY <1>3, <1>4, <1>5, <1>6

LEMMA BooksInvStep ==
    (part = "getter" => BooksInv) /\ [Next]_vars => (part = "getter" => BooksInv)'
<1> SUFFICES ASSUME part = "getter" => BooksInv, [Next]_vars, part' = "getter"
             PROVE  BooksInv'
  OBVIOUS
<1>1. part = "getter" /\ BooksInv
  BY DEF Next, vars, Content, Getter, Request
<1>2. CASE UNCHANGED vars
  <2>1. UNCHANGED <<call, out, page, status>> /\ Turned' = Turned
    BY <1>2 DEF vars, callVars, Turned
  <2>2. CASE call.op # "authorBooks"
    BY <2>1, <2>2 DEF BooksInv
  <2>3. CASE call.op = "authorBooks"
    <3>1. page' \in Nat
      BY <1>1, <2>1, <2>3 DEF BooksInv, BooksTyped
    <3> QED  BY <1>1, <2>1, <3>1, BooksStay
  <2> QED  BY <2>2, <2>3
<1>3. CASE Next
  <2>1. ~Content /\ ~Request
    BY <1>1 DEF Content, Request
  <2>2. G!Next
    BY <1>3, <2>1, Zenon DEF Next, G!Next
  <2> QED  BY <1>1, <2>2, BooksStep
<1> QED  BY <1>2, <1>3

\* In the service, for any books upstream lists, pages of any size and wherever the caller
\* or an error stops it: the iterator has yielded a prefix of the author's books, and all
\* of them when it was not stopped.
THEOREM AuthorBooksYielded == Spec => []AuthorBooksComplete
<1>1. Init => (part = "getter" => BooksInv)
  BY BooksInit DEF Init
<1>2. (part = "getter" => BooksInv) => AuthorBooksComplete
  BY DEF AuthorBooksComplete, BooksInv, G!AuthorBooksComplete
<1> QED  BY <1>1, <1>2, BooksInvStep, PTL DEF Spec
-----------------------------------------------------------------------------
(* The type invariant: of a parent and its merge it is proved with the      *)
(* component, of a getter's call and of a request here.                     *)

ContentTyped == part = "content" => DP!TypeInv

LEMMA ContentTypedStep == ContentTyped /\ [Next]_vars => ContentTyped'
<1> SUFFICES ASSUME ContentTyped, [Next]_vars PROVE ContentTyped'
  OBVIOUS
<1>1. ASSUME part = "content", part' = part, DP!Next \/ UNCHANGED contentVars
      PROVE  DP!TypeInv'
  <2>1. [DP!Next]_DP!vars
    BY <1>1 DEF contentVars, DP!vars
  <2> QED  BY <1>1, <2>1, SameAssumption, DP!NextTypes DEF ContentTyped
<1>2. CASE UNCHANGED vars
  BY <1>1, <1>2 DEF vars, ContentTyped
<1>3. CASE part # "content"
  BY <1>3 DEF Next, vars, Content, Getter, Request, ContentTyped
<1>4. CASE part = "content" /\ Next
  BY <1>1, <1>4, ContentIsNext DEF ContentTyped
<1> QED  BY <1>2, <1>3, <1>4

LEMMA ContentTypedInit == Init => ContentTyped
<1>1. D!Init => DP!TypeInv
  BY SameAssumption, SameInit, DP!InitTypes
<1> QED  BY <1>1 DEF Init, ContentTyped

LEMMA ContentTypesHold == ContentTyped => (part = "content" => D!TypeOK)
<1>1. DP!TypeOK => D!TypeOK
  BY SameCardinality, Zenon DEF D!TypeOK, DP!TypeOK, D!Child, DP!Child, D!Shown, DP!Shown
<1> QED  BY <1>1, DP!TypesHold DEF ContentTyped

\* A request has room for what its items bring: what is there and what may come are no
\* more than its items.
RoomForRest == Len(result) + Cardinality(running) <= Len(request.list)
CodesLead == /\ lookup \in [R!Codes -> {Nobody} \union R!Field("book")]
             /\ \A c \in R!Codes : lookup[c] # Nobody =>
                    \E item \in Items : item.code = c /\ item.book = lookup[c]
RequestKept == /\ request \in R!Requested
               /\ RoomForRest /\ CodesLead
               /\ phase \in {"new", "run", "ok", "failed", "torn"}

LEMMA SomeItems ==
    ASSUME NEW list \in Seq(Items), NEW some \in SUBSET DOMAIN list
    PROVE  /\ IsFiniteSet(some) /\ Cardinality(some) \in Nat
           /\ Len(list) \in Nat /\ DOMAIN list = 1..Len(list)
           /\ Cardinality(some) <= Len(list)
<1>1. DOMAIN list = 1..Len(list) /\ Len(list) \in Nat
  OBVIOUS
<1>2. IsFiniteSet(1..Len(list)) /\ Cardinality(1..Len(list)) = Len(list)
  <2> DEFINE n == Len(list)
  <2> HIDE DEF n
  <2>1. n \in Nat
    BY <1>1 DEF n
  <2>2. IsFiniteSet(1..n) /\ Cardinality(1..n) = n
    BY <2>1, FS_Interval
  <2> QED  BY <2>2 DEF n
<1>3. IsFiniteSet(some) /\ Cardinality(some) <= Len(list)
  BY <1>1, <1>2, FS_Subset
<1> QED  BY <1>1, <1>3, FS_CardinalityType

LEMMA RunningFinite ==
    ASSUME RequestTyped
    PROVE  /\ IsFiniteSet(running) /\ Cardinality(running) \in Nat
           /\ Len(request.list) \in Nat /\ DOMAIN request.list = 1..Len(request.list)
           /\ Cardinality(running) <= Len(request.list)
  BY SomeItems DEF RequestTyped

\* A code that saveEditions keeps leads to the edition that has it (controller.go).
LEMMA SetCodeFacts ==
    ASSUME CodesLead, NEW item \in Items, lookup' = R!SetCode(item)
    PROVE  CodesLead'
<1>1. CASE item.code = NoCode
  BY <1>1 DEF R!SetCode, CodesLead
<1>2. CASE item.code # NoCode
  <2>1. item.code \in R!Codes /\ item.book \in R!Field("book")
    BY <1>2 DEF R!Codes, R!Field
  <2>2. lookup' = [lookup EXCEPT ![item.code] = item.book]
    BY <1>2 DEF R!SetCode
  <2> QED  BY <2>1, <2>2 DEF CodesLead
<1> QED  BY <1>1, <1>2

LEMMA RequestKeptStep ==
    ASSUME RequestInv, RequestKept,
           \/ R!FindCode \/ R!Refuse \/ R!Start \/ R!Respond \/ R!TornAnswer
           \/ \E i \in 1..MaxItems : R!ItemDone(i)
    PROVE  RequestKept'
<1>1. RequestTyped /\ result \in Seq(Items) /\ Len(result) \in Nat
  BY DEF RequestInv, RequestTyped
<1>2. CASE R!FindCode \/ R!Refuse \/ R!Respond \/ R!TornAnswer
  BY <1>2 DEF R!FindCode, R!Refuse, R!Respond, R!TornAnswer,
              RequestKept, RoomForRest, CodesLead
<1>3. CASE R!Start
  <2>1. /\ result' = <<>> /\ phase' = "run" /\ request' = request /\ lookup' = lookup
    BY <1>3 DEF R!Start, RequestInv, NotBegun
  <2>2. RequestTyped'
    BY <1>3, RequestStartStep DEF RequestInv
  <2>3. RoomForRest'
    <3>1. Cardinality(running') \in Nat /\ Cardinality(running') <= Len(request'.list)
      BY <2>2, SomeItems DEF RequestTyped
    <3> QED  BY <2>1, <3>1 DEF RoomForRest
  <2> QED  BY <2>1, <2>3 DEF RequestKept, CodesLead
<1>4. ASSUME NEW i \in 1..MaxItems, R!ItemDone(i)
      PROVE  RequestKept'
  <2> DEFINE item == request.list[i]
  <2>1. /\ i \in running /\ running' = running \ {i} /\ request' = request /\ phase' = phase
        /\ result' \in {result, Append(result, item)}
        /\ lookup' \in {lookup, R!SetCode(item)}
    BY <1>4 DEF R!ItemDone
  <2>2. item \in Items
    BY <1>1, <2>1 DEF RequestTyped
  <2>3. Len(result') <= Len(result) + 1 /\ Len(result') \in Nat
    <3> HIDE DEF item
    <3> QED  BY <1>1, <2>1, <2>2
  <2>4. Cardinality(running') = Cardinality(running) - 1 /\ Cardinality(running) \in Nat
    BY <1>1, <2>1, RunningFinite, FS_RemoveElement
  <2>5. Len(request.list) \in Nat
    BY <1>1, RunningFinite
  <2>6. RoomForRest'
    BY <1>1, <2>1, <2>3, <2>4, <2>5 DEF RoomForRest, RequestKept
  <2> HIDE DEF item
  <2>7. CodesLead'
    BY <2>1, <2>2, SetCodeFacts DEF RequestKept, CodesLead
  <2> QED  BY <2>1, <2>6, <2>7 DEF RequestKept
<1> QED  BY <1>2, <1>3, <1>4

LEMMA RequestKeptInit == R!Init => RequestKept
<1> SUFFICES ASSUME R!Init PROVE RequestKept
  OBVIOUS
<1>1. /\ request \in R!Requested /\ running = {} /\ result = <<>> /\ phase = "new"
      /\ lookup \in [R!Codes -> {Nobody} \union R!Field("book")]
      /\ \A c \in R!Codes : lookup[c] # Nobody =>
             \E item \in Items : item.book = lookup[c] /\ item.code = c
  BY DEF R!Init
<1>2. Len(request.list) \in Nat
  BY RequestInit, RunningFinite DEF RequestInv
<1>3. RoomForRest
  BY <1>1, <1>2, FS_EmptySet DEF RoomForRest
<1> QED  BY <1>1, <1>3 DEF RequestKept, CodesLead

RequestsTyped == part = "request" => RequestInv /\ RequestKept

LEMMA RequestsTypedStep == RequestsTyped /\ [Next]_vars => RequestsTyped'
<1> SUFFICES ASSUME RequestsTyped, [Next]_vars, part' = "request"
             PROVE  RequestInv' /\ RequestKept'
  BY DEF RequestsTyped
<1>1. part = "request"
  BY DEF Next, vars, Content, Getter, Request
<1>2. RequestInv /\ RequestKept
  BY <1>1 DEF RequestsTyped
<1>3. RequestInv'
  BY <1>2, RequestsStep
<1>4. CASE UNCHANGED vars
  BY <1>2, <1>3, <1>4 DEF vars, requestVars, RequestKept, RoomForRest, CodesLead
<1>5. CASE Next
  <2>1. ~Content /\ ~Getter
    BY <1>1 DEF Content, Getter
  <2>2. \/ R!FindCode \/ R!Refuse \/ R!Start \/ R!Respond \/ R!TornAnswer
        \/ \E i \in 1..MaxItems : R!ItemDone(i)
    BY <1>5, <2>1, Zenon DEF Next
  <2> QED  BY <1>2, <1>3, <2>2, RequestKeptStep
<1> QED  BY <1>4, <1>5

LEMMA RequestTypesHold == RequestsTyped => (part = "request" => R!TypeOK)
<1> SUFFICES ASSUME RequestInv, RequestKept PROVE R!TypeOK
  BY DEF RequestsTyped
<1>1. RequestTyped /\ result \in Seq(Items) /\ running \in SUBSET DOMAIN request.list
  BY DEF RequestInv, RequestTyped
<1>2. Len(request.list) \in Nat /\ Cardinality(running) \in Nat /\ Len(result) \in Nat
  BY <1>1, RunningFinite
<1>3. Len(result) <= Len(request.list)
  BY <1>2 DEF RequestKept, RoomForRest
<1>4. Len(request.list) <= MaxItems
  <2>1. PICK n \in 0..MaxItems : request.list \in [1..n -> Items]
    BY DEF RequestKept, R!Requested
  <2>2. n \in Nat /\ n <= MaxItems
    BY <2>1, ServiceAssumption DEF ServiceAssumption, R!RequestsAssumption
  <2>3. 1..Len(request.list) = 1..n
    BY <1>1, <2>1, RunningFinite
  <2>4. Len(request.list) = n
    BY <1>2, <2>2, <2>3
  <2> QED  BY <2>2, <2>4
<1>5. result \in R!ItemSeqs
  <2>1. MaxItems \in Nat
    BY ServiceAssumption DEF ServiceAssumption, R!RequestsAssumption
  <2>2. Len(result) \in 0..MaxItems
    BY <1>2, <1>3, <1>4, <2>1
  <2>3. result \in [1..Len(result) -> Items]
    BY <1>1
  <2> QED  BY <2>2, <2>3 DEF R!ItemSeqs
<1> QED  BY <1>1, <1>5 DEF RequestKept, CodesLead, R!TypeOK

\* A call of a getter: what upstream listed is bounded, and so are the pages and books that
\* can be gone through before a page is empty.
CallOK == call \in G!SeriesCall \union G!AuthorCall
PageOK ==
    /\ page \in 0..(MaxAnswer + 2)
    /\ call.op = "series" => page <= MaxPages
    /\ status = "run" => /\ call.op = "series" => page <= Passed(page) /\ page < MaxPages
                         /\ call.op = "authorBooks" => Turned <= Passed(Turned)
                         /\ call.op = "author" => page <= Len(call.list) + 1
GatheredOK ==
    /\ \/ last = 0
       \/ call.op = "series" /\ call.getter = "hc"
    /\ loaded \subseteq [entry : DOMAIN call.list, by : G!Authors]
    /\ call.op # "series" => out \in Seq(DOMAIN call.list)
    /\ status \in {"run", "ok", "cut", "notFound", "failed"}
GetterKept == CallOK /\ PageOK /\ GatheredOK

LEMMA CallFacts ==
    ASSUME CallOK
    PROVE  /\ Len(call.list) \in Nat /\ Len(call.list) <= MaxAnswer
           /\ DOMAIN call.list = 1..Len(call.list) /\ MaxAnswer \in Nat
           /\ call.op \in {"series", "author", "authorBooks"} /\ call.getter \in {"gr", "hc"}
           /\ call.op = "series" => call.list \in Seq(Positions \union {0})
           /\ call.op # "series" => call.list \in Seq(Entries)
           /\ \E T : call.list \in Seq(T)
<1> DEFINE list == call.list
<1>1. MaxAnswer \in Nat
  BY ServiceAssumption DEF ServiceAssumption, G!GettersAssumption
<1>2. ASSUME NEW T, \E n \in 0..MaxAnswer : list \in [1..n -> T]
      PROVE  /\ list \in Seq(T) /\ Len(list) \in Nat /\ Len(list) <= MaxAnswer
             /\ DOMAIN list = 1..Len(list)
  <2> HIDE DEF list
  <2>1. PICK n \in 0..MaxAnswer : list \in [1..n -> T]
    BY <1>2
  <2> QED  BY <1>1, <2>1
<1>3. CASE call \in G!SeriesCall
  <2>1. /\ call.op = "series" /\ call.getter \in {"gr", "hc"}
        /\ \E n \in 0..MaxAnswer : list \in [1..n -> Positions \union {0}]
    BY <1>3 DEF G!SeriesCall, G!SeqUpTo
  <2> QED  BY <1>1, <1>2, <2>1
<1>4. CASE call \in G!AuthorCall
  <2>1. /\ call.op \in {"author", "authorBooks"} /\ call.getter \in {"gr", "hc"}
        /\ \E n \in 0..MaxAnswer : list \in [1..n -> Entries]
    BY <1>4 DEF G!AuthorCall, G!SeqUpTo
  <2> QED  BY <1>1, <1>2, <2>1
<1> QED  BY <1>3, <1>4 DEF CallOK

\* After a page with something on it, there is something for every page.
LEMMA FullPages ==
    ASSUME CallOK, NEW n \in Nat
    PROVE  /\ Passed(n) \in Nat /\ Passed(n) <= MaxAnswer
           /\ Len(G!PageOf(n)) \in Nat /\ Len(G!PageOf(n)) <= Len(call.list)
           /\ n <= Passed(n) /\ G!PageOf(n) # <<>> => n + 1 <= Passed(n + 1)
           /\ PageSize * n < Len(call.list) => n <= Passed(n)
<1>1. PICK T : call.list \in Seq(T)
  BY CallFacts
<1>2. Len(call.list) \in Nat /\ Len(call.list) <= MaxAnswer /\ MaxAnswer \in Nat
  BY CallFacts
<1>3. /\ Passed(n) \in Nat /\ Passed(n) <= Len(call.list)
      /\ Passed(n + 1) = Passed(n) + Len(G!PageOf(n))
      /\ G!PageOf(n) \in Seq(DOMAIN call.list)
  BY <1>1, PageFacts
<1>4. Passed(n + 1) \in Nat /\ Passed(n + 1) <= Len(call.list)
  <2>1. n + 1 \in Nat
    OBVIOUS
  <2> QED  BY <1>1, <2>1, PageFacts
<1>5. Len(G!PageOf(n)) \in Nat /\ (G!PageOf(n) # <<>> => Len(G!PageOf(n)) > 0)
  <2> DEFINE works == G!PageOf(n)
  <2>1. works \in Seq(DOMAIN call.list)
    BY <1>3
  <2> HIDE DEF works
  <2>2. Len(works) \in Nat /\ (works # <<>> => Len(works) > 0)
    BY <2>1
  <2> QED  BY <2>2 DEF works
<1>6. PageSize * n < Len(call.list) => n <= Passed(n)
  <2>1. PageSize \in Nat \ {0} /\ PageSize * n \in Nat /\ PageSize * n >= n
    BY SeriesPages
  <2> QED  BY <2>1 DEF Passed
<1> QED  BY <1>2, <1>3, <1>4, <1>5, <1>6

\* What is kept of some books are some of them.
LEMMA KeptAre ==
    ASSUME NEW T \in SUBSET Nat, NEW works \in Seq(T)
    PROVE  G!Kept(works) \in Seq(T)
<1> DEFINE n == Len(works)
<1>1. works \in Seq(Nat) /\ n \in Nat /\ \A k \in 1..n : works[k] \in T
  <2>1. n \in Nat /\ works \in [1..n -> T] /\ \A i \in T : i \in Nat
    OBVIOUS
  <2> HIDE DEF n
  <2>2. works \in [1..n -> Nat]
    BY <2>1
  <2> QED  BY <2>1, <2>2
<1>2. PICK steps \in [0..n -> Seq(Nat)] :
          /\ steps[0] = <<>> /\ \A k \in 1..n : steps[k] = AddKept(steps[k - 1], works[k])
          /\ steps[n] = G!Kept(works)
  BY <1>1, KeptSteps
<1> HIDE DEF n
<1> DEFINE Good == {k \in 0..n : steps[k] \in Seq(T)}
<1>3. 0 \in Good
  BY <1>1, <1>2
<1>4. ASSUME NEW k \in 1..n, k - 1 \in Good
      PROVE  k \in Good
  <2>1. ASSUME NEW kept \in Seq(T), NEW i \in T
        PROVE  AddKept(kept, i) \in Seq(T)
    BY DEF AddKept
  <2>2. steps[k] = AddKept(steps[k - 1], works[k]) /\ works[k] \in T
    BY <1>1, <1>2
  <2>3. steps[k - 1] \in Seq(T) /\ k \in 0..n
    BY <1>1, <1>4
  <2>4. steps[k] \in Seq(T)
    BY <2>1, <2>2, <2>3, Zenon
  <2> QED  BY <2>3, <2>4
<1>5. Good \in SUBSET (0..n)
  OBVIOUS
<1>6. n \in Good
  <2> HIDE DEF Good
  <2> QED  BY <1>1, <1>3, <1>4, <1>5, UpTo
<1> QED  BY <1>2, <1>6 DEF n

LEMMA YieldAre ==
    ASSUME CallOK, NEW n \in Nat, out \in Seq(DOMAIN call.list), NEW end,
           G!Yield(G!PageOf(n), end)
    PROVE  out' \in Seq(DOMAIN call.list)
<1> DEFINE S == DOMAIN call.list
           kept == G!Kept(G!PageOf(n))
<1>1. PICK T : call.list \in Seq(T)
  BY CallFacts
<1>2. G!PageOf(n) \in Seq(S) /\ S \in SUBSET Nat
  <2>1. S = 1..Len(call.list)
    BY CallFacts
  <2>2. G!PageOf(n) \in Seq(S)
    BY <1>1, PageFacts
  <2> HIDE DEF S
  <2> QED  BY <2>1, <2>2
<1>3. kept \in Seq(S)
  BY <1>2, KeptAre
<1>4. \/ out' = out \o kept
      \/ \E m \in 1..Len(kept) : out' = out \o SubSeq(kept, 1, m)
  BY DEF G!Yield
<1> HIDE DEF S, kept
<1>5. ASSUME NEW m \in 1..Len(kept)
      PROVE  SubSeq(kept, 1, m) \in Seq(S)
  BY <1>3, <1>5
<1>6. out \in Seq(S) /\ \A a, b \in Seq(S) : a \o b \in Seq(S)
  BY DEF S
<1> QED  BY <1>3, <1>4, <1>5, <1>6 DEF S

\* The bounds of a call once a step has brought it to another page.
LEMMA NextPage ==
    ASSUME CallOK, call' = call, NEW n \in Nat, page' = n,
           n <= MaxAnswer + 2, call.op = "series" => n <= MaxPages,
           status' = "run" =>
               /\ call.op = "series" => n <= Passed(n) /\ n < MaxPages
               /\ call.op = "authorBooks" =>
                      \E k \in Nat : /\ k = IF call.getter = "gr" /\ n > 0 THEN n - 1 ELSE n
                                     /\ k <= Passed(k)
               /\ call.op = "author" => n <= Len(call.list) + 1
    PROVE  PageOK'
<1>1. Passed(page)' = Passed(n) /\ MaxAnswer \in Nat
  BY CallFacts DEF Passed
<1>2. ASSUME NEW k, k = IF call.getter = "gr" /\ n > 0 THEN n - 1 ELSE n
      PROVE  Turned' = k /\ Passed(Turned)' = Passed(k)
  BY <1>2 DEF Turned, Passed
<1> QED  BY <1>1, <1>2 DEF PageOK

\* A step that leaves a call where it is, or ends it there.
LEMMA SamePage ==
    ASSUME PageOK, UNCHANGED <<call, page>>, status' = "run" => status = "run"
    PROVE  PageOK'
<1>1. Passed(page)' = Passed(page) /\ Turned' = Turned
  BY DEF Passed, Turned
<1>2. Passed(Turned)' = Passed(Turned)
  BY <1>1 DEF Passed
<1> QED  BY <1>1, <1>2 DEF PageOK

LEMMA SeriesPageKept ==
    ASSUME GetterKept, G!GRSeriesPage \/ G!HCSeriesPage
    PROVE  GetterKept'
<1>1. /\ call.op = "series" /\ status = "run" /\ call' = call /\ page' = page + 1
      /\ loaded' = loaded /\ status' \in {"run", "ok"}
      /\ call.getter = "gr" => last' = last
      /\ status' = "run" => G!PageOf(page) # <<>> /\ page + 1 # MaxPages
  <2>1. CASE G!GRSeriesPage
    <3>1. Len(<<>>) = 0 /\ 0 < PageSize
      BY SeriesPages
    <3>2. Len(G!PageOf(page)) < PageSize \/ page + 1 = MaxPages => status' = "ok"
      BY <2>1 DEF G!GRSeriesPage, G!End
    <3>3. G!PageOf(page) = <<>> => status' = "ok"
      BY <3>1, <3>2
    <3> QED  BY <2>1, <3>2, <3>3 DEF G!GRSeriesPage, G!Running, G!End
  <2>2. CASE G!HCSeriesPage
    BY <2>2 DEF G!HCSeriesPage, G!Running, G!End
  <2> QED  BY <2>1, <2>2
<1>2. /\ page \in Nat /\ page <= Passed(page) /\ page < MaxPages
      /\ MaxPages \in Nat /\ MaxAnswer \in Nat
  BY <1>1, SeriesPages, CallFacts DEF GetterKept, PageOK
<1>3. /\ Passed(page) \in Nat /\ Passed(page) <= MaxAnswer
      /\ G!PageOf(page) # <<>> => page + 1 <= Passed(page + 1)
  BY <1>2, FullPages DEF GetterKept
<1>4. /\ page + 1 \in Nat /\ page + 1 <= MaxAnswer + 2 /\ page + 1 <= MaxPages
      /\ status' = "run" => page + 1 <= Passed(page + 1) /\ page + 1 < MaxPages
  BY <1>1, <1>2, <1>3
<1>5. PageOK'
  BY <1>1, <1>4, NextPage DEF GetterKept
<1>6. GatheredOK'
  BY <1>1, CallFacts DEF GetterKept, GatheredOK
<1> QED  BY <1>1, <1>5, <1>6 DEF GetterKept, CallOK

LEMMA BooksPageKept ==
    ASSUME GetterKept, G!GRBooksPage \/ G!HCBooksPage
    PROVE  GetterKept'
<1> DEFINE n == Turned
<1>1. /\ call.op = "authorBooks" /\ status = "run" /\ call' = call /\ page' = page + 1
      /\ UNCHANGED <<last, loaded>>
  BY DEF G!GRBooksPage, G!HCBooksPage, G!Running
<1>2. /\ page \in Nat /\ n \in Nat /\ n <= Passed(n) /\ MaxAnswer \in Nat
      /\ page + 1 = (IF call.getter = "gr" THEN n + 2 ELSE n + 1)
      /\ n + 1 = (IF call.getter = "gr" /\ page + 1 > 0 THEN (page + 1) - 1 ELSE page + 1)
  BY <1>1, CallFacts DEF GetterKept, PageOK, Turned, G!GRBooksPage, G!HCBooksPage, G!Running
<1>3. \E end \in {"run", "ok"} :
          /\ G!Yield(G!PageOf(n), end)
          /\ end = "run" => n + 1 <= Passed(n + 1)
  <2>1. CASE G!GRBooksPage
    <3>1. /\ n = page - 1 /\ n + 1 = page
          /\ G!Yield(G!PageOf(n), IF PageSize * page < Len(call.list) THEN "run" ELSE "ok")
      BY <1>2, <2>1 DEF G!GRBooksPage, G!Running, Turned
    <3>2. PageSize * page < Len(call.list) => page <= Passed(page)
      BY <1>2, FullPages DEF GetterKept
    <3>3. CASE PageSize * page < Len(call.list)
      BY <3>1, <3>2, <3>3
    <3>4. CASE ~(PageSize * page < Len(call.list))
      BY <3>1, <3>4
    <3> QED  BY <3>3, <3>4
  <2>2. CASE G!HCBooksPage
    <3>1. /\ n = page
          /\ G!Yield(G!PageOf(n), IF G!PageOf(n) = <<>> THEN "ok" ELSE "run")
      BY <2>2 DEF G!HCBooksPage, G!Running, Turned
    <3>2. G!PageOf(n) # <<>> => n + 1 <= Passed(n + 1)
      BY <1>2, FullPages DEF GetterKept
    <3> QED  BY <3>1, <3>2
  <2> QED  BY <2>1, <2>2
<1>4. Passed(n) \in Nat /\ Passed(n) <= MaxAnswer
  BY <1>2, FullPages DEF GetterKept
<1> HIDE DEF n
<1>5. PICK end \in {"run", "ok"} : /\ G!Yield(G!PageOf(n), end)
                                   /\ end = "run" => n + 1 <= Passed(n + 1)
  BY <1>3
<1>6. status' \in {end, "cut"}
  BY <1>5 DEF G!Yield, G!End
<1>7. out' \in Seq(DOMAIN call.list)
  BY <1>1, <1>2, <1>5, YieldAre DEF GetterKept, GatheredOK
<1>8. PageOK'
  <2>1. page + 1 \in Nat /\ page + 1 <= MaxAnswer + 2 /\ n + 1 \in Nat
    BY <1>2, <1>4
  <2>2. status' = "run" => n + 1 <= Passed(n + 1)
    BY <1>5, <1>6
  <2> QED  BY <1>1, <1>2, <2>1, <2>2, NextPage DEF GetterKept
<1>9. GatheredOK'
  BY <1>1, <1>6, <1>7 DEF GetterKept, GatheredOK
<1> QED  BY <1>1, <1>8, <1>9 DEF GetterKept, CallOK

LEMMA AuthorBookKept ==
    ASSUME GetterKept, G!GRAuthorBook \/ G!HCAuthorBook
    PROVE  GetterKept'
<1> DEFINE books == G!PageOf(0)
           S == DOMAIN call.list
<1>1. call.op = "author" /\ status = "run"
  BY DEF G!GRAuthorBook, G!HCAuthorBook, G!Running
<1>2. /\ Len(call.list) \in Nat /\ Len(call.list) <= MaxAnswer /\ MaxAnswer \in Nat
      /\ S = 1..Len(call.list)
      /\ page \in Nat /\ page <= Len(call.list) + 1
  BY <1>1, CallFacts DEF GetterKept, PageOK
<1>3. Len(books) \in Nat /\ Len(books) <= Len(call.list)
  BY FullPages DEF GetterKept
<1> HIDE DEF books, S
<1>4. /\ UNCHANGED <<call, last>> /\ page > 0
      /\ page' \in {page, page + 1} /\ status' \in {"run", "ok", "notFound", "failed"}
      /\ status' = "run" => page <= Len(books)
      /\ \/ loaded' = loaded
         \/ /\ page <= Len(books)
            /\ \E author \in G!Authors :
                   loaded' = loaded \union {[entry |-> page, by |-> author]}
      /\ out' # out => out' = <<page>> /\ page <= Len(books)
      /\ page' # page => page <= Len(books)
  <2>1. CASE G!GRAuthorBook
    BY <1>2, <1>3, <2>1 DEF G!GRAuthorBook, G!Running, G!End, G!Load, books
  <2>2. CASE G!HCAuthorBook
    BY <1>2, <1>3, <2>2 DEF G!HCAuthorBook, G!Running, G!End, G!Load, books
  <2> QED  BY <2>1, <2>2
<1>5. page <= Len(books) => page \in S
  BY <1>2, <1>3, <1>4
<1>6. PageOK'
  <2>1. page' \in Nat /\ page' <= MaxAnswer + 2
    BY <1>2, <1>3, <1>4
  <2>2. status' = "run" => page' <= Len(call.list) + 1
    BY <1>2, <1>3, <1>4
  <2> QED  BY <1>1, <1>4, <2>1, <2>2, NextPage DEF GetterKept
<1>7. out' \in Seq(S)
  <2>1. out \in Seq(S)
    BY <1>1 DEF GetterKept, GatheredOK, S
  <2>2. page \in S => <<page>> \in Seq(S)
    OBVIOUS
  <2> QED  BY <1>5, <1>4, <2>1, <2>2
<1>8. loaded' \subseteq [entry : S, by : G!Authors]
  <2>1. loaded \subseteq [entry : S, by : G!Authors]
    BY DEF GetterKept, GatheredOK, S
  <2> QED  BY <1>4, <1>5, <2>1
<1>9. GatheredOK'
  BY <1>1, <1>7, <1>4, <1>8 DEF GetterKept, GatheredOK, S, G!Authors
<1> QED  BY <1>6, <1>9, <1>4 DEF GetterKept, CallOK

\* The steps that start a call, or end it.
LEMMA EndsKept ==
    ASSUME GetterKept, G!SeriesFails \/ G!GRBooksStart \/ G!BooksFail \/ G!AuthorStart
    PROVE  GetterKept'
<1>1. /\ UNCHANGED <<call, last, loaded, out>> /\ status = "run"
      /\ \/ page' = page /\ status' \in {"cut", "notFound", "failed"}
         \/ /\ page' = 1 /\ status' = "run"
            /\ \/ call.op = "author"
               \/ call.op = "authorBooks" /\ call.getter = "gr"
            /\ page = 0
  BY DEF G!SeriesFails, G!GRBooksStart, G!BooksFail, G!AuthorStart, G!Running, G!End
<1>2. MaxAnswer \in Nat /\ Len(call.list) \in Nat
  BY CallFacts DEF GetterKept
<1>3. PageOK'
  <2>1. CASE page' = page
    <3>1. status' = "run" => status = "run"
      BY <1>1
    <3> QED  BY <1>1, <2>1, <3>1, SamePage DEF GetterKept
  <2>2. CASE page' = 1 /\ status' = "run" /\ call.op = "author"
    BY <1>1, <1>2, <2>2, NextPage DEF GetterKept
  <2>3. CASE page' = 1 /\ status' = "run" /\ call.op = "authorBooks" /\ call.getter = "gr"
    <3>1. 0 \in Nat /\ Passed(0) \in Nat
      BY FullPages DEF GetterKept
    <3>2. \E k \in Nat : /\ k = IF call.getter = "gr" /\ 1 > 0 THEN 1 - 1 ELSE 1
                         /\ k <= Passed(k)
      BY <2>3, <3>1
    <3> QED  BY <1>1, <1>2, <2>3, <3>2, NextPage DEF GetterKept
  <2> QED  BY <1>1, <2>1, <2>2, <2>3
<1>4. GatheredOK'
  BY <1>1 DEF GetterKept, GatheredOK
<1> QED  BY <1>1, <1>3, <1>4 DEF GetterKept, CallOK

LEMMA GetterKeptInit == G!Init => GetterKept
<1> SUFFICES ASSUME G!Init PROVE GetterKept
  OBVIOUS
<1>1. /\ CallOK /\ page = 0 /\ last = 0 /\ loaded = {} /\ out = <<>> /\ status = "run"
  BY DEF G!Init, CallOK
<1>2. MaxAnswer \in Nat /\ Len(call.list) \in Nat /\ MaxPages \in Nat \ {0}
  BY <1>1, CallFacts, ServiceAssumption DEF ServiceAssumption, G!GettersAssumption
<1>3. Passed(0) \in Nat
  BY <1>1, FullPages
<1>4. PageOK
  BY <1>1, <1>2, <1>3 DEF PageOK, Turned
<1>5. GatheredOK
  BY <1>1 DEF GatheredOK
<1> QED  BY <1>1, <1>4, <1>5 DEF GetterKept

GettersTyped == part = "getter" => GetterKept /\ SeriesInv

LEMMA GettersTypedStep == GettersTyped /\ [Next]_vars => GettersTyped'
<1> SUFFICES ASSUME GettersTyped, [Next]_vars, part' = "getter"
             PROVE  GetterKept' /\ SeriesInv'
  BY DEF GettersTyped
<1>1. part = "getter"
  BY DEF Next, vars, Content, Getter, Request
<1>2. GetterKept /\ SeriesInv
  BY <1>1 DEF GettersTyped
<1>3. SeriesInv'
  BY <1>2, SeriesInvStep
<1>4. CASE UNCHANGED vars
  <2>1. UNCHANGED <<call, page, last, loaded, out, status>>
    BY <1>4 DEF vars, callVars
  <2> QED  BY <1>2, <1>3, <2>1, SamePage DEF GetterKept, CallOK, GatheredOK
<1>5. CASE Next
  <2>1. ~Content /\ ~Request
    BY <1>1 DEF Content, Request
  <2>2. G!Next
    BY <1>5, <2>1, Zenon DEF Next, G!Next
  <2> QED  BY <1>2, <1>3, <2>2, SeriesPageKept, BooksPageKept, AuthorBookKept, EndsKept
           DEF G!Next
<1> QED  BY <1>4, <1>5

\* What GetSeries numbers is within its pages; what it takes stands in the list.
LEMMA SeriesWithin ==
    ASSUME GetterKept, SeriesInv, call.op = "series"
    PROVE  /\ last \in Positions \union {0}
           /\ out \in Seq([entry : 1..MaxAnswer,
                           position : 0..(PageSize * MaxPages) \union Positions])
<1> DEFINE n == Passed(page)
           top == PageSize * MaxPages
           P == Positions \union {0}
           Places2 == [entry : 1..MaxAnswer, position : 0..top \union Positions]
<1>1. SeriesTyped /\ NumberedThrough /\ TakenSoFar /\ CallOK /\ page \in Nat /\ page <= MaxPages
  BY DEF SeriesInv, GetterKept, PageOK, SeriesTyped
<1>2. /\ n \in Nat /\ n <= MaxAnswer /\ MaxAnswer \in Nat
      /\ call.list \in Seq(P) /\ Len(call.list) \in Nat /\ n <= Len(call.list)
  BY <1>1, CallFacts, FullPages, PageFacts
<1>3. top \in Nat /\ n <= top
  <2>1. ASSUME NEW a \in Nat, NEW b \in Nat, NEW c \in Nat, b <= c
        PROVE  a * b <= a * c
    <3>1. a * c = a * b + a * (c - b) /\ c - b \in Nat
      BY <2>1
    <3>2. a * (c - b) \in Nat /\ a * b \in Nat
      BY <3>1
    <3> QED  BY <3>1, <3>2
  <2>2. /\ PageSize \in Nat /\ MaxPages \in Nat /\ PageSize * page \in Nat /\ top \in Nat
    BY <1>1, SeriesPages
  <2>3. PageSize * page <= top
    BY <1>1, <2>1, <2>2
  <2>4. n <= PageSize * page
    BY <1>2, <2>2 DEF Passed
  <2> QED  BY <1>2, <2>2, <2>3, <2>4
<1> HIDE DEF n, top
<1>4. CASE call.getter = "gr"
  <2>1. /\ out \in Seq(Places) /\ Len(out) = n
        /\ \A i \in DOMAIN out : out[i] = [entry |-> i, position |-> i]
    BY <1>4, <1>1 DEF NumberedThrough, n
  <2>2. DOMAIN out = 1..n /\ out = [i \in 1..n |-> out[i]]
    BY <2>1
  <2>3. \A i \in 1..n : i \in 1..MaxAnswer /\ i \in 0..top
    BY <1>2, <1>3
  <2>4. \A i \in 1..n : out[i] \in Places2
    BY <2>1, <2>2, <2>3
  <2>5. out \in Seq(Places2)
    <3> HIDE DEF Places2
    <3> QED  BY <1>2, <2>2, <2>4
  <2>6. last \in P
    BY <1>4 DEF GetterKept, GatheredOK
  <2> QED  BY <2>5, <2>6 DEF top
<1>5. CASE call.getter = "hc"
  <2> DEFINE base == [last |-> last, out |-> out]
  <2>1. Taken(base, n) /\ base.out = out /\ base.last = last
    BY <1>1, <1>5 DEF TakenSoFar, n
  <2> HIDE DEF base
  <2>2. /\ out \in Seq(Places)
        /\ \A i \in DOMAIN out : /\ out[i].entry \in 1..n
                                 /\ out[i].position = call.list[out[i].entry]
        /\ last = IF n = 0 THEN 0 ELSE call.list[n]
    BY <2>1 DEF Taken
  <2>3. \A k \in 1..n : call.list[k] \in P
    <3> DEFINE list == call.list
    <3> HIDE DEF list, P
    <3>1. list \in Seq(P) /\ Len(list) \in Nat /\ n <= Len(list)
      BY <1>2 DEF list
    <3>2. \A k \in 1..n : list[k] \in P
      BY <1>2, <3>1
    <3> QED  BY <3>2 DEF list
  <2>4. last \in P
    BY <1>2, <2>2, <2>3
  <2>5. DOMAIN out = 1..Len(out) /\ Len(out) \in Nat /\ \A i \in DOMAIN out : out[i] \in Places
    BY <2>2
  <2>6. \A i \in DOMAIN out : out[i] \in Places2
    <3> SUFFICES ASSUME NEW i \in DOMAIN out PROVE out[i] \in Places2
      OBVIOUS
    <3>1. out[i].entry \in 1..MaxAnswer
      BY <1>2, <2>2
    <3>2. out[i].position \in P
      BY <2>2, <2>3
    <3>3. out[i].position \in 0..top \union Positions
      BY <1>3, <3>2
    <3>4. out[i] = [entry |-> out[i].entry, position |-> out[i].position]
      BY <2>5 DEF Places
    <3> QED  BY <3>1, <3>3, <3>4
  <2>7. out \in Seq(Places2)
    <3> HIDE DEF Places2
    <3>1. out = [i \in 1..Len(out) |-> out[i]]
      BY <2>2
    <3> QED  BY <2>5, <2>6, <3>1
  <2> QED  BY <2>4, <2>7 DEF top
<1> QED  BY <1>1, <1>4, <1>5, CallFacts

LEMMA GetterTypesHold == GettersTyped => (part = "getter" => G!TypeOK)
<1> SUFFICES ASSUME GetterKept, SeriesInv PROVE G!TypeOK
  BY DEF GettersTyped
<1>1. /\ call \in G!SeriesCall \union G!AuthorCall /\ page \in 0..(MaxAnswer + 2)
      /\ loaded \subseteq [entry : DOMAIN call.list, by : G!Authors]
      /\ status \in {"run", "ok", "cut", "notFound", "failed"}
  BY DEF GetterKept, CallOK, PageOK, GatheredOK
<1>2. CASE call.op = "series"
  BY <1>1, <1>2, SeriesWithin DEF G!TypeOK
<1>3. CASE call.op # "series"
  <2>1. last = 0 /\ out \in Seq(DOMAIN call.list)
    BY <1>3 DEF GetterKept, GatheredOK
  <2>2. DOMAIN call.list \subseteq 1..MaxAnswer
    BY CallFacts DEF GetterKept
  <2> DEFINE S == DOMAIN call.list
  <2> HIDE DEF S
  <2>3. ASSUME NEW T, S \subseteq T, out \in Seq(S)
        PROVE  out \in Seq(T)
    BY <2>3
  <2>4. out \in Seq(1..MaxAnswer)
    BY <2>1, <2>2, <2>3 DEF S
  <2> QED  BY <1>1, <1>3, <2>1, <2>4 DEF G!TypeOK
<1> QED  BY <1>2, <1>3

\* A behaviour is of one part to its end.
Typed ==
    /\ part \in {"content", "getter", "request"}
    /\ ContentTyped
    /\ GettersTyped
    /\ RequestsTyped

\* In the service, type correctness for any constants the code justifies: the goroutines of
\* a merge are at most one per child and two per series, a call of a getter stays within its
\* pages and what upstream listed, and a request never answers with, or still fetches, more
\* than it was asked for.
THEOREM TypeCorrect == Spec => []TypeOK
<1>1. Init => Typed
  <2> SUFFICES ASSUME Init PROVE Typed
    OBVIOUS
  <2>1. part \in {"content", "getter", "request"}
    BY DEF Init
  <2>2. GettersTyped
    BY GetterKeptInit, SeriesInit DEF Init, GettersTyped
  <2>3. RequestsTyped
    BY RequestInit, RequestKeptInit DEF Init, RequestsTyped
  <2> QED  BY <2>1, <2>2, <2>3, ContentTypedInit DEF Typed
<1>2. Typed /\ [Next]_vars => Typed'
  <2> SUFFICES ASSUME Typed, [Next]_vars PROVE Typed'
    OBVIOUS
  <2>1. part' = part
    BY DEF Next, vars, Content, Getter, Request
  <2> QED  BY <2>1, ContentTypedStep, GettersTypedStep, RequestsTypedStep DEF Typed
<1>3. Typed => TypeOK
  BY ContentTypesHold, GetterTypesHold, RequestTypesHold DEF Typed, TypeOK
<1> QED  BY <1>1, <1>2, <1>3, PTL DEF Spec
=============================================================================
