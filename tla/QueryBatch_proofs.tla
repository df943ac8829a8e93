-------------------------- MODULE QueryBatch_proofs --------------------------
(***************************************************************************)
(* Proofs about QueryBatch, for any queries and batch sizes: its type      *)
(* invariant, that a query that waits has exactly one place its answer can *)
(* come from, that it is answered once, that batches are bounded, that     *)
(* queries leave in the order they came, and that the document of a batch  *)
(* asks for each of them.                                                  *)
(*                                                                         *)
(* Each of them is inductive only with the others.  Nothing but the places *)
(* says that a query is not answered twice: it is sent its error and taken *)
(* off the subscribers in one step, and the errors of a response are of    *)
(* subscribers that are left.  What is queued has not been answered, so a  *)
(* caller that has its answer is in no batch and no request.  And a query  *)
(* joins the youngest batch because no older one is touched, which orders  *)
(* the batches as the calls came in.  A query that joins is in no batch,   *)
(* so a builder is given it once.                                          *)
(***************************************************************************)
EXTENDS QueryBatch, FiniteSetTheorems, TLAPS

\* Where the answer of a query can come from.
Waits(q) == \E i \in DOMAIN queue : q \in queue[i]
Flies(q) == \E r \in requests : q \in r.left

\* A query waits while it is in one place, and was sent nothing before its channel has it.
PlacesOK ==
    \A q \in Query :
        /\ caller[q] = "waiting" <=> Waits(q) \/ Flies(q) \/ respC[q] # <<>>
        /\ ~(Waits(q) /\ Flies(q))
        /\ Waits(q) \/ Flies(q) => respC[q] = <<>> /\ sends[q] = 0
        /\ caller[q] = "new" => sends[q] = 0
        /\ sends[q] <= 1
        /\ Len(respC[q]) <= 1

BatchesDisjoint == \A i, j \in DOMAIN queue : i # j => queue[i] \intersect queue[j] = {}
LeftsDisjoint == \A r, s \in requests : r # s => r.left \intersect s.left = {}

\* The errors still to answer are of subscribers that are left.
ErrorsOK == \A r \in requests : /\ r.errors \subseteq r.left
                                /\ r.pc # "errors" => r.errors = {}

BatchesFinite == \A i \in DOMAIN queue : IsFiniteSet(queue[i])

\* Every call that was made is in joined, once.
JoinedOK ==
    /\ \A i \in DOMAIN joined : caller[joined[i]] # "new"
    /\ \A i, j \in DOMAIN joined : joined[i] = joined[j] => i = j
    /\ \A q \in Query : caller[q] # "new" => \E i \in DOMAIN joined : joined[i] = q

\* A builder holds what the queries of its batch ask for, and nothing of any other.
Holds(qb, batch) ==
    /\ Len(qb.selections) = Cardinality(batch)
    /\ \A q \in batch : \E s \in DOMAIN qb.selections : qb.selections[s] = Selection(q)
    /\ qb.definitions = DOMAIN qb.vars
    /\ \A q \in batch : \A name \in DOMAIN Document[q].vars :
           /\ Renamed(q, name) \in DOMAIN qb.vars
           /\ qb.vars[Renamed(q, name)] = Document[q].vars[name]
    /\ qb.fragments = UNION {Document[q].fragments : q \in batch}

BuildersOK == \A i \in DOMAIN queue : Holds(builders[i], queue[i])

Inv == /\ TypeOK /\ PlacesOK /\ BatchesDisjoint /\ LeftsDisjoint /\ ErrorsOK
       /\ BatchesFinite /\ BatchBounded /\ JoinedOK /\ OldestFirst /\ BuildersOK

\* Appending to a sequence, and dropping its head.
LEMMA AppendFacts ==
    ASSUME NEW S, NEW s \in Seq(S), NEW x \in S
    PROVE  /\ Append(s, x) \in Seq(S)
           /\ DOMAIN s = 1..Len(s) /\ Len(s) \in Nat
           /\ DOMAIN Append(s, x) = 1..(Len(s) + 1)
           /\ \A i \in 1..Len(s) : Append(s, x)[i] = s[i]
           /\ Append(s, x)[Len(s) + 1] = x
  OBVIOUS

LEMMA TailFacts ==
    ASSUME NEW S, NEW s \in Seq(S), s # <<>>
    PROVE  /\ Tail(s) \in Seq(S)
           /\ Head(s) = s[1]
           /\ DOMAIN s = 1..Len(s) /\ Len(s) \in Nat \ {0}
           /\ DOMAIN Tail(s) = 1..(Len(s) - 1)
           /\ \A i \in 1..(Len(s) - 1) : Tail(s)[i] = s[i + 1]
  OBVIOUS

\* Taking the answer out of a channel of capacity 1 leaves it empty.
LEMMA OnlyAnswer ==
    ASSUME NEW S, NEW s \in Seq(S), s # <<>>, Len(s) <= 1
    PROVE  Tail(s) = <<>>
<1>1. Len(s) \in Nat /\ Len(s) # 0
  OBVIOUS
<1>2. Tail(s) \in Seq(S) /\ Len(Tail(s)) = 0
  BY <1>1
<1> QED  BY <1>2

\* No queue, no request and no call: MakeRequest was never called.
LEMMA InitInv == Init => Inv
<1> SUFFICES ASSUME Init
             PROVE  Inv
  OBVIOUS
<1>1. DOMAIN queue = {} /\ DOMAIN joined = {}
  BY DEF Init
<1>2. TypeOK
  BY DEF Init, TypeOK
<1>3. PlacesOK
  BY <1>1 DEF Init, PlacesOK, Waits, Flies
<1>4. BatchesDisjoint /\ BatchesFinite /\ BatchBounded /\ OldestFirst
  BY <1>1 DEF BatchesDisjoint, BatchesFinite, BatchBounded, OldestFirst
<1>5. LeftsDisjoint /\ ErrorsOK
  BY DEF Init, LeftsDisjoint, ErrorsOK
<1>6. JoinedOK
  BY <1>1 DEF Init, JoinedOK
<1>7. BuildersOK
  BY <1>1 DEF BuildersOK
<1> QED  BY <1>2, <1>3, <1>4, <1>5, <1>6, <1>7 DEF Inv

-----------------------------------------------------------------------------
(* What a builder holds.                                                    *)

LEMMA HoldsNothing == EmptyBuilder \in Builder /\ Holds(EmptyBuilder, {})
<1>1. DOMAIN EmptyBuilder.vars = {} /\ EmptyBuilder.selections = <<>>
      /\ EmptyBuilder.definitions = {} /\ EmptyBuilder.fragments = {}
  BY DEF EmptyBuilder
<1>2. <<>> \in [{} -> Values] /\ {} \in SUBSET Names
  OBVIOUS
<1>3. EmptyBuilder \in Builder
  <2>1. <<>> \in UNION {[names -> Values] : names \in SUBSET Names}
    BY <1>2
  <2>2. <<>> \in Seq({Selection(q) : q \in Query})
    OBVIOUS
  <2> DEFINE Vars == UNION {[names -> Values] : names \in SUBSET Names}
             Selections == Seq({Selection(q) : q \in Query})
             Fragments == UNION {Document[q].fragments : q \in Query}
  <2>3. <<>> \in Vars /\ <<>> \in Selections
    BY <2>1, <2>2
  <2>4. Builder = [selections : Selections, definitions : SUBSET Names, vars : Vars,
                   fragments : SUBSET Fragments]
    BY DEF Builder
  <2> HIDE DEF Vars, Selections, Fragments
  <2> QED  BY <2>3, <2>4 DEF EmptyBuilder
<1>4. Cardinality({}) = 0
  BY FS_EmptySet
<1> QED  BY <1>1, <1>3, <1>4 DEF Holds

\* No two queries have an alias in common, so none has a variable of another's.
LEMMA RenamedFacts ==
    ASSUME NEW q \in Query
    PROVE  /\ RenamedVars(q) \in SUBSET Names
           /\ \A name \in DOMAIN Document[q].vars : Renamed(q, name) \in RenamedVars(q)
           /\ \A p \in Query : \A name : Renamed(p, name) \in RenamedVars(q) => p = q
           /\ \A name, other : Renamed(q, name) = Renamed(q, other) => name = other
  BY DEF Names, RenamedVars, Renamed

\* The variables of a query get its values, and the others keep theirs.
LEMMA SetVarsFacts ==
    ASSUME NEW names \in SUBSET Names, NEW old \in [names -> Values], NEW q \in Query
    PROVE  /\ SetVars(old, q) \in [names \union RenamedVars(q) -> Values]
           /\ \A name \in DOMAIN Document[q].vars :
                  SetVars(old, q)[Renamed(q, name)] = Document[q].vars[name]
           /\ \A v \in names \ RenamedVars(q) : SetVars(old, q)[v] = old[v]
<1> DEFINE own == DOMAIN Document[q].vars
           oldName(v) == CHOOSE name \in own : Renamed(q, name) = v
<1>1. ASSUME NEW v \in RenamedVars(q)
      PROVE  oldName(v) \in own /\ Renamed(q, oldName(v)) = v
  <2>1. \E name \in own : Renamed(q, name) = v
    BY DEF RenamedVars
  <2> QED  BY <2>1
<1>2. \A name \in own : Document[q].vars[name] \in Values
  BY DEF Values
<1>3. ASSUME NEW name \in own
      PROVE  oldName(Renamed(q, name)) = name
  BY <1>1, RenamedFacts
<1>4. SetVars(old, q) = [v \in names \union RenamedVars(q) |->
                            IF v \in RenamedVars(q) THEN Document[q].vars[oldName(v)]
                            ELSE old[v]]
  BY DEF SetVars
<1> HIDE DEF oldName
<1>5. ASSUME NEW v \in names \union RenamedVars(q)
      PROVE  (IF v \in RenamedVars(q) THEN Document[q].vars[oldName(v)] ELSE old[v]) \in Values
  BY <1>1, <1>2
<1>6. ASSUME NEW name \in own
      PROVE  SetVars(old, q)[Renamed(q, name)] = Document[q].vars[name]
  BY <1>3, <1>4, RenamedFacts
<1> QED  BY <1>4, <1>5, <1>6

LEMMA AddType ==
    ASSUME NEW qb \in Builder, NEW q \in Query
    PROVE  add(qb, q) \in Builder
<1>1. PICK names \in SUBSET Names : qb.vars \in [names -> Values]
  BY DEF Builder
<1>2. SetVars(qb.vars, q) \in [names \union RenamedVars(q) -> Values]
  BY <1>1, SetVarsFacts
<1>3. names \union RenamedVars(q) \in SUBSET Names
  BY RenamedFacts
<1>4. SetVars(qb.vars, q) \in UNION {[n -> Values] : n \in SUBSET Names}
  BY <1>2, <1>3
<1>5. qb.definitions \union RenamedVars(q) \in SUBSET Names
  BY RenamedFacts DEF Builder
<1>6. Append(qb.selections, Selection(q)) \in Seq({Selection(p) : p \in Query})
  <2> DEFINE S == {Selection(p) : p \in Query}
  <2>1. qb.selections \in Seq(S) /\ Selection(q) \in S
    BY DEF Builder
  <2> HIDE DEF S
  <2>2. Append(qb.selections, Selection(q)) \in Seq(S)
    BY <2>1
  <2> QED  BY <2>2 DEF S
<1>7. qb.fragments \union Document[q].fragments
          \in SUBSET (UNION {Document[p].fragments : p \in Query})
  BY DEF Builder
<1> QED  BY <1>4, <1>5, <1>6, <1>7 DEF Builder, add

\* Adding a query to a batch adds what it asks for, and leaves the others what they have.
LEMMA AddFacts ==
    ASSUME NEW qb \in Builder, NEW batch \in SUBSET Query, IsFiniteSet(batch),
           Holds(qb, batch), NEW q \in Query, q \notin batch
    PROVE  Holds(add(qb, q), batch \union {q})
<1> DEFINE new == add(qb, q)
           more == batch \union {q}
<1>1. /\ new.selections = Append(qb.selections, Selection(q))
      /\ new.definitions = qb.definitions \union RenamedVars(q)
      /\ new.vars = SetVars(qb.vars, q)
      /\ new.fragments = qb.fragments \union Document[q].fragments
  BY DEF add
<1> HIDE DEF new
<1>2. PICK names \in SUBSET Names : qb.vars \in [names -> Values]
  BY DEF Builder
<1>3. /\ new.vars \in [names \union RenamedVars(q) -> Values]
      /\ \A name \in DOMAIN Document[q].vars :
             new.vars[Renamed(q, name)] = Document[q].vars[name]
      /\ \A v \in names \ RenamedVars(q) : new.vars[v] = qb.vars[v]
  <2> DEFINE old == qb.vars
  <2>1. old \in [names -> Values] /\ new.vars = SetVars(old, q)
    BY <1>1, <1>2
  <2> HIDE DEF old
  <2>2. /\ SetVars(old, q) \in [names \union RenamedVars(q) -> Values]
        /\ \A name \in DOMAIN Document[q].vars :
               SetVars(old, q)[Renamed(q, name)] = Document[q].vars[name]
        /\ \A v \in names \ RenamedVars(q) : SetVars(old, q)[v] = old[v]
    BY <2>1, SetVarsFacts
  <2> QED  BY <2>1, <2>2, Zenon DEF old
<1>4. DOMAIN qb.vars = names /\ DOMAIN new.vars = names \union RenamedVars(q)
  BY <1>2, <1>3
<1>5. Len(new.selections) = Cardinality(more)
  <2>1. Cardinality(more) = Cardinality(batch) + 1
    BY FS_AddElement
  <2>2. Len(new.selections) = Len(qb.selections) + 1
    <3> DEFINE S == {Selection(p) : p \in Query}
    <3>1. qb.selections \in Seq(S) /\ Selection(q) \in S
      BY DEF Builder
    <3> HIDE DEF S
    <3> QED  BY <1>1, <3>1
  <2> QED  BY <2>1, <2>2 DEF Holds
<1>6. \A p \in more : \E s \in DOMAIN new.selections : new.selections[s] = Selection(p)
  <2> DEFINE S == {Selection(p) : p \in Query}
             n == Len(qb.selections)
  <2>1. qb.selections \in Seq(S) /\ Selection(q) \in S
    BY DEF Builder
  <2> HIDE DEF S
  <2>2. /\ n \in Nat /\ DOMAIN qb.selections = 1..n /\ DOMAIN new.selections = 1..(n + 1)
        /\ \A s \in 1..n : new.selections[s] = qb.selections[s]
        /\ new.selections[n + 1] = Selection(q)
    BY <1>1, <2>1, AppendFacts
  <2>3. n + 1 \in 1..(n + 1) /\ 1..n \subseteq 1..(n + 1)
    BY <2>2
  <2>4. ASSUME NEW p \in batch
        PROVE  \E s \in DOMAIN new.selections : new.selections[s] = Selection(p)
    <3>1. PICK s \in DOMAIN qb.selections : qb.selections[s] = Selection(p)
      BY DEF Holds
    <3> QED  BY <2>2, <2>3, <3>1
  <2> QED  BY <2>2, <2>3, <2>4
<1>7. new.definitions = DOMAIN new.vars
  BY <1>1, <1>4 DEF Holds
<1>8. ASSUME NEW p \in more, NEW name \in DOMAIN Document[p].vars
      PROVE  /\ Renamed(p, name) \in DOMAIN new.vars
             /\ new.vars[Renamed(p, name)] = Document[p].vars[name]
  <2>1. CASE p = q
    BY <1>3, <1>4, <2>1, RenamedFacts
  <2>2. CASE p # q
    <3>1. /\ Renamed(p, name) \in DOMAIN qb.vars
          /\ qb.vars[Renamed(p, name)] = Document[p].vars[name]
      BY <2>2 DEF Holds
    <3>2. Renamed(p, name) \notin RenamedVars(q)
      BY <2>2, RenamedFacts
    <3> QED  BY <1>3, <1>4, <3>1, <3>2
  <2> QED  BY <2>1, <2>2
<1>9. new.fragments = UNION {Document[p].fragments : p \in more}
  BY <1>1 DEF Holds
<1> QED  BY <1>5, <1>6, <1>7, <1>8, <1>9 DEF Holds, new

\* What upstream makes of the selection of a query is what the query asks for.
LEMMA HoldsItsOwn ==
    ASSUME NEW qb, NEW batch \in SUBSET Query, Holds(qb, batch), NEW q \in batch
    PROVE  \E s \in DOMAIN qb.selections :
               /\ qb.selections[s].alias = q
               /\ Evaluated(qb, qb.selections[s]) = [field |-> Document[q].field,
                                                     vars |-> Document[q].vars]
<1>1. PICK s \in DOMAIN qb.selections : qb.selections[s] = Selection(q)
  BY DEF Holds
<1>2. [name \in DOMAIN Document[q].vars |-> qb.vars[Renamed(q, name)]] = Document[q].vars
  <2>1. \A name \in DOMAIN Document[q].vars :
            qb.vars[Renamed(q, name)] = Document[q].vars[name]
    BY DEF Holds
  <2>2. Document[q].vars = [name \in DOMAIN Document[q].vars |-> Document[q].vars[name]]
    BY QueryBuilderAssumption
  <2> QED  BY <2>1, <2>2, Zenon
<1>3. /\ Selection(q).alias = q /\ Selection(q).field = Document[q].field
      /\ Selection(q).arguments = [name \in DOMAIN Document[q].vars |-> Renamed(q, name)]
  BY DEF Selection
<1>4. [name \in DOMAIN Selection(q).arguments |-> qb.vars[Selection(q).arguments[name]]]
          = [name \in DOMAIN Document[q].vars |-> qb.vars[Renamed(q, name)]]
  BY <1>3
<1>5. Evaluated(qb, Selection(q)) = [field |-> Document[q].field, vars |-> Document[q].vars]
  BY <1>2, <1>3, <1>4 DEF Evaluated
<1> QED  BY <1>1, <1>3, <1>5

-----------------------------------------------------------------------------
(* Joining a batch, and flushing one.                                       *)

\* A query joins the last batch of the queue it leaves behind: the youngest there was, if
\* that had room, or one of its own.  No older batch changes.
LEMMA JoiningFacts ==
    ASSUME TypeOK, NEW q \in Query
    PROVE  LET k == Len(Joining(q)) IN
           /\ k \in Nat \ {0}
           /\ Joining(q) \in Seq(SUBSET Query)
           /\ DOMAIN queue = 1..Len(queue) /\ Len(queue) \in Nat
           /\ DOMAIN Joining(q) = 1..k
           /\ \A i \in 1..(k - 1) : i \in DOMAIN queue /\ Joining(q)[i] = queue[i]
           /\ \/ k = Len(queue) + 1 /\ Joining(q)[k] = {q}
              \/ /\ k = Len(queue) /\ k \in DOMAIN queue /\ Joining(q)[k] = queue[k] \union {q}
                 /\ ~(Cardinality(queue[k]) >= batchSize)
<1>1. queue \in Seq(SUBSET Query) /\ {q} \in SUBSET Query
  BY DEF TypeOK
<1>2. DOMAIN queue = 1..Len(queue) /\ Len(queue) \in Nat
  BY <1>1
<1>3. CASE queue = <<>> \/ Cardinality(Youngest) >= batchSize
  <2>1. Joining(q) = Append(queue, {q})
    BY <1>2, <1>3 DEF Joining, Open
  <2>2. /\ Joining(q) \in Seq(SUBSET Query)
        /\ DOMAIN Joining(q) = 1..(Len(queue) + 1)
        /\ \A i \in 1..Len(queue) : Joining(q)[i] = queue[i]
        /\ Joining(q)[Len(queue) + 1] = {q}
    BY <1>1, <2>1, AppendFacts
  <2>3. PICK n \in Nat : n = Len(queue)
    BY <1>2
  <2>4. Len(Joining(q)) = n + 1
    BY <1>1, <2>1, <2>3
  <2>5. (n + 1) - 1 = n /\ n + 1 \in Nat \ {0}
    OBVIOUS
  <2>6. \A i \in 1..n : i \in DOMAIN queue /\ Joining(q)[i] = queue[i]
    BY <1>2, <2>2, <2>3
  <2>7. DOMAIN Joining(q) = 1..(n + 1) /\ Joining(q)[n + 1] = {q}
    BY <2>2, <2>3
  <2> HIDE DEF Joining
  <2> QED  BY <1>2, <2>2, <2>3, <2>4, <2>5, <2>6, <2>7, Zenon
<1>4. CASE ~(queue = <<>> \/ Cardinality(Youngest) >= batchSize)
  <2>1. Joining(q) = [queue EXCEPT ![Len(queue)] = queue[Len(queue)] \union {q}]
    <3>1. Open = Len(queue) /\ ~(Open > Len(queue))
      BY <1>2, <1>4 DEF Open
    <3> QED  BY <3>1 DEF Joining
  <2>2. Len(queue) \in 1..Len(queue) /\ Len(queue) \in Nat \ {0}
    BY <1>1, <1>2, <1>4
  <2>3. queue[Len(queue)] \in SUBSET Query
    BY <1>1, <1>2, <2>2
  <2>4. queue[Len(queue)] \union {q} \in SUBSET Query
    BY <2>3
  <2>6. Joining(q) \in Seq(SUBSET Query) /\ Len(Joining(q)) = Len(queue)
    BY <1>1, <2>1, <2>2, <2>4
  <2>7. /\ DOMAIN Joining(q) = DOMAIN queue
        /\ \A i \in DOMAIN queue \ {Len(queue)} : Joining(q)[i] = queue[i]
        /\ Joining(q)[Len(queue)] = queue[Len(queue)] \union {q}
    BY <1>2, <2>1, <2>2
  <2>5. ~(Cardinality(queue[Len(queue)]) >= batchSize)
    BY <1>4 DEF Youngest
  <2>8. PICK n \in Nat \ {0} : n = Len(queue)
    BY <2>2
  <2>9. n \in DOMAIN queue /\ \A i \in 1..(n - 1) : i \in 1..n /\ i # n
    <3>1. n \in 1..n /\ \A i \in 1..(n - 1) : i \in 1..n /\ i # n
      OBVIOUS
    <3> QED  BY <1>2, <2>8, <3>1, Zenon
  <2>10. \A i \in 1..(n - 1) : i \in DOMAIN queue /\ Joining(q)[i] = queue[i]
    BY <1>2, <2>7, <2>8, <2>9, Zenon
  <2> QED  BY <1>2, <2>5, <2>6, <2>7, <2>8, <2>9, <2>10, Zenon
<1> QED  BY <1>3, <1>4

\* So does the builder of the batch: the youngest batch's, or a new one.
LEMMA BuildingFacts ==
    ASSUME TypeOK, NEW q \in Query
    PROVE  LET k == Len(Joining(q)) IN
           /\ Building(q) \in Seq(Builder) /\ Len(Building(q)) = k
           /\ \A i \in 1..(k - 1) : Building(q)[i] = builders[i]
           /\ \/ Joining(q)[k] = {q} /\ Building(q)[k] = add(EmptyBuilder, q)
              \/ /\ k \in DOMAIN queue /\ Joining(q)[k] = queue[k] \union {q}
                 /\ Building(q)[k] = add(builders[k], q)
<1>1. /\ queue \in Seq(SUBSET Query) /\ {q} \in SUBSET Query
      /\ builders \in Seq(Builder) /\ Len(builders) = Len(queue)
  BY DEF TypeOK
<1>2. PICK n \in Nat : n = Len(queue)
  BY <1>1
<1>3. DOMAIN queue = 1..n /\ DOMAIN builders = 1..n
  BY <1>1, <1>2
<1>4. CASE Open > Len(queue)
  <2>1. Joining(q) = Append(queue, {q}) /\ Building(q) = Append(builders, add(EmptyBuilder, q))
    BY <1>4 DEF Joining, Building
  <2>2. add(EmptyBuilder, q) \in Builder
    BY HoldsNothing, AddType
  <2>3. Len(Joining(q)) = n + 1 /\ Joining(q)[n + 1] = {q}
    BY <1>1, <1>2, <2>1
  <2> DEFINE new == add(EmptyBuilder, q)
  <2> HIDE DEF new
  <2>4. /\ Append(builders, new) \in Seq(Builder) /\ Len(Append(builders, new)) = n + 1
        /\ \A i \in 1..n : Append(builders, new)[i] = builders[i]
        /\ Append(builders, new)[n + 1] = new
    BY <1>1, <1>2, <2>2 DEF new
  <2>5. (n + 1) - 1 = n
    OBVIOUS
  <2> QED  BY <2>1, <2>3, <2>4, <2>5 DEF new
<1>5. CASE ~(Open > Len(queue))
  <2>1. Open = n /\ n \in 1..n /\ n \in Nat \ {0}
    BY <1>1, <1>2, <1>5 DEF Open
  <2>2. /\ Joining(q) = [queue EXCEPT ![n] = queue[n] \union {q}]
        /\ Building(q) = [builders EXCEPT ![n] = add(builders[n], q)]
    BY <1>5, <2>1 DEF Joining, Building
  <2>3. Len(Joining(q)) = n /\ Joining(q)[n] = queue[n] \union {q}
    BY <1>1, <1>2, <1>3, <2>1, <2>2
  <2>4. builders[n] \in Builder
    BY <1>1, <1>3, <2>1
  <2> DEFINE new == add(builders[n], q)
  <2>5. new \in Builder
    BY <2>4, AddType
  <2> HIDE DEF new
  <2>6. /\ [builders EXCEPT ![n] = new] \in Seq(Builder)
        /\ Len([builders EXCEPT ![n] = new]) = n
        /\ \A i \in 1..(n - 1) : [builders EXCEPT ![n] = new][i] = builders[i]
        /\ [builders EXCEPT ![n] = new][n] = new
    <3>1. [builders EXCEPT ![n] = new] \in Seq(Builder)
      BY <1>1, <1>2, <2>1, <2>5
    <3>2. Len([builders EXCEPT ![n] = new]) = n
      BY <1>1, <1>2, <2>1, <2>5
    <3>3. \A i \in 1..(n - 1) : i \in 1..n /\ i # n
      BY <1>2
    <3> QED  BY <1>3, <2>1, <3>1, <3>2, <3>3
  <2> QED  BY <1>3, <2>1, <2>2, <2>3, <2>6 DEF new
<1> QED  BY <1>4, <1>5

\* A call keeps its position in the order of the calls when another comes in.
LEMMA PositionFacts ==
    ASSUME joined \in Seq(Query), JoinedOK, NEW p \in Query, caller[p] # "new"
    PROVE  /\ Position(p) \in 1..Len(joined)
           /\ joined[Position(p)] = p
           /\ \A i \in 1..Len(joined) : joined[i] = p => i = Position(p)
<1>1. DOMAIN joined = 1..Len(joined)
  OBVIOUS
<1>2. \E i \in DOMAIN joined : joined[i] = p
  BY DEF JoinedOK
<1>3. Position(p) \in DOMAIN joined /\ joined[Position(p)] = p
  BY <1>2 DEF Position
<1> QED  BY <1>1, <1>3 DEF JoinedOK

\* A call of MakeRequest enters a batch, behind everything that came before it.
LEMMA EnqueueStep ==
    ASSUME Inv, NEW q \in Query, enqueue(q)
    PROVE  Inv'
<1> DEFINE k == Len(Joining(q))
<1>1. /\ k \in Nat \ {0}
      /\ Joining(q) \in Seq(SUBSET Query)
      /\ DOMAIN queue = 1..Len(queue) /\ Len(queue) \in Nat
      /\ DOMAIN Joining(q) = 1..k
      /\ \A i \in 1..(k - 1) : i \in DOMAIN queue /\ Joining(q)[i] = queue[i]
      /\ \/ k = Len(queue) + 1 /\ Joining(q)[k] = {q}
         \/ /\ k = Len(queue) /\ k \in DOMAIN queue /\ Joining(q)[k] = queue[k] \union {q}
            /\ ~(Cardinality(queue[k]) >= batchSize)
  BY JoiningFacts DEF Inv
<1> HIDE DEF k
<1>2. /\ queue' = Joining(q) /\ builders' = Building(q) /\ caller[q] = "new"
      /\ caller' = [caller EXCEPT ![q] = "waiting"]
      /\ joined' = Append(joined, q)
      /\ UNCHANGED <<batchSize, requests, respC, sends, failed>>
  BY DEF enqueue
<1>3. /\ joined \in Seq(Query) /\ caller \in [Query -> {"new", "waiting"} \union Answers]
      /\ queue \in Seq(SUBSET Query)
  BY DEF Inv, TypeOK
<1>4. /\ joined' \in Seq(Query) /\ DOMAIN joined = 1..Len(joined) /\ Len(joined) \in Nat
      /\ DOMAIN joined' = 1..(Len(joined) + 1)
      /\ \A i \in 1..Len(joined) : joined'[i] = joined[i]
      /\ joined'[Len(joined) + 1] = q
  BY <1>2, <1>3, AppendFacts
<1>5. caller'[q] = "waiting" /\ \A p \in Query \ {q} : caller'[p] = caller[p]
  BY <1>2, <1>3
<1>6. /\ ~Waits(q) /\ ~Flies(q) /\ respC[q] = <<>> /\ sends[q] = 0
  BY <1>2 DEF Inv, PlacesOK
<1>7. /\ DOMAIN queue' = 1..k /\ k \in 1..k /\ 1..k = (1..(k - 1)) \union {k}
      /\ DOMAIN queue \subseteq 1..k
  <2>1. DOMAIN queue' = 1..k
    BY <1>1, <1>2, Zenon
  <2>2. PICK n \in Nat : n = Len(queue) /\ (k = n + 1 \/ k = n)
    BY <1>1, Zenon
  <2>3. DOMAIN queue = 1..n
    BY <1>1, <2>2, Zenon
  <2>4. k \in Nat \ {0}
    BY <1>1, Zenon
  <2>5. k \in 1..k /\ 1..k = (1..(k - 1)) \union {k} /\ 1..n \subseteq 1..k
    BY <2>2, <2>4
  <2> QED  BY <2>1, <2>3, <2>5
<1>8. \A i \in 1..(k - 1) : i \in DOMAIN queue /\ queue'[i] = queue[i]
  BY <1>1, <1>2
<1>9. \/ k = Len(queue) + 1 /\ queue'[k] = {q}
      \/ /\ k = Len(queue) /\ k \in DOMAIN queue /\ queue'[k] = queue[k] \union {q}
         /\ ~(Cardinality(queue[k]) >= batchSize)
  BY <1>1, <1>2
<1>10. \A i \in 1..k : \A p \in queue'[i] : IF p = q THEN i = k
                                            ELSE i \in DOMAIN queue /\ p \in queue[i]
  <2> SUFFICES ASSUME NEW i \in 1..k, NEW p \in queue'[i]
               PROVE  IF p = q THEN i = k ELSE i \in DOMAIN queue /\ p \in queue[i]
    OBVIOUS
  <2>1. CASE i = k
    BY <1>9, <2>1
  <2>2. CASE i \in 1..(k - 1)
    BY <1>8, <1>6, <2>2 DEF Waits
  <2> QED  BY <1>7, <2>1, <2>2
<1>11. \A p \in Query : Waits(p)' <=> p = q \/ Waits(p)
  <2>1. ASSUME NEW p \in Query, Waits(p)'
        PROVE  p = q \/ Waits(p)
    BY <1>7, <1>10, <2>1 DEF Waits
  <2>2. Waits(q)'
    BY <1>7, <1>9 DEF Waits
  <2>3. ASSUME NEW p \in Query, Waits(p)
        PROVE  Waits(p)'
    <3>1. PICK i \in DOMAIN queue : p \in queue[i]
      BY <2>3 DEF Waits
    <3>2. i \in 1..k /\ (i = k \/ i \in 1..(k - 1))
      BY <1>7
    <3>3. p \in queue'[i]
      <4>1. CASE i = k
        <5>1. k \in DOMAIN queue /\ queue'[k] = queue[k] \union {q}
          BY <1>1, <1>9, <4>1
        <5> QED  BY <3>1, <4>1, <5>1
      <4>2. CASE i \in 1..(k - 1)
        BY <1>8, <3>1, <4>2
      <4> QED  BY <3>2, <4>1, <4>2
    <3> QED  BY <1>7, <3>2, <3>3 DEF Waits
  <2> QED  BY <2>1, <2>2, <2>3
<1>12. \A p \in Query : Flies(p)' <=> Flies(p)
  BY <1>2 DEF Flies
<1>13. /\ builders' \in Seq(Builder) /\ Len(builders') = Len(queue')
       /\ \A i \in 1..(k - 1) : builders'[i] = builders[i]
       /\ \/ queue'[k] = {q} /\ builders'[k] = add(EmptyBuilder, q)
          \/ /\ k \in DOMAIN queue /\ queue'[k] = queue[k] \union {q}
             /\ builders'[k] = add(builders[k], q)
  BY <1>2, BuildingFacts DEF Inv, k
<1>14. BuildersOK'
  <2>1. ASSUME NEW i \in 1..(k - 1)
        PROVE  Holds(builders'[i], queue'[i])
    <3>1. i \in DOMAIN queue /\ queue'[i] = queue[i] /\ builders'[i] = builders[i]
      BY <1>8, <1>13, <2>1
    <3> QED  BY <3>1 DEF Inv, BuildersOK
  <2>2. Holds(builders'[k], queue'[k])
    <3>1. CASE queue'[k] = {q} /\ builders'[k] = add(EmptyBuilder, q)
      <4>1. Holds(add(EmptyBuilder, q), {} \union {q})
        BY HoldsNothing, FS_EmptySet, AddFacts
      <4>2. {} \union {q} = {q}
        OBVIOUS
      <4> QED  BY <3>1, <4>1, <4>2
    <3>2. CASE /\ k \in DOMAIN queue /\ queue'[k] = queue[k] \union {q}
               /\ builders'[k] = add(builders[k], q)
      <4>1. /\ IsFiniteSet(queue[k]) /\ Holds(builders[k], queue[k])
            /\ queue[k] \in SUBSET Query
        BY <1>3, <3>2 DEF Inv, BatchesFinite, BuildersOK
      <4>2. builders[k] \in Builder
        BY <3>2 DEF Inv, TypeOK
      <4>3. q \notin queue[k]
        BY <1>6, <3>2 DEF Waits
      <4> QED  BY <3>2, <4>1, <4>2, <4>3, AddFacts
    <3> QED  BY <1>13, <3>1, <3>2
  <2> QED  BY <1>7, <2>1, <2>2 DEF BuildersOK
<1>15. TypeOK'
  <2>1. batchSize' \in BatchSizes /\ caller' \in [Query -> {"new", "waiting"} \union Answers]
    BY <1>2, <1>3 DEF Inv, TypeOK
  <2> QED  BY <1>1, <1>2, <1>4, <1>13, <2>1 DEF Inv, TypeOK
<1>16. PlacesOK'
  BY <1>2, <1>5, <1>6, <1>11, <1>12 DEF Inv, PlacesOK
<1>17. BatchesDisjoint'
  BY <1>7, <1>10 DEF Inv, BatchesDisjoint
<1>18. LeftsDisjoint' /\ ErrorsOK'
  BY <1>2 DEF Inv, LeftsDisjoint, ErrorsOK
<1>19. \A i \in 1..k : /\ IsFiniteSet(queue'[i]) /\ queue'[i] # {}
                       /\ \E n \in BatchSizes : Cardinality(queue'[i]) <= n
  <2>1. ASSUME NEW i \in 1..(k - 1)
        PROVE  /\ IsFiniteSet(queue'[i]) /\ queue'[i] # {}
               /\ \E n \in BatchSizes : Cardinality(queue'[i]) <= n
    <3>1. i \in DOMAIN queue /\ queue'[i] = queue[i]
      BY <1>8, <2>1
    <3> QED  BY <3>1 DEF Inv, BatchesFinite, BatchBounded
  <2>2. batchSize \in BatchSizes /\ batchSize \in Nat \ {0}
    BY QueryBatchAssumption DEF Inv, TypeOK
  <2>3. /\ IsFiniteSet(queue'[k]) /\ queue'[k] # {}
        /\ \E n \in BatchSizes : Cardinality(queue'[k]) <= n
    <3>1. CASE queue'[k] = {q}
      <4>1. IsFiniteSet({q}) /\ Cardinality({q}) = 1
        BY FS_Singleton, Zenon
      <4> QED  BY <2>2, <3>1, <4>1
    <3>2. CASE /\ k \in DOMAIN queue /\ queue'[k] = queue[k] \union {q}
               /\ ~(Cardinality(queue[k]) >= batchSize)
      <4>1. IsFiniteSet(queue[k])
        BY <3>2 DEF Inv, BatchesFinite
      <4>2. Cardinality(queue[k]) \in Nat
        BY <4>1, FS_CardinalityType
      <4>3. /\ IsFiniteSet(queue[k] \union {q})
            /\ Cardinality(queue[k] \union {q})
                   = IF q \in queue[k] THEN Cardinality(queue[k])
                     ELSE Cardinality(queue[k]) + 1
        BY <4>1, FS_AddElement
      <4>4. Cardinality(queue[k] \union {q}) <= batchSize
        BY <2>2, <3>2, <4>2, <4>3
      <4> QED  BY <2>2, <3>2, <4>3, <4>4
    <3> QED  BY <1>9, <3>1, <3>2
  <2> QED  BY <1>7, <2>1, <2>3
<1>20. BatchesFinite' /\ BatchBounded'
  BY <1>7, <1>19 DEF BatchesFinite, BatchBounded
<1>21. JoinedOK'
  <2>1. \A i \in 1..Len(joined) :
            joined'[i] \in Query /\ joined[i] # q /\ caller[joined[i]] # "new"
    BY <1>2, <1>3, <1>4 DEF Inv, JoinedOK
  <2>2. ASSUME NEW i \in DOMAIN joined'
        PROVE  caller'[joined'[i]] # "new"
    BY <1>4, <1>5, <2>1
  <2>3. ASSUME NEW i \in DOMAIN joined', NEW j \in DOMAIN joined', joined'[i] = joined'[j]
        PROVE  i = j
    BY <1>4, <2>1, <2>3 DEF Inv, JoinedOK
  <2>4. ASSUME NEW p \in Query, caller'[p] # "new"
        PROVE  \E i \in DOMAIN joined' : joined'[i] = p
    <3>1. CASE p = q
      BY <1>4, <3>1
    <3>2. CASE p # q
      <4>1. PICK i \in DOMAIN joined : joined[i] = p
        BY <1>5, <2>4, <3>2 DEF Inv, JoinedOK
      <4> QED  BY <1>4, <4>1
    <3> QED  BY <3>1, <3>2
  <2> QED  BY <2>2, <2>3, <2>4 DEF JoinedOK
<1>22. \A p \in Query : Waits(p) => Position(p)' = Position(p) /\ Position(p) \in 1..Len(joined)
  <2> SUFFICES ASSUME NEW p \in Query, Waits(p)
               PROVE  Position(p)' = Position(p) /\ Position(p) \in 1..Len(joined)
    OBVIOUS
  <2>1. caller[p] # "new" /\ caller'[p] # "new"
    BY <1>5 DEF Inv, PlacesOK
  <2>2. Position(p) \in 1..Len(joined) /\ joined[Position(p)] = p
    BY <1>3, <2>1, PositionFacts DEF Inv
  <2>3. /\ Position(p)' \in DOMAIN joined' /\ joined'[Position(p)'] = p
    <3>1. \E i \in DOMAIN joined' : joined'[i] = p
      BY <1>4, <2>2
    <3> QED  BY <3>1 DEF Position
  <2>4. joined'[Position(p)] = p /\ Position(p) \in DOMAIN joined'
    BY <1>4, <2>2
  <2> QED  BY <1>21, <2>2, <2>3, <2>4 DEF JoinedOK
<1>23. Position(q)' = Len(joined) + 1
  <2>1. Position(q)' \in DOMAIN joined' /\ joined'[Position(q)'] = q
    <3>1. \E i \in DOMAIN joined' : joined'[i] = q
      BY <1>4
    <3> QED  BY <3>1 DEF Position
  <2> QED  BY <1>4, <1>21, <2>1 DEF JoinedOK
<1>24. OldestFirst'
  <2> SUFFICES ASSUME NEW i \in 1..k, NEW j \in 1..k, i < j,
                      NEW p \in queue'[i], NEW r \in queue'[j]
               PROVE  Position(p)' < Position(r)'
    BY <1>7 DEF OldestFirst
  <2>1. i # k /\ p # q /\ i \in DOMAIN queue /\ p \in queue[i]
    <3>1. k \in Nat
      BY <1>1
    <3>2. i # k
      BY <3>1
    <3>3. IF p = q THEN i = k ELSE i \in DOMAIN queue /\ p \in queue[i]
      BY <1>10, Zenon
    <3> QED  BY <3>2, <3>3
  <2>2. p \in Query /\ Waits(p)
    BY <1>3, <2>1 DEF Waits
  <2>3. CASE r = q
    BY <1>4, <1>22, <1>23, <2>2, <2>3
  <2>4. CASE r # q
    <3>1. j \in DOMAIN queue /\ r \in queue[j]
      BY <1>10, <2>4
    <3>2. r \in Query /\ Waits(r)
      BY <1>3, <3>1 DEF Waits
    <3>3. Position(p) < Position(r)
      BY <2>1, <3>1 DEF Inv, OldestFirst
    <3> QED  BY <1>22, <2>2, <3>2, <3>3
  <2> QED  BY <2>3, <2>4
<1> QED  BY <1>15, <1>16, <1>17, <1>18, <1>20, <1>21, <1>24, <1>14 DEF Inv

\* The oldest batch becomes a request, and the others move up.
LEMMA FlushStep == ASSUME Inv, flush PROVE Inv'
<1> DEFINE new == [left |-> Head(queue), pc |-> "waiting", errors |-> {}, data |-> {}]
<1>1. /\ queue # <<>> /\ queue' = Tail(queue) /\ requests' = requests \union {new}
      /\ builders' = Tail(builders)
      /\ UNCHANGED <<batchSize, respC, caller, joined, sends, failed>>
  BY DEF flush, history
<1>2. queue \in Seq(SUBSET Query)
  BY DEF Inv, TypeOK
<1>3. /\ queue' \in Seq(SUBSET Query) /\ Head(queue) = queue[1]
      /\ DOMAIN queue = 1..Len(queue) /\ Len(queue) \in Nat \ {0}
      /\ DOMAIN queue' = 1..(Len(queue) - 1)
      /\ \A i \in 1..(Len(queue) - 1) : queue'[i] = queue[i + 1]
  BY <1>1, <1>2, TailFacts
<1>4. \A i \in DOMAIN queue' : /\ i + 1 \in DOMAIN queue /\ i + 1 # 1
                               /\ queue'[i] = queue[i + 1]
  BY <1>3
<1>5. 1 \in DOMAIN queue /\ \A i \in DOMAIN queue : i = 1 \/ i - 1 \in DOMAIN queue'
  BY <1>3
<1>6. \A p \in Query : Waits(p) <=> p \in queue[1] \/ Waits(p)'
  <2>1. ASSUME NEW p \in Query, Waits(p), p \notin queue[1]
        PROVE  Waits(p)'
    <3>1. PICK i \in DOMAIN queue : p \in queue[i]
      BY <2>1 DEF Waits
    <3>2. i - 1 \in DOMAIN queue' /\ (i - 1) + 1 = i
      BY <1>3, <1>5, <2>1, <3>1
    <3>3. p \in queue'[i - 1]
      BY <1>4, <3>1, <3>2
    <3> QED  BY <3>2, <3>3 DEF Waits
  <2>2. ASSUME NEW p \in Query, p \in queue[1] \/ Waits(p)'
        PROVE  Waits(p)
    BY <1>4, <1>5, <2>2 DEF Waits
  <2> QED  BY <2>1, <2>2
<1>7. \A p \in queue[1] : ~Waits(p)'
  BY <1>4, <1>5 DEF Waits, Inv, BatchesDisjoint
<1>8. \A p \in Query : Flies(p)' <=> Flies(p) \/ p \in queue[1]
  <2>1. new.left = queue[1]
    BY <1>3
  <2> HIDE DEF new
  <2> QED  BY <1>1, <2>1 DEF Flies
<1>9. queue[1] \in SUBSET Query
  BY <1>2, <1>5
<1>10. new \in Request
  BY <1>3, <1>9 DEF Request
<1>11. TypeOK' /\ BuildersOK'
  <2>1. builders \in Seq(Builder) /\ Len(builders) = Len(queue)
    BY DEF Inv, TypeOK
  <2>2. builders # <<>>
    BY <1>3, <2>1
  <2>3. /\ builders' \in Seq(Builder) /\ DOMAIN builders' = 1..(Len(builders) - 1)
        /\ \A i \in 1..(Len(builders) - 1) : builders'[i] = builders[i + 1]
    BY <1>1, <2>1, <2>2, TailFacts
  <2>4. Len(builders') = Len(queue')
    <3>1. Len(builders') = Len(builders) - 1
      BY <1>1, <2>1, <2>2
    <3>2. Len(queue') = Len(queue) - 1
      BY <1>1, <1>2
    <3> QED  BY <2>1, <3>1, <3>2
  <2>5. TypeOK'
    BY <1>1, <1>3, <1>10, <2>3, <2>4 DEF Inv, TypeOK
  <2>6. \A i \in DOMAIN queue' : builders'[i] = builders[i + 1]
    BY <1>3, <2>1, <2>3
  <2>7. BuildersOK'
    BY <1>4, <2>6 DEF Inv, BuildersOK
  <2> QED  BY <2>5, <2>7
<1>12. PlacesOK'
  <2>1. \A p \in Query : Waits(p)' \/ Flies(p)' <=> Waits(p) \/ Flies(p)
    BY <1>6, <1>8
  <2>2. \A p \in Query : ~(Waits(p)' /\ Flies(p)')
    BY <1>6, <1>7, <1>8 DEF Inv, PlacesOK
  <2> QED  BY <1>1, <2>1, <2>2 DEF Inv, PlacesOK
<1>13. BatchesDisjoint'
  <2> SUFFICES ASSUME NEW i \in DOMAIN queue', NEW j \in DOMAIN queue', i # j
               PROVE  queue'[i] \intersect queue'[j] = {}
    BY DEF BatchesDisjoint
  <2>1. i + 1 # j + 1
    BY <1>3
  <2> QED  BY <1>4, <2>1 DEF Inv, BatchesDisjoint
<1>14. LeftsDisjoint'
  <2>1. ASSUME NEW r \in requests
        PROVE  r.left \intersect queue[1] = {}
    <3>1. \A p \in queue[1] : p \in Query /\ Waits(p)
      BY <1>5, <1>9 DEF Waits
    <3> QED  BY <3>1 DEF Inv, PlacesOK, Flies
  <2>2. new.left = queue[1]
    BY <1>3
  <2> QED  BY <1>1, <2>1, <2>2 DEF Inv, LeftsDisjoint
<1>15. ErrorsOK'
  BY <1>1 DEF Inv, ErrorsOK
<1>16. BatchesFinite' /\ BatchBounded'
  BY <1>1, <1>4 DEF Inv, BatchesFinite, BatchBounded
<1>17. JoinedOK'
  BY <1>1 DEF Inv, JoinedOK
<1>18. OldestFirst'
  <2> SUFFICES ASSUME NEW i \in DOMAIN queue', NEW j \in DOMAIN queue', i < j,
                      NEW p \in queue'[i], NEW q \in queue'[j]
               PROVE  Position(p)' < Position(q)'
    BY DEF OldestFirst
  <2>1. i + 1 < j + 1
    BY <1>3
  <2>2. Position(p) < Position(q)
    BY <1>4, <2>1 DEF Inv, OldestFirst
  <2> QED  BY <1>1, <2>2 DEF Position
<1> QED  BY <1>11, <1>12, <1>13, <1>14, <1>15, <1>16, <1>17, <1>18 DEF Inv

-----------------------------------------------------------------------------
(* Answering.                                                               *)

\* What the queue alone says does not change while the queue does not, and no call comes in.
LEMMA QueueFrame ==
    ASSUME Inv, UNCHANGED <<queue, builders, joined>>,
           \A q \in Query : caller[q] = "new" <=> caller'[q] = "new"
    PROVE  /\ BatchesDisjoint' /\ BatchesFinite' /\ BatchBounded' /\ JoinedOK' /\ OldestFirst'
           /\ BuildersOK'
           /\ \A q \in Query : Waits(q)' <=> Waits(q)
<1>1. BatchesDisjoint' /\ BatchesFinite' /\ BatchBounded'
  BY DEF Inv, BatchesDisjoint, BatchesFinite, BatchBounded
<1>2. \A i \in DOMAIN joined : joined[i] \in Query
  BY DEF Inv, TypeOK
<1>3. JoinedOK'
  BY <1>2 DEF Inv, JoinedOK
<1>4. OldestFirst'
  BY DEF Inv, OldestFirst, Position
<1>5. BuildersOK'
  BY DEF Inv, BuildersOK
<1> QED  BY <1>1, <1>3, <1>4, <1>5 DEF Waits

\* A request goroutine that goes on with some of its subscribers: no other is touched.
LEMMA StepFacts ==
    ASSUME Inv, NEW r \in requests, NEW next \in Request, Step(r, next),
           next.left \subseteq r.left, next.errors \subseteq next.left,
           next.pc # "errors" => next.errors = {}
    PROVE  /\ requests' \subseteq Request /\ LeftsDisjoint' /\ ErrorsOK'
           /\ \A q \in Query : Flies(q)' <=> Flies(q) /\ (q \in r.left => q \in next.left)
<1>1. requests' = (requests \ {r}) \union {next}
  BY DEF Step
<1>2. requests' \subseteq Request
  BY <1>1 DEF Inv, TypeOK
<1>3. LeftsDisjoint'
  BY <1>1 DEF Inv, LeftsDisjoint
<1>4. ErrorsOK'
  BY <1>1 DEF Inv, ErrorsOK
<1>5. \A q \in Query : Flies(q)' <=> Flies(q) /\ (q \in r.left => q \in next.left)
  BY <1>1 DEF Flies, Inv, LeftsDisjoint
<1> QED  BY <1>2, <1>3, <1>4, <1>5

\* A goroutine that sends nothing and lets go of nobody leaves every query its place.
LEMMA SilentStep ==
    ASSUME Inv, NEW r \in requests, NEW next \in Request, Step(r, next),
           next.left = r.left, next.errors \subseteq next.left,
           next.pc # "errors" => next.errors = {}, failed' \subseteq Query,
           UNCHANGED <<batchSize, queue, builders, respC, caller, joined, sends>>
    PROVE  Inv'
<1>1. /\ requests' \subseteq Request /\ LeftsDisjoint' /\ ErrorsOK'
      /\ \A q \in Query : Flies(q)' <=> Flies(q)
  BY StepFacts
<1>2. /\ BatchesDisjoint' /\ BatchesFinite' /\ BatchBounded' /\ JoinedOK' /\ OldestFirst'
      /\ BuildersOK'
      /\ \A q \in Query : Waits(q)' <=> Waits(q)
  BY QueueFrame
<1>3. TypeOK'
  BY <1>1 DEF Inv, TypeOK
<1>4. PlacesOK'
  BY <1>1, <1>2 DEF Inv, PlacesOK
<1> QED  BY <1>1, <1>2, <1>3, <1>4 DEF Inv

\* A goroutine that answers a subscriber and is done with it: the answer moves from the
\* request to the channel, which is empty, and nothing else can answer it.
LEMMA AnswerStep ==
    ASSUME Inv, NEW r \in requests, NEW q \in r.left, NEW next \in Request, Step(r, next),
           next.left = r.left \ {q}, next.errors \subseteq next.left,
           next.pc # "errors" => next.errors = {},
           NEW answer \in Answers, Send(q, answer),
           UNCHANGED <<batchSize, queue, builders, caller, joined, failed>>
    PROVE  Inv'
<1>1. /\ requests' \subseteq Request /\ LeftsDisjoint' /\ ErrorsOK'
      /\ \A p \in Query : Flies(p)' <=> Flies(p) /\ p # q
  <2>1. /\ requests' \subseteq Request /\ LeftsDisjoint' /\ ErrorsOK'
        /\ \A p \in Query : Flies(p)' <=> Flies(p) /\ (p \in r.left => p \in next.left)
    BY StepFacts
  <2>2. \A p \in Query : (p \in r.left => p \in next.left) <=> p # q
    OBVIOUS
  <2> QED  BY <2>1, <2>2
<1>2. /\ BatchesDisjoint' /\ BatchesFinite' /\ BatchBounded' /\ JoinedOK' /\ OldestFirst'
      /\ BuildersOK'
      /\ \A p \in Query : Waits(p)' <=> Waits(p)
  BY QueueFrame
<1>3. q \in Query /\ Flies(q)
  BY DEF Inv, TypeOK, Request, Flies
<1>4. /\ respC \in [Query -> Seq(Answers)] /\ sends \in [Query -> Nat]
      /\ respC' = [respC EXCEPT ![q] = Append(respC[q], answer)]
      /\ sends' = [sends EXCEPT ![q] = sends[q] + 1]
  BY DEF Send, Inv, TypeOK
<1>5. /\ Append(respC[q], answer) \in Seq(Answers) /\ Append(respC[q], answer) # <<>>
      /\ Len(Append(respC[q], answer)) = 1
  <2>1. respC[q] \in Seq(Answers) /\ respC[q] = <<>>
    BY <1>3, <1>4 DEF Inv, PlacesOK
  <2> QED  BY <2>1
<1>6. TypeOK'
  BY <1>1, <1>3, <1>4, <1>5 DEF Inv, TypeOK
<1>7. /\ respC'[q] # <<>> /\ Len(respC'[q]) = 1 /\ sends'[q] = 1
      /\ ~Waits(q) /\ caller[q] = "waiting"
      /\ \A p \in Query \ {q} : respC'[p] = respC[p] /\ sends'[p] = sends[p]
  BY <1>3, <1>4, <1>5 DEF Inv, PlacesOK
<1>8. PlacesOK'
  <2> SUFFICES ASSUME NEW p \in Query
               PROVE  /\ caller'[p] = "waiting" <=> Waits(p)' \/ Flies(p)' \/ respC'[p] # <<>>
                      /\ ~(Waits(p)' /\ Flies(p)')
                      /\ Waits(p)' \/ Flies(p)' => respC'[p] = <<>> /\ sends'[p] = 0
                      /\ caller'[p] = "new" => sends'[p] = 0
                      /\ sends'[p] <= 1
                      /\ Len(respC'[p]) <= 1
    BY DEF PlacesOK
  <2>1. CASE p = q
    <3>1. caller'[q] = "waiting" /\ respC'[q] # <<>> /\ Len(respC'[q]) = 1 /\ sends'[q] = 1
      BY <1>7
    <3>2. ~Waits(q)' /\ ~Flies(q)'
      BY <1>1, <1>2, <1>3, <1>7
    <3> QED  BY <2>1, <3>1, <3>2
  <2>2. CASE p # q
    BY <1>1, <1>2, <1>7, <2>2 DEF Inv, PlacesOK
  <2> QED  BY <2>1, <2>2
<1> QED  BY <1>1, <1>2, <1>6, <1>8 DEF Inv

\* MakeRequest takes its answer, the only one it is sent, and returns.
LEMMA ReceiveStep == ASSUME Inv, NEW q \in Query, Receive(q) PROVE Inv'
<1>1. /\ caller[q] = "waiting" /\ respC[q] # <<>>
      /\ respC' = [respC EXCEPT ![q] = Tail(respC[q])]
      /\ caller' = [caller EXCEPT ![q] = Head(respC[q])]
      /\ UNCHANGED <<batchSize, queue, builders, requests, joined, sends, failed>>
  BY DEF Receive, history
<1>2. respC[q] \in Seq(Answers)
  BY DEF Inv, TypeOK
<1>3. Tail(respC[q]) \in Seq(Answers) /\ Head(respC[q]) \in Answers
  BY <1>1, <1>2
<1>4. TypeOK'
  BY <1>1, <1>3 DEF Inv, TypeOK
<1>5. /\ Tail(respC[q]) = <<>> /\ Len(Tail(respC[q])) = 0
  <2>1. Len(respC[q]) <= 1
    BY DEF Inv, PlacesOK
  <2>2. Tail(respC[q]) = <<>>
    BY <1>1, <1>2, <2>1, OnlyAnswer
  <2> QED  BY <2>2
<1>6. /\ caller'[q] \in Answers /\ respC'[q] = Tail(respC[q])
      /\ \A p \in Query \ {q} : caller'[p] = caller[p] /\ respC'[p] = respC[p]
  BY <1>1, <1>3 DEF Inv, TypeOK
<1>7. "new" \notin Answers /\ "waiting" \notin Answers
  BY DEF Answers
<1>8. /\ BatchesDisjoint' /\ BatchesFinite' /\ BatchBounded' /\ JoinedOK' /\ OldestFirst'
      /\ BuildersOK'
      /\ \A p \in Query : Waits(p)' <=> Waits(p)
  <2>1. \A p \in Query : caller[p] = "new" <=> caller'[p] = "new"
    BY <1>1, <1>6, <1>7
  <2> QED  BY <1>1, <2>1, QueueFrame
<1>9. ~Waits(q) /\ ~Flies(q) /\ \A p \in Query : Flies(p)' <=> Flies(p)
  BY <1>1 DEF Inv, PlacesOK, Flies
<1>10. PlacesOK'
  <2> SUFFICES ASSUME NEW p \in Query
               PROVE  /\ caller'[p] = "waiting" <=> Waits(p)' \/ Flies(p)' \/ respC'[p] # <<>>
                      /\ ~(Waits(p)' /\ Flies(p)')
                      /\ Waits(p)' \/ Flies(p)' => respC'[p] = <<>> /\ sends'[p] = 0
                      /\ caller'[p] = "new" => sends'[p] = 0
                      /\ sends'[p] <= 1
                      /\ Len(respC'[p]) <= 1
    BY DEF PlacesOK
  <2>1. CASE p = q
    <3>1. caller'[q] # "waiting" /\ caller'[q] # "new" /\ respC'[q] = <<>> /\ Len(respC'[q]) = 0
      BY <1>5, <1>6, <1>7
    <3>2. sends'[q] <= 1
      BY <1>1 DEF Inv, PlacesOK
    <3>3. ~Waits(q)' /\ ~Flies(q)'
      BY <1>8, <1>9
    <3> QED  BY <2>1, <3>1, <3>2, <3>3
  <2>2. CASE p # q
    BY <1>1, <1>6, <1>8, <1>9, <2>2 DEF Inv, PlacesOK
  <2> QED  BY <2>1, <2>2
<1>11. LeftsDisjoint' /\ ErrorsOK'
  BY <1>1 DEF Inv, LeftsDisjoint, ErrorsOK
<1> QED  BY <1>4, <1>8, <1>10, <1>11 DEF Inv

\* Every step of a request goroutine is a silent one or an answer.
LEMMA ServeStep == ASSUME Inv, NEW r \in requests, Serve(r) PROVE Inv'
<1>1. /\ r \in Request /\ r.errors \subseteq r.left
      /\ r.pc # "errors" => r.errors = {}
  BY DEF Inv, TypeOK, ErrorsOK
<1>2. ASSUME Respond(r)
      PROVE  Inv'
  <2>1. ASSUME NEW errors \in SUBSET r.left, NEW data \in SUBSET r.left,
               Step(r, [r EXCEPT !.pc = "errors", !.errors = errors, !.data = data]),
               failed' \subseteq Query
        PROVE  Inv'
    <3> DEFINE next == [r EXCEPT !.pc = "errors", !.errors = errors, !.data = data]
    <3>1. next \in Request /\ next.left = r.left /\ next.errors = errors /\ next.pc = "errors"
      BY <1>1 DEF Request
    <3> HIDE DEF next
    <3> QED  BY <1>2, <2>1, <3>1, SilentStep DEF Respond, next
  <2>2. ASSUME NEW pc \in {"all", "data"}, NEW data \in SUBSET Query,
               Step(r, [r EXCEPT !.pc = pc, !.data = data]), failed' \subseteq Query
        PROVE  Inv'
    <3> DEFINE next == [r EXCEPT !.pc = pc, !.data = data]
    <3>1. next \in Request /\ next.left = r.left /\ next.errors = {} /\ next.pc = pc
      BY <1>1, <1>2 DEF Request, Respond
    <3> HIDE DEF next
    <3> QED  BY <1>2, <2>2, <3>1, SilentStep DEF Respond, next
  <2>3. failed \subseteq Query /\ r.left \subseteq Query
    BY <1>1 DEF Inv, TypeOK, Request
  <2>4. ASSUME NEW errors \in SUBSET r.left, NEW refused \in BOOLEAN,
               Step(r, [r EXCEPT !.pc = "errors", !.errors = errors,
                                 !.data = IF refused THEN {} ELSE r.left \ errors]),
               failed' = IF refused THEN failed \union (r.left \ errors) ELSE failed
        PROVE  Inv'
    <3> DEFINE data == IF refused THEN {} ELSE r.left \ errors
    <3>1. data \in SUBSET r.left /\ failed' \subseteq Query
      BY <2>3, <2>4
    <3>2. Step(r, [r EXCEPT !.pc = "errors", !.errors = errors, !.data = data])
      BY <2>4
    <3> HIDE DEF data
    <3> QED  BY <2>1, <3>1, <3>2
  <2>5. ASSUME Step(r, [r EXCEPT !.pc = "all"]), failed' = failed \union r.left
        PROVE  Inv'
    <3>1. [r EXCEPT !.pc = "all"] = [r EXCEPT !.pc = "all", !.data = r.data]
      BY <1>1 DEF Request
    <3>2. r.data \in SUBSET Query
      BY <1>1 DEF Request
    <3> QED  BY <2>2, <2>3, <2>5, <3>1, <3>2
  <2>6. ASSUME Step(r, [r EXCEPT !.pc = "data", !.data = r.left]), UNCHANGED failed
        PROVE  Inv'
    BY <2>2, <2>3, <2>6
  <2> QED  BY <1>2, <2>4, <2>5, <2>6, Zenon DEF Respond
<1>3. ASSUME AnswerError(r)
      PROVE  Inv'
  <2>1. PICK q \in r.errors : /\ Send(q, "error")
                              /\ Step(r, [r EXCEPT !.errors = @ \ {q}, !.left = @ \ {q}])
    BY <1>3 DEF AnswerError
  <2> DEFINE next == [r EXCEPT !.errors = @ \ {q}, !.left = @ \ {q}]
  <2>2. /\ next \in Request /\ next.left = r.left \ {q} /\ next.errors = r.errors \ {q}
        /\ next.pc = "errors" /\ q \in r.left
    BY <1>1, <1>3 DEF Request, AnswerError
  <2> HIDE DEF next
  <2> QED  BY <1>1, <1>3, <2>1, <2>2, AnswerStep DEF AnswerError, Answers, next
<1>4. ASSUME ErrorsAnswered(r)
      PROVE  Inv'
  <2> DEFINE next == [r EXCEPT !.pc = "data"]
  <2>1. next \in Request /\ next.left = r.left /\ next.errors = {} /\ next.pc = "data"
    BY <1>1, <1>4 DEF Request, ErrorsAnswered
  <2> HIDE DEF next
  <2>2. failed' \subseteq Query
    BY <1>4 DEF ErrorsAnswered, history, Inv, TypeOK
  <2> QED  BY <1>4, <2>1, <2>2, SilentStep DEF ErrorsAnswered, history, next
<1>5. ASSUME NEW q \in r.left, NEW answer \in Answers, Send(q, answer),
             Step(r, [r EXCEPT !.left = @ \ {q}]), r.pc \in {"all", "data"},
             UNCHANGED <<batchSize, queue, builders, caller, joined, failed>>
      PROVE  Inv'
  <2> DEFINE next == [r EXCEPT !.left = @ \ {q}]
  <2>1. /\ next \in Request /\ next.left = r.left \ {q} /\ next.errors = {}
    BY <1>1, <1>5 DEF Request
  <2> HIDE DEF next
  <2> QED  BY <1>5, <2>1, AnswerStep DEF next
<1>6. ASSUME AnswerAll(r) \/ AnswerData(r)
      PROVE  Inv'
  BY <1>5, <1>6 DEF AnswerAll, AnswerData, Answers
<1>7. ASSUME Finish(r)
      PROVE  Inv'
  <2>1. requests' = requests \ {r} /\ r.left = {}
        /\ UNCHANGED <<batchSize, queue, builders, respC, caller, joined, sends, failed>>
    BY <1>7 DEF Finish, history
  <2>2. \A q \in Query : Flies(q)' <=> Flies(q)
    BY <2>1 DEF Flies
  <2>3. /\ BatchesDisjoint' /\ BatchesFinite' /\ BatchBounded' /\ JoinedOK' /\ OldestFirst'
        /\ BuildersOK'
        /\ \A q \in Query : Waits(q)' <=> Waits(q)
    BY <2>1, QueueFrame
  <2> QED  BY <2>1, <2>2, <2>3 DEF Inv, TypeOK, PlacesOK, LeftsDisjoint, ErrorsOK
<1> QED  BY <1>2, <1>3, <1>4, <1>6, <1>7 DEF Serve

LEMMA NextInv == Inv /\ [Next]_vars => Inv'
<1> SUFFICES ASSUME Inv, [Next]_vars
             PROVE  Inv'
  OBVIOUS
<1>1. ASSUME reconfigure \/ UNCHANGED vars
      PROVE  Inv'
  <2>1. /\ UNCHANGED <<queue, builders, requests, respC, caller, joined, sends, failed>>
        /\ batchSize' \in BatchSizes
    BY <1>1 DEF reconfigure, vars, history, Inv, TypeOK
  <2>2. /\ BatchesDisjoint' /\ BatchesFinite' /\ BatchBounded' /\ JoinedOK' /\ OldestFirst'
        /\ BuildersOK'
        /\ \A q \in Query : Waits(q)' <=> Waits(q)
    BY <2>1, QueueFrame
  <2>3. PlacesOK'
    BY <2>1 DEF Inv, PlacesOK, Waits, Flies
  <2> QED  BY <2>1, <2>2, <2>3 DEF Inv, TypeOK, LeftsDisjoint, ErrorsOK
<1> QED  BY <1>1, EnqueueStep, ReceiveStep, FlushStep, ServeStep DEF Next

\* The invariant holds in every state.
LEMMA Invariant == Spec => []Inv
  BY InitInv, NextInv, PTL DEF Spec

\* For any queries and batch sizes: the queue, the requests and the calls hold what the
\* code's can.
THEOREM TypeCorrect == Spec => []TypeOK
<1>1. Inv => TypeOK
  BY DEF Inv
<1> QED  BY <1>1, Invariant, PTL

\* For any queries and batch sizes: a call of MakeRequest that waits has exactly one place
\* its answer can come from, and one that does not has none.
THEOREM HasOnePlace == Spec => []OnePlace
<1>1. Inv => OnePlace
  <2> SUFFICES ASSUME Inv, NEW q \in Query
               PROVE  LET places == <<q \in Queued, q \in InFlight, respC[q] # <<>> >>
                      IN  IF caller[q] = "waiting"
                          THEN Cardinality({i \in 1..3 : places[i]}) = 1
                          ELSE \A i \in 1..3 : ~places[i]
    BY DEF Inv, BatchesDisjoint, LeftsDisjoint, OnePlace
  <2>1. (q \in Queued <=> Waits(q)) /\ (q \in InFlight <=> Flies(q))
    BY DEF Queued, InFlight, Waits, Flies
  <2> DEFINE places == <<q \in Queued, q \in InFlight, respC[q] # <<>> >>
             held == {i \in 1..3 : places[i]}
  <2>2. /\ places[1] <=> Waits(q)
        /\ places[2] <=> Flies(q)
        /\ places[3] <=> respC[q] # <<>>
    BY <2>1
  <2> HIDE DEF places
  <2>3. 1..3 = {1, 2, 3}
    OBVIOUS
  <2>4. CASE caller[q] = "waiting"
    <3>1. held = {1} \/ held = {2} \/ held = {3}
      BY <2>2, <2>3, <2>4 DEF Inv, PlacesOK
    <3>2. Cardinality(held) = 1
      BY <3>1, FS_Singleton
    <3> QED  BY <2>4, <3>2 DEF places
  <2>5. CASE caller[q] # "waiting"
    <3>1. \A i \in 1..3 : ~places[i]
      BY <2>2, <2>3, <2>5 DEF Inv, PlacesOK
    <3> QED  BY <2>5, <3>1 DEF places
  <2> QED  BY <2>4, <2>5
<1> QED  BY <1>1, Invariant, PTL

\* For any queries and batch sizes: no query is answered twice, by its error and again
\* with the batch.
THEOREM AnsweredAtMostOnce == Spec => []AnsweredOnce
<1>1. Inv => AnsweredOnce
  BY DEF Inv, PlacesOK, AnsweredOnce
<1> QED  BY <1>1, Invariant, PTL

\* For any queries and batch sizes: a batch has a query, and no more of them than one of
\* the sizes that were configured, and what waits in an older batch came before what waits
\* in a younger one.
THEOREM BoundedInOrder == Spec => []BatchesOK
<1>1. Inv => BatchesOK
  BY DEF Inv, BatchesOK
<1> QED  BY <1>1, Invariant, PTL

\* For any queries, of any fields, variables and fragments, and any batch sizes: the
\* document of a batch asks for every query's own field with its own variables, once.
THEOREM AskedForItsOwn == Spec => []EachItsOwn
<1>1. Inv => EachItsOwn
  <2> SUFFICES ASSUME Inv, NEW i \in DOMAIN queue
               PROVE  LET qb == builders[i] IN
                      /\ Len(qb.selections) = Cardinality(queue[i])
                      /\ \A q \in queue[i] : \E s \in DOMAIN qb.selections :
                             /\ qb.selections[s].alias = q
                             /\ Evaluated(qb, qb.selections[s])
                                    = [field |-> Document[q].field, vars |-> Document[q].vars]
                      /\ qb.definitions = DOMAIN qb.vars
                      /\ qb.fragments = UNION {Document[q].fragments : q \in queue[i]}
    BY DEF EachItsOwn
  <2>1. queue[i] \in SUBSET Query /\ Holds(builders[i], queue[i])
    BY DEF Inv, TypeOK, BuildersOK
  <2>2. \A q \in queue[i] : \E s \in DOMAIN builders[i].selections :
            /\ builders[i].selections[s].alias = q
            /\ Evaluated(builders[i], builders[i].selections[s])
                   = [field |-> Document[q].field, vars |-> Document[q].vars]
    BY <2>1, HoldsItsOwn
  <2> QED  BY <2>1, <2>2 DEF Holds
<1> QED  BY <1>1, Invariant, PTL
=============================================================================
