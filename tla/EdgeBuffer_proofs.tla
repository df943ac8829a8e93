-------------------------- MODULE EdgeBuffer_proofs --------------------------
(***************************************************************************)
(* Proofs about EdgeBuffer, for any parents, children and pointers: its    *)
(* type invariant, that queue and indexes always agree, and that what is   *)
(* sent is the whole oldest edge; the three are inductive only together.   *)
(* Then that size counts what is queued, and that every step is one of     *)
(* PendingEdges or a stutter.                                              *)
(***************************************************************************)
EXTENDS EdgeBuffer, FiniteSetTheorems, WellFoundedInduction, TLAPS

Inv == TypeOK /\ QueueOK /\ IndexOK /\ PeekedOK

\* What the pointer arithmetic of a queue comes down to: appending and dropping.
LEMMA AppendFacts ==
  ASSUME NEW S, NEW s \in Seq(S), NEW x \in S
  PROVE  /\ Append(s, x) \in Seq(S)
         /\ Len(Append(s, x)) = Len(s) + 1
         /\ Append(s, x) # <<>>
         /\ \A i \in DOMAIN Append(s, x) :
              Append(s, x)[i] = IF i \in DOMAIN s THEN s[i] ELSE x
         /\ DOMAIN Append(s, x) = DOMAIN s \union {Len(s) + 1}
         /\ DOMAIN s = 1..Len(s)
  OBVIOUS

LEMMA SeqIsFunction ==
  ASSUME NEW S, NEW s \in Seq(S)
  PROVE  s \in [1..Len(s) -> S]
  OBVIOUS

LEMMA AppendIs ==
  ASSUME NEW S, NEW s \in Seq(S), NEW x \in S
  PROVE  Append(s, x) = [i \in 1..(Len(s) + 1) |-> IF i = Len(s) + 1 THEN x ELSE s[i]]
  <1> DEFINE t == Append(s, x)
             n == Len(s) + 1
  <1>1. t \in Seq(S) /\ Len(t) = n
    OBVIOUS
  <1>2. t \in [1..n -> S]
    <2> HIDE DEF t, n
    <2> QED BY <1>1, SeqIsFunction
  <1>3. \A i \in 1..n : t[i] = IF i = n THEN x ELSE s[i]
    OBVIOUS
  <1> HIDE DEF t, n
  <1>4. t = [i \in 1..n |-> IF i = n THEN x ELSE s[i]]
    BY <1>2, <1>3
  <1> QED BY <1>4 DEF t, n

\* Dropping the head of a queue shifts what is left by one.
LEMMA TailFacts ==
  ASSUME NEW S, NEW s \in Seq(S), s # <<>>
  PROVE  /\ Tail(s) \in Seq(S)
         /\ Head(s) = s[1]
         /\ Head(s) \in S
         /\ DOMAIN Tail(s) = 1..(Len(s) - 1)
         /\ \A i \in DOMAIN Tail(s) : Tail(s)[i] = s[i + 1]
         /\ DOMAIN s = 1..Len(s)
         /\ Len(s) \in Nat \ {0}
         /\ 1 \in DOMAIN s
  OBVIOUS

\* An edge is never mistaken for none, nor a pointer for nil.
LEMMA EdgeIsNotNoEdge ==
  /\ \A e \in Edge : e # NoEdge
  /\ \A a \in Addr : a # Nil
  /\ SentEdge \subseteq Edge
  BY ConstantsAssumption DEF Edge, Kinds, SentEdge

\* The children of an edge are counted by a natural number.
LEMMA ChildCount ==
  ASSUME NEW cs \in SUBSET Children
  PROVE  Cardinality(cs) \in Nat
  BY ConstantsAssumption, FS_Subset, FS_CardinalityType

\* The buffer starts empty (edgebuf's zero value).
LEMMA InitInv == Init => Inv
  <1> SUFFICES ASSUME Init PROVE Inv
    OBVIOUS
  <1>1. TypeOK
    <2>1. queue \in Seq(Addr) /\ size \in Int
      BY DEF Init
    <2>2. heap \in [Addr -> Edge \union {NoEdge}]
      BY DEF Init
    <2>3. /\ authors \in [Parents -> Addr \union {Nil}]
          /\ works \in [Parents -> Addr \union {Nil}]
      BY DEF Init
    <2>4. /\ pc \in {"peek", "select", "push", "pop", "stopped"}
          /\ next = NoEdge /\ val = NoEdge /\ handling = NoEdge
          /\ closing \in BOOLEAN
      BY DEF Init
    <2> QED BY <2>1, <2>2, <2>3, <2>4 DEF TypeOK
  <1>2. QueueOK
    BY DEF Init, QueueOK
  <1>3. IndexOK
    BY EdgeIsNotNoEdge DEF Init, IndexOK
  <1>4. PeekedOK
    BY DEF Init, PeekedOK
  <1> QED BY <1>1, <1>2, <1>3, <1>4 DEF Inv

\* peek answers with an edge, the one of the queue's first pointer.
LEMMA PeekType ==
  ASSUME TypeOK, QueueOK
  PROVE  /\ peek \in Edge \union {NoEdge}
         /\ peek # NoEdge <=> queue # <<>>
         /\ queue # <<>> => /\ Head(queue) \in Addr
                            /\ heap[Head(queue)] \in Edge
                            /\ peek = heap[Head(queue)]
  <1>1. CASE queue = <<>>
    BY <1>1 DEF peek
  <1>2. CASE queue # <<>>
    <2>1. Head(queue) \in Addr /\ Head(queue) = queue[1] /\ 1 \in DOMAIN queue
      BY <1>2, TailFacts DEF TypeOK
    <2>2. heap[Head(queue)] # NoEdge
      BY <2>1 DEF QueueOK
    <2>3. heap[Head(queue)] \in Edge
      BY <2>1, <2>2 DEF TypeOK
    <2> QED BY <1>2, <2>1, <2>2, <2>3 DEF peek
  <1> QED BY <1>1, <1>2

\* Merging changes the children of one queued edge and nothing the queue and
\* indexes depend on.
LEMMA MergeInv ==
  ASSUME TypeOK, QueueOK, IndexOK, NEW e \in Edge, Merge(e)
  PROVE  /\ heap' \in [Addr -> Edge \union {NoEdge}]
         /\ size' \in Int
         /\ QueueOK' /\ IndexOK'
  <1> DEFINE a == Existing(e)
             combined == heap[a].childIDs \union e.childIDs
  <1>1. a \in Addr
    BY DEF Merge, Existing, TypeOK, Edge, Kinds
  <1>2. heap[a] \in Edge
    <2>1. heap[a] # NoEdge
      BY <1>1 DEF Merge, Existing, IndexOK, Edge
    <2> QED BY <1>1, <2>1 DEF TypeOK
  <1>3. heap' = [heap EXCEPT ![a] = [heap[a] EXCEPT !.childIDs = combined]]
    BY DEF Merge
  <1>4. [heap[a] EXCEPT !.childIDs = combined] \in Edge
    BY <1>2 DEF Edge
  <1>5. heap' \in [Addr -> Edge \union {NoEdge}]
    BY <1>1, <1>3, <1>4 DEF TypeOK
  <1>6. \A b \in Addr : /\ heap'[b] = NoEdge <=> heap[b] = NoEdge
                        /\ heap[b] # NoEdge => /\ heap'[b].kind = heap[b].kind
                                               /\ heap'[b].parentID = heap[b].parentID
    <2> TAKE b \in Addr
    <2>1. CASE b = a
      <3>1. heap'[b] = [heap[a] EXCEPT !.childIDs = combined]
        BY <2>1, <1>1, <1>3 DEF TypeOK
      <3>2. heap'[b] # NoEdge /\ heap[b] # NoEdge
        BY <2>1, <3>1, <1>2, <1>4, EdgeIsNotNoEdge
      <3> QED BY <2>1, <3>1, <3>2, <1>2 DEF Edge
    <2>2. CASE b # a
      BY <2>2, <1>1, <1>3 DEF TypeOK
    <2> QED BY <2>1, <2>2
  <1>7. UNCHANGED <<queue, authors, works>>
    BY DEF Merge
  <1>8. QueueOK'
    BY <1>6, <1>7 DEF QueueOK
  <1>9. IndexOK'
    BY <1>6, <1>7 DEF IndexOK
  <1>10. size' \in Int
    <2>1. heap[a].childIDs \in SUBSET Children /\ combined \in SUBSET Children
      BY <1>2 DEF Edge
    <2>2. Cardinality(heap[a].childIDs) \in Nat /\ Cardinality(combined) \in Nat
      BY <2>1, ChildCount
    <2> QED BY <2>2 DEF Merge, TypeOK
  <1> QED BY <1>5, <1>8, <1>9, <1>10

\* A pointer no edge was at joins the end of the queue and its index.
LEMMA EnqueueInv ==
  ASSUME TypeOK, QueueOK, IndexOK, NEW e \in Edge, Enqueue(e)
  PROVE  /\ queue' \in Seq(Addr)
         /\ heap' \in [Addr -> Edge \union {NoEdge}]
         /\ authors' \in [Parents -> Addr \union {Nil}]
         /\ works' \in [Parents -> Addr \union {Nil}]
         /\ size' \in Int
         /\ QueueOK' /\ IndexOK'
  <1> PICK a \in {b \in Addr : heap[b] = NoEdge} :
        /\ heap' = [heap EXCEPT ![a] = e]
        /\ queue' = Append(queue, a)
        /\ SetIndex(e, a)
    BY DEF Enqueue
  <1>1. a \in Addr /\ heap[a] = NoEdge /\ Existing(e) = Nil
    BY DEF Enqueue
  <1>2. e.kind \in Kinds /\ e.parentID \in Parents /\ e # NoEdge /\ a # Nil
    BY <1>1, EdgeIsNotNoEdge DEF Edge
  <1>3. queue' \in Seq(Addr)
    BY <1>1 DEF TypeOK
  <1>4. heap' \in [Addr -> Edge \union {NoEdge}]
    BY <1>1 DEF TypeOK
  <1>5. authors' \in [Parents -> Addr \union {Nil}]
    BY <1>1, <1>2 DEF SetIndex, TypeOK
  <1>6. works' \in [Parents -> Addr \union {Nil}]
    BY <1>1, <1>2 DEF SetIndex, TypeOK
  <1>7. size' \in Int
    <2>1. Cardinality(e.childIDs) \in Nat
      BY ChildCount DEF Edge
    <2> QED BY <2>1 DEF Enqueue, TypeOK
  <1>8. QueueOK'
    <2>1. \A i \in DOMAIN queue : queue[i] # a /\ queue[i] \in Addr
      BY <1>1 DEF QueueOK, TypeOK
    <2>2. /\ DOMAIN queue' = DOMAIN queue \union {Len(queue) + 1}
          /\ \A i \in DOMAIN queue' : queue'[i] = IF i \in DOMAIN queue THEN queue[i] ELSE a
      BY <1>1, AppendFacts DEF TypeOK
    <2>3. \A i, j \in DOMAIN queue' : queue'[i] = queue'[j] => i = j
      BY <2>1, <2>2 DEF QueueOK
    <2>4. \A b \in Addr : heap'[b] # NoEdge <=> \E i \in DOMAIN queue' : queue'[i] = b
      <3> TAKE b \in Addr
      <3>1. CASE b = a
        <4>1. heap'[b] # NoEdge
          BY <3>1, <1>1, <1>2 DEF TypeOK
        <4>2. Len(queue) + 1 \in DOMAIN queue' /\ Len(queue) + 1 \notin DOMAIN queue
          BY <2>2 DEF TypeOK
        <4> QED BY <4>1, <4>2, <2>2, <3>1
      <3>2. CASE b # a
        <4>1. heap'[b] = heap[b]
          BY <3>2, <1>1 DEF TypeOK
        <4>2. (\E i \in DOMAIN queue' : queue'[i] = b) <=> (\E i \in DOMAIN queue : queue[i] = b)
          BY <2>2, <3>2
        <4> QED BY <4>1, <4>2 DEF QueueOK
      <3> QED BY <3>1, <3>2
    <2> QED BY <2>3, <2>4 DEF QueueOK
  <1>9. IndexOK'
    <2>1. \A b \in Addr : heap'[b] = IF b = a THEN e ELSE heap[b]
      BY <1>1 DEF TypeOK
    <2>2. \A p \in Parents : authors[p] # a /\ works[p] # a
      BY <1>1 DEF IndexOK
    <2>3. CASE e.kind = "authorEdge"
      <3>1. /\ authors' = [authors EXCEPT ![e.parentID] = a]
            /\ works' = works
            /\ authors[e.parentID] = Nil
        BY <2>3, <1>1 DEF SetIndex, Existing
      <3>2. \A p \in Parents : authors'[p] = IF p = e.parentID THEN a ELSE authors[p]
        BY <3>1 DEF TypeOK
      <3> QED BY <2>1, <2>2, <2>3, <3>1, <3>2, <1>1, <1>2, EdgeIsNotNoEdge DEF IndexOK
    <2>4. CASE e.kind = "workEdge"
      <3>1. /\ works' = [works EXCEPT ![e.parentID] = a]
            /\ authors' = authors
            /\ works[e.parentID] = Nil
        BY <2>4, <1>1 DEF SetIndex, Existing
      <3>2. \A p \in Parents : works'[p] = IF p = e.parentID THEN a ELSE works[p]
        BY <3>1 DEF TypeOK
      <3> QED BY <2>1, <2>2, <2>4, <3>1, <3>2, <1>1, <1>2, EdgeIsNotNoEdge DEF IndexOK
    <2>5. CASE e.kind = "refreshDone"
      <3>1. UNCHANGED <<authors, works>>
        BY <2>5 DEF SetIndex
      <3> QED BY <2>1, <2>2, <2>5, <3>1, <1>1 DEF IndexOK
    <2> QED BY <2>3, <2>4, <2>5, <1>2 DEF Kinds
  <1> QED BY <1>3, <1>4, <1>5, <1>6, <1>7, <1>8, <1>9

\* The oldest pointer leaves the queue and its index, and nothing else does.
LEMMA PopInv ==
  ASSUME TypeOK, QueueOK, IndexOK, pop
  PROVE  /\ queue' \in Seq(Addr)
         /\ heap' \in [Addr -> Edge \union {NoEdge}]
         /\ authors' \in [Parents -> Addr \union {Nil}]
         /\ works' \in [Parents -> Addr \union {Nil}]
         /\ size' \in Int
         /\ QueueOK' /\ IndexOK'
  <1> DEFINE a == Head(queue)
             e == heap[a]
  <1>1. /\ queue # <<>>
        /\ queue' = Tail(queue)
        /\ heap' = [heap EXCEPT ![a] = NoEdge]
        /\ SetIndex(e, Nil)
        /\ size' = size - Cardinality(e.childIDs)
    BY DEF pop
  <1>2. a \in Addr /\ e \in Edge
    BY <1>1, PeekType
  <1>3. e.kind \in Kinds /\ e.parentID \in Parents /\ e # NoEdge /\ a # Nil
    BY <1>2, EdgeIsNotNoEdge DEF Edge
  <1> HIDE DEF a, e
  <1>4. queue' \in Seq(Addr)
    BY <1>1 DEF TypeOK
  <1>5. heap' \in [Addr -> Edge \union {NoEdge}]
    BY <1>1, <1>2 DEF TypeOK
  <1>6. authors' \in [Parents -> Addr \union {Nil}]
    BY <1>1, <1>3 DEF SetIndex, TypeOK
  <1>7. works' \in [Parents -> Addr \union {Nil}]
    BY <1>1, <1>3 DEF SetIndex, TypeOK
  <1>8. size' \in Int
    <2>1. Cardinality(e.childIDs) \in Nat
      BY <1>2, ChildCount DEF Edge
    <2> QED BY <1>1, <2>1 DEF TypeOK
  <1>9. \A b \in Addr : heap'[b] = IF b = a THEN NoEdge ELSE heap[b]
    BY <1>1, <1>2 DEF TypeOK
  <1>10. QueueOK'
    <2>1. /\ DOMAIN queue' = 1..(Len(queue) - 1)
          /\ DOMAIN queue = 1..Len(queue)
          /\ Len(queue) \in Nat \ {0}
          /\ \A i \in DOMAIN queue' : queue'[i] = queue[i + 1]
          /\ queue[1] = a
      BY <1>1, TailFacts DEF TypeOK, a
    <2>2. \A i, j \in DOMAIN queue' : queue'[i] = queue'[j] => i = j
      <3> TAKE i, j \in DOMAIN queue'
      <3>1. i \in Nat /\ j \in Nat /\ i + 1 \in DOMAIN queue /\ j + 1 \in DOMAIN queue
        BY <2>1
      <3>2. queue[i + 1] = queue[j + 1] => i + 1 = j + 1
        BY <3>1 DEF QueueOK
      <3> QED BY <2>1, <3>1, <3>2
    <2>3. \A b \in Addr : heap'[b] # NoEdge <=> \E i \in DOMAIN queue' : queue'[i] = b
      <3> TAKE b \in Addr
      <3>1. CASE b = a
        <4>1. \A i \in DOMAIN queue' : i + 1 \in DOMAIN queue /\ i + 1 # 1 /\ 1 \in DOMAIN queue
          BY <2>1
        <4>2. \A i \in DOMAIN queue' : queue'[i] # a
          BY <4>1, <2>1 DEF QueueOK
        <4> QED BY <4>2, <3>1, <1>9
      <3>2. CASE b # a
        <4>1. ASSUME NEW i \in DOMAIN queue, queue[i] = b
              PROVE  i - 1 \in DOMAIN queue' /\ queue'[i - 1] = b
          <5>1. i # 1 /\ i \in Nat
            BY <4>1, <3>2, <2>1
          <5>2. i - 1 \in DOMAIN queue' /\ (i - 1) + 1 = i
            BY <5>1, <2>1
          <5> QED BY <5>2, <4>1, <2>1
        <4>2. ASSUME NEW i \in DOMAIN queue', queue'[i] = b
              PROVE  i + 1 \in DOMAIN queue /\ queue[i + 1] = b
          BY <4>2, <2>1
        <4>3. (\E i \in DOMAIN queue' : queue'[i] = b) <=> (\E i \in DOMAIN queue : queue[i] = b)
          BY <4>1, <4>2
        <4> QED BY <4>3, <3>2, <1>9 DEF QueueOK
      <3> QED BY <3>1, <3>2
    <2> QED BY <2>2, <2>3 DEF QueueOK
  <1>11. IndexOK'
    <2>1. CASE e.kind = "authorEdge"
      <3>1. /\ authors' = [authors EXCEPT ![e.parentID] = Nil]
            /\ works' = works
        BY <2>1, <1>1 DEF SetIndex
      <3>2. \A p \in Parents : authors'[p] = IF p = e.parentID THEN Nil ELSE authors[p]
        BY <3>1 DEF TypeOK
      <3>3. authors[e.parentID] = a
        BY <2>1, <1>2, <1>3 DEF IndexOK, e
      <3> QED BY <2>1, <3>1, <3>2, <3>3, <1>2, <1>3, <1>9, EdgeIsNotNoEdge DEF IndexOK, e
    <2>2. CASE e.kind = "workEdge"
      <3>1. /\ works' = [works EXCEPT ![e.parentID] = Nil]
            /\ authors' = authors
        BY <2>2, <1>1 DEF SetIndex
      <3>2. \A p \in Parents : works'[p] = IF p = e.parentID THEN Nil ELSE works[p]
        BY <3>1 DEF TypeOK
      <3>3. works[e.parentID] = a
        BY <2>2, <1>2, <1>3 DEF IndexOK, e
      <3> QED BY <2>2, <3>1, <3>2, <3>3, <1>2, <1>3, <1>9, EdgeIsNotNoEdge DEF IndexOK, e
    <2>3. CASE e.kind = "refreshDone"
      <3>1. UNCHANGED <<authors, works>>
        BY <2>3, <1>1 DEF SetIndex
      <3> QED BY <2>3, <3>1, <1>2, <1>9 DEF IndexOK, e
    <2> QED BY <2>1, <2>2, <2>3, <1>3 DEF Kinds
  <1> QED BY <1>4, <1>5, <1>6, <1>7, <1>8, <1>10, <1>11

\* One step of any goroutine keeps the invariant.
LEMMA NextInv == Inv /\ [Next]_vars => Inv'
  <1> SUFFICES ASSUME TypeOK, QueueOK, IndexOK, PeekedOK, [Next]_vars
               PROVE  TypeOK' /\ QueueOK' /\ IndexOK' /\ PeekedOK'
    BY DEF Inv
  <1>1. ASSUME UNCHANGED bufVars
        PROVE  /\ QueueOK' /\ IndexOK' /\ peek' = peek
               /\ queue' \in Seq(Addr)
               /\ heap' \in [Addr -> Edge \union {NoEdge}]
               /\ authors' \in [Parents -> Addr \union {Nil}]
               /\ works' \in [Parents -> Addr \union {Nil}]
               /\ size' \in Int
    BY <1>1 DEF bufVars, QueueOK, IndexOK, peek, TypeOK
  <1>2. CASE Peek
    <2>1. TypeOK'
      BY <1>2, <1>1, PeekType DEF Peek, TypeOK
    <2>2. PeekedOK'
      BY <1>2, <1>1 DEF Peek, PeekedOK
    <2> QED BY <1>2, <1>1, <2>1, <2>2 DEF Peek
  <1>3. CASE Push
    <2>1. val \in Edge
      BY <1>3 DEF Push, PeekedOK, TypeOK
    <2>2. /\ queue' \in Seq(Addr)
          /\ heap' \in [Addr -> Edge \union {NoEdge}]
          /\ authors' \in [Parents -> Addr \union {Nil}]
          /\ works' \in [Parents -> Addr \union {Nil}]
          /\ size' \in Int
          /\ QueueOK' /\ IndexOK'
      <3>1. CASE Merge(val)
        BY <3>1, <2>1, MergeInv DEF Merge, TypeOK
      <3>2. CASE Enqueue(val)
        BY <3>2, <2>1, EnqueueInv
      <3> QED BY <3>1, <3>2, <1>3 DEF Push, push
    <2>3. TypeOK'
      BY <1>3, <2>2 DEF Push, TypeOK
    <2>4. PeekedOK'
      BY <1>3 DEF Push, PeekedOK
    <2> QED BY <2>2, <2>3, <2>4
  <1>4. CASE Pop
    <2>1. /\ queue' \in Seq(Addr)
          /\ heap' \in [Addr -> Edge \union {NoEdge}]
          /\ authors' \in [Parents -> Addr \union {Nil}]
          /\ works' \in [Parents -> Addr \union {Nil}]
          /\ size' \in Int
          /\ QueueOK' /\ IndexOK'
      BY <1>4, PopInv DEF Pop
    <2>2. TypeOK'
      BY <1>4, <2>1 DEF Pop, TypeOK
    <2>3. PeekedOK'
      BY <1>4 DEF Pop, PeekedOK
    <2> QED BY <2>1, <2>2, <2>3
  <1>5. CASE Stop
    <2>1. TypeOK' /\ PeekedOK'
      BY <1>5, <1>1 DEF Stop, TypeOK, PeekedOK
    <2> QED BY <1>5, <1>1, <2>1 DEF Stop
  <1>6. ASSUME NEW e \in SentEdge, Receive(e)
        PROVE  TypeOK' /\ QueueOK' /\ IndexOK' /\ PeekedOK'
    <2>1. e \in Edge /\ e # NoEdge
      BY EdgeIsNotNoEdge
    <2>2. TypeOK'
      BY <1>6, <1>1, <2>1 DEF Receive, TypeOK
    <2>3. PeekedOK'
      BY <1>6, <2>1 DEF Receive, PeekedOK
    <2> QED BY <1>6, <1>1, <2>2, <2>3 DEF Receive
  <1>7. CASE Send
    <2>1. TypeOK'
      BY <1>7, <1>1 DEF Send, TypeOK
    <2>2. next = peek /\ queue # <<>>
      BY <1>7, PeekType DEF Send, PeekedOK
    <2>3. PeekedOK'
      BY <1>7, <1>1, <2>2 DEF Send, PeekedOK, bufVars
    <2> QED BY <1>7, <1>1, <2>1, <2>3 DEF Send
  <1>8. CASE CloseProducer
    <2>1. TypeOK' /\ PeekedOK'
      BY <1>8, <1>1 DEF CloseProducer, TypeOK, PeekedOK, bufVars
    <2> QED BY <1>8, <1>1, <2>1 DEF CloseProducer
  <1>9. CASE Handled
    <2>1. TypeOK' /\ PeekedOK'
      BY <1>9, <1>1 DEF Handled, TypeOK, PeekedOK, bufVars
    <2> QED BY <1>9, <1>1, <2>1 DEF Handled
  <1>10. CASE UNCHANGED vars
    <2>1. UNCHANGED bufVars /\ UNCHANGED <<pc, next, val, closing, handling>>
      BY <1>10 DEF vars, bufVars
    <2>2. TypeOK' /\ PeekedOK'
      BY <2>1, <1>1 DEF TypeOK, PeekedOK, bufVars
    <2> QED BY <2>1, <2>2, <1>1
  <1> QED BY <1>2, <1>3, <1>4, <1>5, <1>6, <1>7, <1>8, <1>9, <1>10 DEF Next, Accumulate

\* The invariant holds throughout.
LEMMA SpecInv == Spec => []Inv
  BY InitInv, NextInv, PTL DEF Spec

\* Every variable always has its type: what the loop is handed is an edge by
\* value, for any number of parents, children and buffered edges.
THEOREM TypeCorrect == Spec => []TypeOK
  <1>1. Inv => TypeOK
    BY DEF Inv
  <1> QED BY <1>1, SpecInv, PTL

\* The indexes always hold exactly the queued edges of their kind (push and pop
\* keep b.queue, b.authors and b.works in step), so at most one edge of a kind is
\* queued for a parent and every push for that parent finds it; and accumulate only ever
\* sends the whole oldest edge, and pops the edge it sent: no push slips in between its
\* peek and its send.
THEOREM BufferCorrect == Spec => []BufferOK
  <1>1. Inv => BufferOK
    BY DEF Inv, BufferOK
  <1> QED BY <1>1, SpecInv, PTL
-----------------------------------------------------------------------------
(* The size.  The running totals that SizeOK asks for are carried from      *)
(* state to state: they grow from the place of a merge on, get one more at  *)
(* a push, and lose the first edge's children at a pop.                     *)

CountIn(h, q, i) == Cardinality(h[q[i]].childIDs)
Count(i) == CountIn(heap, queue, i)
CountNext(i) == CountIn(heap', queue', i)

\* total adds up the children of the edges of a queue, to s.
Adds(total, h, q, s) ==
    /\ total \in [0..Len(q) -> Nat]
    /\ total[0] = 0
    /\ \A i \in 1..Len(q) : total[i] = total[i - 1] + CountIn(h, q, i)
    /\ \A i, j \in 0..Len(q) : i <= j => total[i] <= total[j]
    /\ total[Len(q)] = s

Totals(total) == Adds(total, heap, queue, size)

SizeInv == \E total \in [0..Len(queue) -> Nat] : Totals(total)

LEMMA CountType ==
  ASSUME TypeOK, QueueOK
  PROVE  /\ Len(queue) \in Nat /\ DOMAIN queue = 1..Len(queue)
         /\ \A i \in 1..Len(queue) : /\ queue[i] \in Addr
                                     /\ heap[queue[i]] \in Edge
                                     /\ Count(i) \in Nat
  <1>1. Len(queue) \in Nat /\ DOMAIN queue = 1..Len(queue)
        /\ \A i \in 1..Len(queue) : queue[i] \in Addr
    BY DEF TypeOK
  <1>2. \A i \in 1..Len(queue) : heap[queue[i]] \in Edge
    BY <1>1 DEF TypeOK, QueueOK
  <1>3. \A i \in 1..Len(queue) : heap[queue[i]].childIDs \in SUBSET Children
    BY <1>2 DEF Edge
  <1> QED BY <1>1, <1>2, <1>3, ChildCount DEF Count, CountIn

\* The totals of a queue whose edges did not change.
LEMMA SizeFrame ==
  ASSUME SizeInv, UNCHANGED bufVars
  PROVE  SizeInv'
  BY DEF SizeInv, Totals, bufVars

LEMMA MergeSize ==
  ASSUME TypeOK, QueueOK, IndexOK, SizeInv, NEW e \in Edge, Merge(e)
  PROVE  SizeInv'
  <1> DEFINE a == Existing(e)
             combined == heap[a].childIDs \union e.childIDs
             more == Cardinality(combined) - Cardinality(heap[a].childIDs)
  <1>1. a \in Addr
    BY DEF Merge, Existing, TypeOK, Edge, Kinds
  <1>2. heap[a] \in Edge
    <2>1. heap[a] # NoEdge
      BY <1>1 DEF Merge, Existing, IndexOK, Edge
    <2> QED BY <1>1, <2>1 DEF TypeOK
  <1>3. /\ heap' = [heap EXCEPT ![a].childIDs = combined]
        /\ size' = size + Cardinality(combined) - Cardinality(heap[a].childIDs)
        /\ queue' = queue
    BY DEF Merge
  <1>4. /\ Cardinality(heap[a].childIDs) \in Nat /\ Cardinality(combined) \in Nat
        /\ Cardinality(heap[a].childIDs) <= Cardinality(combined)
    <2>1. heap[a].childIDs \in SUBSET Children /\ combined \in SUBSET Children
      BY <1>2 DEF Edge
    <2>2. IsFiniteSet(combined)
      BY <2>1, ConstantsAssumption, FS_Subset
    <2> QED BY <2>1, <2>2, ChildCount, FS_Subset
  <1>5. PICK k \in 1..Len(queue) : queue[k] = a
    <2>1. heap[a] # NoEdge
      BY <1>2, EdgeIsNotNoEdge
    <2> QED BY <1>1, <2>1, CountType DEF QueueOK
  <1>6. PICK total \in [0..Len(queue) -> Nat] : Totals(total)
    BY DEF SizeInv
  <1>7. \A i \in 1..Len(queue) : CountNext(i) = IF i = k THEN Count(i) + more ELSE Count(i)
    <2> TAKE i \in 1..Len(queue)
    <2>1. CASE i = k
      <3>1. heap'[a].childIDs = combined
        BY <1>1, <1>2, <1>3 DEF TypeOK, Edge
      <3>2. CountNext(i) = Cardinality(combined) /\ Count(i) = Cardinality(heap[a].childIDs)
        BY <1>3, <1>5, <2>1, <3>1, Zenon DEF Count, CountNext, CountIn
      <3> HIDE DEF a, combined
      <3> QED BY <1>4, <2>1, <3>2
    <2>2. CASE i # k
      <3>1. queue[i] # a /\ queue[i] \in Addr
        BY <1>5, <2>2, CountType DEF QueueOK
      <3>2. heap'[queue[i]] = heap[queue[i]]
        BY <1>1, <1>3, <3>1 DEF TypeOK
      <3>3. CountNext(i) = Count(i)
        BY <1>3, <3>2, Zenon DEF Count, CountNext, CountIn
      <3> HIDE DEF more
      <3> QED BY <2>2, <3>3
    <2> QED BY <2>1, <2>2
  <1> DEFINE new == [i \in 0..Len(queue) |-> IF i < k THEN total[i] ELSE total[i] + more]
  <1>8. more \in Nat
    BY <1>4
  <1>9. Len(queue) \in Nat /\ k \in 1..Len(queue) /\ \A i \in 0..Len(queue) : total[i] \in Nat
    BY <1>6, CountType
  <1>10. \A i \in 1..Len(queue) : Count(i) \in Nat /\ total[i] = total[i - 1] + Count(i)
    BY <1>6, CountType DEF Totals, Adds, Count
  <1>11. /\ total[0] = 0 /\ total[Len(queue)] = size /\ size' = size + more
         /\ \A i, j \in 0..Len(queue) : i <= j => total[i] <= total[j]
    BY <1>3, <1>4, <1>6 DEF Totals, Adds, Count, TypeOK
  <1> HIDE DEF a, combined, more
  <1>12. new \in [0..Len(queue) -> Nat]
    BY <1>8, <1>9
  <1>13. new[0] = 0 /\ new[Len(queue)] = size'
    BY <1>9, <1>11
  <1>14. ASSUME NEW i \in 1..Len(queue)
         PROVE  new[i] = new[i - 1] + CountNext(i)
    <2>1. i - 1 \in 0..Len(queue) /\ i \in 0..Len(queue)
      BY <1>9
    <2>2. CountNext(i) = IF i = k THEN Count(i) + more ELSE Count(i)
      BY <1>7
    <2>3. total[i] = total[i - 1] + Count(i) /\ Count(i) \in Nat /\ total[i - 1] \in Nat
      BY <1>9, <1>10, <2>1
    <2> QED BY <1>8, <1>9, <2>1, <2>2, <2>3
  <1>15. ASSUME NEW i \in 0..Len(queue), NEW j \in 0..Len(queue), i <= j
         PROVE  new[i] <= new[j]
    BY <1>8, <1>9, <1>11, <1>15
  <1> HIDE DEF new
  <1>16. queue' = queue
    BY <1>3
  <1>17. Adds(new, heap', queue', size')
    BY <1>12, <1>13, <1>14, <1>15, <1>16 DEF Adds, CountNext
  <1> QED BY <1>12, <1>16, <1>17 DEF SizeInv, Totals

LEMMA EnqueueSize ==
  ASSUME TypeOK, QueueOK, SizeInv, NEW e \in Edge, Enqueue(e)
  PROVE  SizeInv'
  <1> DEFINE n == Len(queue)
             count == Cardinality(e.childIDs)
  <1>1. PICK a \in Addr : /\ heap[a] = NoEdge
                          /\ heap' = [heap EXCEPT ![a] = e]
                          /\ queue' = Append(queue, a)
    BY DEF Enqueue
  <1>2. size' = size + count
    BY DEF Enqueue
  <1>3. count \in Nat
    BY ChildCount DEF Edge
  <1>4. /\ n \in Nat /\ Len(queue') = n + 1
        /\ \A i \in 1..n : queue'[i] = queue[i] /\ queue[i] \in Addr /\ queue[i] # a
        /\ queue'[n + 1] = a
    <2>1. n \in Nat /\ \A i \in 1..n : queue[i] \in Addr /\ heap[queue[i]] \in Edge
      BY CountType
    <2>2. \A i \in 1..n : queue[i] # a
      BY <1>1, <2>1, EdgeIsNotNoEdge
    <2>3. Len(queue') = n + 1 /\ (\A i \in 1..n : queue'[i] = queue[i]) /\ queue'[n + 1] = a
      BY <1>1, <2>1 DEF TypeOK
    <2> QED BY <2>1, <2>2, <2>3
  <1>5. \A b \in Addr : heap'[b] = IF b = a THEN e ELSE heap[b]
    BY <1>1 DEF TypeOK
  <1>6. (\A i \in 1..n : CountNext(i) = Count(i)) /\ CountNext(n + 1) = count
    BY <1>4, <1>5 DEF Count, CountNext, CountIn
  <1>7. PICK total \in [0..n -> Nat] : Totals(total)
    BY DEF SizeInv
  <1>8. /\ total[0] = 0 /\ total[n] = size
        /\ \A i \in 1..n : total[i] = total[i - 1] + Count(i)
        /\ \A i, j \in 0..n : i <= j => total[i] <= total[j]
        /\ \A i \in 0..n : total[i] \in Nat
    BY <1>7 DEF Totals, Adds, Count
  <1> DEFINE new == [i \in 0..(n + 1) |-> IF i = n + 1 THEN total[n] + count ELSE total[i]]
  <1> HIDE DEF count, n
  <1>9. new \in [0..(n + 1) -> Nat]
    BY <1>3, <1>4, <1>8
  <1>10. new[0] = 0 /\ new[n + 1] = size'
    BY <1>2, <1>4, <1>8
  <1>11. ASSUME NEW i \in 1..(n + 1)
         PROVE  new[i] = new[i - 1] + CountNext(i)
    <2>1. CASE i = n + 1
      BY <1>4, <1>6, <2>1
    <2>2. CASE i # n + 1
      <3>1. i \in 1..n /\ i - 1 \in 0..n
        BY <1>4, <2>2
      <3> QED BY <1>4, <1>6, <1>8, <3>1
    <2> QED BY <2>1, <2>2
  <1>12. ASSUME NEW i \in 0..(n + 1), NEW j \in 0..(n + 1), i <= j
         PROVE  new[i] <= new[j]
    <2>1. CASE j = n + 1 /\ i # n + 1
      <3>1. i \in 0..n /\ n \in 0..n /\ i <= n
        BY <1>4, <2>1
      <3>2. total[i] <= total[n] /\ total[i] \in Nat /\ total[n] \in Nat
        BY <1>8, <3>1
      <3>3. new[i] = total[i] /\ new[j] = total[n] + count
        BY <1>4, <2>1
      <3> QED BY <1>3, <3>2, <3>3
    <2>2. CASE i = n + 1
      <3>1. j = i
        BY <1>4, <1>12, <2>2
      <3> QED BY <1>3, <1>4, <1>8, <1>9, <3>1
    <2>3. CASE j # n + 1 /\ i # n + 1
      <3>1. i \in 0..n /\ j \in 0..n
        BY <1>4, <2>3
      <3> QED BY <1>4, <1>8, <1>12, <2>3, <3>1
    <2> QED BY <2>1, <2>2, <2>3
  <1> HIDE DEF new
  <1>13. Adds(new, heap', queue', size')
    BY <1>4, <1>9, <1>10, <1>11, <1>12 DEF Adds, CountNext
  <1> QED BY <1>4, <1>9, <1>13 DEF SizeInv, Totals

LEMMA PopSize ==
  ASSUME TypeOK, QueueOK, SizeInv, pop
  PROVE  SizeInv'
  <1> DEFINE n == Len(queue)
             a == Head(queue)
  <1>1. /\ queue # <<>> /\ queue' = Tail(queue)
        /\ heap' = [heap EXCEPT ![a] = NoEdge]
        /\ size' = size - Cardinality(heap[a].childIDs)
    BY DEF pop
  <1>2. /\ n \in Nat \ {0} /\ a = queue[1] /\ a \in Addr
        /\ Len(queue') = n - 1
        /\ \A i \in 1..(n - 1) : queue'[i] = queue[i + 1]
    BY <1>1, TailFacts DEF TypeOK
  <1>3. \A i \in 1..(n - 1) : CountNext(i) = Count(i + 1)
    <2> TAKE i \in 1..(n - 1)
    <2>1. i + 1 \in 1..n /\ 1 \in 1..n /\ i + 1 # 1
      BY <1>2
    <2>2. queue[i + 1] # a /\ queue[i + 1] \in Addr
      BY <1>2, <2>1, CountType DEF QueueOK
    <2>3. heap'[queue[i + 1]] = heap[queue[i + 1]]
      BY <1>1, <1>2, <2>2 DEF TypeOK
    <2> QED BY <1>2, <2>3 DEF Count, CountNext, CountIn
  <1>4. PICK total \in [0..n -> Nat] : Totals(total)
    BY DEF SizeInv
  <1>5. /\ total[0] = 0 /\ total[n] = size
        /\ \A i \in 1..n : total[i] = total[i - 1] + Count(i)
        /\ \A i, j \in 0..n : i <= j => total[i] <= total[j]
        /\ \A i \in 0..n : total[i] \in Nat
    BY <1>4 DEF Totals, Adds, Count
  <1>6. total[1] = Cardinality(heap[a].childIDs) /\ total[1] \in Nat
    <2>1. 1 \in 1..n /\ 1 \in 0..n /\ Count(1) \in Nat /\ Count(1) = Cardinality(heap[a].childIDs)
      BY <1>2, CountType DEF Count, CountIn
    <2>2. total[1] = total[1 - 1] + Count(1)
      BY <1>5, <2>1
    <2> QED BY <1>5, <2>1, <2>2
  <1> DEFINE new == [i \in 0..(n - 1) |-> total[i + 1] - total[1]]
  <1>7. size' = size - total[1]
    BY <1>1, <1>6
  <1> HIDE DEF n, a
  <1>8. \A i \in 0..(n - 1) : /\ i + 1 \in 0..n /\ total[i + 1] \in Nat
                             /\ total[1] <= total[i + 1]
    BY <1>2, <1>5
  <1>9. new \in [0..(n - 1) -> Nat]
    BY <1>6, <1>8
  <1>10. new[0] = 0 /\ new[n - 1] = size'
    <2>1. n - 1 \in 0..(n - 1) /\ 0 \in 0..(n - 1) /\ (n - 1) + 1 = n
      BY <1>2
    <2> QED BY <1>5, <1>6, <1>7, <2>1
  <1>11. ASSUME NEW i \in 1..(n - 1)
         PROVE  new[i] = new[i - 1] + CountNext(i)
    <2>1. /\ i \in 0..(n - 1) /\ i - 1 \in 0..(n - 1) /\ (i - 1) + 1 = i /\ i + 1 \in 1..n
          /\ (i + 1) - 1 = i /\ i \in 0..n
      BY <1>2
    <2>2. total[i + 1] = total[i] + Count(i + 1) /\ total[i] \in Nat /\ Count(i + 1) \in Nat
      <3>1. Count(i + 1) \in Nat
        BY <2>1, CountType DEF n
      <3> QED BY <1>5, <2>1, <3>1
    <2>3. new[i] = total[i + 1] - total[1] /\ new[i - 1] = total[i] - total[1]
      BY <2>1
    <2>4. CountNext(i) = Count(i + 1)
      BY <1>3
    <2> HIDE DEF new
    <2> QED BY <1>6, <2>2, <2>3, <2>4
  <1>12. ASSUME NEW i \in 0..(n - 1), NEW j \in 0..(n - 1), i <= j
         PROVE  new[i] <= new[j]
    <2>1. total[i + 1] <= total[j + 1] /\ total[i + 1] \in Nat /\ total[j + 1] \in Nat
      BY <1>2, <1>5, <1>8, <1>12
    <2> QED BY <1>6, <2>1
  <1> HIDE DEF new
  <1>13. Adds(new, heap', queue', size')
    BY <1>2, <1>9, <1>10, <1>11, <1>12 DEF Adds, CountNext
  <1> QED BY <1>2, <1>9, <1>13 DEF SizeInv, Totals

LEMMA NextSize == Inv /\ SizeInv /\ [Next]_vars => SizeInv'
  <1> SUFFICES ASSUME Inv, SizeInv, [Next]_vars PROVE SizeInv'
    OBVIOUS
  <1>1. TypeOK /\ QueueOK /\ IndexOK /\ PeekedOK
    BY DEF Inv
  <1>2. CASE Push
    <2>1. val \in Edge
      BY <1>1, <1>2 DEF Push, PeekedOK, TypeOK
    <2> QED BY <1>1, <1>2, <2>1, MergeSize, EnqueueSize DEF Push, push
  <1>3. CASE Pop
    BY <1>1, <1>3, PopSize DEF Pop
  <1>4. CASE UNCHANGED bufVars
    BY <1>4, SizeFrame
  <1>5. Push \/ Pop \/ UNCHANGED bufVars
    BY DEF Next, Accumulate, Peek, Stop, Receive, Send, CloseProducer, Handled, vars, bufVars
  <1> QED BY <1>2, <1>3, <1>4, <1>5

\* What the gauge shows is the number of children that wait, for any number of edges:
\* no merge counts a child twice and no pop forgets one.
THEOREM SizeCounts == Spec => []SizeOK
  <1>1. Init => SizeInv
    <2> SUFFICES ASSUME Init PROVE SizeInv
      OBVIOUS
    <2> DEFINE none == [i \in 0..0 |-> 0]
    <2>1. Len(queue) = 0 /\ size = 0
      BY DEF Init
    <2>2. none \in [0..Len(queue) -> Nat] /\ none[0] = 0 /\ Len(queue) = 0
      BY <2>1
    <2> HIDE DEF none
    <2>3. Totals(none)
      BY <2>1, <2>2 DEF Totals, Adds, Count
    <2> QED BY <2>2, <2>3 DEF SizeInv
  <1>2. Inv /\ SizeInv => SizeOK
    <2> SUFFICES ASSUME Inv, SizeInv PROVE SizeOK
      OBVIOUS
    <2>1. PICK total \in [0..Len(queue) -> Nat] : Totals(total)
      BY DEF SizeInv
    <2>2. Len(queue) \in Nat /\ size \in Int
      BY DEF Inv, TypeOK
    <2>3. total \in [0..Len(queue) -> 0..size]
      <3>1. ASSUME NEW i \in 0..Len(queue)
            PROVE  total[i] \in 0..size
        BY <2>1, <2>2 DEF Totals, Adds, Count
      <3> QED BY <3>1
    <2> QED BY <2>1, <2>3 DEF Totals, Adds, SizeOK, CountIn
  <1> QED BY <1>1, <1>2, NextSize, SpecInv, PTL DEF Spec
-----------------------------------------------------------------------------
(* The promise.  First what PendingOf and FencesOf make of a queue of       *)
(* edges, and of one that got an edge, or lost its oldest.                  *)

Unique(edges) ==
    \A i, j \in 1..Len(edges) :
        ~IsFence(edges[i]) /\ Key(edges[i]) = Key(edges[j]) => i = j

Edges == {edges \in Seq(Edge) : Unique(edges)}

LEMMA EdgesFacts ==
  ASSUME NEW s \in Edges
  PROVE  /\ s \in Seq(Edge) /\ Len(s) \in Nat /\ DOMAIN s = 1..Len(s)
         /\ \A i \in 1..Len(s) : s[i] \in Edge
         /\ \A i, j \in 1..Len(s) : ~IsFence(s[i]) /\ Key(s[i]) = Key(s[j]) => i = j
         /\ \A i, j \in 1..Len(s) : Key(s[i]) = Key(s[j]) => (IsFence(s[i]) <=> IsFence(s[j]))
  BY DEF Edges, Unique, Key, IsFence

\* What is pending under the key of a queued edge is what that edge has.
LEMMA PendingFacts ==
  ASSUME NEW s \in Edges
  PROVE  /\ DOMAIN PendingOf(s) = KeysBefore(s, Len(s) + 1)
         /\ \A key : key \in KeysBefore(s, Len(s) + 1) <=>
                       \E i \in 1..Len(s) : ~IsFence(s[i]) /\ key = Key(s[i])
         /\ \A i \in 1..Len(s) : ~IsFence(s[i]) =>
                PendingOf(s)[Key(s[i])] = s[i].childIDs
         /\ PendingOf(s) = [key \in KeysBefore(s, Len(s) + 1) |-> PendingOf(s)[key]]
  <1>1. DOMAIN PendingOf(s) = KeysBefore(s, Len(s) + 1)
    BY DEF PendingOf
  <1>2. \A key : key \in KeysBefore(s, Len(s) + 1) <=>
                   \E i \in 1..Len(s) : ~IsFence(s[i]) /\ key = Key(s[i])
    BY EdgesFacts DEF KeysBefore
  <1>3. ASSUME NEW i \in 1..Len(s), ~IsFence(s[i])
        PROVE  PendingOf(s)[Key(s[i])] = s[i].childIDs
    <2>1. s[i] \in Range(s)
      BY EdgesFacts DEF Range
    <2>2. ASSUME NEW e \in Range(s), Key(e) = Key(s[i])
          PROVE  e = s[i]
      <3>1. PICK j \in 1..Len(s) : e = s[j]
        BY EdgesFacts DEF Range
      <3> QED BY <1>3, <2>2, <3>1, EdgesFacts
    <2>3. EdgeWithKey(s, Key(s[i])) = s[i]
      BY <2>1, <2>2 DEF EdgeWithKey
    <2>4. Key(s[i]) \in KeysBefore(s, Len(s) + 1)
      BY <1>2, <1>3
    <2> QED BY <2>3, <2>4 DEF PendingOf
  <1>4. PendingOf(s) = [key \in KeysBefore(s, Len(s) + 1) |-> PendingOf(s)[key]]
    BY DEF PendingOf
  <1> QED BY <1>1, <1>2, <1>3, <1>4

\* Counting the marks edge by edge.
LEMMA FencesCount ==
  ASSUME NEW s \in Seq(Edge)
  PROVE  /\ Fences(s, 0) = 0
         /\ \A n \in Nat : Fences(s, n) \in Nat
         /\ \A n \in Nat : Fences(s, n + 1) = Fences(s, n) + (IF IsFence(s[n + 1]) THEN 1 ELSE 0)
         /\ \A m, n \in Nat : m <= n => Fences(s, m) <= Fences(s, n)
  <1> DEFINE F(n) == {i \in 1..n : IsFence(s[i])}
  <1>1. ASSUME NEW n \in Nat
        PROVE  IsFiniteSet(F(n)) /\ Cardinality(F(n)) \in Nat
    <2>1. IsFiniteSet(1..n)
      BY FS_Interval
    <2>2. IsFiniteSet(F(n))
      BY <2>1, FS_Subset
    <2> QED BY <2>2, FS_CardinalityType
  <1>2. Fences(s, 0) = 0
    <2>1. F(0) = {}
      OBVIOUS
    <2> QED BY <2>1, FS_EmptySet DEF Fences
  <1>3. ASSUME NEW n \in Nat
        PROVE  Fences(s, n + 1) = Fences(s, n) + (IF IsFence(s[n + 1]) THEN 1 ELSE 0)
    <2>1. CASE IsFence(s[n + 1])
      <3>1. F(n + 1) = F(n) \union {n + 1} /\ n + 1 \notin F(n)
        BY <2>1
      <3>2. Fences(s, n + 1) = Cardinality(F(n + 1)) /\ Fences(s, n) = Cardinality(F(n))
        BY DEF Fences
      <3> HIDE DEF F
      <3>3. Cardinality(F(n) \union {n + 1}) = Cardinality(F(n)) + 1
        BY <1>1, <3>1, FS_AddElement
      <3> QED BY <2>1, <3>1, <3>2, <3>3
    <2>2. CASE ~IsFence(s[n + 1])
      <3>1. F(n + 1) = F(n)
        BY <2>2
      <3>2. Fences(s, n + 1) = Cardinality(F(n + 1)) /\ Fences(s, n) = Cardinality(F(n))
        BY DEF Fences
      <3> HIDE DEF F
      <3>3. Cardinality(F(n)) + 0 = Cardinality(F(n))
        BY <1>1
      <3> QED BY <2>2, <3>1, <3>2, <3>3
    <2> QED BY <2>1, <2>2
  <1>4. ASSUME NEW m \in Nat, NEW n \in Nat, m <= n
        PROVE  Fences(s, m) <= Fences(s, n)
    <2>1. F(m) \in SUBSET F(n)
      BY <1>4
    <2> HIDE DEF F
    <2>2. Cardinality(F(m)) <= Cardinality(F(n))
      BY <1>1, <2>1, FS_Subset
    <2> QED BY <2>2 DEF Fences, F
  <1> QED BY <1>1, <1>2, <1>3, <1>4 DEF Fences

\* A set of natural numbers has a least one.
LEMMA LeastNumber ==
  ASSUME NEW T \in SUBSET Nat, T # {}
  PROVE  \E x \in T : \A y \in T : x <= y
  <1> DEFINE Less == {ss \in Nat \X Nat : ss[1] < ss[2]}
  <1>1. IsWellFoundedOn(Less, Nat)
    BY NatLessThanWellFounded DEF OpToRel
  <1>2. \E x \in T : \A y \in T : ~(<<y, x>> \in Less)
    <2> HIDE DEF Less
    <2> QED BY <1>1, WFMin
  <1>3. PICK x \in T : \A y \in T : ~(<<y, x>> \in Less)
    BY <1>2
  <1>4. ASSUME NEW y \in T
        PROVE  x <= y
    <2>1. x \in Nat /\ y \in Nat
      OBVIOUS
    <2>2. <<y, x>> \in Nat \X Nat /\ <<y, x>>[1] = y /\ <<y, x>>[2] = x
      BY <2>1
    <2>3. ~(y < x)
      BY <1>3, <2>2
    <2> QED BY <2>1, <2>3
  <1> QED BY <1>4

\* No two marks have the same number.
LEMMA FenceNumbers ==
  ASSUME NEW s \in Seq(Edge), NEW i \in 1..Len(s), NEW j \in 1..Len(s),
         IsFence(s[i]), IsFence(s[j]), Fences(s, i) = Fences(s, j)
  PROVE  i = j
  <1>1. ASSUME NEW a \in 1..Len(s), NEW b \in 1..Len(s), IsFence(s[b]), a < b
        PROVE  Fences(s, a) < Fences(s, b)
    <2>1. a \in Nat /\ b - 1 \in Nat /\ (b - 1) + 1 = b /\ a <= b - 1
      BY <1>1
    <2>2. Fences(s, a) <= Fences(s, b - 1)
      BY <2>1, FencesCount
    <2>3. Fences(s, b) = Fences(s, b - 1) + 1 /\ Fences(s, b - 1) \in Nat /\ Fences(s, a) \in Nat
      BY <1>1, <2>1, FencesCount
    <2> QED BY <2>2, <2>3
  <1>2. Fences(s, i) \in Nat /\ Fences(s, j) \in Nat /\ i \in Nat /\ j \in Nat
    BY FencesCount
  <1>3. ~(i < j) /\ ~(j < i)
    BY <1>1, <1>2
  <1> QED BY <1>2, <1>3

\* The m-th mark is in the queue, and nothing else is at its place.
LEMMA PositionFacts ==
  ASSUME NEW s \in Seq(Edge)
  PROVE  /\ \A m \in 1..Fences(s, Len(s)) :
                /\ FencePosition(s, m) \in 1..Len(s)
                /\ IsFence(s[FencePosition(s, m)])
                /\ Fences(s, FencePosition(s, m)) = m
         /\ \A i \in 1..Len(s) : IsFence(s[i]) =>
                /\ Fences(s, i) \in 1..Fences(s, Len(s))
                /\ FencePosition(s, Fences(s, i)) = i
  <1>1. Len(s) \in Nat /\ DOMAIN s = 1..Len(s)
    OBVIOUS
  <1>2. ASSUME NEW m \in 1..Fences(s, Len(s))
        PROVE  \E i \in DOMAIN s : IsFence(s[i]) /\ Fences(s, i) = m
    <2> DEFINE T == {i \in 1..Len(s) : Fences(s, i) >= m}
    <2>1. m \in Nat \ {0} /\ Fences(s, Len(s)) \in Nat /\ m <= Fences(s, Len(s))
      BY <1>1, FencesCount
    <2>2. Len(s) \in T
      <3>1. Len(s) # 0
        BY <2>1, FencesCount
      <3> QED BY <1>1, <2>1, <3>1
    <2>3. PICK i \in T : \A j \in T : i <= j
      <3>1. T \in SUBSET Nat /\ T # {}
        BY <2>2
      <3> HIDE DEF T
      <3> QED BY <3>1, LeastNumber
    <2>4. /\ i \in 1..Len(s) /\ i - 1 \in Nat /\ (i - 1) + 1 = i
          /\ Fences(s, i) >= m
      BY <2>3
    <2>5. Fences(s, i - 1) < m
      <3>1. CASE i - 1 = 0
        BY <2>1, <3>1, FencesCount
      <3>2. CASE i - 1 # 0
        <4>1. i - 1 \in 1..Len(s) /\ i - 1 \notin T
          BY <1>1, <2>3, <2>4, <3>2
        <4>2. Fences(s, i - 1) \in Nat
          BY <2>4, FencesCount
        <4> QED BY <2>1, <4>1, <4>2
      <3> QED BY <3>1, <3>2
    <2>6. /\ Fences(s, i) = Fences(s, i - 1) + (IF IsFence(s[i]) THEN 1 ELSE 0)
          /\ Fences(s, i - 1) \in Nat
      <3>1. Fences(s, (i - 1) + 1)
              = Fences(s, i - 1) + (IF IsFence(s[(i - 1) + 1]) THEN 1 ELSE 0)
        BY <2>4, FencesCount
      <3> QED BY <2>4, <3>1, FencesCount
    <2>7. IsFence(s[i]) /\ Fences(s, i) = m
      BY <2>1, <2>4, <2>5, <2>6
    <2> QED BY <1>1, <2>4, <2>7
  <1>3. ASSUME NEW m \in 1..Fences(s, Len(s))
        PROVE  /\ FencePosition(s, m) \in 1..Len(s)
               /\ IsFence(s[FencePosition(s, m)])
               /\ Fences(s, FencePosition(s, m)) = m
    BY <1>1, <1>2 DEF FencePosition
  <1>4. ASSUME NEW i \in 1..Len(s), IsFence(s[i])
        PROVE  /\ Fences(s, i) \in 1..Fences(s, Len(s))
               /\ FencePosition(s, Fences(s, i)) = i
    <2>1. i \in Nat /\ i - 1 \in Nat /\ (i - 1) + 1 = i /\ i <= Len(s)
      BY <1>1
    <2>2. /\ Fences(s, i - 1) \in Nat /\ Fences(s, i) \in Nat /\ Fences(s, Len(s)) \in Nat
          /\ Fences(s, (i - 1) + 1) = Fences(s, i - 1) + (IF IsFence(s[(i - 1) + 1]) THEN 1 ELSE 0)
          /\ Fences(s, i) <= Fences(s, Len(s))
      BY <1>1, <2>1, FencesCount
    <2>3. Fences(s, i) \in 1..Fences(s, Len(s))
      BY <1>4, <2>1, <2>2
    <2>4. LET p == FencePosition(s, Fences(s, i))
          IN  p \in 1..Len(s) /\ IsFence(s[p]) /\ Fences(s, p) = Fences(s, i)
      BY <1>3, <2>3
    <2> QED BY <1>4, <2>3, <2>4, FenceNumbers
  <1> QED BY <1>3, <1>4

\* The keys of the first edges do not depend on the others, nor on children.
LEMMA KeysOfPrefix ==
  ASSUME NEW s \in Seq(Edge), NEW t \in Seq(Edge), NEW p \in Nat,
         p <= Len(s) + 1, p <= Len(t) + 1,
         \A i \in 1..(p - 1) : Key(s[i]) = Key(t[i])
  PROVE  KeysBefore(t, p) = KeysBefore(s, p)
  <1>1. \A i \in 1..(p - 1) : IsFence(s[i]) <=> IsFence(t[i])
    BY DEF Key, IsFence
  <1>2. \A j : j \in DOMAIN s /\ j < p <=> j \in 1..(p - 1)
    OBVIOUS
  <1>3. \A j : j \in DOMAIN t /\ j < p <=> j \in 1..(p - 1)
    OBVIOUS
  <1>4. KeysBefore(s, p) = {Key(s[i]) : i \in {j \in 1..(p - 1) : ~IsFence(s[j])}}
    BY <1>2 DEF KeysBefore
  <1>5. KeysBefore(t, p) = {Key(t[i]) : i \in {j \in 1..(p - 1) : ~IsFence(t[j])}}
    BY <1>3 DEF KeysBefore
  <1> QED BY <1>1, <1>4, <1>5

\* FencesOf is a sequence, with one entry for each mark of the queue.
FenceEntry == [parentID : Parents, before : SUBSET (Kinds \X Parents)]

Entry(s, i) == [parentID |-> s[i].parentID, before |-> KeysBefore(s, i)]

LEMMA FencesOfFacts ==
  ASSUME NEW s \in Seq(Edge)
  PROVE  /\ Fences(s, Len(s)) \in Nat
         /\ DOMAIN FencesOf(s) = 1..Fences(s, Len(s))
         /\ FencesOf(s) \in Seq(FenceEntry)
         /\ Len(FencesOf(s)) = Fences(s, Len(s))
         /\ \A m \in 1..Fences(s, Len(s)) : FencesOf(s)[m] = Entry(s, FencePosition(s, m))
         /\ FencesOf(s) = [m \in 1..Fences(s, Len(s)) |-> FencesOf(s)[m]]
  <1>1. Fences(s, Len(s)) \in Nat
    BY FencesCount
  <1>2. FencesOf(s) = [m \in 1..Fences(s, Len(s)) |-> Entry(s, FencePosition(s, m))]
    BY DEF FencesOf, Entry
  <1>3. ASSUME NEW m \in 1..Fences(s, Len(s))
        PROVE  Entry(s, FencePosition(s, m)) \in FenceEntry
    <2> DEFINE p == FencePosition(s, m)
    <2>1. p \in 1..Len(s)
      BY PositionFacts
    <2> HIDE DEF p
    <2>2. s[p] \in Edge /\ \A j \in DOMAIN s : s[j] \in Edge
      BY <2>1
    <2>3. KeysBefore(s, p) \in SUBSET (Kinds \X Parents)
      BY <2>2 DEF KeysBefore, Key, Edge
    <2>4. Entry(s, p) \in FenceEntry
      BY <2>2, <2>3 DEF Entry, FenceEntry, Edge
    <2> QED BY <2>4 DEF p
  <1>4. FencesOf(s) \in [1..Fences(s, Len(s)) -> FenceEntry]
    BY <1>2, <1>3
  <1> QED BY <1>1, <1>2, <1>4

\* A longer queue has the marks of a shorter one that it begins with, in front.
LEMMA FencesOfPrefix ==
  ASSUME NEW s \in Seq(Edge), NEW t \in Seq(Edge), Len(s) <= Len(t),
         \A i \in 1..Len(s) : Key(s[i]) = Key(t[i])
  PROVE  /\ Fences(t, Len(s)) = Fences(s, Len(s))
         /\ \A m \in 1..Fences(s, Len(s)) : /\ m \in 1..Fences(t, Len(t))
                                            /\ FencesOf(t)[m] = FencesOf(s)[m]
  <1>1. \A i \in 1..Len(s) : IsFence(s[i]) <=> IsFence(t[i])
    BY DEF Key, IsFence
  <1>2. ASSUME NEW n \in 0..Len(s)
        PROVE  Fences(t, n) = Fences(s, n)
    <2>1. {i \in 1..n : IsFence(t[i])} = {i \in 1..n : IsFence(s[i])}
      BY <1>1
    <2> QED BY <2>1 DEF Fences
  <1>3. Len(s) \in Nat /\ Len(t) \in Nat /\ Len(s) \in 0..Len(s)
    OBVIOUS
  <1>4. Fences(t, Len(s)) <= Fences(t, Len(t)) /\ Fences(t, Len(t)) \in Nat /\ Fences(s, Len(s)) \in Nat
    BY <1>3, FencesCount
  <1>5. ASSUME NEW m \in 1..Fences(s, Len(s))
        PROVE  m \in 1..Fences(t, Len(t)) /\ FencesOf(t)[m] = FencesOf(s)[m]
    <2> DEFINE p == FencePosition(s, m)
    <2>1. p \in 1..Len(s) /\ IsFence(s[p]) /\ Fences(s, p) = m
      BY PositionFacts
    <2> HIDE DEF p
    <2>2. p \in 1..Len(t) /\ IsFence(t[p]) /\ Fences(t, p) = m
      BY <1>1, <1>2, <1>3, <2>1
    <2>3. FencePosition(t, m) = p
      BY <2>2, PositionFacts
    <2>4. m \in 1..Fences(t, Len(t))
      BY <1>2, <1>3, <1>4
    <2>5. KeysBefore(t, p) = KeysBefore(s, p)
      <3>1. p \in Nat /\ p <= Len(s) + 1 /\ p <= Len(t) + 1 /\ \A i \in 1..(p - 1) : Key(s[i]) = Key(t[i])
        BY <1>3, <2>1
      <3> QED BY <3>1, KeysOfPrefix
    <2>6. t[p].parentID = s[p].parentID
      BY <2>1 DEF Key
    <2>7. FencesOf(t)[m] = Entry(t, p)
      BY <2>3, <2>4, FencesOfFacts
    <2>8. FencesOf(s)[m] = Entry(s, p)
      BY FencesOfFacts DEF p
    <2> QED BY <2>4, <2>5, <2>6, <2>7, <2>8 DEF Entry
  <1> QED BY <1>2, <1>3, <1>5

\* Taking a mark: it is the last of the marks and waits for all that is pending.
LEMMA TakeMark ==
  ASSUME NEW s \in Edges, NEW e \in Edge, IsFence(e)
  PROVE  /\ Append(s, e) \in Edges
         /\ PendingOf(Append(s, e)) = PendingOf(s)
         /\ FencesOf(Append(s, e))
              = Append(FencesOf(s), [parentID |-> e.parentID, before |-> DOMAIN PendingOf(s)])
  <1> DEFINE t == Append(s, e)
             n == Len(s)
             f == Fences(s, n)
             new == [parentID |-> e.parentID, before |-> DOMAIN PendingOf(s)]
  <1>1. /\ s \in Seq(Edge) /\ n \in Nat /\ f \in Nat
        /\ t \in Seq(Edge) /\ Len(t) = n + 1 /\ t[n + 1] = e
        /\ \A i \in 1..n : t[i] = s[i]
    BY EdgesFacts, FencesCount
  <1>2. t \in Edges
    <2>1. ASSUME NEW i \in 1..(n + 1), NEW j \in 1..(n + 1), ~IsFence(t[i]), Key(t[i]) = Key(t[j])
          PROVE  i = j
      <3>1. ~IsFence(t[j])
        BY <2>1 DEF Key, IsFence
      <3>2. i \in 1..n /\ j \in 1..n
        BY <1>1, <2>1, <3>1
      <3> QED BY <1>1, <2>1, <3>2, EdgesFacts
    <2> HIDE DEF t
    <2> QED BY <1>1, <2>1 DEF Edges, Unique
  <1> HIDE DEF t
  <1>3. KeysBefore(t, n + 1) = KeysBefore(s, n + 1)
    BY <1>1, KeysOfPrefix
  <1>4. \A key : key \in KeysBefore(t, Len(t) + 1) <=> key \in KeysBefore(s, n + 1)
    <2> TAKE key
    <2>1. key \in KeysBefore(t, Len(t) + 1) <=> \E i \in 1..Len(t) : ~IsFence(t[i]) /\ key = Key(t[i])
      BY <1>2, PendingFacts
    <2>2. key \in KeysBefore(s, n + 1) <=> \E i \in 1..n : ~IsFence(s[i]) /\ key = Key(s[i])
      BY PendingFacts
    <2> QED BY <1>1, <2>1, <2>2
  <1>5. PendingOf(t) = PendingOf(s)
    <2>1. ASSUME NEW key \in KeysBefore(s, n + 1)
          PROVE  PendingOf(t)[key] = PendingOf(s)[key]
      <3>1. PICK i \in 1..n : ~IsFence(s[i]) /\ key = Key(s[i])
        BY PendingFacts
      <3>2. i \in 1..Len(t) /\ t[i] = s[i]
        BY <1>1
      <3> QED BY <1>2, <3>1, <3>2, PendingFacts
    <2> QED BY <1>2, <1>4, <2>1, PendingFacts
  <1>6. Fences(t, n + 1) = f + 1 /\ Fences(t, n) = f
    <2>1. Fences(t, n) = f
      BY <1>1, FencesOfPrefix
    <2>2. Fences(t, n + 1) = Fences(t, n) + (IF IsFence(t[n + 1]) THEN 1 ELSE 0)
      BY <1>1, FencesCount
    <2> HIDE DEF f
    <2> QED BY <1>1, <2>1, <2>2
  <1>7. \A m \in 1..f : FencesOf(t)[m] = FencesOf(s)[m]
    BY <1>1, FencesOfPrefix
  <1>8. FencePosition(t, f + 1) = n + 1
    BY <1>1, <1>6, PositionFacts
  <1>9. FencesOf(t)[f + 1] = new
    <2>1. f + 1 \in 1..Fences(t, Len(t))
      BY <1>1, <1>6
    <2>2. FencesOf(t)[f + 1] = Entry(t, n + 1)
      BY <1>1, <1>8, <2>1, FencesOfFacts
    <2> QED BY <1>1, <1>3, <2>2, PendingFacts DEF Entry
  <1>10. Append(FencesOf(s), new) = [m \in 1..(f + 1) |-> IF m = f + 1 THEN new ELSE FencesOf(s)[m]]
    <2>1. FencesOf(s) \in Seq(FenceEntry) /\ Len(FencesOf(s)) = f
      BY <1>1, FencesOfFacts
    <2>2. new \in FenceEntry
      <3>1. FencesOf(t) \in [1..(f + 1) -> FenceEntry]
        BY <1>1, <1>6, FencesOfFacts
      <3> QED BY <1>1, <1>9, <3>1
    <2> HIDE DEF new, f
    <2> QED BY <2>1, <2>2, AppendIs
  <1>11. FencesOf(t) = [m \in 1..(f + 1) |-> IF m = f + 1 THEN new ELSE FencesOf(s)[m]]
    <2>1. FencesOf(t) = [m \in 1..(f + 1) |-> FencesOf(t)[m]]
      BY <1>1, <1>6, FencesOfFacts
    <2>2. \A m \in 1..(f + 1) : FencesOf(t)[m] = IF m = f + 1 THEN new ELSE FencesOf(s)[m]
      BY <1>1, <1>7, <1>9
    <2> HIDE DEF new, f
    <2> QED BY <2>1, <2>2
  <1> QED BY <1>2, <1>5, <1>10, <1>11 DEF t

\* Taking an edge: its children join those pending for its parent, the marks stay.
LEMMA TakeEdge ==
  ASSUME NEW s \in Edges, NEW e \in Edge, ~IsFence(e)
  PROVE  LET t == Accepted(s, e)
         IN  /\ t \in Edges
             /\ FencesOf(t) = FencesOf(s)
             /\ PendingOf(t) = [key \in DOMAIN PendingOf(s) \union {Key(e)} |->
                   (IF key \in DOMAIN PendingOf(s) THEN PendingOf(s)[key] ELSE {})
                   \union (IF key = Key(e) THEN e.childIDs ELSE {})]
  <1> DEFINE t == Accepted(s, e)
             n == Len(s)
             Is(key) == (IF key \in DOMAIN PendingOf(s) THEN PendingOf(s)[key] ELSE {})
                        \union (IF key = Key(e) THEN e.childIDs ELSE {})
  <1>1. s \in Seq(Edge) /\ n \in Nat /\ DOMAIN s = 1..n /\ \A i \in 1..n : s[i] \in Edge
    BY EdgesFacts
  <1>2. \A i \in 1..n : SameKey(s[i], e) <=> Key(s[i]) = Key(e)
    BY DEF SameKey, Key
  <1>3. CASE \E i \in 1..n : SameKey(s[i], e)
    <2>1. PICK k \in 1..n : SameKey(s[k], e)
      BY <1>3
    <2>2. ~IsFence(s[k]) /\ Key(s[k]) = Key(e)
      BY <1>2, <2>1 DEF SameKey, IsFence
    <2>3. \A i \in 1..n : SameKey(s[i], e) <=> i = k
      BY <1>2, <2>1, <2>2, EdgesFacts
    <2> DEFINE more == [s[k] EXCEPT !.childIDs = @ \union e.childIDs]
    <2>4. t = [i \in 1..n |-> IF i = k THEN more ELSE s[i]]
      <3>1. t = [i \in 1..n |-> IF SameKey(s[i], e) THEN [s[i] EXCEPT !.childIDs = @ \union e.childIDs]
                                                    ELSE s[i]]
        BY <1>1, <2>1 DEF Accepted
      <3> QED BY <2>3, <3>1
    <2>5. /\ more \in Edge /\ Key(more) = Key(s[k]) /\ ~IsFence(more)
          /\ more.childIDs = s[k].childIDs \union e.childIDs
      BY <1>1, <2>1, <2>2 DEF Edge, Key, IsFence
    <2> HIDE DEF t, more
    <2>6. t \in Seq(Edge) /\ Len(t) = n
      BY <1>1, <2>4, <2>5
    <2>7. \A i \in 1..n : Key(t[i]) = Key(s[i]) /\ (IsFence(t[i]) <=> IsFence(s[i]))
      BY <2>2, <2>4, <2>5
    <2>8. t \in Edges
      BY <2>6, <2>7, EdgesFacts DEF Edges, Unique
    <2>9. FencesOf(t) = FencesOf(s)
      <3>1. Fences(t, n) = Fences(s, n)
        BY <1>1, <2>6, <2>7, FencesOfPrefix
      <3>2. \A m \in 1..Fences(s, n) : FencesOf(t)[m] = FencesOf(s)[m]
        BY <1>1, <2>6, <2>7, FencesOfPrefix
      <3>3. FencesOf(t) = [m \in 1..Fences(s, n) |-> FencesOf(t)[m]]
        BY <2>6, <3>1, FencesOfFacts
      <3>4. FencesOf(s) = [m \in 1..Fences(s, n) |-> FencesOf(s)[m]]
        BY <1>1, FencesOfFacts
      <3> QED BY <3>2, <3>3, <3>4
    <2>10. \A key : key \in DOMAIN PendingOf(t) <=> key \in DOMAIN PendingOf(s) \union {Key(e)}
      <3> TAKE key
      <3>1. key \in DOMAIN PendingOf(t) <=> \E i \in 1..n : ~IsFence(t[i]) /\ key = Key(t[i])
        BY <2>6, <2>8, PendingFacts
      <3>2. key \in DOMAIN PendingOf(s) <=> \E i \in 1..n : ~IsFence(s[i]) /\ key = Key(s[i])
        BY PendingFacts
      <3>3. key \in DOMAIN PendingOf(t) <=> key \in DOMAIN PendingOf(s)
        BY <2>7, <3>1, <3>2
      <3>4. Key(e) \in DOMAIN PendingOf(s)
        BY <2>2, PendingFacts
      <3> QED BY <3>3, <3>4
    <2>11. ASSUME NEW key \in DOMAIN PendingOf(t)
           PROVE  PendingOf(t)[key] = Is(key)
      <3>1. PICK i \in 1..n : ~IsFence(t[i]) /\ key = Key(t[i])
        BY <2>6, <2>8, PendingFacts
      <3>2. PendingOf(t)[key] = t[i].childIDs
        BY <2>6, <2>8, <3>1, PendingFacts
      <3>3. /\ ~IsFence(s[i]) /\ key = Key(s[i])
            /\ key \in DOMAIN PendingOf(s) /\ PendingOf(s)[key] = s[i].childIDs
        BY <2>7, <3>1, PendingFacts
      <3>4. key = Key(e) <=> i = k
        BY <1>2, <2>3, <3>3
      <3>5. t[i].childIDs = IF i = k THEN s[i].childIDs \union e.childIDs ELSE s[i].childIDs
        BY <2>4, <2>5
      <3> QED BY <3>2, <3>3, <3>4, <3>5
    <2>12. PendingOf(t) = [key \in DOMAIN PendingOf(s) \union {Key(e)} |-> Is(key)]
      <3>1. PendingOf(t) = [key \in DOMAIN PendingOf(t) |-> PendingOf(t)[key]]
        BY <2>8, PendingFacts
      <3> HIDE DEF Is
      <3> QED BY <2>10, <2>11, <3>1
    <2> QED BY <2>8, <2>9, <2>12 DEF t
  <1>4. CASE ~\E i \in 1..n : SameKey(s[i], e)
    <2>1. t = Append(s, e)
      BY <1>1, <1>4 DEF Accepted
    <2> HIDE DEF t
    <2>2. /\ t \in Seq(Edge) /\ Len(t) = n + 1 /\ t[n + 1] = e
          /\ \A i \in 1..n : t[i] = s[i]
      BY <1>1, <2>1
    <2>3. t \in Edges
      <3>1. ASSUME NEW i \in 1..(n + 1), NEW j \in 1..(n + 1), ~IsFence(t[i]), Key(t[i]) = Key(t[j])
            PROVE  i = j
        <4>1. CASE i \in 1..n /\ j \in 1..n
          BY <2>2, <3>1, <4>1, EdgesFacts
        <4>2. CASE i = n + 1 /\ j \in 1..n
          BY <1>2, <1>4, <2>2, <3>1, <4>2
        <4>3. CASE i \in 1..n /\ j = n + 1
          BY <1>2, <1>4, <2>2, <3>1, <4>3
        <4> QED BY <1>1, <4>1, <4>2, <4>3
      <3> QED BY <2>2, <3>1 DEF Edges, Unique
    <2>4. FencesOf(t) = FencesOf(s)
      <3>1. Fences(t, n) = Fences(s, n) /\ Fences(s, n) \in Nat
        BY <1>1, <2>2, FencesOfPrefix, FencesOfFacts
      <3>2. \A m \in 1..Fences(s, n) : FencesOf(t)[m] = FencesOf(s)[m]
        BY <1>1, <2>2, FencesOfPrefix
      <3>3. Fences(t, n + 1) = Fences(t, n) + (IF IsFence(t[n + 1]) THEN 1 ELSE 0)
        BY <1>1, <2>2, FencesCount
      <3>4. Fences(t, Len(t)) = Fences(s, n)
        BY <2>2, <3>1, <3>3
      <3>5. FencesOf(t) = [m \in 1..Fences(s, n) |-> FencesOf(t)[m]]
        BY <2>2, <3>4, FencesOfFacts
      <3>6. FencesOf(s) = [m \in 1..Fences(s, n) |-> FencesOf(s)[m]]
        BY <1>1, FencesOfFacts
      <3> QED BY <3>2, <3>5, <3>6
    <2>5. \A key : key \in DOMAIN PendingOf(t) <=> key \in DOMAIN PendingOf(s) \union {Key(e)}
      <3> TAKE key
      <3>1. key \in DOMAIN PendingOf(t) <=> \E i \in 1..Len(t) : ~IsFence(t[i]) /\ key = Key(t[i])
        BY <2>3, PendingFacts
      <3>2. key \in DOMAIN PendingOf(s) <=> \E i \in 1..n : ~IsFence(s[i]) /\ key = Key(s[i])
        BY PendingFacts
      <3>3. \A i : i \in 1..Len(t) <=> i \in 1..n \/ i = n + 1
        BY <1>1, <2>2
      <3> QED BY <2>2, <3>1, <3>2, <3>3
    <2>6. Key(e) \notin DOMAIN PendingOf(s)
      BY <1>2, <1>4, PendingFacts
    <2>7. ASSUME NEW key \in DOMAIN PendingOf(t)
          PROVE  PendingOf(t)[key] = Is(key)
      <3>1. PICK i \in 1..(n + 1) : ~IsFence(t[i]) /\ key = Key(t[i])
        BY <2>2, <2>3, PendingFacts
      <3>2. PendingOf(t)[key] = t[i].childIDs
        BY <2>2, <2>3, <3>1, PendingFacts
      <3>3. CASE i = n + 1
        BY <2>2, <2>6, <3>1, <3>2, <3>3
      <3>4. CASE i \in 1..n
        <4>1. /\ key \in DOMAIN PendingOf(s) /\ PendingOf(s)[key] = s[i].childIDs
              /\ t[i] = s[i]
          BY <2>2, <3>1, <3>4, PendingFacts
        <4> QED BY <2>6, <3>2, <4>1
      <3> QED BY <1>1, <3>3, <3>4
    <2>8. PendingOf(t) = [key \in DOMAIN PendingOf(s) \union {Key(e)} |-> Is(key)]
      <3>1. PendingOf(t) = [key \in DOMAIN PendingOf(t) |-> PendingOf(t)[key]]
        BY <2>3, PendingFacts
      <3> HIDE DEF Is
      <3> QED BY <2>5, <2>7, <3>1
    <2> QED BY <2>3, <2>4, <2>8 DEF t
  <1> QED BY <1>3, <1>4

\* What Tail makes of an edge queue, and how many marks its first edges hold.
LEMMA TailOfEdges ==
  ASSUME NEW s \in Edges, s # <<>>
  PROVE  /\ Tail(s) \in Edges
         /\ Len(Tail(s)) \in Nat /\ Len(s) = Len(Tail(s)) + 1 /\ Head(s) = s[1] /\ s[1] \in Edge
         /\ \A i \in 1..Len(Tail(s)) : Tail(s)[i] = s[i + 1] /\ i + 1 \in 1..Len(s)
         /\ \A i \in 0..Len(Tail(s)) :
              Fences(s, i + 1) = Fences(Tail(s), i) + (IF IsFence(s[1]) THEN 1 ELSE 0)
  <1> DEFINE t == Tail(s)
             n == Len(t)
             d == IF IsFence(s[1]) THEN 1 ELSE 0
             T == {i \in 0..n : Fences(s, i + 1) # Fences(t, i) + d}
  <1>1. /\ s \in Seq(Edge) /\ t \in Seq(Edge) /\ n \in Nat /\ Len(s) = n + 1
        /\ Head(s) = s[1] /\ s[1] \in Edge
        /\ \A i \in 1..n : t[i] = s[i + 1] /\ i + 1 \in 1..(n + 1)
    BY EdgesFacts
  <1> HIDE DEF t
  <1>2. t \in Edges
    <2>1. ASSUME NEW i \in 1..n, NEW j \in 1..n, ~IsFence(t[i]), Key(t[i]) = Key(t[j])
          PROVE  i = j
      <3>1. i + 1 = j + 1
        BY <1>1, <2>1, EdgesFacts
      <3> QED BY <3>1
    <2> QED BY <1>1, <2>1 DEF Edges, Unique
  <1>3. T = {}
    <2> SUFFICES ASSUME T # {} PROVE FALSE
      OBVIOUS
    <2>1. T \in SUBSET Nat
      OBVIOUS
    <2>2. PICK x \in T : \A y \in T : x <= y
      <3> HIDE DEF T
      <3> QED BY <2>1, LeastNumber
    <2>3. x \in 0..n /\ x \in Nat /\ Fences(s, x + 1) # Fences(t, x) + d
      BY <2>2
    <2> HIDE DEF d
    <2>4. CASE x = 0
      <3>1. 0 \in Nat /\ 0 + 1 = 1
        OBVIOUS
      <3>2. Fences(s, 0 + 1) = Fences(s, 0) + (IF IsFence(s[0 + 1]) THEN 1 ELSE 0)
        BY <1>1, <3>1, FencesCount
      <3>3. Fences(s, 0) = 0 /\ Fences(t, 0) = 0
        BY <1>1, FencesCount
      <3>4. Fences(s, 1) = 0 + d
        BY <3>1, <3>2, <3>3, Zenon DEF d
      <3> QED BY <2>3, <2>4, <3>1, <3>3, <3>4
    <2>5. CASE x # 0
      <3>1. x - 1 \in 0..n /\ x - 1 \in Nat /\ (x - 1) + 1 = x /\ x \in 1..n
        BY <2>3, <2>5
      <3>2. x - 1 \notin T
        BY <2>2, <3>1
      <3>3. Fences(s, x) = Fences(t, x - 1) + d
        BY <3>1, <3>2
      <3>4. Fences(s, x + 1) = Fences(s, x) + (IF IsFence(s[x + 1]) THEN 1 ELSE 0)
        BY <1>1, <2>3, FencesCount
      <3>5. Fences(t, (x - 1) + 1) = Fences(t, x - 1) + (IF IsFence(t[(x - 1) + 1]) THEN 1 ELSE 0)
        BY <1>1, <3>1, FencesCount
      <3>6. t[x] = s[x + 1]
        BY <1>1, <3>1
      <3>7. Fences(t, x - 1) \in Nat /\ d \in Nat
        BY <1>1, <3>1, FencesCount DEF d
      <3> HIDE DEF T
      <3> QED BY <2>3, <3>1, <3>3, <3>4, <3>5, <3>6, <3>7
    <2> QED BY <2>4, <2>5
  <1> QED BY <1>1, <1>2, <1>3 DEF t

\* The marks of a queue that lost its oldest edge: the same, from the place before.
LEMMA MarksOfTail ==
  ASSUME NEW s \in Edges, s # <<>>, NEW m \in 1..Fences(Tail(s), Len(Tail(s)))
  PROVE  LET d == IF IsFence(s[1]) THEN 1 ELSE 0
         IN  /\ m + d \in 1..Fences(s, Len(s))
             /\ FencesOf(Tail(s))[m].parentID = FencesOf(s)[m + d].parentID
             /\ FencesOf(Tail(s))[m].before
                  = FencesOf(s)[m + d].before \ (IF IsFence(s[1]) THEN {} ELSE {Key(s[1])})
             /\ FencesOf(Tail(s))[m] \in FenceEntry /\ FencesOf(s)[m + d] \in FenceEntry
  <1> DEFINE t == Tail(s)
             n == Len(t)
             d == IF IsFence(s[1]) THEN 1 ELSE 0
             p == FencePosition(t, m)
  <1>1. /\ t \in Edges /\ s \in Seq(Edge) /\ t \in Seq(Edge) /\ n \in Nat /\ Len(s) = n + 1
        /\ \A i \in 1..n : t[i] = s[i + 1] /\ i + 1 \in 1..Len(s)
        /\ \A i \in 0..n : Fences(s, i + 1) = Fences(t, i) + d
    BY TailOfEdges, EdgesFacts
  <1>2. d \in {0, 1} /\ m \in Nat
    BY <1>1, FencesCount
  <1> HIDE DEF t, d
  <1>3. p \in 1..n /\ IsFence(t[p]) /\ Fences(t, p) = m
    BY <1>1, PositionFacts DEF t
  <1> HIDE DEF p
  <1>4. p + 1 \in 1..Len(s) /\ IsFence(s[p + 1]) /\ Fences(s, p + 1) = m + d /\ s[p + 1] = t[p]
    BY <1>1, <1>3
  <1>5. m + d \in 1..Fences(s, Len(s)) /\ FencePosition(s, m + d) = p + 1
    BY <1>1, <1>4, PositionFacts
  <1>6. FencesOf(s)[m + d] = Entry(s, p + 1) /\ FencesOf(t)[m] = Entry(t, p)
    BY <1>1, <1>5, FencesOfFacts DEF t, p
  <1>7. KeysBefore(t, p) = KeysBefore(s, p + 1) \ (IF IsFence(s[1]) THEN {} ELSE {Key(s[1])})
    <2>1. \A key : key \in KeysBefore(t, p) <=> \E i \in 1..(p - 1) : ~IsFence(t[i]) /\ key = Key(t[i])
      <3>1. \A i : i \in DOMAIN t /\ i < p <=> i \in 1..(p - 1)
        BY <1>1, <1>3
      <3> QED BY <3>1 DEF KeysBefore
    <2>2. \A key : key \in KeysBefore(s, p + 1) <=> \E i \in 1..p : ~IsFence(s[i]) /\ key = Key(s[i])
      <3>1. \A i : i \in DOMAIN s /\ i < p + 1 <=> i \in 1..p
        BY <1>1, <1>3
      <3> QED BY <3>1 DEF KeysBefore
    <2>3. ASSUME NEW key \in KeysBefore(t, p)
          PROVE  key \in KeysBefore(s, p + 1) /\ ~(~IsFence(s[1]) /\ key = Key(s[1]))
      <3>1. PICK i \in 1..(p - 1) : ~IsFence(t[i]) /\ key = Key(t[i])
        BY <2>1
      <3>2. i + 1 \in 1..p /\ i + 1 \in 1..Len(s) /\ i + 1 # 1 /\ 1 \in 1..Len(s) /\ t[i] = s[i + 1]
        BY <1>1, <1>3
      <3> QED BY <2>2, <3>1, <3>2, EdgesFacts
    <2>4. ASSUME NEW key \in KeysBefore(s, p + 1), ~(~IsFence(s[1]) /\ key = Key(s[1]))
          PROVE  key \in KeysBefore(t, p)
      <3>1. PICK i \in 1..p : ~IsFence(s[i]) /\ key = Key(s[i])
        BY <2>2
      <3>2. i # 1
        BY <2>4, <3>1
      <3>3. i - 1 \in 1..(p - 1) /\ i - 1 \in 1..n /\ (i - 1) + 1 = i
        BY <1>1, <1>3, <3>2
      <3>4. t[i - 1] = s[i]
        BY <1>1, <3>3
      <3> QED BY <2>1, <3>1, <3>3, <3>4
    <2> QED BY <2>3, <2>4
  <1>8. FencesOf(s)[m + d] \in FenceEntry
    <2>1. FencesOf(s) \in [1..Fences(s, Len(s)) -> FenceEntry]
      BY <1>1, FencesOfFacts
    <2> QED BY <1>5, <2>1
  <1>9. FencesOf(t)[m] \in FenceEntry
    <2>1. FencesOf(t) \in [1..Fences(t, n) -> FenceEntry]
      BY <1>1, FencesOfFacts
    <2> QED BY <2>1 DEF t
  <1>10. FencesOf(t)[m].parentID = FencesOf(s)[m + d].parentID
    BY <1>4, <1>6 DEF Entry
  <1>11. FencesOf(t)[m].before
           = FencesOf(s)[m + d].before \ (IF IsFence(s[1]) THEN {} ELSE {Key(s[1])})
    BY <1>6, <1>7 DEF Entry
  <1> QED BY <1>5, <1>8, <1>9, <1>10, <1>11, Zenon DEF t, d

\* Sending an edge that is no mark: its key is no longer pending, nor waited for.
LEMMA GiveEdge ==
  ASSUME NEW s \in Edges, s # <<>>, ~IsFence(s[1])
  PROVE  LET key == Key(s[1])
         IN  /\ key \in DOMAIN PendingOf(s)
             /\ PendingOf(s)[key] = s[1].childIDs
             /\ PendingOf(Tail(s)) = [k \in DOMAIN PendingOf(s) \ {key} |-> PendingOf(s)[k]]
             /\ FencesOf(Tail(s))
                  = [i \in DOMAIN FencesOf(s) |-> [FencesOf(s)[i] EXCEPT !.before = @ \ {key}]]
  <1> DEFINE t == Tail(s)
             n == Len(t)
             f == Fences(t, n)
             key == Key(s[1])
  <1>1. /\ t \in Edges /\ s \in Seq(Edge) /\ t \in Seq(Edge) /\ n \in Nat /\ Len(s) = n + 1
        /\ \A i \in 1..n : t[i] = s[i + 1] /\ i + 1 \in 1..Len(s)
        /\ Fences(s, n + 1) = f + 0
    <2>1. n \in 0..n
      BY TailOfEdges
    <2> QED BY <2>1, TailOfEdges, EdgesFacts
  <1>2. f \in Nat /\ Fences(s, Len(s)) = f
    <2>1. f \in Nat
      BY <1>1, FencesCount
    <2> HIDE DEF f, t
    <2> QED BY <1>1, <2>1
  <1>3. 1 \in 1..Len(s)
    BY <1>1
  <1>4. key \in DOMAIN PendingOf(s) /\ PendingOf(s)[key] = s[1].childIDs
    BY <1>3, PendingFacts
  <1>5. PendingOf(t) = [k \in DOMAIN PendingOf(s) \ {key} |-> PendingOf(s)[k]]
    <2> HIDE DEF t
    <2>1. ASSUME NEW k \in DOMAIN PendingOf(t)
          PROVE  k \in DOMAIN PendingOf(s) \ {key} /\ PendingOf(t)[k] = PendingOf(s)[k]
      <3>1. PICK i \in 1..n : ~IsFence(t[i]) /\ k = Key(t[i])
        BY <1>1, PendingFacts
      <3>2. i + 1 \in 1..Len(s) /\ i + 1 # 1 /\ t[i] = s[i + 1]
        BY <1>1
      <3>3. k # key
        BY <1>3, <3>1, <3>2, EdgesFacts
      <3>4. PendingOf(t)[k] = t[i].childIDs
        BY <1>1, <3>1, PendingFacts
      <3>5. k \in DOMAIN PendingOf(s) /\ PendingOf(s)[k] = s[i + 1].childIDs
        BY <3>1, <3>2, PendingFacts
      <3> QED BY <3>2, <3>3, <3>4, <3>5
    <2>2. ASSUME NEW k \in DOMAIN PendingOf(s) \ {key}
          PROVE  k \in DOMAIN PendingOf(t)
      <3>1. PICK i \in 1..Len(s) : ~IsFence(s[i]) /\ k = Key(s[i])
        BY PendingFacts
      <3>2. i # 1
        BY <2>2, <3>1
      <3>3. i - 1 \in 1..n /\ (i - 1) + 1 = i
        BY <1>1, <3>2
      <3>4. t[i - 1] = s[i]
        BY <1>1, <3>3
      <3> QED BY <1>1, <3>1, <3>3, <3>4, PendingFacts
    <2>3. PendingOf(t) = [k \in DOMAIN PendingOf(t) |-> PendingOf(t)[k]]
      BY <1>1, PendingFacts
    <2>4. DOMAIN PendingOf(t) = DOMAIN PendingOf(s) \ {key}
      BY <2>1, <2>2
    <2> HIDE DEF key
    <2> QED BY <2>1, <2>3, <2>4
  <1>6. ASSUME NEW m \in 1..f
        PROVE  FencesOf(t)[m] = [FencesOf(s)[m] EXCEPT !.before = @ \ {key}]
    <2>1. m \in 1..Fences(Tail(s), Len(Tail(s))) /\ m + 0 = m
      BY <1>2
    <2>2. /\ FencesOf(t)[m].parentID = FencesOf(s)[m].parentID
          /\ FencesOf(t)[m].before = FencesOf(s)[m].before \ {key}
          /\ FencesOf(t)[m] \in FenceEntry /\ FencesOf(s)[m] \in FenceEntry
      BY <2>1, MarksOfTail
    <2> HIDE DEF t, key
    <2> QED BY <2>2 DEF FenceEntry
  <1>7. FencesOf(t) = [i \in DOMAIN FencesOf(s) |-> [FencesOf(s)[i] EXCEPT !.before = @ \ {key}]]
    <2>1. FencesOf(t) = [m \in 1..f |-> FencesOf(t)[m]] /\ DOMAIN FencesOf(s) = 1..f
      BY <1>1, <1>2, FencesOfFacts
    <2> HIDE DEF t, key, f
    <2> QED BY <1>6, <2>1
  <1> QED BY <1>4, <1>5, <1>7

\* Sending a mark: it is the oldest, nothing pending precedes it, the others stay.
LEMMA GiveMark ==
  ASSUME NEW s \in Edges, s # <<>>, IsFence(s[1])
  PROVE  /\ FencesOf(s) # <<>>
         /\ Head(FencesOf(s)) = [parentID |-> s[1].parentID, before |-> {}]
         /\ PendingOf(Tail(s)) = PendingOf(s)
         /\ FencesOf(Tail(s)) = Tail(FencesOf(s))
  <1> DEFINE t == Tail(s)
             n == Len(t)
             f == Fences(t, n)
  <1>1. /\ t \in Edges /\ s \in Seq(Edge) /\ t \in Seq(Edge) /\ n \in Nat /\ Len(s) = n + 1
        /\ \A i \in 1..n : t[i] = s[i + 1] /\ i + 1 \in 1..Len(s)
        /\ Fences(s, n + 1) = f + 1
        /\ Fences(s, 0 + 1) = Fences(t, 0) + 1
    <2>1. n \in 0..n /\ 0 \in 0..n
      BY TailOfEdges
    <2> QED BY <2>1, TailOfEdges, EdgesFacts
  <1>2. f \in Nat /\ Fences(s, Len(s)) = f + 1 /\ Fences(s, 1) = 1 /\ 1 \in 1..Len(s)
    <2>1. f \in Nat /\ Fences(t, 0) = 0
      BY <1>1, FencesCount
    <2> HIDE DEF f, t
    <2> QED BY <1>1, <2>1
  <1>3. FencesOf(s)[1] = [parentID |-> s[1].parentID, before |-> {}]
    <2>1. FencePosition(s, 1) = 1
      BY <1>1, <1>2, PositionFacts
    <2>2. 1 \in 1..Fences(s, Len(s))
      BY <1>2
    <2>3. FencesOf(s)[1] = Entry(s, 1)
      BY <1>1, <2>1, <2>2, FencesOfFacts
    <2>4. KeysBefore(s, 1) = {}
      BY <1>1 DEF KeysBefore
    <2> QED BY <2>3, <2>4 DEF Entry
  <1>4. /\ FencesOf(s) \in Seq(FenceEntry) /\ Len(FencesOf(s)) = f + 1
        /\ FencesOf(t) \in Seq(FenceEntry) /\ Len(FencesOf(t)) = f
    BY <1>1, <1>2, FencesOfFacts
  <1>5. FencesOf(s) # <<>> /\ Head(FencesOf(s)) = FencesOf(s)[1]
    BY <1>2, <1>4
  <1>6. PendingOf(t) = PendingOf(s)
    <2> HIDE DEF t
    <2>1. ASSUME NEW k \in DOMAIN PendingOf(t)
          PROVE  k \in DOMAIN PendingOf(s) /\ PendingOf(t)[k] = PendingOf(s)[k]
      <3>1. PICK i \in 1..n : ~IsFence(t[i]) /\ k = Key(t[i])
        BY <1>1, PendingFacts
      <3>2. i + 1 \in 1..Len(s) /\ t[i] = s[i + 1]
        BY <1>1
      <3>3. PendingOf(t)[k] = t[i].childIDs
        BY <1>1, <3>1, PendingFacts
      <3>4. k \in DOMAIN PendingOf(s) /\ PendingOf(s)[k] = s[i + 1].childIDs
        BY <3>1, <3>2, PendingFacts
      <3> QED BY <3>2, <3>3, <3>4
    <2>2. ASSUME NEW k \in DOMAIN PendingOf(s)
          PROVE  k \in DOMAIN PendingOf(t)
      <3>1. PICK i \in 1..Len(s) : ~IsFence(s[i]) /\ k = Key(s[i])
        BY PendingFacts
      <3>2. i - 1 \in 1..n /\ (i - 1) + 1 = i
        BY <1>1, <3>1
      <3>3. t[i - 1] = s[i]
        BY <1>1, <3>2
      <3> QED BY <1>1, <3>1, <3>2, <3>3, PendingFacts
    <2>3. PendingOf(t) = [k \in DOMAIN PendingOf(t) |-> PendingOf(t)[k]]
          /\ PendingOf(s) = [k \in DOMAIN PendingOf(s) |-> PendingOf(s)[k]]
      BY <1>1, PendingFacts
    <2>4. DOMAIN PendingOf(t) = DOMAIN PendingOf(s)
      BY <2>1, <2>2
    <2> QED BY <2>1, <2>3, <2>4
  <1>7. ASSUME NEW m \in 1..f
        PROVE  FencesOf(t)[m] = FencesOf(s)[m + 1]
    <2>1. m \in 1..Fences(Tail(s), Len(Tail(s)))
      BY <1>2
    <2>2. /\ FencesOf(t)[m].parentID = FencesOf(s)[m + 1].parentID
          /\ FencesOf(t)[m].before = FencesOf(s)[m + 1].before \ {}
          /\ FencesOf(t)[m] \in FenceEntry /\ FencesOf(s)[m + 1] \in FenceEntry
      BY <2>1, MarksOfTail
    <2> HIDE DEF t
    <2> QED BY <2>2 DEF FenceEntry
  <1>8. FencesOf(t) = Tail(FencesOf(s))
    <2> HIDE DEF t, f
    <2>1. /\ Tail(FencesOf(s)) \in Seq(FenceEntry) /\ Len(Tail(FencesOf(s))) = f
          /\ \A m \in 1..f : Tail(FencesOf(s))[m] = FencesOf(s)[m + 1]
      BY <1>2, <1>4, <1>5
    <2>2. FencesOf(t) \in [1..f -> FenceEntry] /\ Tail(FencesOf(s)) \in [1..f -> FenceEntry]
      BY <1>4, <2>1, SeqIsFunction
    <2> QED BY <1>7, <2>1, <2>2
  <1> QED BY <1>3, <1>5, <1>6, <1>8

\* Nothing is pending in an empty queue.
LEMMA NothingQueued ==
  /\ <<>> \in Edges
  /\ PendingOf(<<>>) = <<>>
  /\ FencesOf(<<>>) = <<>>
  <1> DEFINE s == <<>>
  <1>1. s \in Edges /\ s \in Seq(Edge) /\ Len(s) = 0
    BY DEF Edges, Unique
  <1> HIDE DEF s
  <1>2. KeysBefore(s, Len(s) + 1) = {}
    BY <1>1, PendingFacts
  <1>3. PendingOf(s) = [key \in {} |-> EdgeWithKey(s, key).childIDs]
    BY <1>2 DEF PendingOf
  <1>4. PendingOf(s) = <<>>
    BY <1>3
  <1>5. FencesOf(s) \in Seq(FenceEntry) /\ Len(FencesOf(s)) = 0
    BY <1>1, FencesCount, FencesOfFacts
  <1> QED BY <1>1, <1>4, <1>5 DEF s

(* The states.  The edges that are queued form such a queue; a mark has no  *)
(* children, whether it is queued or received.                              *)

Bare(e) == e # NoEdge /\ IsFence(e) => e.childIDs = {}

MarksBare == Bare(val) /\ \A a \in Addr : Bare(heap[a])

QueuedOf(q, h) == [i \in DOMAIN q |-> h[q[i]]]

LEMMA QueuedFacts ==
  ASSUME TypeOK, QueueOK, IndexOK
  PROVE  /\ queued \in Edges
         /\ queued \in Seq(Edge) /\ Len(queued) = Len(queue) /\ Len(queue) \in Nat
         /\ DOMAIN queue = 1..Len(queue) /\ DOMAIN queued = 1..Len(queue)
         /\ \A i \in 1..Len(queue) : queued[i] = heap[queue[i]] /\ queue[i] \in Addr
         /\ queued = <<>> <=> queue = <<>>
  <1> DEFINE n == Len(queue)
             s == queued
  <1>1. /\ n \in Nat /\ DOMAIN queue = 1..n
        /\ \A i \in 1..n : queue[i] \in Addr /\ heap[queue[i]] \in Edge
    BY CountType
  <1>2. s = [i \in 1..n |-> heap[queue[i]]]
    BY <1>1 DEF queued
  <1> HIDE DEF n, s
  <1>3. s \in Seq(Edge) /\ Len(s) = n
    BY <1>1, <1>2
  <1>4. ASSUME NEW i \in 1..n, NEW j \in 1..n, ~IsFence(s[i]), Key(s[i]) = Key(s[j])
        PROVE  i = j
    <2>1. /\ s[i] = heap[queue[i]] /\ s[j] = heap[queue[j]] /\ s[i] \in Edge /\ s[j] \in Edge
          /\ s[i].kind = s[j].kind /\ s[i].parentID = s[j].parentID
          /\ s[i] # NoEdge /\ s[j] # NoEdge
      BY <1>1, <1>2, <1>4, EdgeIsNotNoEdge DEF Key
    <2>2. s[i].kind \in {"authorEdge", "workEdge"} /\ s[i].parentID \in Parents
      BY <1>4, <2>1 DEF Edge, Kinds, IsFence
    <2>3. queue[i] = queue[j]
      <3>1. CASE s[i].kind = "authorEdge"
        <4>1. PICK p \in Parents : p = s[i].parentID
          BY <2>2
        <4>2. \A a \in Addr : heap[a] # NoEdge /\ heap[a].kind = "authorEdge" /\ heap[a].parentID = p
                             => authors[p] = a
          BY DEF IndexOK
        <4>3. authors[p] = queue[i]
          BY <1>1, <2>1, <3>1, <4>1, <4>2
        <4>4. authors[p] = queue[j]
          BY <1>1, <2>1, <3>1, <4>1, <4>2
        <4> QED BY <4>3, <4>4
      <3>2. CASE s[i].kind = "workEdge"
        <4>1. PICK p \in Parents : p = s[i].parentID
          BY <2>2
        <4>2. \A a \in Addr : heap[a] # NoEdge /\ heap[a].kind = "workEdge" /\ heap[a].parentID = p
                             => works[p] = a
          BY DEF IndexOK
        <4>3. works[p] = queue[i]
          BY <1>1, <2>1, <3>2, <4>1, <4>2
        <4>4. works[p] = queue[j]
          BY <1>1, <2>1, <3>2, <4>1, <4>2
        <4> QED BY <4>3, <4>4
      <3> QED BY <2>2, <3>1, <3>2
    <2> QED BY <1>1, <2>3 DEF QueueOK
  <1>5. s \in Edges
    BY <1>3, <1>4 DEF Edges, Unique
  <1>6. s = <<>> <=> queue = <<>>
    <2>1. s = <<>> <=> n = 0
      BY <1>1, <1>3
    <2>2. queue = <<>> <=> n = 0
      BY DEF TypeOK, n
    <2> QED BY <2>1, <2>2
  <1> QED BY <1>1, <1>2, <1>3, <1>5, <1>6 DEF n, s

\* A merge through the index is what the promise calls accepting.
LEMMA MergeAccepts ==
  ASSUME TypeOK, QueueOK, IndexOK, MarksBare, NEW e \in Edge, Merge(e)
  PROVE  QueuedOf(queue', heap') = Accepted(queued, e) /\ \A a \in Addr : Bare(heap'[a])
  <1> DEFINE a == Existing(e)
             n == Len(queue)
  <1>1. a \in Addr
    BY DEF Merge, Existing, TypeOK, Edge, Kinds
  <1>2. /\ heap[a] # NoEdge /\ heap[a].kind = e.kind /\ heap[a].parentID = e.parentID
        /\ e.kind \in {"authorEdge", "workEdge"}
    BY <1>1 DEF Merge, Existing, IndexOK, Edge, Kinds
  <1>3. heap[a] \in Edge
    BY <1>1, <1>2 DEF TypeOK
  <1>4. heap' = [heap EXCEPT ![a] = [heap[a] EXCEPT !.childIDs = heap[a].childIDs \union e.childIDs]]
        /\ queue' = queue
    BY DEF Merge
  <1> HIDE DEF a, n
  <1>5. PICK k \in 1..n : queue[k] = a
    BY <1>1, <1>2, CountType DEF QueueOK, n
  <1>6. /\ n \in Nat /\ DOMAIN queue = 1..n /\ DOMAIN queued = 1..n /\ queued \in Edges /\ Len(queued) = n
        /\ \A i \in 1..n : queued[i] = heap[queue[i]] /\ queue[i] \in Addr
    BY QueuedFacts DEF n
  <1>7. SameKey(queued[k], e) /\ ~IsFence(e) /\ ~IsFence(queued[k])
    BY <1>2, <1>5, <1>6 DEF SameKey, IsFence
  <1>8. ASSUME NEW i \in 1..n
        PROVE  heap'[queue[i]] = IF SameKey(queued[i], e)
                                 THEN [queued[i] EXCEPT !.childIDs = @ \union e.childIDs]
                                 ELSE queued[i]
    <2>1. CASE i = k
      BY <1>1, <1>4, <1>5, <1>6, <1>7, <2>1 DEF TypeOK
    <2>2. CASE i # k
      <3>1. ~SameKey(queued[i], e)
        <4>1. SameKey(queued[i], e) => Key(queued[k]) = Key(queued[i])
          BY <1>7 DEF SameKey, Key
        <4> QED BY <1>6, <1>7, <2>2, <4>1, EdgesFacts
      <3>2. queue[i] # a
        BY <1>5, <1>6, <2>2 DEF QueueOK
      <3>3. heap'[queue[i]] = heap[queue[i]]
        BY <1>1, <1>4, <1>6, <3>2 DEF TypeOK
      <3> QED BY <1>6, <3>1, <3>3
    <2> QED BY <2>1, <2>2
  <1>9. Accepted(queued, e)
          = [i \in 1..n |-> IF SameKey(queued[i], e)
                            THEN [queued[i] EXCEPT !.childIDs = @ \union e.childIDs]
                            ELSE queued[i]]
    BY <1>6, <1>7 DEF Accepted
  <1>10. QueuedOf(queue', heap') = [i \in 1..n |-> heap'[queue[i]]]
    BY <1>4, <1>6 DEF QueuedOf
  <1>11. \A b \in Addr : Bare(heap'[b])
    <2> TAKE b \in Addr
    <2>1. CASE b = a
      <3>1. heap'[b].kind = e.kind
        BY <1>1, <1>2, <1>3, <1>4, <2>1 DEF TypeOK, Edge
      <3> QED BY <1>2, <3>1 DEF Bare, IsFence
    <2>2. CASE b # a
      <3>1. heap'[b] = heap[b]
        BY <1>1, <1>4, <2>2 DEF TypeOK
      <3> QED BY <3>1 DEF MarksBare
    <2> QED BY <2>1, <2>2
  <1> QED BY <1>8, <1>9, <1>10, <1>11

\* So is a new pointer at the end of the queue: no queued edge has the key.
LEMMA EnqueueAccepts ==
  ASSUME TypeOK, QueueOK, IndexOK, MarksBare, NEW e \in Edge, Bare(e), Enqueue(e)
  PROVE  QueuedOf(queue', heap') = Accepted(queued, e) /\ \A a \in Addr : Bare(heap'[a])
  <1> DEFINE n == Len(queue)
  <1>1. PICK a \in Addr : /\ heap[a] = NoEdge
                          /\ heap' = [heap EXCEPT ![a] = e]
                          /\ queue' = Append(queue, a)
    BY DEF Enqueue
  <1>2. Existing(e) = Nil
    BY DEF Enqueue
  <1>3. /\ n \in Nat /\ DOMAIN queue = 1..n /\ DOMAIN queued = 1..n /\ queued \in Edges /\ Len(queued) = n
        /\ queued \in Seq(Edge)
        /\ \A i \in 1..n : queued[i] = heap[queue[i]] /\ queue[i] \in Addr
    BY QueuedFacts
  <1>4. ASSUME ~IsFence(e), NEW i \in 1..n, SameKey(queued[i], e)
        PROVE  FALSE
    <2>1. queued[i] \in Edge /\ queued[i] # NoEdge
      BY <1>3, EdgesFacts, EdgeIsNotNoEdge
    <2>2. e.kind \in {"authorEdge", "workEdge"} /\ e.parentID \in Parents
      BY <1>4 DEF Edge, Kinds, IsFence
    <2>3. queue[i] = Nil
      <3>1. CASE e.kind = "authorEdge"
        <4>1. authors[e.parentID] = queue[i]
          BY <1>3, <1>4, <2>1, <2>2, <3>1 DEF IndexOK, SameKey
        <4> QED BY <1>2, <3>1, <4>1 DEF Existing
      <3>2. CASE e.kind = "workEdge"
        <4>1. works[e.parentID] = queue[i]
          BY <1>3, <1>4, <2>1, <2>2, <3>2 DEF IndexOK, SameKey
        <4> QED BY <1>2, <3>2, <4>1 DEF Existing
      <3> QED BY <2>2, <3>1, <3>2
    <2> QED BY <1>3, <2>3, EdgeIsNotNoEdge
  <1>5. Accepted(queued, e) = Append(queued, e)
    BY <1>3, <1>4 DEF Accepted
  <1>6. Append(queued, e) = [i \in 1..(n + 1) |-> IF i = n + 1 THEN e ELSE queued[i]]
    BY <1>3, AppendIs
  <1>7. queue' = [i \in 1..(n + 1) |-> IF i = n + 1 THEN a ELSE queue[i]]
    BY <1>1, AppendIs DEF TypeOK
  <1>8. \A b \in Addr : heap'[b] = IF b = a THEN e ELSE heap[b]
    BY <1>1 DEF TypeOK
  <1>9. \A i \in 1..n : queue[i] # a
    <2>1. \A i \in 1..n : heap[queue[i]] # NoEdge
      BY CountType, EdgeIsNotNoEdge
    <2> QED BY <1>1, <2>1
  <1>10. QueuedOf(queue', heap') = [i \in 1..(n + 1) |-> IF i = n + 1 THEN e ELSE queued[i]]
    <2>1. QueuedOf(queue', heap') = [i \in 1..(n + 1) |-> heap'[queue'[i]]]
      BY <1>7 DEF QueuedOf
    <2>2. ASSUME NEW i \in 1..(n + 1)
          PROVE  heap'[queue'[i]] = IF i = n + 1 THEN e ELSE queued[i]
      <3>1. CASE i = n + 1
        BY <1>7, <1>8, <3>1
      <3>2. CASE i # n + 1
        <4>1. i \in 1..n
          BY <1>3, <3>2
        <4> QED BY <1>3, <1>7, <1>8, <1>9, <3>2, <4>1
      <3> QED BY <3>1, <3>2
    <2> QED BY <2>1, <2>2
  <1>11. \A b \in Addr : Bare(heap'[b])
    BY <1>8 DEF MarksBare
  <1> QED BY <1>5, <1>6, <1>10, <1>11

\* And a pop only drops the oldest edge.
LEMMA PopDrops ==
  ASSUME TypeOK, QueueOK, IndexOK, MarksBare, pop
  PROVE  QueuedOf(queue', heap') = Tail(queued) /\ \A a \in Addr : Bare(heap'[a])
  <1> DEFINE n == Len(queue)
             a == Head(queue)
  <1>1. /\ queue # <<>> /\ queue' = Tail(queue)
        /\ heap' = [heap EXCEPT ![a] = NoEdge]
    BY DEF pop
  <1>2. /\ n \in Nat \ {0} /\ a = queue[1] /\ a \in Addr
        /\ DOMAIN queue' = 1..(n - 1)
        /\ \A i \in 1..(n - 1) : queue'[i] = queue[i + 1]
    BY <1>1, TailFacts DEF TypeOK
  <1>3. /\ queued \in Seq(Edge) /\ queued # <<>> /\ Len(queued) = n
        /\ \A i \in 1..n : queued[i] = heap[queue[i]] /\ queue[i] \in Addr
        /\ DOMAIN queue = 1..n
    BY <1>1, QueuedFacts
  <1> HIDE DEF n, a
  <1>4. Tail(queued) \in [1..(n - 1) -> Edge] /\ \A i \in 1..(n - 1) : Tail(queued)[i] = queued[i + 1]
    <2>1. Tail(queued) \in Seq(Edge) /\ Len(Tail(queued)) = n - 1
          /\ \A i \in 1..(n - 1) : Tail(queued)[i] = queued[i + 1]
      BY <1>2, <1>3
    <2> QED BY <2>1, SeqIsFunction
  <1>5. \A i \in 1..(n - 1) : heap'[queue'[i]] = queued[i + 1]
    <2> TAKE i \in 1..(n - 1)
    <2>1. i + 1 \in 1..n /\ 1 \in 1..n /\ i + 1 # 1
      BY <1>2
    <2>2. queue[i + 1] # a /\ queue[i + 1] \in Addr
      BY <1>2, <1>3, <2>1 DEF QueueOK
    <2>3. heap'[queue[i + 1]] = heap[queue[i + 1]]
      BY <1>1, <1>2, <2>2 DEF TypeOK
    <2> QED BY <1>2, <1>3, <2>1, <2>3
  <1>6. QueuedOf(queue', heap') = [i \in 1..(n - 1) |-> heap'[queue'[i]]]
    BY <1>2 DEF QueuedOf
  <1>7. QueuedOf(queue', heap') = Tail(queued)
    BY <1>4, <1>5, <1>6
  <1>8. \A b \in Addr : Bare(heap'[b])
    <2>1. \A b \in Addr : heap'[b] = NoEdge \/ heap'[b] = heap[b]
      BY <1>1, <1>2 DEF TypeOK
    <2> QED BY <2>1 DEF MarksBare, Bare
  <1> QED BY <1>7, <1>8

\* Pushing what was received and popping what was sent is none of the loop's business, and
\* neither is peeking.
LEMMA StillContents ==
  ASSUME Inv, MarksBare, Push \/ Pop \/ Peek \/ CloseProducer \/ UNCHANGED vars
  PROVE  /\ MarksBare' /\ contents' = contents /\ handling' = handling
         /\ (pc' = "stopped") = (pc = "stopped")
  <1>1. TypeOK /\ QueueOK /\ IndexOK /\ PeekedOK
    BY DEF Inv
  <1>2. queued' = QueuedOf(queue', heap')
    BY DEF queued, QueuedOf
  <1>3. CASE Push
    <2>1. val \in Edge /\ Bare(val)
      BY <1>1, <1>3 DEF Push, PeekedOK, TypeOK, MarksBare
    <2>2. queued' = Accepted(queued, val) /\ \A a \in Addr : Bare(heap'[a])
      BY <1>1, <1>2, <1>3, <2>1, MergeAccepts, EnqueueAccepts DEF Push, push
    <2>3. pc = "push" /\ pc' = "peek" /\ val' = NoEdge /\ handling' = handling
      BY <1>3 DEF Push
    <2>4. MarksBare'
      BY <2>2, <2>3 DEF MarksBare, Bare
    <2>5. contents = Accepted(queued, val) /\ contents' = queued'
      BY <2>3 DEF contents
    <2> QED BY <2>2, <2>3, <2>4, <2>5
  <1>4. CASE Pop
    <2>1. queued' = Tail(queued) /\ \A a \in Addr : Bare(heap'[a])
      BY <1>1, <1>2, <1>4, PopDrops DEF Pop
    <2>2. pc = "pop" /\ pc' = "peek" /\ val' = val /\ handling' = handling
      BY <1>4 DEF Pop
    <2>3. MarksBare'
      BY <2>1, <2>2 DEF MarksBare
    <2>4. contents = Tail(queued) /\ contents' = queued'
      BY <2>2 DEF contents
    <2> QED BY <2>1, <2>2, <2>3, <2>4
  <1>5. CASE Peek \/ CloseProducer \/ UNCHANGED vars
    <2>1. /\ UNCHANGED <<queue, heap>> /\ val' = val /\ handling' = handling
          /\ pc' = pc \/ (pc = "peek" /\ pc' = "select")
      BY <1>5 DEF Peek, CloseProducer, vars, bufVars
    <2>2. MarksBare' /\ queued' = queued
      BY <2>1 DEF MarksBare, queued
    <2>3. contents' = contents /\ (pc' = "stopped") = (pc = "stopped")
      BY <2>1, <2>2 DEF contents
    <2> QED BY <2>1, <2>2, <2>3
  <1> QED BY <1>3, <1>4, <1>5

\* Receiving accepts an edge, and sending gives the oldest.
LEMMA ReceiveContents ==
  ASSUME MarksBare, NEW e \in SentEdge, Receive(e)
  PROVE  /\ MarksBare' /\ e \in Edge /\ (IsFence(e) => e.childIDs = {})
         /\ pc = "select" /\ pc' = "push" /\ handling' = handling
         /\ contents = queued /\ contents' = Accepted(queued, e)
  <1>1. /\ e \in Edge /\ Bare(e) /\ e # NoEdge
        /\ UNCHANGED <<queue, heap>> /\ val' = e /\ pc = "select" /\ pc' = "push"
        /\ handling' = handling
    BY EdgeIsNotNoEdge DEF Receive, bufVars, SentEdge, Bare, IsFence
  <1>2. MarksBare' /\ queued' = queued
    BY <1>1 DEF MarksBare, queued
  <1>3. contents = queued /\ contents' = Accepted(queued, e)
    BY <1>1, <1>2 DEF contents
  <1> QED BY <1>1, <1>2, <1>3 DEF Bare

LEMMA SendContents ==
  ASSUME Inv, MarksBare, Send
  PROVE  /\ MarksBare' /\ next \in Edge /\ (IsFence(next) => next.childIDs = {})
         /\ pc = "select" /\ pc' = "pop" /\ handling = NoEdge /\ handling' = next
         /\ queued # <<>> /\ queued[1] = next
         /\ contents = queued /\ contents' = Tail(queued)
  <1>1. TypeOK /\ QueueOK /\ IndexOK /\ PeekedOK
    BY DEF Inv
  <1>2. /\ UNCHANGED <<queue, heap>> /\ val' = val /\ pc = "select" /\ pc' = "pop"
        /\ handling = NoEdge /\ handling' = next /\ next # NoEdge
    BY DEF Send, bufVars
  <1>3. MarksBare' /\ queued' = queued
    BY <1>2 DEF MarksBare, queued
  <1>4. next = heap[Head(queue)] /\ queue # <<>> /\ Head(queue) \in Addr /\ heap[Head(queue)] \in Edge
    BY <1>1, <1>2, PeekType DEF PeekedOK
  <1>5. queued # <<>> /\ queued[1] = next
    <2>1. Head(queue) = queue[1] /\ 1 \in DOMAIN queue
      BY <1>1, <1>4, TailFacts DEF TypeOK
    <2> QED BY <1>1, <1>4, <2>1, QueuedFacts DEF queued
  <1>6. contents = queued /\ contents' = Tail(queued)
    BY <1>2, <1>3 DEF contents
  <1>7. next \in Edge /\ (IsFence(next) => next.childIDs = {})
    BY <1>4, EdgeIsNotNoEdge DEF MarksBare, Bare
  <1> QED BY <1>2, <1>3, <1>5, <1>6, <1>7

\* The producer being closed drops what is left; the loop being done changes nothing else.
LEMMA StopContents ==
  ASSUME MarksBare, Stop
  PROVE  /\ MarksBare' /\ contents' = <<>> /\ handling' = handling
         /\ pc = "select" /\ pc' = "stopped"
  BY DEF Stop, bufVars, MarksBare, contents

LEMMA HandledContents ==
  ASSUME MarksBare, Handled
  PROVE  /\ MarksBare' /\ contents' = contents /\ pc' = pc
         /\ handling # NoEdge /\ handling' = NoEdge
  <1>1. /\ UNCHANGED <<queue, heap>> /\ val' = val /\ pc' = pc
        /\ handling # NoEdge /\ handling' = NoEdge
    BY DEF Handled, bufVars
  <1>2. MarksBare' /\ queued' = queued
    BY <1>1 DEF MarksBare, queued
  <1> QED BY <1>1, <1>2 DEF contents

\* Every step of the buffer is the queue's, or is none of its business.
LEMMA NextKeepsOrder ==
  ASSUME Inv, MarksBare, [Next]_vars
  PROVE  MarksBare' /\ [Queue!Next]_(Queue!vars)
  <1>1. CASE Push \/ Pop \/ Peek \/ CloseProducer \/ UNCHANGED vars
    BY <1>1, StillContents DEF Queue!vars
  <1>2. ASSUME NEW e \in SentEdge, Receive(e)
        PROVE  MarksBare' /\ Queue!Next
    <2>1. /\ MarksBare' /\ e \in Edge /\ (IsFence(e) => e.childIDs = {})
          /\ pc = "select" /\ pc' = "push" /\ handling' = handling
          /\ contents' = Accepted(contents, e)
      BY <1>2, ReceiveContents
    <2>2. Queue!Accepted(contents, e) = Accepted(contents, e)
      BY DEF Queue!Accepted, Queue!IsFence, Queue!SameKey, Accepted, IsFence, SameKey
    <2>3. Queue!Accept(e)
      BY <2>1, <2>2 DEF Queue!Accept, Queue!IsFence, IsFence
    <2> QED BY <2>1, <2>3 DEF Queue!Next, Queue!Edge, Edge, Kinds
  <1>3. CASE Send
    <2>1. /\ MarksBare' /\ pc = "select" /\ pc' = "pop" /\ handling = NoEdge /\ handling' = next
          /\ contents # <<>> /\ contents[1] = next /\ contents' = Tail(contents)
      BY <1>3, SendContents
    <2>2. contents \in Seq(Edge)
      BY <1>3, SendContents, QueuedFacts DEF Inv
    <2>3. Queue!Deliver
      BY <2>1, <2>2 DEF Queue!Deliver
    <2> QED BY <2>1, <2>3 DEF Queue!Next
  <1>4. CASE Stop
    BY <1>4, StopContents DEF Queue!Next, Queue!Close
  <1>5. CASE Handled
    BY <1>5, HandledContents DEF Queue!Next, Queue!Handled
  <1> QED BY <1>1, <1>2, <1>3, <1>4, <1>5 DEF Next, Accumulate

\* Every step of the buffer is the promise's, or is none of its business.
LEMMA NextKeepsPromise ==
  ASSUME Inv, MarksBare, [Next]_vars
  PROVE  [Promise!Next]_(Promise!vars)
  <1>1. queued \in Edges
    BY QueuedFacts DEF Inv
  <1>2. CASE Push \/ Pop \/ Peek \/ CloseProducer \/ UNCHANGED vars
    <2>1. contents' = contents /\ handling' = handling /\ (pc' = "stopped") = (pc = "stopped")
      BY <1>2, StillContents
    <2>2. PendingOf(contents)' = PendingOf(contents) /\ FencesOf(contents)' = FencesOf(contents)
      BY <2>1
    <2> QED BY <2>1, <2>2 DEF Promise!vars
  <1>3. ASSUME NEW e \in SentEdge, Receive(e)
        PROVE  Promise!Next
    <2>1. /\ e \in Edge
          /\ pc = "select" /\ pc' = "push" /\ handling' = handling
          /\ contents = queued /\ contents' = Accepted(queued, e)
      BY <1>3, ReceiveContents
    <2>2. CASE IsFence(e)
      <3>1. Accepted(queued, e) = Append(queued, e)
        BY <2>2 DEF Accepted
      <3>2. /\ PendingOf(contents') = PendingOf(contents)
            /\ FencesOf(contents')
                 = Append(FencesOf(contents), [parentID |-> e.parentID, before |-> DOMAIN PendingOf(contents)])
        BY <1>1, <2>1, <2>2, <3>1, TakeMark
      <3>3. Promise!AcceptFence(e)
        BY <2>1, <2>2, <3>2 DEF Promise!AcceptFence, Promise!IsFence, IsFence
      <3> QED BY <2>1, <3>3 DEF Promise!Next, Promise!Edge, Promise!Kinds, Edge, Kinds
    <2>3. CASE ~IsFence(e)
      <3>1. /\ FencesOf(contents') = FencesOf(contents)
            /\ PendingOf(contents') = [key \in DOMAIN PendingOf(contents) \union {Key(e)} |->
                 (IF key \in DOMAIN PendingOf(contents) THEN PendingOf(contents)[key] ELSE {})
                 \union (IF key = Key(e) THEN e.childIDs ELSE {})]
        <4>1. queued \in Edges /\ e \in Edge /\ ~IsFence(e)
          BY <1>1, <2>1, <2>3
        <4>2. /\ FencesOf(Accepted(queued, e)) = FencesOf(queued)
              /\ PendingOf(Accepted(queued, e)) = [key \in DOMAIN PendingOf(queued) \union {Key(e)} |->
                   (IF key \in DOMAIN PendingOf(queued) THEN PendingOf(queued)[key] ELSE {})
                   \union (IF key = Key(e) THEN e.childIDs ELSE {})]
          BY <4>1, TakeEdge
        <4>3. contents' = Accepted(queued, e) /\ contents = queued
          BY <2>1
        <4> QED BY <4>2, <4>3, Zenon
      <3>2. Promise!AcceptEdge(e)
        BY <2>1, <2>3, <3>1
        DEF Promise!AcceptEdge, Promise!IsFence, Promise!ChildrenOf, Promise!Key, IsFence, Key
      <3> QED BY <2>1, <3>2 DEF Promise!Next, Promise!Edge, Promise!Kinds, Edge, Kinds
    <2> QED BY <2>2, <2>3
  <1>4. CASE Send
    <2>1. /\ next \in Edge /\ (IsFence(next) => next.childIDs = {})
          /\ pc = "select" /\ pc' = "pop" /\ handling = NoEdge /\ handling' = next
          /\ queued # <<>> /\ queued[1] = next
          /\ contents = queued /\ contents' = Tail(queued)
      BY <1>4, SendContents
    <2>2. CASE IsFence(next)
      <3>1. /\ FencesOf(contents) # <<>>
            /\ Head(FencesOf(contents)) = [parentID |-> next.parentID, before |-> {}]
            /\ PendingOf(contents') = PendingOf(contents)
            /\ FencesOf(contents') = Tail(FencesOf(contents))
        BY <1>1, <2>1, <2>2, GiveMark
      <3>2. next = [kind |-> "refreshDone", parentID |-> next.parentID, childIDs |-> {}]
        BY <2>1, <2>2 DEF Edge, IsFence
      <3>3. Promise!DeliverFence
        BY <2>1, <3>1, <3>2 DEF Promise!DeliverFence
      <3> QED BY <3>3 DEF Promise!Next
    <2>3. CASE ~IsFence(next)
      <3> DEFINE key == Key(next)
      <3>1. /\ key \in DOMAIN PendingOf(contents)
            /\ PendingOf(contents)[key] = next.childIDs
            /\ PendingOf(contents')
                 = [k \in DOMAIN PendingOf(contents) \ {key} |-> PendingOf(contents)[k]]
            /\ FencesOf(contents')
                 = [i \in DOMAIN FencesOf(contents) |->
                      [FencesOf(contents)[i] EXCEPT !.before = @ \ {key}]]
        BY <1>1, <2>1, <2>3, GiveEdge
      <3>2. key[1] = next.kind /\ key[2] = next.parentID
        BY DEF Key
      <3>3. next = [kind |-> key[1], parentID |-> key[2], childIDs |-> PendingOf(contents)[key]]
        BY <2>1, <3>1, <3>2 DEF Edge
      <3> HIDE DEF key
      <3>4. Promise!DeliverEdge(key)
        BY <2>1, <3>1, <3>3 DEF Promise!DeliverEdge
      <3> QED BY <3>1, <3>4 DEF Promise!Next
    <2> QED BY <2>2, <2>3
  <1>5. CASE Stop
    <2>1. contents' = <<>> /\ handling' = handling /\ pc = "select" /\ pc' = "stopped"
      BY <1>5, StopContents
    <2>2. Promise!Close
      BY <2>1, NothingQueued DEF Promise!Close
    <2> QED BY <2>2 DEF Promise!Next
  <1>6. CASE Handled
    <2>1. contents' = contents /\ pc' = pc /\ handling # NoEdge /\ handling' = NoEdge
      BY <1>6, HandledContents
    <2>2. Promise!Handled
      BY <2>1 DEF Promise!Handled
    <2> QED BY <2>2 DEF Promise!Next
  <1> QED BY <1>2, <1>3, <1>4, <1>5, <1>6 DEF Next, Accumulate

\* The buffer starts with nothing queued.
LEMMA InitContents ==
  ASSUME Init
  PROVE  MarksBare /\ contents = <<>>
  <1>1. MarksBare
    BY DEF Init, MarksBare, Bare
  <1>2. contents = queued
    BY DEF Init, contents
  <1> QED BY <1>1, <1>2, InitInv, QueuedFacts DEF Init, Inv

\* For any parents, children and pointers, the buffer with its separate steps of receiving
\* and pushing, sending and popping, behaves to its users as a queue that has neither.
THEOREM ImplementsEdgeQueue == Spec => KeepsOrder
  <1>1. Init => MarksBare /\ Queue!Init
    BY InitContents DEF Init, Queue!Init
  <1>2. Inv /\ MarksBare /\ [Next]_vars => MarksBare' /\ [Queue!Next]_(Queue!vars)
    BY NextKeepsOrder
  <1> QED BY <1>1, <1>2, SpecInv, PTL DEF Spec, KeepsOrder, Queue!Spec

\* For any parents, children and pointers, the buffer keeps its promise to the
\* controller: it loses, invents and splits no relationship, and a refreshDone never
\* overtakes one accepted before it.
THEOREM ImplementsPendingEdges == Spec => KeepsPromise
  <1>1. Init => MarksBare /\ Promise!Init
    BY InitContents, NothingQueued DEF Init, Promise!Init
  <1>2. Inv /\ MarksBare /\ [Next]_vars => MarksBare' /\ [Promise!Next]_(Promise!vars)
    BY NextKeepsOrder, NextKeepsPromise
  <1> QED BY <1>1, <1>2, SpecInv, PTL DEF Spec, KeepsPromise, Promise!Spec
=============================================================================
