SPECIFICATION FairSpec
CONSTANTS
  p1 = p1
  c1 = c1
  c2 = c2
  a1 = a1
  a2 = a2
  a3 = a3
  Parents <- OneParent
  Children <- MCChildren
  Addr <- MCAddr
  Nil = Nil
  NoEdge = NoEdge
INVARIANTS
  TypeOK
  BufferOK
  SizeOK
PROPERTIES KeepsPromise KeepsOrder EventuallyHandled
CHECK_DEADLOCK FALSE
