SPECIFICATION FairSpec
CONSTANTS
  q1 = q1
  q2 = q2
  q3 = q3
  Query <- ThreeQueries
  BatchSizes <- MCBatchSizes
  Document <- MCDocument
INVARIANTS
  TypeOK
  OnePlace
  AnsweredOnce
  BatchesOK
  EachItsOwn
PROPERTY EventuallyAnswered
CHECK_DEADLOCK FALSE
