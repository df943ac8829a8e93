SPECIFICATION Spec
CONSTANTS
  q1 = q1
  q2 = q2
  q3 = q3
  Query <- ThreeQueries
  BatchSizes <- MCBatchSizes
  Document <- MCDocument
INVARIANT FailureReachesAll
CHECK_DEADLOCK FALSE
