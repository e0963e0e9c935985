CONSTANTS
  w1 = w1
  w2 = w2
  w3 = w3
  Workers = {w1, w2, w3}
  None = none
  NumJobs = 4
  QueueLen = 2
SPECIFICATION FairSpec
INVARIANTS
  TypeOK
  ReadyExact
PROPERTIES
  BatchSpec
  Returns
