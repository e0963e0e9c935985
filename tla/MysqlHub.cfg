CONSTANTS
  h1 = h1
  d1 = d1
  k1 = k1
  k2 = k2
  Hubs = {h1}
  Others = {d1}
  Kinds = {k1, k2}
  Limit = 2
  Batches = 2
SPECIFICATION FairSpec
INVARIANTS
  TypeOK
  RowsAccounted
  InOrder
PROPERTIES
  BatchEnds
  SetRoleEnds
CHECK_DEADLOCK FALSE
