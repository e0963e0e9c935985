CONSTANTS
  c1 = c1
  c2 = c2
  c3 = c3
  k1 = k1
  k2 = k2
  Callers = {c1, c2, c3}
  Keys = {k1, k2}
  Logged = {1, 4}
  Names = {"unknown", "warn", "info"}
SYMMETRY Interchangeable
SPECIFICATION Spec
INVARIANTS
  TypeOK
  OrderExact
  LastKnown
  LevelRespected
PROPERTIES
  Settles
CHECK_DEADLOCK FALSE
