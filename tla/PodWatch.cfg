CONSTANTS
  p1 = p1
  n1 = n1
  n2 = n2
  Pods = {p1}
  Nodes = {n1, n2}
  Level <- Levels
  Nobody = nobody
  Main = main
  Free = free
SPECIFICATION FairSpec
INVARIANTS
  TypeOK
  PodsExact
  TwoAlerts
  FairShare
PROPERTIES
  RegistryGoesOn
  ReportTaken
CHECK_DEADLOCK FALSE
