CONSTANTS
  d1 = d1
  s1 = s1
  Outside = outside
  Main = main
  Free = free
  Deployments = {d1}
  Statefulsets = {s1}
  Ceiling = 1
  Edits <- One
  Steps = 1
  Config <- ReportingConfig
  PodCounts <- One
  Horizon = 0
SPECIFICATION FairSpec
INVARIANTS
  StatefulsetsExact
  OneLockAtATime
PROPERTIES
  ReleaseUndisturbed
