CONSTANTS
  w1 = w1
  w2 = w2
  Outside = outside
  Main = main
  Free = free
  Watchers = {w1, w2}
  Ceiling = 1
  Edits <- One
  Steps = 1
  Config <- RegistryConfig
  PodCounts <- One
  Horizon = 0
SPECIFICATION FairSpec
INVARIANTS
  GroupsExact
  LatePassBound
PROPERTIES
  RegistrationEnds
  ReleaseEnds
