CONSTANTS
  w1 = w1
  w2 = w2
  Outside = outside
  Main = main
  Free = free
  Watchers = {w1}
  Ceiling = 2
  Edits <- ScalingEdits
  Steps = 2
  Config <- ScalingConfig
  PodCounts <- ScalingPodCounts
  Horizon = 1
SPECIFICATION FairSpec
INVARIANTS
  TypeOK
  NoBothWays
  ReportHonest
PROPERTIES
  CoolsDown
  PassEnds
