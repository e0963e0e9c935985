CONSTANTS
  w1 = w1
  w2 = w2
  Watchers = {w1}
  Outside = outside
  Main = main
  Free = free
  Ceiling = 10
  Edits <- One
  Steps = 5
  Config <- ExampleConfig
  PodCounts <- One
  Horizon = 1
SPECIFICATION FairSpec
PROPERTIES
  MaxReplicasKept
