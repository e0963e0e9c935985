CONSTANTS
  Watchers = {w1, w2}
  Outside = outside
  Ceiling = 2
  Edits <- MCEdits
  Steps = 2
SPECIFICATION FairSpec
INVARIANTS
  TypeOK
  Coherent
  WrittenOnce
  ConflictEarned
PROPERTIES
  CounterSpec
  CallReturns
