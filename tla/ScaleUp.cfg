CONSTANTS
  w1 = w1
  w2 = w2
  Outside = outside
  Unset = unset
  Watchers = {w1, w2}
  Ceiling = 10
  Edits <- One
  Steps = 2
  Config <- MixedConfig
  Usages <- ExampleUsages
  Amounts <- One
SPECIFICATION Spec

  
PROPERTIES
  TakesNothingBack
