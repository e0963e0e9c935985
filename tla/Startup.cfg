CONSTANTS
  x1 = x1
  Items = {x1}
SPECIFICATION FairSpec
PROPERTIES
  RoleAssigned
CHECK_DEADLOCK FALSE
