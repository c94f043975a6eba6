SPECIFICATION Spec
CONSTANTS
  Users = {1}
  Nobody = Nobody
  MaxBoxes = 3
  Target = 2
  MaxRetries = 1
  Scenarios <- Safety
CHECK_DEADLOCK FALSE
INVARIANT PoolInv
INVARIANT PoolBounded
PROPERTY NeverBack
