SPECIFICATION Spec
CONSTANTS
  Users = {1}
  Nobody = Nobody
  MaxBoxes = 2
  Target = 1
  MaxRetries = 1
  Scenarios <- Swap
CHECK_DEADLOCK FALSE
INVARIANT ForcedIsUnassigned
