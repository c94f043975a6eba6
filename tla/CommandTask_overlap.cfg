SPECIFICATION Spec
CONSTANTS
  t1 = t1
  t2 = t2
  k1 = k1
  k2 = k2
  Tasks <- TwoTasks
  Boxes = {1}
  NoBox = NoBox
  Killers <- TwoKills
  MaxCrashes = 0
  Scenarios <- Overlap
SYMMETRY KillSymmetry
CHECK_DEADLOCK FALSE
INVARIANT RunningIsProtected
