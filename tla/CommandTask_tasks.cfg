SPECIFICATION Spec
CONSTANTS
  t1 = t1
  t2 = t2
  k1 = k1
  k2 = k2
  Tasks <- TwoTasks
  Boxes = {1}
  NoBox = NoBox
  Killers <- OneKill
  MaxCrashes = 1
  Scenarios <- Scenes
SYMMETRY Symmetry
CHECK_DEADLOCK FALSE
INVARIANT TaskInv
INVARIANT NothingLeaked
INVARIANT WaiterWoken
INVARIANT TaskIsFollowed
PROPERTY TerminalIsFinal
