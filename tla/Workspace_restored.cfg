SPECIFICATION Spec
CONSTANTS
  a1 = a1
  a2 = a2
  b1 = b1
  Requests <- ThreeRequests
  Session <- TwoSessions
  Boxes = {1, 2}
  NoBox = NoBox
  NoOne = NoOne
  MaxRestarts = 0
  Scenarios <- Calm
SYMMETRY Symmetry
CHECK_DEADLOCK FALSE
INVARIANT RestoredIsServed
