SPECIFICATION AnySpec
CONSTANTS
  srv = srv
  high = high
  cli = cli
  Tools <- ThreeTools
  Kind <- ThreeKinds
  MaxIterations = 2
  MaxSteps = 3
  MaxFailures = 1
  s1 = s1
  s2 = s2
  c1 = c1
  c2 = c2
  NoContent = NoContent
  NoReceipt = NoReceipt
  Open = Open
SYMMETRY SameSession
CHECK_DEADLOCK FALSE
INVARIANT LoopInv
INVARIANT CallsRunOnce
INVARIANT CancelStopsWork
INVARIANT OutputsHold
INVARIANT ChunksHold
PROPERTY RunsOnlyApproved
PROPERTY RankedFairly
