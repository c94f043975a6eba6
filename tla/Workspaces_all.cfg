SPECIFICATION AnySpec
CONSTANTS
  a1 = a1
  a2 = a2
  b1 = b1
  Requests <- ThreeRequests
  Session <- TwoSessions
  Boxes = {1, 2}
  NoBox = NoBox
  NoOne = NoOne
  MaxRestarts = 1
  Scenarios <- Scenes
  c1 = c1
  c2 = c2
  Calls <- TwoCalls
  Inputs <- SomeInputs
  Files <- FirstFiles
  Lstrip <- AtStart
  Rstrip <- AtEnd
  Foreign <- SomeForeign
  Kind <- KindOfName
  Attachments <- References
  Objects <- FirstObjects
  MaxBytes = 2
  Faults <- SomeFaults
SYMMETRY AllAlike
CHECK_DEADLOCK FALSE
INVARIANT BoxInv
INVARIANT NothingLost
INVARIANT TransfersAreWhole
INVARIANT FilesFound
