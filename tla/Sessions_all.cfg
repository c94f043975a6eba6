SPECIFICATION AnySpec
CONSTANTS
  t1 = t1
  t2 = t2
  p1 = p1
  p2 = p2
  c1 = c1
  None = None
  Turns <- TwoTurns
  Procs <- TwoProcs
  Subs = {}
  Cancels <- OneCancel
  MaxFrames = 2
  Scenarios <- CancelOrFail
  High = 2
  Low = 1
  MaxTurns = 3
  MaxMessages = 7
  MaxLost = 1
  Fates <- ManyFates
SYMMETRY Symmetry
CHECK_DEADLOCK FALSE
INVARIANT TypeOK
INVARIANT HolderKeepsLease
INVARIANT KillOnlyCancelled
INVARIANT StaleWriterStops
INVARIANT FinishFreesSession
PROPERTY SessionSpec
INVARIANT StoresInv
INVARIANT NothingMissing
INVARIANT NothingForgotten
