SPECIFICATION AnySpec
CONSTANTS
  t1 = t1
  p1 = p1
  p2 = p2
  s1 = s1
  c1 = c1
  None = None
  Turns = {t1}
  Procs = {p1, p2}
  Subs = {s1}
  Cancels = {c1}
  MaxFrames = 2
  Scenarios <- CancelOrFail
  high = high
  cli = cli
  Nobody = Nobody
CHECK_DEADLOCK FALSE
PROPERTY StreamIsWhole
PROPERTY SubscribersEnd
PROPERTY CancelEndsTurn
PROPERTY LoopEnds
PROPERTY BoxesEnd
