SPECIFICATION StreamSpec
CONSTANTS
  srv = srv
  cli = cli
  NoId = NoId
  Adapters <- AllAdapters
  Tools <- TwoTools
  Waiting <- ClientOnly
  Garbled <- SecondIsOdd
  MaxWork = 6
CHECK_DEADLOCK FALSE
INVARIANT ResultsHaveCalls
