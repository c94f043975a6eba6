SPECIFICATION AnySpec
CONSTANTS
  s1 = s1
  s2 = s2
  Servers <- TwoServers
  MaxServers = 1
  Offers <- SomeOffers
  Services <- SomeServices
  Requests <- SomeRequests
  Legacy <- SomeLegacy
  Writers = {w1}
  MaxChanges = 2
  Nothing = Nothing
  Down = Down
  Scenarios <- OneKind
  u1 = u1
  u2 = u2
  m0 = m0
  m1 = m1
  p0 = p0
  p1 = p1
  p2 = p2
  System = System
  k1 = k1
  k2 = k2
  dev = dev
  NoDev = NoDev
  Users <- TwoUsers
  Models <- TwoModels
  Providers <- ThreeProviders
  Catalogs <- SomeCatalogs
  Callers = {k1, k2}
  MaxCalls = 4
  Workloads <- SomeKinds
  Instances <- ThreeInstances
  Registries <- SomeRegistries
  Rpcs = {c1, c2}
  Owner <- DevelopedBy
  Tag <- TaggedWith
  Attempts = 2
  MaxMoves = 1
  MaxTicks = 1
  NoCache = NoCache
  NoCall = NoCall
  c1 = c1
  c2 = c2
  d1 = d1
  b1 = b1
  b2 = b2
  srv = srv
  cli = cli
  NoId = NoId
  Adapters <- AllAdapters
  Tools <- TwoTools
  Waiting <- ClientOnly
  Garbled <- SecondIsOdd
  MaxWork = 6
CHECK_DEADLOCK FALSE
INVARIANT ScopeInv
INVARIANT KeysAreOwn
INVARIANT StepInv
INVARIANT RequestsFaithful
INVARIANT ReloadShowsAll
INVARIANT OutageKeepsTools
PROPERTY RoutesKept
