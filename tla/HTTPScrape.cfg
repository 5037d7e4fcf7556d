SPECIFICATION HTTPSpec
CONSTANTS
  NumApps <- FourApps
  MaxParallel = 2
  ErrorStatus = "down"
  NoResult = NoResult
  Refused = Refused
  NotSet = NotSet
  Words = {"ok", "err"}
  scrapeTimeout = 100
  apps <- MCapps
  Endpoints <- MCEndpoints
INVARIANTS PoolTypeOK BoundedParallelism ReturnsComplete StatusesJustified
PROPERTY ImplementsScrapeCall
CHECK_DEADLOCK FALSE
