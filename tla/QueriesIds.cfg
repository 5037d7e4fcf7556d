SPECIFICATION QuerySpec
CONSTANTS
  Sources = {"site", "site2"}
  Hosts = {"h1", "h2"}
  Names = {"a", "b"}
  LongNames = {}
  truncated <- MCtruncated
  Places = {"x", "y"}
  configuredLocations = {"x"}
  LabelKeys = {"env"}
  LabelValues = {"prod", "dev"}
  serverLabels <- NoLabels
  sourceLabels <- MCsourceLabels
  Reports <- TwoOriginReports
  MaxBatch = 1
  roles <- MCroles
  users <- MCusers
  groups <- MCgroups
  QuerySet <- MCQueries
  Handlers = {"apps"}
INVARIANT IdsAvoidConflicts
