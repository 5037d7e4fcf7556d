SPECIFICATION ScrapeSpec
CONSTANTS
  Sources = {"prom", "site"}
  Hosts = {"h1", "h2"}
  Names = {"a", "b"}
  LongNames = {"long"}
  truncated <- MCtruncated
  Places = {"x", "y"}
  configuredLocations = {"y"}
  LabelKeys = {"env"}
  LabelValues = {"", "prod", "dev"}
  serverLabels <- MCserverLabels
  sourceLabels <- MCsourceLabels
  Reports <- MCReports
  MaxBatch = 2
  Answers <- MCAnswers
  LocalSources = {"prom"}
  Unreachable = Unreachable
INVARIANTS TypeOK UniqueApps IndexMatchesCache ResultStaysServed LocalSourcesShowLatest
PROPERTIES SourceIsolation EventuallyFresh
