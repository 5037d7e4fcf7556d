SPECIFICATION MeshSpec
CONSTANTS
  a = a
  b = b
  c = c
  Sites = {a, b, c}
  Scrapes <- PairAndOne
  Apps = {"p", "q"}
  Reports = {{}, {"p"}, {"p", "q"}}
  Reporters = {c}
  Owners = {c}
  hostURL <- HostURLs
  Spellings <- OneAlias
  clock <- BAhead
  Secured = {b, c}
  Second = 2
  Window = 600
  MaxDelay = 1
  MaxCopies = 1
  MaxFailures = 1
INVARIANTS NoStaleCopies
PROPERTIES DirectSitesConverge EverythingSpreads
