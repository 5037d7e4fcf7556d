SPECIFICATION MeshSpec
CONSTANTS
  a = a
  b = b
  c = c
  Sites = {a, b, c}
  Scrapes <- PairAndOne
  Apps = {}
  Reports = {}
  Reporters = {}
  Owners = {c}
  hostURL <- HostURLs
  Spellings <- OneAlias
  clock <- BAhead
  Secured = {b, c}
  Second = 2
  Window = 600
  MaxDelay = 1
  MaxCopies = 5
  MaxFailures = 0
INVARIANT NoRecursion
