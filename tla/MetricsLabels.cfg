SPECIFICATION MetricsSpec
CONSTANTS
  r1 = r1
  r2 = r2
  r3 = r3
  Requests = {r1, r2, r3}
  NoVector = NoVector
  Contents <- VaryingLabels
SYMMETRY AnyRequest
INVARIANT LoneScrapesAnswered
