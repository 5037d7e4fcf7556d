SPECIFICATION Spec
CONSTANTS
  s1 = s1
  s2 = s2
  h1 = h1
  h2 = h2
  NoProc = NoProc
  Procs = {s1, h1}
  Programs <- MCWithLocations
PROPERTY LocksAreReleased
CHECK_DEADLOCK FALSE
