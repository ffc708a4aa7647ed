CONSTANTS
  Clients = {c1, c2}
  Daemons = {d1, d2}
  SlowStart = TRUE
  MaxCrashes = 1
  Stale = Stale
  None = None
SPECIFICATION FairSpec
INVARIANTS OneDaemon CommandSucceeds
PROPERTIES CommandEnds
CHECK_DEADLOCK FALSE
