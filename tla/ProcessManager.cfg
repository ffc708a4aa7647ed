CONSTANTS
  None = None
  Spawning = Spawning
  Names = {"a", "b"}
  Pids = {p1, p2}
  Mappings = {}
  Certs = {}
  Emails = {}
  ImageArgs <- MCImageArgs
  Configs <- MCConfigs
  Updates <- MCUpdates
  MaxRestarts = 2
SPECIFICATION FairSpec
INVARIANTS TypeOK ChildOwned StatusMatchesChild GaugeMatchesTable
PROPERTIES RestartsCounted ExitedReaped MutexReleased
