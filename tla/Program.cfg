CONSTANTS
  None = None
  Spawning = Spawning
  Names = {"a"}
  Pids = {p1, p2}
  Mappings = {}
  Certs = {}
  Emails = {}
  ImageArgs <- MCImageArgs
  Configs <- SourceConfigs
  Updates <- NoUpdates
  MaxRestarts = 3
SPECIFICATION Spec
INVARIANT ProgramIntact
