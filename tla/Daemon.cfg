CONSTANTS
  None = None
  Spawning = Spawning
  AutoPort = AutoPort
  Site = Site
  AppPorts = {}
  Names = {"a", "b"}
  Ports = {80, 443}
  Hosts = {"h"}
  Mappings <- MCMappings
  Certs = {"bad"}
  BadCerts = {"bad"}
  Emails = {"email"}
  ImageArgs <- MCImageArgs
  Pids = {p1, p2}
  Configs <- MCConfigs
  Updates <- MCUpdates
  SavedLists <- MCSavedLists
  MaxRestarts = 1
  ServersMayFail = FALSE
  MaxBooting = 1
  MaxCaches = 1
  MaxLives = 1
  DaemonMayCrash = TRUE
SYMMETRY PidSymmetry
SPECIFICATION Spec
INVARIANTS RoutesOwned RouteMatchesConfig
PROPERTIES NoSelfProxy KillStopsAll
CHECK_DEADLOCK FALSE
