CONSTANTS
  None = None
  Site = Site
  Localhost = "localhost"
  Names = {"a", "b"}
  Ports = {80}
  Hosts = {"x", "localhost"}
  Backends = {8000, 9000, Site}
  Routes <- HostRoutes
  Requests = {r1, r2}
  MaxCached = 1
  MaxBody = 2
  MaxInserts = 1
  ServersMayFail = FALSE
  MaxBooting = 1
SYMMETRY RequestSymmetry
SPECIFICATION Spec
INVARIANTS CacheComplete HostIsolation
PROPERTY RouteStability
