CONSTANTS
  None = None
  MaxBooting = 2
  MaxCaches = 1
  Names = {a, b}
  Ports = {80, 443}
  Hosts = {}
  Backends = {backend}
  Certs = {good}
  BadCerts = {}
  ServersMayFail = TRUE
SPECIFICATION FairSpec
INVARIANTS PortBookkeeping RoutesServed SocketsAgree
PROPERTY LivePortBound
