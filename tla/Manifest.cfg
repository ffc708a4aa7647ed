CONSTANTS
  Texts <- MCTexts
  Names <- MCNames
  DottedHosts = {"docker.io", "ghcr.io"}
  PlainHosts = {"local"}
  Hub = "docker.io"
  Registries <- MCRegistries
  Ports = {"80", "8000", "5000"}
  FreePorts = {"5000"}
  PortVar = "PORT"
  Vars = {"x", "PORT"}
  Values <- MCValues
  Words = {"v", "serve", "net", "all", "io", "own", "head", "tail"}
  CutTexts = {"a,"}
  Pieces = {"head", "tail"}
  ImageArgs <- MCImageArgs
  EnvFiles = {"f"}
  EnvContents <- MCEnvContents
  Files <- MCFiles
  Runs <- MCRuns
  LocalName <- MCLocalName
  MaxProcesses = 2
  MaxArgs = 2
  Local = Local
  Deployed = Deployed
  Entrypoint = Entrypoint
  Unbalanced = Unbalanced
  Absent = Absent
SPECIFICATION ManifestSpec
INVARIANTS ExportRoundTrip StartsAfterReading
