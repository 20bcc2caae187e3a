SPECIFICATION Spec
CONSTANTS
  Calls = {c1}
  DeployIds = {sysinfo}
  CatalogIds = {sysinfo}
  McpIds = {sysinfo}
  Hosts = {h1, h2}
  ValidHosts = {h1, h2}
  Pins = {"key", "other key", "byte more", "byte less", "other algorithm", "comment"}
  Text <- MCText
  NoPin = NoPin
  None = None
  Ids = {i1}
  Names = {n1}
  Requests = {r1}
SYMMETRY Symmetry
INVARIANTS KnownHostsWasARow WorkerAcceptsStoredPin
CHECK_DEADLOCK FALSE
