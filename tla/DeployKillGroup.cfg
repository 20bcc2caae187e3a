SPECIFICATION Spec
CONSTANTS
  Calls = {c1}
  DeployIds = {unknown, local, sysinfo}
  CatalogIds = {local, sysinfo}
  McpIds = {sysinfo}
  Hosts = {h1}
  Pins = {good, bad}
  ValidPins = {good}
  NoPin = NoPin
  None = None
INVARIANT KillsProcessGroup
CHECK_DEADLOCK FALSE
