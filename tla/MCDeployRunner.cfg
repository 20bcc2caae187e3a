SPECIFICATION Spec
CONSTANTS
  Calls = {c1, c2}
  DeployIds = {unknown, local, sysinfo}
  CatalogIds = {local, sysinfo}
  McpIds = {sysinfo}
  Hosts = {h1}
  Pins = {good, bad}
  ValidPins = {good}
  NoPin = NoPin
  None = None
SYMMETRY Symmetry
INVARIANTS
  IInv
  OneActiveDeploy
  AnswerAfterCleanup
  AnswerTellsExecution
  LateCancelWins
  TrustBeforeCredentials
PROPERTIES
  ImplementsContract
CHECK_DEADLOCK FALSE
