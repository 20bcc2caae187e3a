SPECIFICATION LiveSpec
CONSTANTS
  CephCalls = {c1, c2}
  CephPermits = 1
  MaxLogins = 1
  None = None
  KubectlCalls = {k1}
  KubectlPermits = 1
  Stderrs <- Silent
  Nil = Nil
  TektonCalls = {t1}
  Ops = {"get", "wait", "dispatch", "rerun", "cancel"}
  TektonPermits = 1
  Waiters = 1
  Repositories = {"o/a", "o/b"}
  MaxVersion = 2
  GrafanaCalls = {g1, g2}
  Reads = {"logql.query"}
  Renders = {"panel"}
  Silence = "silence.create"
  GrafanaPermits = 1
  RenderPermits = 1
  Calls = {d1}
  DeployIds = {unknown, local, sysinfo}
  CatalogIds = {local, sysinfo}
  McpIds = {sysinfo}
  Hosts = {h1}
  Pins = {good, bad}
  ValidPins = {good}
  NoPin = NoPin
PROPERTIES
  EveryCallEnds
  PermitReturns
CHECK_DEADLOCK FALSE
