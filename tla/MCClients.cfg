SPECIFICATION MCSpec
CONSTANTS
  CephCalls = {c1, c2}
  CephPermits = 1
  MaxLogins = 2
  None = None
  KubectlCalls = {c1, c2}
  KubectlPermits = 1
  Stderrs <- Verbose
  Nil = Nil
  TektonCalls = {c1, c2}
  Ops = {"get", "wait", "dispatch", "rerun", "cancel"}
  TektonPermits = 1
  Waiters = 1
  Repositories = {"o/a", "o/b"}
  MaxVersion = 2
  GrafanaCalls = {c1, c2}
  Reads = {"logql.query"}
  Renders = {"panel"}
  Silence = "silence.create"
  GrafanaPermits = 2
  RenderPermits = 1
SYMMETRY Symmetry
INVARIANTS
  PermitsAccounted
  DefiniteErrorNotApplied
  CephMutationsSafe
  WaitAnswers
  TelemetryAccounted
PROPERTIES
  OnlyRefusedTokenDropped
  KubectlInOrder
  ActsOnWhatWasRead
CHECK_DEADLOCK FALSE
