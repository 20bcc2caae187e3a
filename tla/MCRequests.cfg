SPECIFICATION MCSpec
CONSTANTS
  None = None
  Configured = {"prod"}
  OpClusters = {"prod", "unknown", "malformed"}
  Ids = {0, 1, 2, 3, 4, 5}
  MaxOsdId = 5
  Limits = {0, 1, 3, 4}
  DefaultLimit = 2
  OpMaxLimit = 3
  OpPageSize = 2
  OpMaxPages = 2
  MaxChanges = 2
  Objects = {1, 2, 3, 4, 5}
  Kinds = {"pod", "node", "pod_metric"}
  Containers = {"app", "init"}
  KubeMaxLimit = 5
  KubeMaxUid = 3
  KubePageSize = 2
  KubeMaxPages = 2
  MaxInspected = 4
  Items <- SomeItems
  Queries <- SomeQueries
  Files <- SomeFiles
  Budgets = {1, 3}
  TektonMaxUid = 2
  TektonMaxLimit = 2
  TektonPageSize = 2
  TektonMaxPages = 2
  MaxItems = 3
  MaxFailedTasks = 1
  MaxRepositories = 2
  MaxFiles = 2
  MaxFileBytes = 2
  MaxTotalBytes = 3
  MaxDocuments = 2
  MaxSteps = 2
  TailLines = 2
  MaxLog = 3
INVARIANTS
  OnlyWhatWasAsked
  PagesAccounted
  CatalogAccounted
  ConfirmedAndAccepted
CHECK_DEADLOCK FALSE
