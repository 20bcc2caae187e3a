SPECIFICATION MCSpec
CONSTANTS
  Calls = {c1}
  Names <- SomeNames
  Replicas = {3, 4}
  Namespaces <- SomeNamespaces
  ExecClusters = {"known"}
  MaxReplicas = 3
  LabelMax = 5
  CronMax = 4
  SuffixLen = 2
  TimeMod = 2
  SequenceMod = 2
  MaxClock = 1
  InputTools = {"logql", "promql", "traceql", "profiles", "render"}
  Times = {0, 1, 3, 4, 8, 9, 11}
  Amounts = {0, 1, 2, 3, 9}
  MaxWord = 15
  Units <- MCUnits
  UnitTicks <- MCUnitTicks
  Tick <- MCTick
  MaxRange <- MCMaxRange
  MaxPoints = 4
  MaxParts = 2
  CephLimits = {1, 2, 3}
  MaxChecks = 2
  MaxTasks = 2
  MaxValues = 2
  CephMaxEntries = 4
  MaxMessage = 4
  Budget = 6
  MaxStatuses = 3
  MaxConditions = 2
  MaxContainers = 3
  MaxChars = 3
  MaxEvents = 3
  KubeMaxEntries = 4
  Restarts = {0, 1, 2}
  MaxCount = 3
  GrafanaTools = {"alert_rules", "recording_rules", "alert_instances", "silences", "dashboards",
                  "traces", "series", "streams"}
  GrafanaLimits = {1, 2}
  LabelMaps <- MCLabelMaps
  MaxMapEntries = 2
  GrafanaMaxEntries = 3
  MaxLines = 5
  Panels = 5
  MaxPanels = 4
  MaxDepth = 2
  MaxVariables = 1
  Variables = {1, 2}
INVARIANTS
  JobNamesSound
  QueriesBounded
  CephListsExact
  KubernetesCutsExact
  GrafanaListsExact
  InventoryExact
PROPERTIES
  OnlyRealRunsChange
CHECK_DEADLOCK FALSE
