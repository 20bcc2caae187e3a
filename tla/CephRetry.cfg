SPECIFICATION CephSpec
CONSTANTS
  CephCalls = {c1}
  CephPermits = 1
  MaxLogins = 2
  None = None
INVARIANTS NoAutomaticRetry
CHECK_DEADLOCK FALSE
