SPECIFICATION MCSpec
CONSTANTS
  Ids = {i1, i2}
  Names = {n1, n2}
  Hosts = {h1, h2}
  ValidHosts = {h1}
  Pins = {good, bad}
  ValidPins = {good}
  NoPin = NoPin
  Requests = {r1, r2, r3}
  None = None
  Runs = {r1, r2, r3}
  Tokens = {t1, t2}
  Origins = {o1, o2}
  MaxAtOnce = 2
  Nothing = Nothing
SYMMETRY Symmetry
INVARIANTS
  StoresWellFormed
  DefiniteReply
  CachedTokensGood
  TokensAccounted
  OneLogin
PROPERTIES
  OnlyHostKeyActionsChangeTrust
CHECK_DEADLOCK FALSE
