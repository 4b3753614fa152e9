SPECIFICATION Spec
CONSTANTS
  den = den
  custom = custom
  Entities = {apple, den, bath}
  Names = {n1, n2}
  NoName = NoName
  Nobody = Nobody
  ConfigName <- SomeNamed
  Native = {apple}
  Disabled = {}
  MaxDevices = 2
  MaxRenderers = 2
  MaxListed = 1
  Overlap = TRUE
CHECK_DEADLOCK FALSE
INVARIANT MutexesValid
