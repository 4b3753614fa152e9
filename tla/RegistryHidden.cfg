SPECIFICATION Spec
CONSTANTS
  den = den
  custom = custom
  Entities = {apple, den, bath, hall}
  Names = {n1, n2}
  NoName = NoName
  Nobody = Nobody
  ConfigName <- SomeNamed
  Native = {apple}
  Disabled = {hall}
  MaxDevices = 2
  MaxRenderers = 3
  MaxListed = 4
  Overlap = FALSE
CHECK_DEADLOCK FALSE
INVARIANT NativeHidden
