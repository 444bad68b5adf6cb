CONSTANTS
  Step = 60
  MaxTime = 1200
  MaxVersions = 2
  None = None
  TTLs = {120, 180, 420, 600}
SPECIFICATION Spec
INVARIANT TypeOK
INVARIANT ReplacedInTime
