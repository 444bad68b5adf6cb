CONSTANTS
  Step = 60
  MaxTime = 1200
  MaxVersions = 2
  None = None
  TTLs = {180}
SPECIFICATION Spec
INVARIANT LoaderDoesNotPanic
