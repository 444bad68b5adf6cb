CONSTANTS
  Scanners = {node, pvc, redis}
  EventRetry = 2
  MaxRuns = 3
  None = None
SPECIFICATION FairSpec
INVARIANT TypeOK
INVARIANT RetriesRepeatThePayload
INVARIANT PayloadCoversAllScanners
INVARIANT FailuresAreCounted
PROPERTY StoredOnlyIfAccepted
PROPERTY ImplementsScanMap
PROPERTY ScannedRunReturns
