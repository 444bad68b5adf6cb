CONSTANTS
  Scanners = {node, pvc}
  EventRetry = 2
  MaxRuns = 1
  None = None
SPECIFICATION Spec
PROPERTY ProcessedResultsAreStored
