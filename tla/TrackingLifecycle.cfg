CONSTANTS
  MaxOps = 5
SPECIFICATION Spec
INVARIANT TypeOK
INVARIANT OnlyRunningIsTracked
PROPERTY BillingStopsByIntent
CHECK_DEADLOCK FALSE
