CONSTANTS
  k1 = k1
  Runtimes = {r1, r2, r3}
  Filtered = {r3}
  SubAccounts = {k1}
  SubAccountOf <- MCSubAccountOf
  PageSize = 1
  RetryCount = 2
  MaxMoves = 2
  None = None
SPECIFICATION PollFairSpec
INVARIANT TypeOK
INVARIANT NothingMissed
INVARIANT ExactIfUnchanged
PROPERTY SteadyKeepsRecord
PROPERTY NothingElseIsBilled
PROPERTY LastEntryDecides
PROPERTY FetchReturns
