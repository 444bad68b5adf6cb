CONSTANTS
  Accounts = {a1, a2}
  Invalid = {a2}
  Tables = {redis, aws}
SPECIFICATION FairSpec
INVARIANT TypeOK
INVARIANT RunsOnlyConfigured
INVARIANT GracefulEnd
PROPERTY SignalEnds
PROPERTY ComesUp
