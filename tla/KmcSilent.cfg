CONSTANTS
  k1 = k1
  k2 = k2
  r1 = r1
  r2 = r2
  r3 = r3
  SubAccounts = {k1, k2}
  Runtimes = {r1, r3}
  Workers = {w1, w2}
  Silent = {r3}
  None = None
  Answers <- MCSecondComesAndGoes
  SubAccountOf <- MCSubAccountOf
SPECIFICATION FairSpec
INVARIANT QueueInv
INVARIANT OneWorkerPerSubAccount
PROPERTY CollectedForever
PROPERTY ImplementsFairSubAccountSpec
