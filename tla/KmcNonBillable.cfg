CONSTANTS
  k1 = k1
  k2 = k2
  r1 = r1
  r2 = r2
  r3 = r3
  SubAccounts = {k1}
  Runtimes = {r1}
  Workers = {w1}
  Silent = {}
  None = None
  Answers <- MCUnfiltered
  SubAccountOf <- MCSubAccountOf
SPECIFICATION Spec
PROPERTY NonBillableIsSkipped
